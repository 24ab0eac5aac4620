----------------------------- MODULE MCPhysical -----------------------------
(* Two machines, one per behaviour.  One is being booted: its boot loader  *)
(* describes an address space of four pages of four bytes.  The other runs *)
(* its allocator on 10 page frames: frame 0 and a block from 3 are usable, *)
(* 1 and 2 are a hole (the ROM below 1 MiB), and memory_usable counts one  *)
(* page more than the entries hold after alignment.                        *)
EXTENDS Physical, Boot

UsableFrames == {0} \cup 3 .. 9

NearBoundaries == {0, 1, 3, 4, 5, 7, 8, 11, 12, 15, 16, 17}
ShortLengths == {1, 3, 4, 5, 7, 9}
ModulePlaces == {[addr |-> 4, len |-> 8], [addr |-> 7, len |-> 5]}

VARIABLE machine

MachinesInit ==
  /\ PhysicalInit /\ BootInit
  /\ machine \in {"boots", "allocates"}

MachinesNext ==
  /\ \/ machine = "boots" /\ BootNext /\ UNCHANGED physicalVars
     \/ machine = "allocates" /\ PhysicalNext /\ UNCHANGED bootVars
  /\ UNCHANGED machine

MachinesSpec ==
  MachinesInit /\ [][MachinesNext]_<<physicalVars, bootVars, machine>>
=============================================================================
