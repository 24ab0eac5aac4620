------------------------------- MODULE Memory -------------------------------
(***************************************************************************)
(* The kernel's memory manager: kernel/kernel/memory/Memory.cpp over the   *)
(* page tables of kernel/arch/x86_32/paging/Paging.cpp and the physical    *)
(* allocator of module Physical.                                           *)
(*                                                                         *)
(* There is one address space, the kernel's.  A call is a sequence of      *)
(* steps, one per iteration of its loop, because interrupts are taken      *)
(* between them and because the page-table allocation of virtual_map runs  *)
(* inside the loop of its caller.  "call" holds the locals of the call     *)
(* under way and "pc" the loop it is in.                                   *)
(***************************************************************************)
EXTENDS Physical, Sequences

CONSTANTS E,             \* entries of a page table, 1024
          KERNEL_TABLES, \* _kernel_page_tables, always present, 256
          HEAP_BASE,     \* where virtual_alloc searches the kernel half, 1024
          BootRanges,    \* the kernel image, then the modules: <<base, pages>>
          Devices,       \* the ranges drivers map: <<base, pages>>
          MaxRequest     \* bound on the pages of a client's request

KernelPages == KERNEL_TABLES * E

\* The pages of <<base, pages>>.
RangeOf(r) == Run(r[1], r[2])

ASSUME MemoryAssumption ==
  /\ E \in Nat \ {0} /\ PAGES % E = 0
  /\ KERNEL_TABLES \in Nat \ {0} /\ KernelPages <= PAGES
  /\ HEAP_BASE \in 1 .. KernelPages
  /\ MaxRequest \in 1 .. PAGES
  /\ BootRanges \in Seq(Nat \X Nat)
  \* The image and the modules lie below 1 GiB and above page zero.
  /\ \A k \in DOMAIN BootRanges :
       LET r == BootRanges[k] IN r[1] > 0 /\ r[2] > 0 /\ r[1] + r[2] <= KernelPages
  \* Devices lie below the heap, in memory the boot loader does not offer.
  /\ Devices \subseteq (Nat \X Nat)
  /\ \A r \in Devices :
       /\ r[1] > 0 /\ r[2] > 0 /\ r[1] + r[2] <= HEAP_BASE
       /\ RangeOf(r) \cap Available = {}

VARIABLES pd,      \* the frame of each page table beyond the kernel's own
          pte,     \* the frame of each mapped page
          pc,      \* which loop the kernel is in
          call,    \* the locals of that call
          booted,  \* how many of BootRanges memory_initialize has mapped
          owned,   \* auxiliary: the pages clients hold
          lost     \* auxiliary: frames a failed map() never gave back

pagingVars == <<pd, pte>>
callVars == <<pc, call, booted, owned, lost>>
memoryVars == <<physicalVars, pagingVars, callVars>>

NotPresent == -1

Dir(v) == v \div E

UserDirs == {Dir(v) : v \in KernelPages .. PAGES - 1}

BootPages == UNION {RangeOf(BootRanges[k]) : k \in DOMAIN BootRanges}
-----------------------------------------------------------------------------
DirPresent(v) == v >= KernelPages => pd[Dir(v)] # NotPresent

virtual_present(v) == DirPresent(v) /\ pte[v] # NotPresent

\* The pages alloc_identity accepts: unmapped, and unused as frames.
IdentityPages ==
  {p \in 1 .. KernelPages - 1 : ~virtual_present(p) /\ p \notin MEMORY}

\* Bug: only the first page of the range is looked at.
VirtualBases_FirstPageOnly(user, count) ==
  LET first == IF user THEN KernelPages ELSE HEAP_BASE
      limit == IF user THEN PAGES ELSE KernelPages
  IN  {b \in first .. limit - count : ~virtual_present(b)}

\* The bases virtual_alloc accepts for count pages, in the user or in the
\* kernel half of the address space.
VirtualBases(user, count) ==
  LET first == IF user THEN KernelPages ELSE HEAP_BASE
      limit == IF user THEN PAGES ELSE KernelPages
  IN  {b \in first .. limit - count :
         \A p \in b .. b + count - 1 : ~virtual_present(p)}

Call(op, base, count, frame) ==
  [op |-> op, base |-> base, count |-> count, done |-> 0, frame |-> frame]

NoCall == Call("none", 0, 0, 0)

CallPages == call.base .. call.base + call.count - 1

\* The page an iteration works on, and the frame virtual_map gives it.
ThisPage == call.base + call.done

\* Bug: the physical address is offset by the virtual one.
ThisFrame_OffsetByPage == IF call.op = "map" THEN call.frame ELSE call.frame + ThisPage

ThisFrame == IF call.op = "map" THEN call.frame ELSE call.frame + call.done

LastPage == call.done + 1 = call.count

NextPage == call' = [call EXCEPT !.done = @ + 1]

Return == pc' = "idle" /\ call' = NoCall

\* A page has been mapped: map() goes back to its own loop, the others go on
\* to the next page or return, alloc() leaving its client the whole range.
PageMapped ==
  /\ UNCHANGED <<booted, lost>>
  /\ \/ call.op = "map" /\ pc' = "map" /\ NextPage /\ UNCHANGED owned
     \/ call.op # "map" /\ ~LastPage /\ NextPage /\ UNCHANGED <<pc, owned>>
     \/ call.op = "boot" /\ LastPage /\ pc' = "boot" /\ call' = NoCall
                                     /\ UNCHANGED owned
     \/ call.op = "map_identity" /\ LastPage /\ Return /\ UNCHANGED owned
     \/ call.op \in {"alloc", "alloc_user"} /\ LastPage /\ Return
                                           /\ owned' = owned \cup CallPages
-----------------------------------------------------------------------------
(* virtual_map(), one page                                                 *)

\* The page's table exists.  The entry is overwritten whatever it holds.
VirtualMapPage ==
  /\ pc = "virtual_map"
  /\ DirPresent(ThisPage)
  /\ pte' = [pte EXCEPT ![ThisPage] = ThisFrame]
  /\ PageMapped
  /\ UNCHANGED <<physicalVars, pd>>

\* What every variant of VirtualMapTable below does to the entries.
TableEntries(table, own) ==
  [p \in Pages |-> IF p = ThisPage THEN ThisFrame
                   ELSE IF p = table THEN own
                   ELSE IF Dir(p) = Dir(ThisPage) THEN NotPresent ELSE pte[p]]

TableWanted ==
  pc = "virtual_map" /\ ~DirPresent(ThisPage) /\ IdentityPages # {}

\* Bug: the bit of the frame is set but the counter and the hint are not kept.
VirtualMapTable_BitOnly ==
  LET table == Min(IdentityPages) IN
  /\ TableWanted
  /\ MEMORY' = MEMORY \cup {table}
  /\ pd' = [pd EXCEPT ![Dir(ThisPage)] = table]
  /\ pte' = TableEntries(table, table)
  /\ PageMapped
  /\ UNCHANGED <<best_bet, USED_MEMORY, handed, panicked>>

\* Bug: the table is allocated but not mapped on itself.
VirtualMapTable_Unmapped ==
  LET table == Min(IdentityPages) IN
  /\ TableWanted
  /\ physical_set_used({table})
  /\ pd' = [pd EXCEPT ![Dir(ThisPage)] = table]
  /\ pte' = TableEntries(table, NotPresent)
  /\ PageMapped
  /\ UNCHANGED panicked

\* The page's table does not exist: alloc_identity takes the lowest page
\* that is free as a frame and as an address, maps it on itself (its own
\* table is one of the kernel's) and clears it.
VirtualMapTable ==
  LET table == Min(IdentityPages) IN
  /\ pc = "virtual_map"
  /\ ~DirPresent(ThisPage)
  /\ IdentityPages # {}
  /\ physical_set_used({table})
  /\ pd' = [pd EXCEPT ![Dir(ThisPage)] = table]
  /\ pte' = [p \in Pages |-> IF p = ThisPage THEN ThisFrame
                             ELSE IF p = table THEN table
                             ELSE IF Dir(p) = Dir(ThisPage) THEN NotPresent
                             ELSE pte[p]]
  /\ PageMapped
  /\ UNCHANGED panicked

\* No page for the table: map() hands the error to its caller and forgets
\* the frame it had allocated; every other caller asserts success.
VirtualMapError ==
  /\ pc = "virtual_map"
  /\ ~DirPresent(ThisPage)
  /\ IdentityPages = {}
  /\ call.op = "map"
  /\ lost' = lost \cup {call.frame}
  /\ owned' = owned \cup call.base .. ThisPage - 1
  /\ pc' = "idle"
  /\ call' = NoCall
  /\ UNCHANGED <<physicalVars, pagingVars, booted>>

VirtualMapAssert ==
  /\ pc = "virtual_map"
  /\ ~DirPresent(ThisPage)
  /\ IdentityPages = {}
  /\ call.op # "map"
  /\ PANIC
  /\ UNCHANGED <<frameVars, pagingVars, callVars>>
-----------------------------------------------------------------------------
(* memory_initialize(), from the mapping of the kernel on                  *)

MemoryInit ==
  /\ PhysicalInit
  /\ pd = [d \in UserDirs |-> NotPresent]
  /\ pte = [p \in Pages |-> NotPresent]
  /\ pc = "boot"
  /\ call = NoCall
  /\ booted = 0
  /\ owned = {}
  /\ lost = {}

BeginMapIdentity(op, r) ==
  /\ physical_set_used(RangeOf(r))
  /\ pc' = "virtual_map"
  /\ call' = Call(op, r[1], r[2], r[1])
  /\ UNCHANGED <<panicked, pagingVars, owned, lost>>

\* map_identity of the kernel image, then of each module in turn.
BootMap ==
  /\ pc = "boot"
  /\ booted < Len(BootRanges)
  /\ booted' = booted + 1
  /\ BeginMapIdentity("boot", BootRanges[booted + 1])

\* Page zero is unmapped and withheld, so that a null pointer faults.
BootPageZero ==
  /\ pc = "boot"
  /\ booted = Len(BootRanges)
  /\ pte' = [pte EXCEPT ![0] = NotPresent]
  /\ physical_set_used({0})
  /\ pc' = "idle"
  /\ UNCHANGED <<panicked, pd, call, booted, owned, lost>>
-----------------------------------------------------------------------------
(* alloc()                                                                 *)

\* physical_alloc either yields a run or panics, so the code's own test for
\* an empty range never succeeds.
alloc(user, n) ==
  /\ pc = "idle"
  /\ physical_alloc(n)
  /\ pc' = "virtual_alloc"
  /\ call' = Call(IF user THEN "alloc_user" ELSE "alloc", 0, n, AllocBase(n))
  /\ UNCHANGED <<panicked, pagingVars, booted, owned, lost>>

alloc_panic(n) ==
  /\ pc = "idle"
  /\ physical_alloc_panic(n)
  /\ UNCHANGED <<pagingVars, callVars>>

\* The whole search of virtual_alloc: the lowest run of unmapped pages.
virtual_alloc ==
  LET bases == VirtualBases(call.op = "alloc_user", call.count) IN
  /\ pc = "virtual_alloc"
  /\ \/ /\ bases # {}
        /\ call' = [call EXCEPT !.base = Min(bases)]
        /\ pc' = "virtual_map"
        /\ UNCHANGED panicked
     \/ bases = {} /\ PANIC /\ UNCHANGED <<pc, call>>
  /\ UNCHANGED <<frameVars, pagingVars, booted, owned, lost>>
-----------------------------------------------------------------------------
(* map(), map_identity() and free()                                        *)

map(b, n) ==
  /\ pc = "idle"
  /\ pc' = "map"
  /\ call' = Call("map", b, n, 0)
  /\ UNCHANGED <<physicalVars, pagingVars, booted, owned, lost>>

\* Bug: a page already present is mapped again.
MapPage_Remaps ==
  /\ pc = "map"
  /\ call.done < call.count
  /\ physical_alloc(1)
  /\ call' = [call EXCEPT !.frame = AllocBase(1)]
  /\ pc' = "virtual_map"
  /\ UNCHANGED <<panicked, pagingVars, booted, owned, lost>>

\* Bug: the loop does not step over a page already present.
MapPage_Stuck ==
  /\ pc = "map"
  /\ call.done < call.count
  /\ \/ virtual_present(ThisPage) /\ UNCHANGED <<physicalVars, pc, call>>
     \/ /\ ~virtual_present(ThisPage)
        /\ physical_alloc(1)
        /\ call' = [call EXCEPT !.frame = AllocBase(1)]
        /\ pc' = "virtual_map"
        /\ UNCHANGED panicked
  /\ UNCHANGED <<pagingVars, booted, owned, lost>>

\* One iteration of map(): a page already present is left as it is.
MapPage ==
  /\ pc = "map"
  /\ call.done < call.count
  /\ \/ /\ virtual_present(ThisPage)
        /\ NextPage
        /\ UNCHANGED <<physicalVars, pc>>
     \/ /\ ~virtual_present(ThisPage)
        /\ physical_alloc(1)
        /\ call' = [call EXCEPT !.frame = AllocBase(1)]
        /\ pc' = "virtual_map"
        /\ UNCHANGED panicked
     \/ /\ ~virtual_present(ThisPage)
        /\ physical_alloc_panic(1)
        /\ UNCHANGED <<pc, call>>
  /\ UNCHANGED <<pagingVars, booted, owned, lost>>

MapReturn ==
  /\ pc = "map"
  /\ call.done = call.count
  /\ owned' = owned \cup CallPages
  /\ Return
  /\ UNCHANGED <<physicalVars, pagingVars, booted, lost>>

map_identity(r) ==
  /\ pc = "idle"
  /\ BeginMapIdentity("map_identity", r)
  /\ UNCHANGED booted

\* A client gives a range back: pages it holds, and pages that are not
\* mapped, which the loop skips.
free(b, n) ==
  /\ pc = "idle"
  /\ \A p \in b .. b + n - 1 : p \in owned \/ ~virtual_present(p)
  /\ owned' = owned \ b .. b + n - 1
  /\ pc' = "free"
  /\ call' = Call("free", b, n, 0)
  /\ UNCHANGED <<physicalVars, pagingVars, booted, lost>>

FreeNext == (~LastPage /\ NextPage /\ UNCHANGED pc) \/ (LastPage /\ Return)

\* Bug: the frame is freed, the address stays mapped.
FreePage_StaysMapped ==
  /\ pc = "free"
  /\ virtual_present(ThisPage)
  /\ physical_set_free({pte[ThisPage]})
  /\ FreeNext
  /\ UNCHANGED <<panicked, pagingVars, booted, owned, lost>>

\* Bug: the address is unmapped first, and no longer names a frame.
FreePage_AddressFirst ==
  /\ pc = "free"
  /\ pte' = [pte EXCEPT ![ThisPage] = NotPresent]
  /\ physical_set_free({NotPresent})
  /\ FreeNext
  /\ UNCHANGED <<panicked, pd, booted, owned, lost>>

\* One iteration of free(): the frame first, then the address.
FreePage ==
  /\ pc = "free"
  /\ \/ /\ virtual_present(ThisPage)
        /\ physical_set_free({pte[ThisPage]})
        /\ pte' = [pte EXCEPT ![ThisPage] = NotPresent]
     \/ /\ ~virtual_present(ThisPage)
        /\ UNCHANGED <<frameVars, pte>>
  /\ \/ ~LastPage /\ NextPage /\ UNCHANGED pc
     \/ LastPage /\ Return
  /\ UNCHANGED <<panicked, pd, booted, owned, lost>>
-----------------------------------------------------------------------------
\* The iterations of the call under way.
KernelStep ==
  \/ VirtualMapPage \/ VirtualMapTable \/ VirtualMapError \/ VirtualMapAssert
  \/ BootMap \/ BootPageZero
  \/ virtual_alloc \/ MapPage \/ MapReturn \/ FreePage

\* The calls clients may make next.  Clients keep to the heap and the user
\* half: nothing below HEAP_BASE is theirs.
ClientCall ==
  \/ \E n \in 1 .. MaxRequest : alloc_panic(n)
  \/ \E n \in 1 .. MaxRequest, user \in BOOLEAN : alloc(user, n)
  \/ \E n \in 1 .. MaxRequest : \E b \in KernelPages .. PAGES - n : map(b, n)
  \/ \E n \in 1 .. MaxRequest : \E b \in HEAP_BASE .. PAGES - n : free(b, n)
  \/ \E r \in Devices : map_identity(r)

MemoryNext == ~panicked /\ (KernelStep \/ ClientCall)

\* A call under way runs on; clients may never call again.
MemorySpec ==
  MemoryInit /\ [][MemoryNext]_memoryVars /\ WF_memoryVars(~panicked /\ KernelStep)
-----------------------------------------------------------------------------
\* The types of the variables, the physical allocator's included.
MemoryTypeOK ==
  /\ PhysicalTypeOK
  /\ pd \in [UserDirs -> Pages \cup {NotPresent}]
  /\ pte \in [Pages -> Pages \cup {NotPresent}]
  /\ pc \in {"boot", "idle", "virtual_alloc", "virtual_map", "map", "free"}
  /\ call \in [op : {"none", "boot", "alloc", "alloc_user", "map",
                      "map_identity", "free"},
                base : 0 .. PAGES, count : 0 .. PAGES, done : 0 .. PAGES,
                frame : Pages]
  /\ booted \in 0 .. Len(BootRanges)
  /\ owned \subseteq Pages
  /\ lost \subseteq Pages

Mapped(p) == pte[p] # NotPresent

\* A frame some page maps is marked used, so that no allocation can hand it out
\* again while the page can be written through, and no other page maps it: no
\* client reaches another one, the kernel or a page table.
FramesArePrivate ==
  /\ MemoryTypeOK
  /\ \A p \in Pages : Mapped(p) =>
       /\ pte[p] \in MEMORY
       /\ \A q \in Pages : pte[q] = pte[p] => q = p

\* The kernel finds its page tables at their physical address: each is used,
\* mapped on itself, outside what clients hold, and serves one directory.
\* Pages are mapped only under a table that exists.
PageTablesAreReachable ==
  /\ \A d \in UserDirs : pd[d] # NotPresent =>
       /\ pd[d] \in MEMORY
       /\ pte[pd[d]] = pd[d]
       /\ pd[d] \notin owned
       /\ \A e \in UserDirs : pd[e] = pd[d] => e = d
  /\ \A p \in Pages : Mapped(p) => DirPresent(p)

\* From boot on the kernel image and the modules stay mapped on themselves and
\* their memory used; page zero stays unmapped and frame zero used.
BootLayoutIsKept ==
  pc # "boot" /\ call.op # "boot" =>
    /\ \A p \in BootPages : pte[p] = p /\ p \in MEMORY
    /\ ~Mapped(0) /\ 0 \in MEMORY

\* The frames a call has taken and not mapped yet.
InFlight ==
  IF pc \notin {"virtual_alloc", "virtual_map"} THEN {}
  ELSE IF call.op = "map" THEN {call.frame}
  ELSE call.frame + call.done .. call.frame + call.count - 1

\* Frames are conserved: one that is in use is mapped, or in the hands of
\* the call under way, or frame zero, or was lost by a map() that failed.
NoFrameLeaks ==
  MEMORY \cap Available
    \subseteq {pte[p] : p \in Pages} \cup InFlight \cup lost \cup {0}

\* A page that comes into a client's hands is present, and while the client
\* holds it its frame does not change under it.
OwnedMappingsAreStable ==
  [][\A p \in owned' :
       /\ virtual_present(p)'
       /\ p \in owned => pte'[p] = pte[p]]_memoryVars

\* The memory manager uses the physical allocator within its contract.
UsesPhysicalAllocator == PhysicalSpec

\* Every call returns, or the kernel panics.
CallsReturn == pc # "idle" ~> (pc = "idle" \/ panicked)
=============================================================================
