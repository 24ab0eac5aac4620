------------------------------ MODULE MCMemory ------------------------------
(* 10 pages of memory and of address space, 2 to a page table, the first 6  *)
(* the kernel's: page 1 is the kernel image, page 2 a device in a hole of   *)
(* the memory map, page 4 a boot module, the heap starts at 3.              *)
EXTENDS Memory

UsableFrames == {0, 1} \cup 3 .. 9
BootImage == << <<1, 1>>, <<4, 1>> >>
DeviceRanges == {<<2, 1>>}
=============================================================================
