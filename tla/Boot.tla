-------------------------------- MODULE Boot --------------------------------
(***************************************************************************)
(* get_bootdata (bootdata/Multiboot2.cpp) and the rounding of              *)
(* MemoryRange.cpp: what the boot loader says of memory and modules, tag   *)
(* by tag, and what the kernel keeps of it.                                *)
(*                                                                         *)
(* The boot loader describes disjoint pieces of memory in ascending order, *)
(* in one memory map, and loads modules anywhere below 4 GiB.              *)
(***************************************************************************)
EXTENDS Integers, Sequences, FiniteSets, SequencesExt

CONSTANTS
  PageSize,                  \* ARCH_PAGE_SIZE
  Limit,                     \* UINT32_MAX + 1
  Addresses, Lengths,        \* bounds: of the pieces of memory
  ModuleRanges,              \* bound: where modules are loaded, [addr, len]
  MaxEntries, MaxModules,    \* bounds: what the boot loader reports
  MEMORY_MAP_SIZE, MODULES_SIZE      \* the arrays of Bootdata

ASSUME BootAssumption ==
  /\ PageSize \in Nat \ {0}
  /\ Limit \in Nat \ {0} /\ Limit % PageSize = 0
  /\ Addresses \subseteq Nat /\ Lengths \subseteq Nat \ {0}
  /\ {MEMORY_MAP_SIZE, MODULES_SIZE} \subseteq Nat
  /\ ModuleRanges \subseteq [addr : Nat, len : Nat]
  /\ \A module \in ModuleRanges :      \* not in the first page
       module.addr >= PageSize /\ module.addr + module.len < Limit

VARIABLES
  memory_map, memory_usable, modules,      \* the fields of Bootdata
  tag,           \* the tag for_each_tag is at: "mmap", "next", or "END"
  entries, loaded,     \* auxiliary: what the boot loader has said so far
  refused        \* an array of Bootdata was full: PANIC

bootdata == <<memory_map, memory_usable, modules>>
bootVars == <<bootdata, tag, entries, loaded, refused>>

-----------------------------------------------------------------------------
(***************************************************************************)
(* MemoryRange.cpp, in unsigned arithmetic.                                *)
(***************************************************************************)
AlignDown(x) == x - (x % PageSize)
AlignUp(x) == AlignDown((x + PageSize - 1) % Limit)

\* The way up to the next page boundary.
Align(base) == (PageSize - (base % PageSize)) % PageSize

\* Bug: the base moves up and the end moves with it.
from_non_aligned_address_KeepsSize(base, size) ==
  [base |-> (base + Align(base)) % Limit, size |-> AlignDown(size)]

\* Bug: the size is rounded to the nearer page.
from_non_aligned_address_RoundsUp(base, size) ==
  [base |-> AlignDown(base), size |-> AlignUp((size + (base % PageSize)) % Limit)]

from_non_aligned_address(base, size) ==
  [base |-> (base + Align(base)) % Limit,
   size |-> AlignDown((size - Align(base)) % Limit)]

around_non_aligned_address(base, size) ==
  [base |-> AlignDown(base), size |-> AlignUp((size + (base % PageSize)) % Limit)]

-----------------------------------------------------------------------------
(***************************************************************************)
(* for_each_tag and the three tags get_bootdata looks at.  An ACPI tag     *)
(* only leaves an address behind.                                          *)
(***************************************************************************)
Low(e) == e.addr < Limit /\ e.addr + e.len < Limit

MemoryMapTag ==
  /\ tag = "next" /\ entries = <<>>
  /\ tag' = "mmap"
  /\ UNCHANGED <<bootdata, entries, loaded, refused>>

\* An entry that ends above UINT32_MAX is skipped.
SkipEntry(e) == ~Low(e) /\ UNCHANGED bootdata

KeepEntry(e) ==
  /\ Low(e)
  /\ memory_usable' = IF e.available THEN (memory_usable + e.len) % Limit ELSE memory_usable
  /\ memory_map' = Append(memory_map, [range     |-> from_non_aligned_address(e.addr, e.len),
                                       available |-> e.available])
  /\ UNCHANGED modules

ParseEntry ==
  /\ tag = "mmap" /\ ~refused /\ Len(entries) < MaxEntries
  /\ Len(memory_map) < MEMORY_MAP_SIZE
  /\ \E addr \in Addresses, len \in Lengths, available \in BOOLEAN :
       LET e == [addr |-> addr, len |-> len, available |-> available]
       IN  /\ entries # <<>> => Last(entries).addr + Last(entries).len <= addr
           /\ SkipEntry(e) \/ KeepEntry(e)
           /\ entries' = Append(entries, e)
  /\ UNCHANGED <<tag, loaded, refused>>

\* The assertion comes first, whatever the next entry is.
ParseEntryAssert ==
  /\ tag = "mmap" /\ ~refused /\ Len(entries) < MaxEntries
  /\ Len(memory_map) = MEMORY_MAP_SIZE
  /\ refused' = TRUE
  /\ UNCHANGED <<bootdata, tag, entries, loaded>>

MemoryMapEnd ==
  /\ tag = "mmap" /\ ~refused /\ entries # <<>>
  /\ tag' = "next"
  /\ UNCHANGED <<bootdata, entries, loaded, refused>>

ParseModule ==
  /\ tag = "next" /\ ~refused /\ Len(loaded) < MaxModules
  /\ \E module \in ModuleRanges :
       /\ loaded' = Append(loaded, module)
       /\ \/ /\ Len(modules) < MODULES_SIZE
             /\ modules' = Append(modules, around_non_aligned_address(module.addr, module.len))
             /\ UNCHANGED refused
          \/ Len(modules) = MODULES_SIZE /\ refused' = TRUE /\ UNCHANGED modules
  /\ UNCHANGED <<memory_map, memory_usable, tag, entries>>

EndTag ==
  /\ tag = "next" /\ ~refused
  /\ tag' = "END"
  /\ UNCHANGED <<bootdata, entries, loaded, refused>>

BootInit ==
  /\ memory_map = <<>> /\ memory_usable = 0 /\ modules = <<>>
  /\ tag = "next" /\ entries = <<>> /\ loaded = <<>> /\ refused = FALSE

BootNext ==
  \/ MemoryMapTag \/ ParseEntry \/ ParseEntryAssert \/ MemoryMapEnd
  \/ ParseModule \/ EndTag

BootSpec == BootInit /\ [][BootNext]_bootVars

-----------------------------------------------------------------------------
(***************************************************************************)
(* Properties                                                              *)
(***************************************************************************)
\* The entries the boot loader has listed so far, without the skipped ones.
NotSkipped(said) ==
  LET kept[n \in 0 .. Len(said)] ==
        IF n = 0 THEN <<>>
        ELSE IF Low(said[n]) THEN Append(kept[n - 1], said[n]) ELSE kept[n - 1]
  IN  kept[Len(said)]

Kept == NotSkipped(entries)

Bytes(base, size) == base .. base + size - 1

\* No page boundary lies in the entry or at its end: subtracting the way to
\* the next one wraps, and the range becomes nearly all of the address space.
TooShort(e) == e.len < Align(e.addr)

PageAligned(r) == r.base % PageSize = 0 /\ r.size % PageSize = 0

\* The types, and the rounding: each entry of the memory map is page
\* aligned and lies in the memory the boot loader described, lacking less than
\* a page at either end; each module's range is page aligned and contains it.
BootRangesAreSound ==
  /\ tag \in {"next", "mmap", "END"} /\ memory_usable \in 0 .. Limit - 1
  /\ Len(memory_map) = Len(Kept) /\ Len(memory_map) <= MEMORY_MAP_SIZE
  /\ \A i \in DOMAIN memory_map :
       LET r == memory_map[i].range
           e == Kept[i]
       IN  /\ PageAligned(r) /\ memory_map[i].available = e.available
           /\ ~TooShort(e) =>
                /\ Bytes(r.base, r.size) \subseteq Bytes(e.addr, e.len)
                /\ e.len - r.size < 2 * PageSize - 1
  /\ Len(modules) <= Len(loaded) /\ Len(modules) <= MODULES_SIZE
  /\ \A i \in DOMAIN modules :
       /\ PageAligned(modules[i])
       /\ Bytes(loaded[i].addr, loaded[i].len) \subseteq Bytes(modules[i].base, modules[i].size)
       /\ modules[i].size - loaded[i].len < 2 * PageSize

\* The pages physical_set_free is going to be called with.
PagesIn(r) == {p \in 0 .. Limit \div PageSize - 1 :
                 p * PageSize \in Bytes(r.base, r.size)}

AvailablePages ==
  UNION {PagesIn(memory_map[i].range) : i \in {j \in DOMAIN memory_map : memory_map[j].available}}

\* What the physical allocator takes for granted (PhysicalAssumption): the
\* pages of the available entries take up no more than memory_usable, which
\* has not wrapped although it adds lengths before they are rounded.
KeepsPhysicalAssumption ==
  /\ BootRangesAreSound
  /\ (\A i \in DOMAIN entries : entries[i].available => ~TooShort(entries[i])) =>
       /\ Cardinality(AvailablePages) * PageSize <= memory_usable
       /\ memory_usable < Limit
       /\ \A p \in AvailablePages : \E i \in DOMAIN entries :
            /\ entries[i].available
            /\ Bytes(p * PageSize, PageSize) \subseteq Bytes(entries[i].addr, entries[i].len)
=============================================================================
