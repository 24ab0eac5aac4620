---------------------------- MODULE MemoryProofs ----------------------------
(***************************************************************************)
(* Theorems about the memory manager, for every size of memory and of page *)
(* table, every memory map, boot image and set of devices, with the proofs *)
(* TLAPS checks.                                                           *)
(*                                                                         *)
(* What a client reaches depends on what the loops have done half way, so  *)
(* the invariant says of each loop which of its pages it has mapped, which *)
(* it has still to map and whose the frames it holds are.                  *)
(***************************************************************************)
EXTENDS Memory, PhysicalProofs
-----------------------------------------------------------------------------
(* The inductive invariant.                                                *)

Booting == pc = "boot" \/ call.op = "boot"

\* The pages the loop under way has dealt with, and those it has not.
Done == call.base .. ThisPage - 1
Rest == ThisPage .. call.base + call.count - 1

IsTable(p) == \E d \in UserDirs : pd[d] = p

\* A page whose frame clients may give back: it came from physical_alloc, and
\* neither the boot image nor a page table is behind it.
Client(p) ==
  /\ p \in HEAP_BASE .. PAGES - 1
  /\ Mapped(p) /\ pte[p] \in Available
  /\ p \notin BootPages /\ ~IsTable(p)

\* Frames taken from physical_alloc that no page maps yet.
Fresh(F) ==
  /\ F \subseteq MEMORY \cap Available
  /\ 0 \notin F
  /\ \A p \in Pages : pte[p] \notin F

CallShape ==
  /\ call.base + call.count <= PAGES
  /\ call.done <= call.count
  /\ pc \in {"boot", "idle"} => call = NoCall
  /\ pc = "virtual_alloc" => call.op \in {"alloc", "alloc_user"} /\ call.done = 0
  /\ pc = "virtual_map" => call.op \in {"boot", "alloc", "alloc_user", "map", "map_identity"}
  /\ pc = "map" => call.op = "map"
  /\ pc = "free" => call.op = "free"
  /\ pc \in {"virtual_alloc", "virtual_map", "free"} => call.done < call.count
  /\ call.op \in {"alloc", "alloc_user"} => call.frame + call.count <= PAGES

\* Where the pages of a call lie.
CallPlace ==
  /\ call.op \in {"alloc_user", "map"} /\ pc # "virtual_alloc" => call.base >= KernelPages
  /\ call.op = "alloc" /\ pc # "virtual_alloc" =>
       call.base >= HEAP_BASE /\ call.base + call.count <= KernelPages
  /\ call.op = "map_identity" =>
       /\ call.frame = call.base /\ call.base > 0
       /\ call.base + call.count <= HEAP_BASE
       /\ CallPages \cap Available = {}
  /\ call.op = "boot" =>
       /\ call.frame = call.base /\ call.base > 0
       /\ call.base + call.count <= KernelPages
       /\ booted > 0 /\ CallPages = RangeOf(BootRanges[booted])
  /\ call.op = "free" => call.base >= HEAP_BASE

\* What the loop under way has done, and what it may rely on.
CallProgress ==
  /\ pc \in {"virtual_alloc", "virtual_map"} =>
       /\ InFlight \subseteq MEMORY
       /\ call.op \in {"alloc", "alloc_user", "map"} => Fresh(InFlight)
  /\ pc = "virtual_map" /\ call.op \in {"alloc", "alloc_user"} => \A p \in Rest : ~Mapped(p)
  /\ pc = "virtual_map" /\ call.op = "map" => ~Mapped(ThisPage)
  /\ pc \in {"virtual_map", "map"} /\ call.op \in {"alloc", "alloc_user", "map"} =>
       \A p \in Done : Client(p)
  /\ pc = "free" =>
       /\ \A p \in Rest : Mapped(p) => Client(p)
       /\ owned \cap Rest = {}

\* Frames and the pages that map them.
Frames ==
  /\ \A p \in Pages : Mapped(p) =>
       /\ pte[p] \in MEMORY
       /\ pte[p] \in Available \/ pte[p] = p
       /\ p < HEAP_BASE => pte[p] = p
       /\ p >= KernelPages => pte[p] \in Available
       /\ DirPresent(p)
  /\ \A p \in Pages : pte[p] # 0
  /\ \A p, q \in Pages : Mapped(p) /\ pte[p] = pte[q] => p = q
  /\ ~Mapped(0)

Tables ==
  /\ \A d \in UserDirs : pd[d] # NotPresent =>
       /\ pd[d] \in 1 .. KernelPages - 1
       /\ pd[d] \in MEMORY /\ pte[pd[d]] = pd[d]
  /\ \A d, e \in UserDirs : pd[d] # NotPresent /\ pd[d] = pd[e] => d = e

BootImageMapped ==
  \A k \in 1 .. booted : \A p \in RangeOf(BootRanges[k]) :
    /\ p \in MEMORY
    /\ pte[p] = p \/ (call.op = "boot" /\ p \in Rest)

BootProgress ==
  /\ Booting =>
       /\ \A p \in Pages : Mapped(p) => pte[p] = p /\ p \in BootPages
       /\ \A d \in UserDirs : pd[d] = NotPresent
       /\ owned = {}
  /\ ~Booting => booted = Len(BootRanges) /\ 0 \in MEMORY

MemoryInv ==
  /\ PhysicalInv /\ MemoryTypeOK
  /\ CallShape /\ CallPlace /\ CallProgress
  /\ Frames /\ Tables
  /\ BootImageMapped /\ BootProgress
  /\ \A p \in owned : Client(p)
  /\ NoFrameLeaks
-----------------------------------------------------------------------------
(* Pages, tables and ranges.                                               *)

\* A page below KernelPages and one from there on have no page table in
\* common, and the directories beyond the kernel's are those of UserDirs.
LEMMA KernelTablesAreApart ==
  /\ \A p, q \in Pages : p < KernelPages /\ q >= KernelPages => Dir(p) # Dir(q)
  /\ \A p \in Pages : p >= KernelPages => Dir(p) \in UserDirs
<1>1. KERNEL_TABLES \in Nat /\ E \in Nat \ {0} /\ KernelPages \in Nat
  BY MemoryAssumption DEF KernelPages
<1>2. ASSUME NEW p \in Nat PROVE Dir(p) \in Nat /\ E * Dir(p) <= p /\ p < E * (Dir(p) + 1)
  BY <1>1 DEF Dir
<1>3. ASSUME NEW p \in Pages, NEW q \in Pages, p < KernelPages, q >= KernelPages,
             Dir(p) = Dir(q)
      PROVE  FALSE
  <2>1. p \in Nat /\ q \in Nat
    BY PhysicalAssumption DEF Pages
  <2> DEFINE d == Dir(p)
  <2>2. d \in Nat /\ E * d <= p /\ q < E * (d + 1)
    BY <1>2, <1>3, <2>1
  <2> HIDE DEF d
  <2>3. E * d < E * KERNEL_TABLES /\ E * KERNEL_TABLES < E * (d + 1)
    BY <1>1, <1>3, <2>1, <2>2 DEF KernelPages
  <2>4. d < KERNEL_TABLES
    BY <1>1, <2>2, <2>3
  <2>5. KERNEL_TABLES < d + 1
    BY <1>1, <2>2, <2>3
  <2> QED BY <1>1, <2>2, <2>4, <2>5
<1>4. ASSUME NEW p \in Pages, p >= KernelPages PROVE Dir(p) \in UserDirs
  <2>1. p \in KernelPages .. PAGES - 1
    BY <1>1, <1>4, PhysicalAssumption DEF Pages
  <2> QED BY <2>1 DEF UserDirs
<1> QED BY <1>3, <1>4

\* The ranges of the boot image and of the devices do not wrap.
LEMMA NamedRangesAreIntervals ==
  /\ \A k \in DOMAIN BootRanges :
       LET r == BootRanges[k] IN
       /\ r[1] \in 1 .. KernelPages - 1 /\ r[2] \in 1 .. KernelPages
       /\ r[1] + r[2] <= KernelPages
       /\ RangeOf(r) = r[1] .. r[1] + r[2] - 1 /\ RangeOf(r) \in Ranges
  /\ \A r \in Devices :
       /\ r[1] \in 1 .. HEAP_BASE - 1 /\ r[2] \in 1 .. HEAP_BASE
       /\ r[1] + r[2] <= HEAP_BASE
       /\ RangeOf(r) = r[1] .. r[1] + r[2] - 1 /\ RangeOf(r) \in Ranges
<1>1. /\ KernelPages \in Nat /\ KernelPages <= PAGES
      /\ HEAP_BASE \in Nat /\ HEAP_BASE <= KernelPages /\ PAGES \in Nat
  BY MemoryAssumption, PhysicalAssumption DEF KernelPages
<1>2. ASSUME NEW r \in Nat \X Nat, r[1] > 0, r[2] > 0, r[1] + r[2] <= KernelPages
      PROVE  /\ RangeOf(r) = r[1] .. r[1] + r[2] - 1
             /\ RangeOf(r) \in Ranges
  <2>1. r[1] \in Pages /\ r[2] \in 1 .. PAGES - r[1]
    BY <1>1, <1>2 DEF Pages
  <2>2. RangeOf(r) = r[1] .. r[1] + r[2] - 1
    BY <1>1, <1>2, <2>1, RunIsInterval DEF RangeOf
  <2> QED BY <2>1, <2>2 DEF RangeOf, Ranges
<1>3. ASSUME NEW k \in DOMAIN BootRanges
      PROVE  LET r == BootRanges[k] IN
             r \in Nat \X Nat /\ r[1] > 0 /\ r[2] > 0 /\ r[1] + r[2] <= KernelPages
  BY MemoryAssumption
<1>4. ASSUME NEW r \in Devices
      PROVE  r \in Nat \X Nat /\ r[1] > 0 /\ r[2] > 0 /\ r[1] + r[2] <= HEAP_BASE
  BY MemoryAssumption
<1>5. ASSUME NEW k \in DOMAIN BootRanges
      PROVE  LET r == BootRanges[k] IN
             /\ r[1] \in 1 .. KernelPages - 1 /\ r[2] \in 1 .. KernelPages
             /\ r[1] + r[2] <= KernelPages
             /\ RangeOf(r) = r[1] .. r[1] + r[2] - 1 /\ RangeOf(r) \in Ranges
  BY <1>1, <1>2, <1>3
<1>6. ASSUME NEW r \in Devices
      PROVE  /\ r[1] \in 1 .. HEAP_BASE - 1 /\ r[2] \in 1 .. HEAP_BASE
             /\ r[1] + r[2] <= HEAP_BASE
             /\ RangeOf(r) = r[1] .. r[1] + r[2] - 1 /\ RangeOf(r) \in Ranges
  <2>1. r[1] + r[2] <= KernelPages
    BY <1>1, <1>4
  <2> QED BY <1>1, <1>2, <1>4, <2>1
<1> QED BY <1>5, <1>6

\* The pages of the boot image lie in the kernel's half, above page zero.
LEMMA BootPagesAreKernels == BootPages \subseteq 1 .. KernelPages - 1
<1>1. ASSUME NEW k \in DOMAIN BootRanges PROVE RangeOf(BootRanges[k]) \subseteq 1 .. KernelPages - 1
  <2> DEFINE r == BootRanges[k]
  <2>1. /\ r[1] \in 1 .. KernelPages - 1 /\ r[2] \in 1 .. KernelPages
        /\ r[1] + r[2] <= KernelPages
        /\ RangeOf(r) = r[1] .. r[1] + r[2] - 1
    BY NamedRangesAreIntervals
  <2>2. KernelPages \in Nat
    BY MemoryAssumption DEF KernelPages
  <2> HIDE DEF r
  <2>3. RangeOf(r) \subseteq 1 .. KernelPages - 1
    BY <2>1, <2>2
  <2> QED BY <2>3 DEF r
<1> QED BY <1>1 DEF BootPages

\* Once the kernel has booted its image is mapped: no other page may hold it.
LEMMA BootImageIsMapped ==
  ASSUME MemoryInv, ~Booting
  PROVE  /\ \A p \in BootPages : p \in Pages /\ pte[p] = p /\ p \in MEMORY
         /\ 0 \in MEMORY /\ booted = Len(BootRanges)
<1>1. booted = Len(BootRanges) /\ 0 \in MEMORY /\ call.op # "boot"
  BY DEF MemoryInv, BootProgress, Booting
<1>2. DOMAIN BootRanges = 1 .. booted
  BY <1>1, MemoryAssumption
<1>3. \A p \in BootPages : pte[p] = p /\ p \in MEMORY
  BY <1>1, <1>2 DEF MemoryInv, BootImageMapped, BootPages
<1> QED BY <1>1, <1>3 DEF MemoryInv, PhysicalInv, PhysicalTypeOK
-----------------------------------------------------------------------------
(* virtual_map().                                                          *)

\* The calls that map frames physical_alloc gave them.
ClientOps == {"alloc", "alloc_user", "map"}

\* The numbers of a call.
LEMMA CallNumbers ==
  ASSUME MemoryInv
  PROVE  /\ PAGES \in Nat \ {0} /\ KernelPages \in 1 .. PAGES /\ HEAP_BASE \in 1 .. KernelPages
         /\ call.base \in Nat /\ call.count \in Nat /\ call.done \in Nat
         /\ call.frame \in Pages /\ call.base + call.count <= PAGES
         /\ call.done <= call.count
         /\ ThisPage = call.base + call.done
         /\ call.done < call.count => ThisPage \in Pages
<1>1. PAGES \in Nat \ {0} /\ KernelPages \in 1 .. PAGES /\ HEAP_BASE \in 1 .. KernelPages
  BY MemoryAssumption, PhysicalAssumption DEF KernelPages
<1>2. /\ call.base \in Nat /\ call.count \in Nat /\ call.done \in Nat
      /\ call.frame \in Pages /\ call.base + call.count <= PAGES
      /\ call.done <= call.count
  BY <1>1 DEF MemoryInv, MemoryTypeOK, CallShape
<1> QED BY <1>1, <1>2 DEF ThisPage, Pages

\* A client's request: n pages from b, above HEAP_BASE and below the end.
LEMMA RequestNumbers ==
  ASSUME NEW n \in 1 .. MaxRequest, NEW low \in {HEAP_BASE, KernelPages}, NEW b \in low .. PAGES - n
  PROVE  /\ n \in Nat /\ n > 0 /\ b \in Nat /\ b + n <= PAGES /\ b >= low /\ PAGES \in Nat
         /\ 0 \in Pages
<1>1. PAGES \in Nat \ {0}
  BY PhysicalAssumption
<1>2. MaxRequest \in 1 .. PAGES
  BY MemoryAssumption
<1>3. low \in Nat
  <2>1. HEAP_BASE \in 1 .. KernelPages /\ KERNEL_TABLES \in Nat /\ E \in Nat
    BY MemoryAssumption
  <2> QED BY <2>1 DEF KernelPages
<1> QED BY <1>1, <1>2, <1>3 DEF Pages

\* The frame of the next page is one the call has in hand.
LEMMA ThisFrameIsInFlight ==
  ASSUME pc = "virtual_map", call.frame \in Pages, call.count \in Nat, call.done \in Nat,
         call.done < call.count
  PROVE  ThisFrame \in InFlight
<1>1. call.frame \in Nat
  BY DEF Pages
<1>2. CASE call.op = "map"
  BY <1>2 DEF InFlight, ThisFrame
<1>3. CASE call.op # "map"
  BY <1>1, <1>3 DEF InFlight, ThisFrame
<1> QED BY <1>2, <1>3

\* What virtual_map is about to write: a frame in use that no other page maps,
\* over an entry that is empty or holds that frame already.
LEMMA VirtualMapIsSafe ==
  ASSUME MemoryInv, pc = "virtual_map"
  PROVE  /\ ThisPage \in Pages \ {0} /\ ThisPage \in Rest
         /\ ThisFrame \in Pages \ {0} /\ ThisFrame \in MEMORY /\ ThisFrame \in InFlight
         /\ \A q \in Pages : pte[q] = ThisFrame => q = ThisPage
         /\ Mapped(ThisPage) => pte[ThisPage] = ThisFrame
         /\ call.op \in ClientOps =>
              /\ ThisFrame \in Available /\ ThisPage \in HEAP_BASE .. PAGES - 1
              /\ ~Mapped(ThisPage) /\ ThisPage \notin BootPages /\ ~IsTable(ThisPage)
         /\ call.op \notin ClientOps =>
              /\ ThisFrame = ThisPage /\ ThisPage < KernelPages
              /\ call.op = "boot" => ThisPage \in BootPages
              /\ call.op = "map_identity" => ThisPage < HEAP_BASE
<1> DEFINE t == ThisPage
           f == ThisFrame
<1>1. /\ PAGES \in Nat \ {0} /\ KernelPages \in 1 .. PAGES /\ HEAP_BASE \in 1 .. KernelPages
      /\ call.base \in Nat /\ call.count \in Nat /\ call.done \in Nat
      /\ call.frame \in Pages /\ call.base + call.count <= PAGES
      /\ call.done < call.count
      /\ t = call.base + call.done /\ t \in Pages
  BY CallNumbers DEF MemoryInv, CallShape
<1>2. t \in Rest
  BY <1>1 DEF Rest
<1>3. call.op \in ClientOps \cup {"boot", "map_identity"}
  BY DEF MemoryInv, CallShape, ClientOps
<1>4. CASE call.op \in ClientOps
  <2>1. f \in InFlight
    BY <1>1, ThisFrameIsInFlight
  <2>2. Fresh(InFlight)
    BY <1>4 DEF MemoryInv, CallProgress, ClientOps
  <2>3. f \in MEMORY /\ f \in Available /\ f # 0 /\ \A p \in Pages : pte[p] # f
    BY <2>1, <2>2 DEF Fresh
  <2>4. ~Mapped(t)
    BY <1>2, <1>4 DEF MemoryInv, CallProgress, ClientOps
  <2>5. t \in HEAP_BASE .. PAGES - 1
    <3>1. t >= HEAP_BASE
      BY <1>1, <1>4 DEF MemoryInv, CallPlace, ClientOps
    <3> QED BY <1>1, <3>1 DEF Pages
  <2>6. t \notin BootPages
    <3>1. ~Booting
      BY <1>4 DEF Booting, ClientOps
    <3> QED BY <1>1, <2>4, <3>1, BootImageIsMapped DEF Mapped, Pages, NotPresent
  <2>7. ~IsTable(t)
    <3>1. \A d \in UserDirs : pd[d] = t => pte[t] = t /\ t # NotPresent
      BY <1>1 DEF MemoryInv, Tables, Pages, NotPresent
    <3> QED BY <2>4, <3>1 DEF IsTable, Mapped
  <2>8. f \in Pages
    BY <2>3 DEF MemoryInv, PhysicalInv, PhysicalTypeOK
  <2> QED BY <1>1, <1>2, <1>4, <2>1, <2>3, <2>4, <2>5, <2>6, <2>7, <2>8
<1>5. CASE call.op \in {"boot", "map_identity"}
  <2>1. f = t /\ f \in InFlight
    <3>1. call.frame = call.base /\ call.op # "map"
      BY <1>1, <1>5 DEF MemoryInv, CallPlace
    <3> QED BY <1>1, <3>1, ThisFrameIsInFlight DEF ThisFrame
  <2>2. f \in MEMORY
    BY <2>1 DEF MemoryInv, CallProgress
  <2>3. t > 0 /\ t \in CallPages
    BY <1>1, <1>5 DEF MemoryInv, CallPlace, CallPages
  <2>4. CASE call.op = "boot"
    <3>1. t \in BootPages
      <4>1. booted \in DOMAIN BootRanges
        BY <2>4, MemoryAssumption DEF MemoryInv, CallPlace, MemoryTypeOK
      <4>2. t \in RangeOf(BootRanges[booted])
        BY <2>3, <2>4 DEF MemoryInv, CallPlace
      <4> QED BY <4>1, <4>2 DEF BootPages
    <3>2. \A q \in Pages : Mapped(q) => pte[q] = q
      BY <2>4 DEF MemoryInv, BootProgress, Booting
    <3>3. t < KernelPages
      BY <1>1, <2>4 DEF MemoryInv, CallPlace
    <3> QED BY <1>1, <1>2, <2>1, <2>2, <2>3, <2>4, <3>1, <3>2, <3>3 DEF Mapped, Pages, NotPresent, ClientOps
  <2>5. CASE call.op = "map_identity"
    <3>1. t < HEAP_BASE /\ t \notin Available
      BY <1>1, <2>3, <2>5 DEF MemoryInv, CallPlace
    <3>2. \A q \in Pages : pte[q] = t => q = t
      <4>1. \A q \in Pages : Mapped(q) => pte[q] \in Available \/ pte[q] = q
        BY DEF MemoryInv, Frames
      <4> QED BY <1>1, <3>1, <4>1 DEF Mapped, Pages, NotPresent
    <3>3. Mapped(t) => pte[t] = t
      BY <1>1, <3>1 DEF MemoryInv, Frames
    <3> QED BY <1>1, <1>2, <2>1, <2>2, <2>3, <2>5, <3>1, <3>2, <3>3 DEF ClientOps
  <2> QED BY <1>5, <2>4, <2>5
<1> QED BY <1>3, <1>4, <1>5

\* The entries virtual_map leaves behind, T the page of a new table if any.
MapsThisPage(T) ==
  /\ T \in SUBSET IdentityPages
  /\ MEMORY' = MEMORY \cup T
  /\ pte' = [p \in Pages |-> IF p = ThisPage THEN ThisFrame
                             ELSE IF p \in T THEN p ELSE pte[p]]
  /\ \/ T = {} /\ pd' = pd /\ DirPresent(ThisPage)
     \/ /\ ~DirPresent(ThisPage)
        /\ \E table \in T : T = {table} /\ pd' = [pd EXCEPT ![Dir(ThisPage)] = table]

\* A page alloc_identity accepts is unmapped and in the kernel's half.
LEMMA IdentityPagesAreUnmapped ==
  ASSUME MemoryInv, NEW x \in IdentityPages
  PROVE  /\ x \in 1 .. KernelPages - 1 /\ x \in Pages \ {0}
         /\ ~Mapped(x) /\ x \notin MEMORY /\ ~IsTable(x) /\ x \in Available
         /\ \A p \in Pages : pte[p] # x
<1>1. PAGES \in Nat \ {0} /\ KernelPages \in 1 .. PAGES
  BY CallNumbers
<1>2. x \in 1 .. KernelPages - 1 /\ x \in Pages \ {0} /\ x \notin MEMORY /\ ~virtual_present(x)
  BY <1>1 DEF IdentityPages, Pages
<1>3. DirPresent(x)
  BY <1>1, <1>2 DEF DirPresent
<1>4. ~Mapped(x)
  BY <1>2, <1>3 DEF virtual_present, Mapped
<1>5. ~IsTable(x)
  BY <1>1, <1>2 DEF IsTable, MemoryInv, Tables, NotPresent
<1>6. \A p \in Pages : pte[p] # x
  BY <1>1, <1>2 DEF MemoryInv, Frames, Mapped, NotPresent
<1>7. x \in Available
  BY <1>2 DEF MemoryInv, PhysicalInv, ReservedStaysUsed
<1> QED BY <1>2, <1>4, <1>5, <1>6, <1>7

\* Writing the entry disturbs no other mapping, and no table.
LEMMA MapKeepsMappings ==
  ASSUME MemoryInv, pc = "virtual_map", NEW T, MapsThisPage(T)
  PROVE  /\ Frames' /\ Tables'
         /\ \A p \in Pages : Mapped(p) => pte'[p] = pte[p]
         /\ \A p \in Pages : ~Mapped(p) /\ p # ThisPage /\ p \notin T => ~Mapped(p)'
         /\ \A p \in Pages : Client(p) => Client(p)'
         /\ \A p \in Pages : p = ThisPage /\ call.op \in ClientOps => Client(p)'
         /\ pd' \in [UserDirs -> Pages \cup {NotPresent}]
         /\ pte' \in [Pages -> Pages \cup {NotPresent}]
<1>0. PICK t, f : t = ThisPage /\ f = ThisFrame
  OBVIOUS
<1>1. /\ t \in Pages \ {0} /\ f \in Pages \ {0} /\ f \in MEMORY
      /\ \A q \in Pages : pte[q] = f => q = t
      /\ Mapped(t) => pte[t] = f
      /\ call.op \in ClientOps =>
           /\ f \in Available /\ t \in HEAP_BASE .. PAGES - 1
           /\ ~Mapped(t) /\ t \notin BootPages /\ ~IsTable(t)
      /\ call.op \notin ClientOps => f = t /\ t < KernelPages
  BY <1>0, VirtualMapIsSafe
<1>2. PAGES \in Nat \ {0} /\ KernelPages \in 1 .. PAGES /\ HEAP_BASE \in 1 .. KernelPages
  BY CallNumbers
<1>3. \A x \in T : /\ x \in 1 .. KernelPages - 1 /\ x \in Pages \ {0}
                   /\ ~Mapped(x) /\ x \notin MEMORY /\ ~IsTable(x) /\ x \in Available
                   /\ \A p \in Pages : pte[p] # x
  BY IdentityPagesAreUnmapped DEF MapsThisPage
<1>4. /\ MEMORY' = MEMORY \cup T
      /\ pte' = [p \in Pages |-> IF p = t THEN f ELSE IF p \in T THEN p ELSE pte[p]]
  BY <1>0 DEF MapsThisPage
<1>5. \/ T = {} /\ pd' = pd /\ DirPresent(t)
      \/ /\ ~DirPresent(t)
         /\ \E table \in T : T = {table} /\ pd' = [pd EXCEPT ![Dir(t)] = table]
  BY <1>0 DEF MapsThisPage
<1>6. /\ pd \in [UserDirs -> Pages \cup {NotPresent}]
      /\ pte \in [Pages -> Pages \cup {NotPresent}]
  BY DEF MemoryInv, MemoryTypeOK
<1>7. t \notin T
  <2>1. CASE T = {}
    BY <2>1
  <2>2. CASE ~DirPresent(t)
    BY <1>1, <1>2, <1>3, <2>2 DEF DirPresent, Pages
  <2> QED BY <1>5, <2>1, <2>2
<1>8. pd' \in [UserDirs -> Pages \cup {NotPresent}] /\ pte' \in [Pages -> Pages \cup {NotPresent}]
  BY <1>1, <1>3, <1>4, <1>5, <1>6
<1>9. \A p \in Pages : Mapped(p) => pte'[p] = pte[p]
  BY <1>1, <1>3, <1>4
<1>10. \A p \in Pages : ~Mapped(p) /\ p # t /\ p \notin T => ~Mapped(p)'
  BY <1>4 DEF Mapped
<1>11. \A p \in Pages : DirPresent(p) => DirPresent(p)'
  BY <1>2, <1>3, <1>5, <1>6, KernelTablesAreApart DEF DirPresent, Pages, NotPresent
<1>12. DirPresent(t)'
  BY <1>1, <1>2, <1>3, <1>5, <1>6, KernelTablesAreApart DEF DirPresent, Pages, NotPresent
<1>13. \A p \in Pages : IsTable(p)' => IsTable(p) \/ p \in T
  BY <1>5, <1>6 DEF IsTable
<1>14. \A p \in Pages : Client(p) => Client(p)'
  BY <1>3, <1>9, <1>13 DEF Client, Mapped
<1>15. call.op \in ClientOps => Client(t)'
  BY <1>1, <1>4, <1>7, <1>13 DEF Client, Mapped, Pages, NotPresent
<1>16. Tables'
  <2>1. Tables
    BY DEF MemoryInv
  <2>2. CASE T = {} /\ pd' = pd
    BY <1>4, <1>6, <1>9, <1>2, <2>1, <2>2 DEF Tables, Mapped, Pages, NotPresent
  <2>3. CASE ~DirPresent(t) /\ \E table \in T : T = {table} /\ pd' = [pd EXCEPT ![Dir(t)] = table]
    <3>1. PICK table \in T : T = {table} /\ pd' = [pd EXCEPT ![Dir(t)] = table]
      BY <2>3
    <3>2. Dir(t) \in UserDirs /\ pd[Dir(t)] = NotPresent
      BY <1>1, <2>3, KernelTablesAreApart DEF DirPresent
    <3>3. \A d \in UserDirs : pd'[d] = IF d = Dir(t) THEN table ELSE pd[d]
      BY <1>6, <3>1
    <3>4. pte'[table] = table /\ table \in MEMORY' /\ table \in 1 .. KernelPages - 1
      BY <1>3, <1>4, <1>7, <3>1
    <3>5. \A d \in UserDirs : pd[d] # table
      BY <1>3 DEF IsTable
    <3>6. ASSUME NEW d \in UserDirs, pd[d] # NotPresent
          PROVE  /\ pd[d] \in 1 .. KernelPages - 1
                 /\ pd[d] \in MEMORY' /\ pte'[pd[d]] = pd[d]
      BY <1>2, <1>4, <1>9, <2>1, <3>6 DEF Tables, Mapped, Pages
    <3>7. \A d \in UserDirs : pd'[d] # NotPresent =>
             /\ pd'[d] \in 1 .. KernelPages - 1
             /\ pd'[d] \in MEMORY' /\ pte'[pd'[d]] = pd'[d]
      BY <3>3, <3>4, <3>6
    <3>8. \A d, e \in UserDirs : pd'[d] # NotPresent /\ pd'[d] = pd'[e] => d = e
      BY <2>1, <3>3, <3>5 DEF Tables
    <3> QED BY <3>7, <3>8 DEF Tables
  <2> QED BY <1>5, <2>2, <2>3
<1>17. Frames'
  <2>1. Frames
    BY DEF MemoryInv
  <2>2. ASSUME NEW p \in Pages, Mapped(p)'
        PROVE  /\ pte'[p] \in MEMORY'
               /\ pte'[p] \in Available \/ pte'[p] = p
               /\ p < HEAP_BASE => pte'[p] = p
               /\ p >= KernelPages => pte'[p] \in Available
               /\ DirPresent(p)'
    <3>1. CASE p = t
      <4>1. pte'[p] = f
        BY <1>4, <3>1
      <4>2. call.op \notin ClientOps /\ p < HEAP_BASE => pte'[p] = p
        BY <1>1, <4>1, <3>1
      <4>3. call.op \in ClientOps => ~(p < HEAP_BASE) /\ f \in Available
        BY <1>1, <1>2, <3>1 DEF Pages
      <4>4. call.op \notin ClientOps => f = t /\ ~(p >= KernelPages)
        BY <1>1, <1>2, <3>1 DEF Pages
      <4> QED BY <1>1, <1>4, <1>12, <3>1, <4>1, <4>2, <4>3, <4>4
    <3>2. CASE p # t /\ p \in T
      <4>1. pte'[p] = p /\ p < KernelPages /\ p \in MEMORY' /\ p \in Available
        BY <1>2, <1>3, <1>4, <3>2
      <4>2. DirPresent(p)'
        BY <1>2, <4>1 DEF DirPresent, Pages
      <4> QED BY <1>2, <4>1, <4>2 DEF Pages
    <3>3. CASE p # t /\ p \notin T
      <4>1. pte'[p] = pte[p] /\ Mapped(p)
        BY <1>4, <2>2, <3>3 DEF Mapped
      <4> QED BY <1>4, <1>11, <2>1, <4>1 DEF Frames
    <3> QED BY <3>1, <3>2, <3>3
  <2>3. \A p \in Pages : pte'[p] # 0
    BY <1>1, <1>3, <1>4, <2>1 DEF Frames
  <2>4. \A p, q \in Pages : Mapped(p)' /\ pte'[p] = pte'[q] => p = q
    <3>1. \A p \in Pages : pte'[p] = IF p = t THEN f ELSE IF p \in T THEN p ELSE pte[p]
      BY <1>4
    <3>2. \A p \in T : p # f
      BY <1>1, <1>3
    <3>3. \A p, q \in Pages : pte[p] # NotPresent /\ pte[p] = pte[q] => p = q
      BY <2>1 DEF Frames, Mapped
    <3> QED BY <1>1, <1>3, <3>1, <3>2, <3>3 DEF Mapped
  <2>5. ~Mapped(0)'
    BY <1>1, <1>2, <1>3, <1>4, <2>1 DEF Frames, Mapped, Pages
  <2> QED BY <2>2, <2>3, <2>4, <2>5 DEF Frames
<1> QED BY <1>0, <1>8, <1>9, <1>10, <1>14, <1>15, <1>16, <1>17

\* A new table is only needed above the kernel's half.
LEMMA TableOnlyForUsers ==
  ASSUME MemoryInv, pc = "virtual_map", NEW T, MapsThisPage(T)
  PROVE  /\ ThisPage < KernelPages => T = {} /\ pd' = pd
         /\ call.op \notin ClientOps \/ call.op = "alloc" => ThisPage < KernelPages
         /\ \A x \in T : x \in Pages /\ x < KernelPages /\ x \notin MEMORY /\ x > 0
<1>1. ThisPage < KernelPages => T = {} /\ pd' = pd
  BY CallNumbers, VirtualMapIsSafe DEF MapsThisPage, DirPresent, Pages
<1>2. call.op \notin ClientOps => ThisPage < KernelPages
  BY VirtualMapIsSafe
<1>3. call.op = "alloc" => ThisPage < KernelPages
  BY CallNumbers DEF MemoryInv, CallPlace, CallShape
<1>4. \A x \in T : x \in Pages /\ x < KernelPages /\ x \notin MEMORY /\ x > 0
  BY CallNumbers, IdentityPagesAreUnmapped DEF MapsThisPage, Pages
<1> QED BY <1>1, <1>2, <1>3, <1>4

\* Between calls every frame in use is mapped, or lost, or frame zero.
LEMMA IdleHoldsNoFrame ==
  ASSUME MemoryInv, pc \in {"idle", "boot"}
  PROVE  MEMORY \cap Available \subseteq {pte[p] : p \in Pages} \cup lost \cup {0}
<1>1. InFlight = {}
  BY DEF InFlight
<1> QED BY <1>1 DEF MemoryInv, NoFrameLeaks

\* The next range of the boot image is one of them.
LEMMA NextRange ==
  ASSUME MemoryInv, booted < Len(BootRanges)
  PROVE  booted + 1 \in DOMAIN BootRanges /\ booted \in Nat /\ Len(BootRanges) \in Nat
<1>1. Len(BootRanges) \in Nat /\ DOMAIN BootRanges = 1 .. Len(BootRanges)
  <2>1. BootRanges \in Seq(Nat \X Nat)
    BY MemoryAssumption
  <2> QED BY <2>1
<1>2. booted \in 0 .. Len(BootRanges)
  BY DEF MemoryInv, MemoryTypeOK
<1> QED BY <1>1, <1>2

\* One iteration of a mapping loop keeps the invariant, whatever the loop
\* does next.
LEMMA MapKeepsInv ==
  ASSUME MemoryInv, pc = "virtual_map", NEW T, MapsThisPage(T), PageMapped, PhysicalInv'
  PROVE  MemoryInv'
<1>0. PICK t, f : t = ThisPage /\ f = ThisFrame
  OBVIOUS
<1>1. /\ PAGES \in Nat \ {0} /\ KernelPages \in 1 .. PAGES /\ HEAP_BASE \in 1 .. KernelPages
      /\ call.base \in Nat /\ call.count \in Nat /\ call.done \in Nat
      /\ call.frame \in Pages /\ call.base + call.count <= PAGES
      /\ call.done < call.count
      /\ t = call.base + call.done /\ t \in Pages
  BY <1>0, CallNumbers DEF MemoryInv, CallShape
<1>2. /\ Frames' /\ Tables'
      /\ \A p \in Pages : Mapped(p) => pte'[p] = pte[p]
      /\ \A p \in Pages : ~Mapped(p) /\ p # t /\ p \notin T => ~Mapped(p)'
      /\ \A p \in Pages : Client(p) => Client(p)'
      /\ call.op \in ClientOps => Client(t)'
      /\ pd' \in [UserDirs -> Pages \cup {NotPresent}]
      /\ pte' \in [Pages -> Pages \cup {NotPresent}]
  BY <1>0, <1>1, MapKeepsMappings
<1>3. /\ t < KernelPages => T = {} /\ pd' = pd
      /\ call.op \notin ClientOps \/ call.op = "alloc" => t < KernelPages
      /\ \A x \in T : x \in Pages /\ x < KernelPages /\ x \notin MEMORY /\ x > 0
  BY <1>0, TableOnlyForUsers
<1>4. /\ t \in Pages \ {0} /\ f \in Pages \ {0} /\ f \in MEMORY /\ f \in InFlight
      /\ \A q \in Pages : pte[q] = f => q = t
      /\ Mapped(t) => pte[t] = f
      /\ call.op \notin ClientOps => f = t
      /\ call.op = "boot" => t \in BootPages
  BY <1>0, VirtualMapIsSafe DEF ClientOps
<1>5. /\ MEMORY' = MEMORY \cup T
      /\ pte' = [p \in Pages |-> IF p = t THEN f ELSE IF p \in T THEN p ELSE pte[p]]
  BY <1>0 DEF MapsThisPage
<1>6. /\ call \in [op : {"none", "boot", "alloc", "alloc_user", "map", "map_identity", "free"},
                   base : 0 .. PAGES, count : 0 .. PAGES, done : 0 .. PAGES, frame : Pages]
      /\ booted \in 0 .. Len(BootRanges) /\ owned \subseteq Pages /\ lost \subseteq Pages
      /\ call.op \in ClientOps \cup {"boot", "map_identity"}
  BY DEF MemoryInv, MemoryTypeOK, CallShape, ClientOps
<1>7. booted' = booted /\ lost' = lost
  BY DEF PageMapped
<1>8. /\ NoCall \in [op : {"none", "boot", "alloc", "alloc_user", "map", "map_identity", "free"},
                     base : 0 .. PAGES, count : 0 .. PAGES, done : 0 .. PAGES, frame : Pages]
      /\ NoCall.op = "none" /\ NoCall.base = 0 /\ NoCall.count = 0 /\ NoCall.done = 0
  BY <1>1 DEF NoCall, Call, Pages
<1>9. pte'[t] = f /\ \A x \in T : x # t => pte'[x] = x
  BY <1>1, <1>3, <1>5
\* The calls that go on.
<1>10. ASSUME NextPage, owned' = owned,
              (call.op = "map" /\ pc' = "map") \/ (call.op # "map" /\ ~LastPage /\ pc' = pc)
       PROVE  MemoryInv'
  <2>1. /\ call'.op = call.op /\ call'.base = call.base /\ call'.count = call.count
        /\ call'.done = call.done + 1 /\ call'.frame = call.frame
        /\ call' \in [op : {"none", "boot", "alloc", "alloc_user", "map", "map_identity", "free"},
                      base : 0 .. PAGES, count : 0 .. PAGES, done : 0 .. PAGES, frame : Pages]
    BY <1>1, <1>6, <1>10 DEF NextPage
  <2>2. MemoryTypeOK'
    BY <1>2, <1>6, <1>7, <1>10, <2>1 DEF MemoryTypeOK, PhysicalInv
  <2>3. pc' = "virtual_map" => call'.done < call'.count
    BY <1>1, <1>10, <2>1 DEF LastPage
  <2>4. CallShape'
    BY <1>1, <1>6, <1>10, <2>1, <2>3 DEF CallShape, MemoryInv, ClientOps
  <2>5. CallPages' = CallPages
    BY <2>1 DEF CallPages
  <2>6. CallPlace'
    BY <1>7, <1>10, <2>1, <2>5 DEF CallPlace, MemoryInv
  <2>7. Done' = Done \cup {t} /\ Rest' = Rest \ {t} /\ t \in Rest
    BY <1>0, <1>1, <2>1 DEF Done, Rest, ThisPage
  <2>8. InFlight' = InFlight \ {f}
    <3>1. CASE call.op = "map"
      BY <1>0, <1>10, <3>1 DEF InFlight, ThisFrame
    <3>2. CASE call.op # "map"
      <4>1. f = call.frame + call.done /\ InFlight = f .. call.frame + call.count - 1
        BY <1>0, <3>2 DEF InFlight, ThisFrame
      <4>2. InFlight' = call.frame + (call.done + 1) .. call.frame + call.count - 1
        BY <1>10, <2>1, <3>2 DEF InFlight
      <4>3. call.frame \in Nat /\ call.done \in Nat /\ call.count \in Nat
        BY <1>1 DEF Pages
      <4> QED BY <4>1, <4>2, <4>3
    <3> QED BY <3>1, <3>2
  <2>9. CallProgress'
    <3>1. InFlight \subseteq MEMORY /\ (call.op \in ClientOps => Fresh(InFlight))
      BY DEF MemoryInv, CallProgress, ClientOps
    <3>2. InFlight' \subseteq MEMORY'
      BY <1>5, <2>8, <3>1
    <3>3. call.op \in ClientOps => Fresh(InFlight)'
      <4>1. ASSUME call.op \in ClientOps, NEW p \in Pages, pte'[p] \in InFlight' PROVE FALSE
        <5>1. pte'[p] # f /\ pte'[p] \in MEMORY /\ pte'[p] \in InFlight
          BY <2>8, <3>1, <4>1
        <5>2. pte'[p] = pte[p]
          BY <1>3, <1>5, <5>1
        <5> QED BY <3>1, <4>1, <5>1, <5>2 DEF Fresh
      <4> QED BY <1>5, <2>8, <3>1, <4>1 DEF Fresh
    <3>4. call.op \in ClientOps => \A p \in Done : Client(p)
      BY DEF MemoryInv, CallProgress, ClientOps
    <3>5. call.op \in ClientOps => \A p \in Done' : Client(p)'
      <4>1. \A p \in Done : Client(p) => p \in Pages
        BY <1>1 DEF Client, Pages
      <4> QED BY <1>2, <2>7, <3>4, <4>1
    <3>6. call.op \in {"alloc", "alloc_user"} => \A p \in Rest' : ~Mapped(p)'
      <4>1. call.op \in {"alloc", "alloc_user"} => \A p \in Rest : ~Mapped(p)
        BY DEF MemoryInv, CallProgress
      <4>2. Rest \subseteq Pages
        BY <1>0, <1>1 DEF Rest, Pages
      <4>3. call.op \in {"alloc", "alloc_user"} => T \cap Rest = {}
        <5>1. CASE call.op = "alloc"
          BY <1>3, <5>1
        <5>2. CASE call.op = "alloc_user"
          <6>1. \A p \in Rest : ~(p < KernelPages)
            BY <1>0, <1>1, <5>2 DEF Rest, MemoryInv, CallPlace
          <6> QED BY <1>3, <6>1
        <5> QED BY <5>1, <5>2
      <4> QED BY <1>2, <2>7, <4>1, <4>2, <4>3
    <3> QED BY <1>6, <1>10, <2>1, <3>2, <3>3, <3>5, <3>6 DEF CallProgress, ClientOps, MemoryInv, CallShape
  <2>10. BootImageMapped'
    <3>1. ASSUME NEW k \in 1 .. booted, NEW p \in RangeOf(BootRanges[k])
          PROVE  p \in MEMORY' /\ (pte'[p] = p \/ (call'.op = "boot" /\ p \in Rest'))
      <4>1. p \in MEMORY /\ (pte[p] = p \/ (call.op = "boot" /\ p \in Rest))
        BY DEF MemoryInv, BootImageMapped
      <4>2. p \in Pages
        BY <4>1 DEF MemoryInv, PhysicalInv, PhysicalTypeOK
      <4>3. pte[p] = p => pte'[p] = p
        BY <1>2, <4>2 DEF Mapped, Pages, NotPresent
      <4>4. call.op = "boot" /\ p = t => pte'[p] = p
        BY <1>4, <1>9 DEF ClientOps
      <4> QED BY <1>5, <2>1, <2>7, <4>1, <4>3, <4>4
    <3> QED BY <1>7, <3>1 DEF BootImageMapped
  <2>11. BootProgress'
    <3>1. Booting' <=> Booting
      BY <1>10, <2>1 DEF Booting
    <3>2. Booting => call.op = "boot" /\ T = {} /\ pd' = pd /\ f = t /\ t \in BootPages
      BY <1>3, <1>4 DEF Booting, ClientOps
    <3>3. Booting => \A p \in Pages : Mapped(p)' => pte'[p] = p /\ p \in BootPages
      BY <1>5, <3>2 DEF MemoryInv, BootProgress, Mapped
    <3> QED BY <1>5, <1>7, <1>10, <3>1, <3>2, <3>3 DEF MemoryInv, BootProgress
  <2>12. \A p \in owned' : Client(p)'
    BY <1>2, <1>6, <1>10 DEF MemoryInv
  <2>13. NoFrameLeaks'
    <3>1. ASSUME NEW m \in MEMORY' \cap Available
          PROVE  m \in {pte'[p] : p \in Pages} \cup InFlight' \cup lost' \cup {0}
      <4>1. CASE m \in T
        BY <1>3, <1>4, <1>9, <4>1
      <4>2. CASE m = f
        BY <1>1, <1>9, <4>2
      <4>3. CASE m \notin T /\ m # f
        <5>1. m \in MEMORY \cap Available
          BY <1>5, <4>3
        <5>2. m \in {pte[p] : p \in Pages} \cup InFlight \cup lost \cup {0}
          BY <5>1 DEF MemoryInv, NoFrameLeaks
        <5>3. m \in InFlight => m \in InFlight'
          BY <2>8, <4>3
        <5>4. ASSUME NEW p \in Pages, m = pte[p] PROVE pte'[p] = m
          <6>1. m # NotPresent
            BY <5>1 DEF MemoryInv, PhysicalInv, PhysicalTypeOK, Pages, NotPresent
          <6> QED BY <1>2, <5>4, <6>1 DEF Mapped
        <5> QED BY <1>7, <5>2, <5>3, <5>4
      <4> QED BY <4>1, <4>2, <4>3
    <3> QED BY <3>1 DEF NoFrameLeaks
  <2> QED BY <1>2, <2>2, <2>4, <2>6, <2>9, <2>10, <2>11, <2>12, <2>13 DEF MemoryInv
\* The calls that return.
<1>11. ASSUME LastPage, call' = NoCall,
              \/ call.op = "boot" /\ pc' = "boot" /\ owned' = owned
              \/ call.op = "map_identity" /\ pc' = "idle" /\ owned' = owned
              \/ call.op \in {"alloc", "alloc_user"} /\ pc' = "idle" /\ owned' = owned \cup CallPages
       PROVE  MemoryInv'
  <2>1. Rest = {t} /\ CallPages = Done \cup {t} /\ CallPages \subseteq Pages
    BY <1>0, <1>1, <1>11 DEF Rest, Done, CallPages, LastPage, Pages
  <2>2. MemoryTypeOK'
    <3>1. owned' \subseteq Pages
      BY <1>6, <1>11, <2>1
    <3> QED BY <1>2, <1>6, <1>7, <1>8, <1>11, <3>1 DEF MemoryTypeOK, PhysicalInv
  <2>3. CallShape' /\ CallPlace'
    BY <1>1, <1>8, <1>11 DEF CallShape, CallPlace
  <2>4. CallProgress'
    BY <1>8, <1>11 DEF CallProgress
  <2>5. BootImageMapped'
    <3>1. ASSUME NEW k \in 1 .. booted, NEW p \in RangeOf(BootRanges[k])
          PROVE  p \in MEMORY' /\ pte'[p] = p
      <4>1. p \in MEMORY /\ (pte[p] = p \/ (call.op = "boot" /\ p \in Rest))
        BY DEF MemoryInv, BootImageMapped
      <4>2. p \in Pages
        BY <4>1 DEF MemoryInv, PhysicalInv, PhysicalTypeOK
      <4>3. pte[p] = p => pte'[p] = p
        BY <1>2, <4>2 DEF Mapped, Pages, NotPresent
      <4>4. call.op = "boot" /\ p = t => pte'[p] = p
        BY <1>4, <1>9 DEF ClientOps
      <4> QED BY <1>5, <2>1, <4>1, <4>3, <4>4
    <3> QED BY <1>7, <3>1 DEF BootImageMapped
  <2>6. BootProgress'
    <3>1. Booting' <=> Booting
      BY <1>8, <1>11 DEF Booting
    <3>2. Booting => call.op = "boot" /\ T = {} /\ pd' = pd /\ f = t /\ t \in BootPages /\ owned' = owned
      BY <1>3, <1>4, <1>11 DEF Booting, ClientOps
    <3>3. Booting => \A p \in Pages : Mapped(p)' => pte'[p] = p /\ p \in BootPages
      BY <1>5, <3>2 DEF MemoryInv, BootProgress, Mapped
    <3> QED BY <1>5, <1>7, <3>1, <3>2, <3>3 DEF MemoryInv, BootProgress
  <2>7. \A p \in owned' : Client(p)'
    <3>1. \A p \in owned : Client(p)'
      BY <1>2, <1>6 DEF MemoryInv
    <3>2. call.op \in {"alloc", "alloc_user"} => \A p \in CallPages : Client(p)'
      <4>1. call.op \in {"alloc", "alloc_user"} => \A p \in Done : Client(p)
        BY DEF MemoryInv, CallProgress
      <4> QED BY <1>2, <2>1, <4>1 DEF ClientOps
    <3> QED BY <1>11, <3>1, <3>2
  <2>8. NoFrameLeaks'
    <3>1. ASSUME NEW m \in MEMORY' \cap Available
          PROVE  m \in {pte'[p] : p \in Pages} \cup lost' \cup {0}
      <4>1. CASE m \in T
        BY <1>3, <1>4, <1>9, <4>1
      <4>2. CASE m = f
        BY <1>1, <1>9, <4>2
      <4>3. CASE m \notin T /\ m # f
        <5>1. m \in MEMORY \cap Available
          BY <1>5, <4>3
        <5>2. m \in {pte[p] : p \in Pages} \cup InFlight \cup lost \cup {0}
          BY <5>1 DEF MemoryInv, NoFrameLeaks
        <5>3. m \notin InFlight
          BY <1>0, <1>1, <1>11, <4>3 DEF InFlight, ThisFrame, LastPage, Pages
        <5>4. ASSUME NEW p \in Pages, m = pte[p] PROVE pte'[p] = m
          <6>1. m # NotPresent
            BY <5>1 DEF MemoryInv, PhysicalInv, PhysicalTypeOK, Pages, NotPresent
          <6> QED BY <1>2, <5>4, <6>1 DEF Mapped
        <5> QED BY <1>7, <5>2, <5>3, <5>4
      <4> QED BY <4>1, <4>2, <4>3
    <3> QED BY <3>1 DEF NoFrameLeaks
  <2> QED BY <1>2, <2>2, <2>3, <2>4, <2>5, <2>6, <2>7, <2>8 DEF MemoryInv
<1>12. \/ /\ NextPage /\ owned' = owned
          /\ (call.op = "map" /\ pc' = "map") \/ (call.op # "map" /\ ~LastPage /\ pc' = pc)
       \/ /\ LastPage /\ call' = NoCall
          /\ \/ call.op = "boot" /\ pc' = "boot" /\ owned' = owned
             \/ call.op = "map_identity" /\ pc' = "idle" /\ owned' = owned
             \/ call.op \in {"alloc", "alloc_user"} /\ pc' = "idle" /\ owned' = owned \cup CallPages
  BY DEF PageMapped, Return, NextPage, LastPage
<1> QED BY <1>10, <1>11, <1>12

\* An iteration that finds its page table.
LEMMA VirtualMapPageKeepsInv == MemoryInv /\ VirtualMapPage => MemoryInv'
<1> SUFFICES ASSUME MemoryInv, VirtualMapPage PROVE MemoryInv'
  OBVIOUS
<1>1. pte \in [Pages -> Pages \cup {NotPresent}]
  BY DEF MemoryInv, MemoryTypeOK
<1>2. MapsThisPage({})
  BY <1>1 DEF VirtualMapPage, MapsThisPage, physicalVars, frameVars
<1>3. PhysicalInv'
  BY DEF VirtualMapPage, physicalVars, frameVars, MemoryInv, PhysicalInv, PhysicalTypeOK,
     NoFreePageBelowBestBet, ReservedStaysUsed, UsedMemoryIsExact
<1> QED BY <1>2, <1>3, MapKeepsInv DEF VirtualMapPage

\* The entries of a table that does not exist yet are empty, as is the page
\* the new table comes to lie on.
LEMMA NewTableMapsThisPage ==
  ASSUME MemoryInv, VirtualMapTable
  PROVE  MapsThisPage({Min(IdentityPages)}) /\ PhysicalInv'
<1> DEFINE table == Min(IdentityPages)
<1>1. table \in IdentityPages
  <2>1. IdentityPages \in SUBSET Nat
    BY CallNumbers DEF IdentityPages
  <2> QED BY <2>1, MinIsLeast DEF VirtualMapTable
<1>2. ThisPage \in Pages /\ ~DirPresent(ThisPage) /\ KernelPages \in 1 .. PAGES
  BY CallNumbers, VirtualMapIsSafe DEF VirtualMapTable
<1>3. table \in Pages /\ physical_set_used({table})
  BY <1>1, IdentityPagesAreUnmapped DEF VirtualMapTable
<1>4. PhysicalInv'
  <2>1. {table} \in SUBSET Pages /\ mark_used({table})
    BY <1>3 DEF physical_set_used
  <2>2. handed' \in SUBSET (handed \cup {table}) /\ panicked' \in BOOLEAN
    BY <1>3 DEF physical_set_used, VirtualMapTable, MemoryInv, PhysicalInv, PhysicalTypeOK
  <2> QED BY <2>1, <2>2, MarkUsedKeepsInv DEF MemoryInv
<1>5. ASSUME NEW p \in Pages, Dir(p) = Dir(ThisPage) PROVE pte[p] = NotPresent
  <2>1. p >= KernelPages /\ ThisPage >= KernelPages
    BY <1>2, <1>5, KernelTablesAreApart DEF DirPresent, Pages
  <2>2. ~DirPresent(p)
    BY <1>2, <1>5, <2>1 DEF DirPresent
  <2> QED BY <2>2 DEF MemoryInv, Frames, Mapped
<1>6. MEMORY' = MEMORY \cup {table}
  BY <1>3 DEF physical_set_used, mark_used
<1>7. pte' = [p \in Pages |-> IF p = ThisPage THEN ThisFrame
                              ELSE IF p \in {table} THEN p ELSE pte[p]]
  BY <1>5 DEF VirtualMapTable
<1>8. pd' = [pd EXCEPT ![Dir(ThisPage)] = table]
  BY DEF VirtualMapTable
<1> QED BY <1>1, <1>2, <1>4, <1>6, <1>7, <1>8 DEF MapsThisPage

\* An iteration that needs a new page table.
LEMMA VirtualMapTableKeepsInv == MemoryInv /\ VirtualMapTable => MemoryInv'
  BY NewTableMapsThisPage, MapKeepsInv DEF VirtualMapTable

\* What only marks frames used leaves mappings and tables as they are.
LEMMA MarkingKeepsMappings ==
  ASSUME MemoryInv, UNCHANGED <<pd, pte>>, MEMORY \subseteq MEMORY'
  PROVE  Frames' /\ Tables' /\ \A p \in Pages : Client(p) => Client(p)'
<1>1. Frames'
  BY DEF MemoryInv, Frames, Mapped, DirPresent
<1>2. Tables'
  BY DEF MemoryInv, Tables
<1>3. \A p : Client(p) => Client(p)'
  BY DEF Client, Mapped, IsTable
<1> QED BY <1>1, <1>2, <1>3

\* The allocator's own invariant when its bitmap is left alone.
LEMMA SamePhysicalInv ==
  ASSUME PhysicalInv, UNCHANGED frameVars, panicked' \in BOOLEAN
  PROVE  PhysicalInv'
  BY DEF frameVars, PhysicalInv, PhysicalTypeOK, NoFreePageBelowBestBet,
     ReservedStaysUsed, UsedMemoryIsExact

\* A map() that fails leaves its client what it has mapped, and the frame is
\* accounted for as lost.
LEMMA VirtualMapErrorKeepsInv == MemoryInv /\ VirtualMapError => MemoryInv'
<1> SUFFICES ASSUME MemoryInv, VirtualMapError PROVE MemoryInv'
  OBVIOUS
<1>1. /\ pc = "virtual_map" /\ call.op = "map" /\ pc' = "idle" /\ call' = NoCall
      /\ lost' = lost \cup {call.frame} /\ owned' = owned \cup Done
      /\ UNCHANGED <<MEMORY, pd, pte, booted>> /\ UNCHANGED frameVars /\ panicked' = panicked
  BY DEF VirtualMapError, Done, physicalVars, frameVars, pagingVars
<1>2. PhysicalInv'
  BY <1>1, SamePhysicalInv DEF MemoryInv, PhysicalInv, PhysicalTypeOK
<1>3. Frames' /\ Tables' /\ \A p \in Pages : Client(p) => Client(p)'
  BY <1>1, MarkingKeepsMappings
<1>4. \A p \in owned' : Client(p)'
  <2>1. \A p \in Done : Client(p) /\ p \in Pages
    BY <1>1, CallNumbers DEF MemoryInv, CallProgress, Client, Pages
  <2> QED BY <1>1, <1>3, <2>1 DEF MemoryInv, MemoryTypeOK
<1>5. /\ NoCall \in [op : {"none", "boot", "alloc", "alloc_user", "map", "map_identity", "free"},
                     base : 0 .. PAGES, count : 0 .. PAGES, done : 0 .. PAGES, frame : Pages]
      /\ NoCall.op = "none" /\ NoCall.base = 0 /\ NoCall.count = 0 /\ NoCall.done = 0
  BY CallNumbers DEF NoCall, Call, Pages
<1>6. MemoryTypeOK'
  <2>1. owned' \subseteq Pages
    BY <1>4, CallNumbers DEF Client, Pages
  <2>2. lost' \subseteq Pages
    BY <1>1, CallNumbers DEF MemoryInv, MemoryTypeOK
  <2> QED BY <1>1, <1>2, <1>5, <2>1, <2>2 DEF MemoryInv, MemoryTypeOK, PhysicalInv
<1>7. CallShape' /\ CallPlace' /\ CallProgress'
  BY <1>1, <1>5, CallNumbers DEF CallShape, CallPlace, CallProgress
<1>8. BootImageMapped' /\ BootProgress'
  BY <1>1, <1>5 DEF MemoryInv, BootImageMapped, BootProgress, Booting
<1>9. NoFrameLeaks'
  BY <1>1 DEF MemoryInv, NoFrameLeaks, InFlight
<1> QED BY <1>2, <1>3, <1>4, <1>6, <1>7, <1>8, <1>9 DEF MemoryInv

\* What panics changes nothing.
LEMMA PanicKeepsInv ==
  ASSUME MemoryInv, UNCHANGED <<frameVars, pagingVars, callVars>>, panicked' \in BOOLEAN
  PROVE  MemoryInv'
<1>1. UNCHANGED <<MEMORY, pd, pte, pc, call, booted, owned, lost>>
  BY DEF frameVars, pagingVars, callVars
<1>2. PhysicalInv'
  BY SamePhysicalInv DEF MemoryInv
<1>3. Frames' /\ Tables' /\ \A p \in Pages : Client(p) => Client(p)'
  BY <1>1, MarkingKeepsMappings
<1>4. MemoryTypeOK' /\ \A p \in owned' : Client(p)'
  BY <1>1, <1>2, <1>3 DEF MemoryInv, MemoryTypeOK, PhysicalInv
<1>5. CallShape' /\ CallPlace'
  BY <1>1 DEF MemoryInv, CallShape, CallPlace, CallPages
<1>6. CallProgress'
  BY <1>1 DEF MemoryInv, CallProgress, InFlight, Rest, Done, ThisPage, Fresh, Client, Mapped, IsTable
<1>7. BootImageMapped' /\ BootProgress'
  BY <1>1 DEF MemoryInv, BootImageMapped, BootProgress, Booting, Rest, ThisPage, Mapped
<1>8. NoFrameLeaks'
  BY <1>1 DEF MemoryInv, NoFrameLeaks, InFlight
<1> QED BY <1>2, <1>3, <1>4, <1>5, <1>6, <1>7, <1>8 DEF MemoryInv
-----------------------------------------------------------------------------
(* Boot.                                                                   *)

\* The state the kernel's mapping starts from.
LEMMA MemoryInitInv == MemoryInit => MemoryInv
<1> SUFFICES ASSUME MemoryInit PROVE MemoryInv
  OBVIOUS
<1>0. /\ PAGES \in Nat \ {0} /\ KernelPages \in 1 .. PAGES /\ HEAP_BASE \in 1 .. KernelPages
      /\ 0 \in Pages /\ 0 \in 0 .. PAGES /\ NotPresent # 0
      /\ Len(BootRanges) \in Nat
  BY MemoryAssumption, PhysicalAssumption DEF KernelPages, Pages, NotPresent
<1>1. /\ pd = [d \in UserDirs |-> NotPresent] /\ pte = [p \in Pages |-> NotPresent]
      /\ pc = "boot" /\ call = NoCall /\ booted = 0 /\ owned = {} /\ lost = {}
      /\ MEMORY = Pages \ Available /\ PhysicalInv
  BY PhysicalInitInv DEF MemoryInit, PhysicalInit
<1>2. /\ NoCall \in [op : {"none", "boot", "alloc", "alloc_user", "map", "map_identity", "free"},
                     base : 0 .. PAGES, count : 0 .. PAGES, done : 0 .. PAGES, frame : Pages]
      /\ NoCall.op = "none" /\ NoCall.base = 0 /\ NoCall.count = 0 /\ NoCall.done = 0
  BY <1>0 DEF NoCall, Call
<1>3. MemoryTypeOK
  BY <1>0, <1>1, <1>2 DEF MemoryTypeOK, PhysicalInv
<1>4. CallShape /\ CallPlace /\ CallProgress
  BY <1>0, <1>1, <1>2 DEF CallShape, CallPlace, CallProgress
<1>5. Frames /\ Tables /\ NoFrameLeaks
  BY <1>0, <1>1 DEF Frames, Tables, NoFrameLeaks, Mapped
<1>6. BootImageMapped /\ BootProgress
  <2>1. \A k \in 1 .. booted : FALSE
    BY <1>1
  <2> QED BY <1>1, <2>1 DEF BootImageMapped, BootProgress, Booting, Mapped
<1> QED BY <1>1, <1>3, <1>4, <1>5, <1>6 DEF MemoryInv

\* What BeginMapIdentity does: the frames are marked and the call set up.
LEMMA BeginsMapIdentity ==
  ASSUME MemoryInv, pc \in {"boot", "idle"},
         NEW op \in {"boot", "map_identity"}, NEW r \in Nat \X Nat, BeginMapIdentity(op, r),
         r[1] > 0, r[2] > 0, r[1] + r[2] <= KernelPages,
         RangeOf(r) = r[1] .. r[1] + r[2] - 1, RangeOf(r) \in Ranges
  PROVE  /\ PhysicalInv' /\ MEMORY' = MEMORY \cup RangeOf(r)
         /\ UNCHANGED <<pd, pte, owned, lost>>
         /\ Frames' /\ Tables' /\ \A p \in Pages : Client(p) => Client(p)'
         /\ call.op = "none" /\ pc' = "virtual_map" /\ call'.op = op
         /\ call'.frame = call'.base /\ call'.base = r[1] /\ call'.count = r[2]
         /\ call'.done = 0
         /\ call' \in [op : {"none", "boot", "alloc", "alloc_user", "map", "map_identity", "free"},
                       base : 0 .. PAGES, count : 0 .. PAGES, done : 0 .. PAGES, frame : Pages]
         /\ InFlight' = RangeOf(r) /\ CallPages' = RangeOf(r) /\ Rest' = RangeOf(r)
         /\ NoFrameLeaks'
<1>1. /\ UNCHANGED <<pd, pte, owned, lost>> /\ panicked' = panicked
      /\ pc' = "virtual_map" /\ call' = Call(op, r[1], r[2], r[1])
      /\ physical_set_used(RangeOf(r))
  BY DEF BeginMapIdentity, pagingVars
<1>2. MEMORY' = MEMORY \cup RangeOf(r) /\ mark_used(RangeOf(r)) /\ handed' = handed
  BY <1>1 DEF physical_set_used, mark_used
<1>3. PhysicalInv'
  <2>1. RangeOf(r) \in SUBSET Pages
    BY RangesAreSetsOfPages
  <2>2. handed' \in SUBSET (handed \cup RangeOf(r)) /\ panicked' \in BOOLEAN
    BY <1>1, <1>2 DEF MemoryInv, PhysicalInv, PhysicalTypeOK
  <2> QED BY <1>2, <2>1, <2>2, MarkUsedKeepsInv DEF MemoryInv
<1>4. Frames' /\ Tables' /\ \A p \in Pages : Client(p) => Client(p)'
  BY <1>1, <1>2, MarkingKeepsMappings
<1>5. PICK b, n \in Nat : r = <<b, n>>
  OBVIOUS
<1>6. /\ call'.op = op /\ call'.base = b /\ call'.count = n /\ call'.done = 0 /\ call'.frame = b
      /\ r[1] = b /\ r[2] = n
  BY <1>1, <1>5 DEF Call
<1>7. call' \in [op : {"none", "boot", "alloc", "alloc_user", "map", "map_identity", "free"},
                 base : 0 .. PAGES, count : 0 .. PAGES, done : 0 .. PAGES, frame : Pages]
  <2>1. PAGES \in Nat /\ KernelPages \in 1 .. PAGES
    BY CallNumbers
  <2>2. b \in 0 .. PAGES /\ n \in 0 .. PAGES /\ 0 \in 0 .. PAGES /\ b \in Pages
    BY <1>5, <1>6, <2>1 DEF Pages
  <2> QED BY <1>1, <1>6, <2>2 DEF Call
<1>8. call.op = "none"
  BY DEF MemoryInv, CallShape, NoCall, Call
<1>9. InFlight' = RangeOf(r) /\ CallPages' = RangeOf(r) /\ Rest' = RangeOf(r)
  BY <1>1, <1>5, <1>6 DEF InFlight, CallPages, Rest, ThisPage
<1>10. NoFrameLeaks'
  <2>1. MEMORY \cap Available \subseteq {pte[p] : p \in Pages} \cup lost \cup {0}
    BY IdleHoldsNoFrame DEF BeginMapIdentity
  <2> QED BY <1>1, <1>2, <1>9, <2>1 DEF NoFrameLeaks
<1> QED BY <1>1, <1>2, <1>3, <1>4, <1>6, <1>7, <1>8, <1>9, <1>10

\* memory_initialize maps the next range of the boot image.
LEMMA BootMapKeepsInv == MemoryInv /\ BootMap => MemoryInv'
<1> SUFFICES ASSUME MemoryInv, BootMap PROVE MemoryInv'
  OBVIOUS
<1>0. booted + 1 \in DOMAIN BootRanges /\ booted \in Nat /\ Len(BootRanges) \in Nat
  BY NextRange DEF BootMap
<1> DEFINE r == BootRanges[booted + 1]
<1>1. /\ r \in Nat \X Nat /\ r[1] > 0 /\ r[2] > 0 /\ r[1] + r[2] <= KernelPages
      /\ RangeOf(r) = r[1] .. r[1] + r[2] - 1 /\ RangeOf(r) \in Ranges
  <2>1. r \in Nat \X Nat
    BY <1>0, MemoryAssumption
  <2>2. r[1] > 0 /\ r[2] > 0
    BY <1>0, MemoryAssumption
  <2> QED BY <1>0, <2>1, <2>2, NamedRangesAreIntervals
<1>2. BeginMapIdentity("boot", r) /\ booted' = booted + 1
  BY DEF BootMap
<1> HIDE DEF r
<1>3. /\ PhysicalInv' /\ MEMORY' = MEMORY \cup RangeOf(r)
      /\ UNCHANGED <<pd, pte, owned, lost>>
      /\ Frames' /\ Tables' /\ \A p \in Pages : Client(p) => Client(p)'
      /\ call.op = "none" /\ pc' = "virtual_map" /\ call'.op = "boot"
      /\ call'.frame = call'.base /\ call'.base = r[1] /\ call'.count = r[2]
      /\ call'.done = 0
      /\ call' \in [op : {"none", "boot", "alloc", "alloc_user", "map", "map_identity", "free"},
                    base : 0 .. PAGES, count : 0 .. PAGES, done : 0 .. PAGES, frame : Pages]
      /\ InFlight' = RangeOf(r) /\ CallPages' = RangeOf(r) /\ Rest' = RangeOf(r)
      /\ NoFrameLeaks'
  BY <1>1, <1>2, BeginsMapIdentity DEF BootMap
<1>4. MemoryTypeOK'
  BY <1>0, <1>2, <1>3 DEF MemoryTypeOK, MemoryInv, PhysicalInv, BootMap
<1>5. CallShape'
  BY <1>1, <1>3, CallNumbers DEF CallShape
<1>6. CallPlace'
  BY <1>0, <1>1, <1>2, <1>3 DEF CallPlace, r
<1>7. CallProgress'
  BY <1>3 DEF CallProgress
<1>8. BootImageMapped'
  <2>1. ASSUME NEW k \in 1 .. booted', NEW p \in RangeOf(BootRanges[k])
        PROVE  p \in MEMORY' /\ (pte'[p] = p \/ (call'.op = "boot" /\ p \in Rest'))
    <3>1. CASE k = booted + 1
      BY <1>3, <2>1, <3>1 DEF r
    <3>2. CASE k \in 1 .. booted
      BY <1>3, <2>1, <3>2 DEF MemoryInv, BootImageMapped
    <3> QED BY <1>0, <1>2, <3>1, <3>2
  <2> QED BY <2>1 DEF BootImageMapped
<1>9. BootProgress' /\ owned' = {}
  BY <1>3 DEF MemoryInv, BootProgress, Booting, Mapped, BootMap
<1> QED BY <1>3, <1>4, <1>5, <1>6, <1>7, <1>8, <1>9 DEF MemoryInv

\* A driver maps a device.
LEMMA MapIdentityKeepsInv == \A r \in Devices : MemoryInv /\ map_identity(r) => MemoryInv'
<1> SUFFICES ASSUME NEW r \in Devices, MemoryInv, map_identity(r) PROVE MemoryInv'
  OBVIOUS
<1>1. /\ r \in Nat \X Nat /\ r[1] > 0 /\ r[2] > 0 /\ r[1] + r[2] <= HEAP_BASE
      /\ r[1] + r[2] <= KernelPages
      /\ RangeOf(r) = r[1] .. r[1] + r[2] - 1 /\ RangeOf(r) \in Ranges
      /\ RangeOf(r) \cap Available = {}
  <2>1. r \in Nat \X Nat /\ r[1] > 0 /\ r[2] > 0 /\ RangeOf(r) \cap Available = {}
    BY MemoryAssumption
  <2> QED BY <2>1, NamedRangesAreIntervals, CallNumbers
<1>2. BeginMapIdentity("map_identity", r) /\ booted' = booted /\ pc = "idle"
  BY DEF map_identity
<1>3. /\ PhysicalInv' /\ MEMORY' = MEMORY \cup RangeOf(r)
      /\ UNCHANGED <<pd, pte, owned, lost>>
      /\ Frames' /\ Tables' /\ \A p \in Pages : Client(p) => Client(p)'
      /\ call.op = "none" /\ pc' = "virtual_map" /\ call'.op = "map_identity"
      /\ call'.frame = call'.base /\ call'.base = r[1] /\ call'.count = r[2]
      /\ call'.done = 0
      /\ call' \in [op : {"none", "boot", "alloc", "alloc_user", "map", "map_identity", "free"},
                    base : 0 .. PAGES, count : 0 .. PAGES, done : 0 .. PAGES, frame : Pages]
      /\ InFlight' = RangeOf(r) /\ CallPages' = RangeOf(r) /\ Rest' = RangeOf(r)
      /\ NoFrameLeaks'
  BY <1>1, <1>2, BeginsMapIdentity
<1>4. MemoryTypeOK'
  BY <1>2, <1>3 DEF MemoryTypeOK, MemoryInv, PhysicalInv
<1>5. CallShape'
  BY <1>1, <1>3, CallNumbers DEF CallShape
<1>6. CallPlace'
  BY <1>1, <1>3 DEF CallPlace
<1>7. CallProgress'
  BY <1>3 DEF CallProgress
<1>8. BootImageMapped' /\ BootProgress'
  BY <1>2, <1>3 DEF MemoryInv, BootImageMapped, BootProgress, Booting
<1>9. \A p \in owned' : Client(p)'
  BY <1>3 DEF MemoryInv, MemoryTypeOK
<1> QED BY <1>3, <1>4, <1>5, <1>6, <1>7, <1>8, <1>9 DEF MemoryInv

\* Page zero was never mapped, so memory_initialize only withholds its frame.
LEMMA BootPageZeroKeepsInv ==
  MemoryInv /\ BootPageZero => MemoryInv' /\ UNCHANGED <<pd, pte, owned>>
<1> SUFFICES ASSUME MemoryInv, BootPageZero PROVE MemoryInv' /\ UNCHANGED <<pd, pte, owned>>
  OBVIOUS
<1>1. /\ pc = "boot" /\ pc' = "idle" /\ booted = Len(BootRanges)
      /\ UNCHANGED <<panicked, pd, call, booted, owned, lost>>
      /\ MEMORY' = MEMORY \cup {0} /\ mark_used({0}) /\ handed' = handed
      /\ call = NoCall /\ call.op = "none"
  BY DEF BootPageZero, physical_set_used, mark_used, MemoryInv, CallShape, NoCall, Call
<1>2. pte' = pte
  BY DEF BootPageZero, MemoryInv, MemoryTypeOK, Frames, Mapped
<1>3. PhysicalInv'
  <2>1. {0} \in SUBSET Pages /\ handed' \in SUBSET (handed \cup {0}) /\ panicked' \in BOOLEAN
    BY <1>1, CallNumbers DEF MemoryInv, PhysicalInv, PhysicalTypeOK, Pages
  <2> QED BY <1>1, <2>1, MarkUsedKeepsInv DEF MemoryInv
<1>4. Frames' /\ Tables' /\ \A p \in Pages : Client(p) => Client(p)'
  BY <1>1, <1>2, MarkingKeepsMappings
<1>5. MemoryTypeOK'
  BY <1>1, <1>2, <1>3 DEF MemoryInv, MemoryTypeOK, PhysicalInv
<1>6. CallShape' /\ CallPlace' /\ CallProgress'
  BY <1>1 DEF MemoryInv, CallShape, CallPlace, CallProgress
<1>7. BootImageMapped' /\ BootProgress'
  BY <1>1, <1>2 DEF MemoryInv, BootImageMapped, BootProgress, Booting
<1>8. \A p \in owned' : Client(p)'
  BY <1>1, <1>4 DEF MemoryInv, MemoryTypeOK
<1>9. NoFrameLeaks'
  BY <1>1, <1>2 DEF MemoryInv, NoFrameLeaks, InFlight
<1> QED BY <1>1, <1>2, <1>3, <1>4, <1>5, <1>6, <1>7, <1>8, <1>9 DEF MemoryInv
-----------------------------------------------------------------------------
(* alloc() and map().                                                      *)

\* The frames physical_alloc takes: offered by the boot loader, free until
\* now, mapped by nobody and not frame zero.
LEMMA AllocFrames ==
  ASSUME MemoryInv, ~Booting, NEW n \in 1 .. PAGES, physical_alloc(n),
         UNCHANGED <<pd, pte>>, panicked' = panicked
  PROVE  LET b == AllocBase(n) IN
         /\ b \in Pages /\ b + n <= PAGES /\ Run(b, n) = b .. b + n - 1
         /\ MEMORY' = MEMORY \cup Run(b, n)
         /\ \A F : F = Run(b, n) => Fresh(F)'
         /\ PhysicalInv' /\ Frames' /\ Tables'
         /\ \A p \in Pages : Client(p) => Client(p)'
<1> DEFINE b == AllocBase(n)
<1>1. b \in Candidates(n) /\ Run(b, n) \in SUBSET Pages
  BY AllocBaseIsCandidate DEF physical_alloc, MemoryInv
<1>2. Run(b, n) \cap MEMORY = {}
  BY <1>1 DEF Candidates
<1>3. b \in Pages /\ b + n < TOTAL_MEMORY
  BY <1>1, CandidatesAreFindable DEF MemoryInv
<1>4. mark_used(Run(b, n)) /\ handed' = handed \cup Run(b, n)
  BY DEF physical_alloc
<1> HIDE DEF b
<1>5. b + n <= PAGES
  BY <1>3, PhysicalAssumption DEF Pages
<1>6. Run(b, n) = b .. b + n - 1
  BY <1>3, <1>5, RunIsInterval, PhysicalAssumption
<1>7. MEMORY' = MEMORY \cup Run(b, n)
  BY <1>4 DEF mark_used
<1>8. PhysicalInv'
  <2>1. handed' \in SUBSET (handed \cup Run(b, n)) /\ panicked' \in BOOLEAN
    BY <1>4 DEF MemoryInv, PhysicalInv, PhysicalTypeOK
  <2> QED BY <1>1, <1>4, <2>1, MarkUsedKeepsInv DEF MemoryInv
<1>9. Frames' /\ Tables' /\ \A p \in Pages : Client(p) => Client(p)'
  BY <1>7, MarkingKeepsMappings
<1>10. ASSUME NEW F, F = Run(b, n) PROVE Fresh(F)'
  <2>1. F \subseteq Available
    BY <1>1, <1>2, <1>10 DEF MemoryInv, PhysicalInv, ReservedStaysUsed
  <2>2. 0 \notin F
    BY <1>2, <1>10 DEF MemoryInv, BootProgress
  <2>3. \A p \in Pages : pte'[p] \notin F
    BY <1>1, <1>2, <1>10 DEF MemoryInv, Frames, Mapped, Pages, NotPresent
  <2> QED BY <1>7, <1>10, <2>1, <2>2, <2>3 DEF Fresh
<1> QED BY <1>3, <1>5, <1>6, <1>7, <1>8, <1>9, <1>10 DEF b

\* A client asks for pages: the frames are taken, no page maps them yet.
LEMMA AllocKeepsInv ==
  ASSUME MemoryInv, NEW n \in 1 .. MaxRequest, NEW user \in BOOLEAN, alloc(user, n)
  PROVE  MemoryInv'
<1>0. PICK b, op : b = AllocBase(n) /\ op = IF user THEN "alloc_user" ELSE "alloc"
  OBVIOUS
<1>1. /\ pc = "idle" /\ pc' = "virtual_alloc" /\ call = NoCall /\ call.op = "none"
      /\ call' = Call(op, 0, n, b) /\ op \in {"alloc", "alloc_user"}
      /\ UNCHANGED <<panicked, pd, pte, booted, owned, lost>>
      /\ physical_alloc(n) /\ ~Booting
  BY <1>0 DEF alloc, pagingVars, MemoryInv, CallShape, NoCall, Call, Booting
<1>2. n \in 1 .. PAGES /\ n \in Nat
  BY MemoryAssumption, PhysicalAssumption
<1>3. /\ b \in Pages /\ b + n <= PAGES /\ Run(b, n) = b .. b + n - 1
      /\ MEMORY' = MEMORY \cup Run(b, n)
      /\ \A F : F = Run(b, n) => Fresh(F)'
      /\ PhysicalInv' /\ Frames' /\ Tables'
      /\ \A p \in Pages : Client(p) => Client(p)'
  BY <1>0, <1>1, <1>2, AllocFrames
<1>4. /\ call'.op = op /\ call'.base = 0 /\ call'.count = n /\ call'.done = 0 /\ call'.frame = b
      /\ call' \in [op : {"none", "boot", "alloc", "alloc_user", "map", "map_identity", "free"},
                    base : 0 .. PAGES, count : 0 .. PAGES, done : 0 .. PAGES, frame : Pages]
  BY <1>1, <1>2, <1>3, CallNumbers DEF Call, Pages
<1>5. MemoryTypeOK'
  BY <1>1, <1>3, <1>4 DEF MemoryInv, MemoryTypeOK, PhysicalInv
<1>6. CallShape' /\ CallPlace'
  BY <1>1, <1>2, <1>3, <1>4 DEF CallShape, CallPlace
<1>7. InFlight' = Run(b, n)
  BY <1>1, <1>2, <1>3, <1>4 DEF InFlight, Pages
<1>8. CallProgress'
  BY <1>1, <1>3, <1>4, <1>7 DEF CallProgress
<1>9. BootImageMapped' /\ BootProgress'
  BY <1>1, <1>3, <1>4 DEF MemoryInv, BootImageMapped, BootProgress, Booting
<1>10. \A p \in owned' : Client(p)'
  BY <1>1, <1>3 DEF MemoryInv, MemoryTypeOK
<1>11. NoFrameLeaks'
  <2>1. MEMORY \cap Available \subseteq {pte[p] : p \in Pages} \cup lost \cup {0}
    BY <1>1, IdleHoldsNoFrame
  <2> QED BY <1>1, <1>3, <1>7, <2>1 DEF NoFrameLeaks
<1> QED BY <1>3, <1>5, <1>6, <1>8, <1>9, <1>10, <1>11 DEF MemoryInv

\* virtual_alloc finds a run of unmapped pages for them.
LEMMA VirtualAllocKeepsInv == MemoryInv /\ virtual_alloc => MemoryInv'
<1> SUFFICES ASSUME MemoryInv, virtual_alloc PROVE MemoryInv'
  OBVIOUS
<1> DEFINE bases == VirtualBases(call.op = "alloc_user", call.count)
<1>1. /\ pc = "virtual_alloc" /\ UNCHANGED <<pd, pte, booted, owned, lost>>
      /\ UNCHANGED frameVars /\ UNCHANGED MEMORY
      /\ call.op \in {"alloc", "alloc_user"} /\ call.done = 0 /\ ~Booting
  BY DEF virtual_alloc, pagingVars, frameVars, MemoryInv, CallShape, Booting
<1>2. CASE bases = {}
  <2>1. UNCHANGED <<frameVars, pagingVars, callVars>> /\ panicked' \in BOOLEAN
    BY <1>2 DEF virtual_alloc, PANIC, callVars
  <2> QED BY <2>1, PanicKeepsInv
<1>3. CASE bases # {}
  <2>1. bases \in SUBSET Nat
    BY CallNumbers DEF VirtualBases
  <2>2. PICK b : b = Min(bases) /\ b \in bases
    BY <1>3, <2>1, MinIsLeast
  <2>3. /\ call' = [call EXCEPT !.base = b] /\ pc' = "virtual_map" /\ panicked' = panicked
    BY <1>3, <2>2 DEF virtual_alloc
  <2>4. /\ PAGES \in Nat \ {0} /\ KernelPages \in 1 .. PAGES /\ HEAP_BASE \in 1 .. KernelPages
        /\ call.count \in Nat /\ call.count <= PAGES
        /\ call.frame \in Pages /\ 0 < call.count /\ call.frame + call.count <= PAGES
    BY <1>1, CallNumbers DEF MemoryInv, CallShape
  <2>5. /\ b \in Nat /\ b + call.count <= PAGES
        /\ call.op = "alloc_user" => b >= KernelPages
        /\ call.op = "alloc" => b >= HEAP_BASE /\ b + call.count <= KernelPages
        /\ \A p \in b .. b + call.count - 1 : ~virtual_present(p)
    <3>1. CASE call.op = "alloc_user"
      <4>1. b \in KernelPages .. PAGES - call.count
        BY <2>2, <3>1 DEF VirtualBases
      <4>2. \A p \in b .. b + call.count - 1 : ~virtual_present(p)
        BY <2>2, <3>1 DEF VirtualBases
      <4> QED BY <2>4, <3>1, <4>1, <4>2
    <3>2. CASE call.op = "alloc"
      <4>1. b \in HEAP_BASE .. KernelPages - call.count
        BY <2>2, <3>2 DEF VirtualBases
      <4>2. \A p \in b .. b + call.count - 1 : ~virtual_present(p)
        BY <2>2, <3>2 DEF VirtualBases
      <4> QED BY <2>4, <3>2, <4>1, <4>2
    <3> QED BY <1>1, <3>1, <3>2
  <2>6. /\ call \in [op : {"none", "boot", "alloc", "alloc_user", "map", "map_identity", "free"},
                     base : 0 .. PAGES, count : 0 .. PAGES, done : 0 .. PAGES, frame : Pages]
    BY DEF MemoryInv, MemoryTypeOK
  <2>7. /\ call'.op = call.op /\ call'.base = b /\ call'.count = call.count
        /\ call'.done = 0 /\ call'.frame = call.frame
        /\ call' \in [op : {"none", "boot", "alloc", "alloc_user", "map", "map_identity", "free"},
                      base : 0 .. PAGES, count : 0 .. PAGES, done : 0 .. PAGES, frame : Pages]
    BY <1>1, <2>3, <2>4, <2>5, <2>6
  <2> HIDE DEF bases
  <2>8. PhysicalInv'
    BY <1>1, <2>3, SamePhysicalInv DEF MemoryInv, PhysicalInv, PhysicalTypeOK
  <2>9. Frames' /\ Tables' /\ \A p \in Pages : Client(p) => Client(p)'
    BY <1>1, MarkingKeepsMappings
  <2>10. MemoryTypeOK'
    BY <1>1, <2>3, <2>7, <2>8 DEF MemoryInv, MemoryTypeOK, PhysicalInv
  <2>11. CallShape' /\ CallPlace'
    BY <1>1, <2>3, <2>4, <2>5, <2>7 DEF CallShape, CallPlace
  <2>12. InFlight' = InFlight
    BY <1>1, <2>3, <2>7 DEF InFlight
  <2>13. \A p \in Rest' : ~Mapped(p)'
    <3>1. Rest' = b .. b + call.count - 1 /\ Rest' \subseteq Pages
      BY <2>4, <2>5, <2>7 DEF Rest, ThisPage, Pages
    <3>2. \A p \in Pages : Mapped(p) => virtual_present(p)
      BY DEF MemoryInv, Frames, virtual_present, Mapped
    <3> QED BY <1>1, <2>5, <3>1, <3>2 DEF Mapped
  <2>14. CallProgress'
    <3>1. InFlight' \subseteq MEMORY' /\ Fresh(InFlight)'
      BY <1>1, <2>12 DEF MemoryInv, CallProgress, Fresh
    <3>2. Done' = {}
      BY <2>5, <2>7 DEF Done, ThisPage
    <3> QED BY <1>1, <2>3, <2>7, <2>13, <3>1, <3>2 DEF CallProgress
  <2>15. BootImageMapped' /\ BootProgress'
    BY <1>1, <2>3, <2>7 DEF MemoryInv, BootImageMapped, BootProgress, Booting
  <2>16. \A p \in owned' : Client(p)'
    BY <1>1, <2>9 DEF MemoryInv, MemoryTypeOK
  <2>17. NoFrameLeaks'
    BY <1>1, <2>12 DEF MemoryInv, NoFrameLeaks
  <2> QED BY <2>8, <2>9, <2>10, <2>11, <2>14, <2>15, <2>16, <2>17 DEF MemoryInv
<1> QED BY <1>2, <1>3

\* A client asks for a range to be mapped: nothing is mapped yet.
LEMMA MapCallKeepsInv ==
  ASSUME MemoryInv, NEW n \in 1 .. MaxRequest, NEW b \in KernelPages .. PAGES - n, map(b, n)
  PROVE  MemoryInv'
<1>1. /\ pc = "idle" /\ pc' = "map" /\ call' = Call("map", b, n, 0) /\ call.op = "none"
      /\ UNCHANGED <<MEMORY, panicked, pd, pte, booted, owned, lost>> /\ UNCHANGED frameVars
      /\ ~Booting
  BY DEF map, pagingVars, physicalVars, frameVars, MemoryInv, CallShape, NoCall, Call, Booting
<1>2. /\ n \in Nat /\ n > 0 /\ b \in Nat /\ b + n <= PAGES /\ b >= KernelPages /\ PAGES \in Nat
      /\ 0 \in Pages
  BY RequestNumbers
<1>3. PhysicalInv'
  BY <1>1, SamePhysicalInv DEF MemoryInv, PhysicalInv, PhysicalTypeOK
<1>4. Frames' /\ Tables' /\ \A p \in Pages : Client(p) => Client(p)'
  BY <1>1, MarkingKeepsMappings
<1>5. /\ call'.op = "map" /\ call'.base = b /\ call'.count = n /\ call'.done = 0 /\ call'.frame = 0
      /\ call' \in [op : {"none", "boot", "alloc", "alloc_user", "map", "map_identity", "free"},
                    base : 0 .. PAGES, count : 0 .. PAGES, done : 0 .. PAGES, frame : Pages]
  BY <1>1, <1>2 DEF Call
<1>6. MemoryTypeOK'
  BY <1>1, <1>3, <1>5 DEF MemoryInv, MemoryTypeOK, PhysicalInv
<1>7. CallShape' /\ CallPlace'
  BY <1>1, <1>2, <1>5 DEF CallShape, CallPlace
<1>8. CallProgress'
  <2>1. Done' = {}
    BY <1>2, <1>5 DEF Done, ThisPage
  <2> QED BY <1>1, <1>5, <2>1 DEF CallProgress
<1>9. BootImageMapped' /\ BootProgress'
  BY <1>1, <1>5 DEF MemoryInv, BootImageMapped, BootProgress, Booting
<1>10. \A p \in owned' : Client(p)'
  BY <1>1, <1>4 DEF MemoryInv, MemoryTypeOK
<1>11. NoFrameLeaks'
  BY <1>1, <1>5 DEF MemoryInv, NoFrameLeaks, InFlight
<1> QED BY <1>3, <1>4, <1>6, <1>7, <1>8, <1>9, <1>10, <1>11 DEF MemoryInv

\* The loop of map() steps over what is mapped, and takes one frame for what
\* is not.
LEMMA MapPageKeepsInv == MemoryInv /\ MapPage => MemoryInv'
<1> SUFFICES ASSUME MemoryInv, MapPage PROVE MemoryInv'
  OBVIOUS
<1>0. PICK t : t = ThisPage
  OBVIOUS
<1>1. /\ pc = "map" /\ call.op = "map" /\ call.done < call.count /\ ~Booting
      /\ UNCHANGED <<pd, pte, booted, owned, lost>>
  BY DEF MapPage, pagingVars, MemoryInv, CallShape, Booting
<1>2. /\ PAGES \in Nat \ {0} /\ KernelPages \in 1 .. PAGES /\ HEAP_BASE \in 1 .. KernelPages
      /\ call.base \in Nat /\ call.count \in Nat /\ call.done \in Nat
      /\ call.frame \in Pages /\ call.base + call.count <= PAGES
      /\ t = call.base + call.done /\ t \in Pages /\ call.base >= KernelPages
  BY <1>0, <1>1, CallNumbers DEF MemoryInv, CallPlace
<1>3. call \in [op : {"none", "boot", "alloc", "alloc_user", "map", "map_identity", "free"},
                base : 0 .. PAGES, count : 0 .. PAGES, done : 0 .. PAGES, frame : Pages]
  BY DEF MemoryInv, MemoryTypeOK
<1>4. \A p \in Done : Client(p) /\ p \in Pages
  BY <1>1, <1>2 DEF MemoryInv, CallProgress, Client, Pages
<1>5. CASE virtual_present(ThisPage) /\ NextPage /\ UNCHANGED <<physicalVars, pc>>
  <2>1. UNCHANGED <<MEMORY, panicked>> /\ UNCHANGED frameVars /\ pc' = "map"
    BY <1>1, <1>5 DEF physicalVars, frameVars
  <2>2. PhysicalInv'
    BY <2>1, SamePhysicalInv DEF MemoryInv, PhysicalInv, PhysicalTypeOK
  <2>3. Frames' /\ Tables' /\ \A p \in Pages : Client(p) => Client(p)'
    BY <1>1, <2>1, MarkingKeepsMappings
  <2>4. /\ call'.op = "map" /\ call'.base = call.base /\ call'.count = call.count
        /\ call'.done = call.done + 1 /\ call'.frame = call.frame
        /\ call' \in [op : {"none", "boot", "alloc", "alloc_user", "map", "map_identity", "free"},
                      base : 0 .. PAGES, count : 0 .. PAGES, done : 0 .. PAGES, frame : Pages]
    BY <1>1, <1>2, <1>3, <1>5 DEF NextPage
  <2>5. Client(t)
    <3>1. Mapped(t)
      BY <1>0, <1>5 DEF virtual_present, Mapped
    <3>2. t >= KernelPages
      BY <1>2
    <3>3. t \notin BootPages /\ ~IsTable(t)
      BY <1>2, <3>2, BootPagesAreKernels DEF IsTable, MemoryInv, Tables, NotPresent
    <3>4. pte[t] \in Available
      BY <1>2, <3>1, <3>2 DEF MemoryInv, Frames
    <3>5. t \in HEAP_BASE .. PAGES - 1
      BY <1>2, <3>2 DEF Pages
    <3> QED BY <3>1, <3>3, <3>4, <3>5 DEF Client
  <2>6. MemoryTypeOK'
    BY <1>1, <2>1, <2>2, <2>4 DEF MemoryInv, MemoryTypeOK, PhysicalInv
  <2>7. CallShape' /\ CallPlace'
    BY <1>1, <1>2, <2>1, <2>4 DEF CallShape, CallPlace
  <2>8. CallProgress'
    <3>1. Done' = Done \cup {t}
      BY <1>0, <1>2, <2>4 DEF Done, ThisPage
    <3>2. \A p \in Done' : Client(p)'
      BY <1>2, <1>4, <2>3, <2>5, <3>1
    <3> QED BY <2>1, <2>4, <3>2 DEF CallProgress
  <2>9. BootImageMapped' /\ BootProgress'
    BY <1>1, <2>1, <2>4 DEF MemoryInv, BootImageMapped, BootProgress, Booting
  <2>10. \A p \in owned' : Client(p)'
    BY <1>1, <2>3 DEF MemoryInv, MemoryTypeOK
  <2>11. NoFrameLeaks'
    BY <1>1, <2>1 DEF MemoryInv, NoFrameLeaks, InFlight
  <2> QED BY <2>2, <2>3, <2>6, <2>7, <2>8, <2>9, <2>10, <2>11 DEF MemoryInv
<1>6. CASE /\ ~virtual_present(ThisPage) /\ physical_alloc(1)
           /\ call' = [call EXCEPT !.frame = AllocBase(1)]
           /\ pc' = "virtual_map" /\ UNCHANGED panicked
  <2>0. PICK b : b = AllocBase(1)
    OBVIOUS
  <2>1. 1 \in 1 .. PAGES
    BY <1>2
  <2>2. /\ b \in Pages /\ Run(b, 1) = b .. b
        /\ MEMORY' = MEMORY \cup Run(b, 1)
        /\ \A F : F = Run(b, 1) => Fresh(F)'
        /\ PhysicalInv' /\ Frames' /\ Tables'
        /\ \A p \in Pages : Client(p) => Client(p)'
    BY <1>1, <1>6, <2>0, <2>1, AllocFrames DEF Pages
  <2>3. /\ call'.op = "map" /\ call'.base = call.base /\ call'.count = call.count
        /\ call'.done = call.done /\ call'.frame = b
        /\ call' \in [op : {"none", "boot", "alloc", "alloc_user", "map", "map_identity", "free"},
                      base : 0 .. PAGES, count : 0 .. PAGES, done : 0 .. PAGES, frame : Pages]
    BY <1>1, <1>3, <1>6, <2>0, <2>2
  <2>4. MemoryTypeOK'
    BY <1>1, <1>6, <2>2, <2>3 DEF MemoryInv, MemoryTypeOK, PhysicalInv
  <2>5. CallShape' /\ CallPlace'
    BY <1>1, <1>2, <1>6, <2>3 DEF CallShape, CallPlace
  <2>6. InFlight' = {b} /\ Run(b, 1) = {b}
    BY <1>6, <2>2, <2>3 DEF InFlight, Pages
  <2>7. ASSUME NEW p, p = ThisPage' PROVE ~Mapped(p)'
    <3>1. p = t
      BY <1>0, <2>3, <2>7 DEF ThisPage
    <3>2. ~Mapped(t)
      BY <1>0, <1>2, <1>6 DEF MemoryInv, Frames, virtual_present, Mapped
    <3> QED BY <1>1, <3>1, <3>2 DEF Mapped
  <2>8. CallProgress'
    <3>1. Done' = Done
      BY <2>3 DEF Done, ThisPage
    <3>2. InFlight' \subseteq MEMORY' /\ Fresh(InFlight)'
      BY <2>2, <2>6
    <3>3. \A p \in Done' : Client(p)'
      BY <1>4, <2>2, <3>1
    <3>4. ~Mapped(ThisPage)'
      BY <2>7 DEF Mapped
    <3> QED BY <1>6, <2>3, <3>2, <3>3, <3>4 DEF CallProgress
  <2>9. BootImageMapped' /\ BootProgress'
    BY <1>1, <1>6, <2>2, <2>3 DEF MemoryInv, BootImageMapped, BootProgress, Booting
  <2>10. \A p \in owned' : Client(p)'
    BY <1>1, <2>2 DEF MemoryInv, MemoryTypeOK
  <2>11. NoFrameLeaks'
    BY <1>1, <2>2, <2>6 DEF MemoryInv, NoFrameLeaks, InFlight
  <2> QED BY <2>2, <2>4, <2>5, <2>8, <2>9, <2>10, <2>11 DEF MemoryInv
<1>7. CASE ~virtual_present(ThisPage) /\ physical_alloc_panic(1) /\ UNCHANGED <<pc, call>>
  <2>1. UNCHANGED <<frameVars, pagingVars, callVars>> /\ panicked' \in BOOLEAN
    BY <1>1, <1>7 DEF physical_alloc_panic, PANIC, pagingVars, callVars
  <2> QED BY <2>1, PanicKeepsInv
<1> QED BY <1>5, <1>6, <1>7 DEF MapPage

\* map() returns: its client holds the whole range, what was mapped before
\* the call included.
LEMMA MapReturnKeepsInv == MemoryInv /\ MapReturn => MemoryInv'
<1> SUFFICES ASSUME MemoryInv, MapReturn PROVE MemoryInv'
  OBVIOUS
<1>1. /\ pc = "map" /\ call.op = "map" /\ call.done = call.count /\ pc' = "idle"
      /\ call' = NoCall /\ owned' = owned \cup CallPages
      /\ UNCHANGED <<MEMORY, panicked, pd, pte, booted, lost>> /\ UNCHANGED frameVars
  BY DEF MapReturn, Return, pagingVars, physicalVars, frameVars, MemoryInv, CallShape
<1>2. PhysicalInv'
  BY <1>1, SamePhysicalInv DEF MemoryInv, PhysicalInv, PhysicalTypeOK
<1>3. Frames' /\ Tables' /\ \A p \in Pages : Client(p) => Client(p)'
  BY <1>1, MarkingKeepsMappings
<1>4. \A p \in owned' : Client(p)' /\ p \in Pages
  <2>1. Done = CallPages
    BY <1>1, CallNumbers DEF Done, CallPages
  <2>2. \A p \in Done : Client(p) /\ p \in Pages
    BY <1>1, CallNumbers DEF MemoryInv, CallProgress, Client, Pages
  <2> QED BY <1>1, <1>3, <2>1, <2>2 DEF MemoryInv, MemoryTypeOK
<1>5. /\ NoCall \in [op : {"none", "boot", "alloc", "alloc_user", "map", "map_identity", "free"},
                     base : 0 .. PAGES, count : 0 .. PAGES, done : 0 .. PAGES, frame : Pages]
      /\ NoCall.op = "none" /\ NoCall.base = 0 /\ NoCall.count = 0 /\ NoCall.done = 0
  BY CallNumbers DEF NoCall, Call, Pages
<1>6. MemoryTypeOK'
  BY <1>1, <1>2, <1>4, <1>5 DEF MemoryInv, MemoryTypeOK, PhysicalInv
<1>7. CallShape' /\ CallPlace' /\ CallProgress'
  BY <1>1, <1>5, CallNumbers DEF CallShape, CallPlace, CallProgress
<1>8. BootImageMapped' /\ BootProgress'
  BY <1>1, <1>5 DEF MemoryInv, BootImageMapped, BootProgress, Booting
<1>9. NoFrameLeaks'
  BY <1>1 DEF MemoryInv, NoFrameLeaks, InFlight
<1> QED BY <1>2, <1>3, <1>4, <1>6, <1>7, <1>8, <1>9 DEF MemoryInv
-----------------------------------------------------------------------------
(* free().                                                                 *)

\* A client gives pages back: it no longer holds what the loop will unmap.
LEMMA FreeCallKeepsInv ==
  ASSUME MemoryInv, NEW n \in 1 .. MaxRequest, NEW b \in HEAP_BASE .. PAGES - n, free(b, n)
  PROVE  MemoryInv'
<1>1. /\ pc = "idle" /\ pc' = "free" /\ call' = Call("free", b, n, 0) /\ call.op = "none"
      /\ \A p \in b .. b + n - 1 : p \in owned \/ ~virtual_present(p)
      /\ owned' = owned \ b .. b + n - 1
      /\ UNCHANGED <<MEMORY, panicked, pd, pte, booted, lost>> /\ UNCHANGED frameVars
      /\ ~Booting
  BY DEF free, pagingVars, physicalVars, frameVars, MemoryInv, CallShape, NoCall, Call, Booting
<1>2. /\ n \in Nat /\ n > 0 /\ b \in Nat /\ b + n <= PAGES /\ b >= HEAP_BASE /\ PAGES \in Nat
      /\ 0 \in Pages
  BY RequestNumbers
<1>3. PhysicalInv'
  BY <1>1, SamePhysicalInv DEF MemoryInv, PhysicalInv, PhysicalTypeOK
<1>4. Frames' /\ Tables' /\ \A p \in Pages : Client(p) => Client(p)'
  BY <1>1, MarkingKeepsMappings
<1>5. /\ call'.op = "free" /\ call'.base = b /\ call'.count = n /\ call'.done = 0 /\ call'.frame = 0
      /\ call' \in [op : {"none", "boot", "alloc", "alloc_user", "map", "map_identity", "free"},
                    base : 0 .. PAGES, count : 0 .. PAGES, done : 0 .. PAGES, frame : Pages]
  BY <1>1, <1>2 DEF Call
<1>6. MemoryTypeOK'
  BY <1>1, <1>3, <1>5 DEF MemoryInv, MemoryTypeOK, PhysicalInv
<1>7. CallShape' /\ CallPlace'
  BY <1>1, <1>2, <1>5 DEF CallShape, CallPlace
<1>8. CallProgress'
  <2>1. Rest' = b .. b + n - 1 /\ Rest' \subseteq Pages
    BY <1>2, <1>5 DEF Rest, ThisPage, Pages
  <2>2. \A p \in Pages : Mapped(p) => virtual_present(p)
    BY DEF MemoryInv, Frames, virtual_present, Mapped
  <2>3. \A p \in Rest' : Mapped(p)' => Client(p)'
    BY <1>1, <1>4, <2>1, <2>2 DEF MemoryInv, Mapped
  <2> QED BY <1>1, <1>5, <2>1, <2>3 DEF CallProgress
<1>9. BootImageMapped' /\ BootProgress'
  BY <1>1, <1>5 DEF MemoryInv, BootImageMapped, BootProgress, Booting
<1>10. \A p \in owned' : Client(p)'
  BY <1>1, <1>4 DEF MemoryInv, MemoryTypeOK
<1>11. NoFrameLeaks'
  BY <1>1, <1>5 DEF MemoryInv, NoFrameLeaks, InFlight
<1> QED BY <1>3, <1>4, <1>6, <1>7, <1>8, <1>9, <1>10, <1>11 DEF MemoryInv

\* What one iteration of free() leaves behind, F the frame it gives back, if
\* the page had one.
LEMMA FreePageEffect ==
  ASSUME MemoryInv, FreePage
  PROVE  /\ PhysicalInv' /\ Frames' /\ Tables' /\ BootImageMapped'
         /\ ThisPage \in Pages /\ ThisPage \notin owned /\ 0 \in MEMORY'
         /\ \A p \in Pages : p = ThisPage => ~Mapped(p)'
         /\ \A p \in Pages : p # ThisPage => pte'[p] = pte[p] /\ (Client(p) => Client(p)')
         /\ \A m \in MEMORY' : m \in MEMORY /\ m # pte[ThisPage]
         /\ pte' \in [Pages -> Pages \cup {NotPresent}]
         /\ virtual_present(ThisPage) => pte[ThisPage] \in Available /\ pte[ThisPage] \in Pages
<1>0. PICK t : t = ThisPage
  OBVIOUS
<1>1. /\ pc = "free" /\ call.op = "free" /\ call.done < call.count /\ ~Booting
      /\ UNCHANGED <<panicked, pd, booted, owned, lost>> /\ 0 \in MEMORY
      /\ pte \in [Pages -> Pages \cup {NotPresent}] /\ pd \in [UserDirs -> Pages \cup {NotPresent}]
  BY DEF FreePage, MemoryInv, CallShape, Booting, BootProgress, MemoryTypeOK
<1>2. /\ PAGES \in Nat \ {0} /\ KernelPages \in 1 .. PAGES /\ HEAP_BASE \in 1 .. KernelPages
      /\ t \in Pages /\ t \in Rest
  BY <1>0, <1>1, CallNumbers DEF Rest
<1>3. (Mapped(t) => Client(t)) /\ t \notin owned
  BY <1>1, <1>2 DEF MemoryInv, CallProgress
<1>4. CASE ~virtual_present(ThisPage)
  <2>1. UNCHANGED <<MEMORY, pte>> /\ UNCHANGED frameVars
    BY <1>4 DEF FreePage, frameVars
  <2>2. PhysicalInv'
    BY <1>1, <2>1, SamePhysicalInv DEF MemoryInv, PhysicalInv, PhysicalTypeOK
  <2>3. Frames' /\ Tables' /\ \A p \in Pages : Client(p) => Client(p)'
    BY <1>1, <2>1, MarkingKeepsMappings
  <2>4. ~Mapped(t)
    BY <1>0, <1>2, <1>4 DEF MemoryInv, Frames, virtual_present, Mapped
  <2>5. NotPresent \notin MEMORY
    BY <1>2 DEF MemoryInv, PhysicalInv, PhysicalTypeOK, Pages, NotPresent
  <2>6. BootImageMapped'
    BY <1>1, <2>1 DEF MemoryInv, BootImageMapped, Booting
  <2> QED BY <1>0, <1>1, <1>2, <1>3, <1>4, <2>1, <2>2, <2>3, <2>4, <2>5, <2>6 DEF Mapped
<1>5. CASE virtual_present(ThisPage)
  <2>0. PICK f : f = pte[t]
    OBVIOUS
  <2>1. /\ physical_set_free({f}) /\ pte' = [pte EXCEPT ![t] = NotPresent]
        /\ MEMORY' = MEMORY \ {f}
    BY <1>0, <1>5, <2>0 DEF FreePage, physical_set_free
  <2>2. Client(t) /\ Mapped(t)
    BY <1>0, <1>3, <1>5 DEF virtual_present, Mapped
  <2>3. /\ f \in Available /\ f \in Pages /\ f # NotPresent /\ f # 0
        /\ t \notin BootPages /\ ~IsTable(t)
        /\ \A p \in Pages : pte[p] = f => p = t
    BY <1>1, <1>2, <2>0, <2>2 DEF Client, Mapped, MemoryInv, Frames
  <2>4. \A p \in Pages : pte'[p] = IF p = t THEN NotPresent ELSE pte[p]
    BY <1>1, <2>1
  <2>5. pte' \in [Pages -> Pages \cup {NotPresent}]
    BY <1>1, <2>1
  <2>6. PhysicalInv'
    BY <1>1, <2>1, <2>3, SetFreeKeepsInv DEF MemoryInv, PhysicalInv, PhysicalTypeOK
  <2>7. Frames'
    <3>1. \A p \in Pages : DirPresent(p)' <=> DirPresent(p)
      BY <1>1 DEF DirPresent
    <3>2. ASSUME NEW p \in Pages, Mapped(p)'
          PROVE  p # t /\ pte'[p] = pte[p] /\ pte[p] # f /\ Mapped(p)
      BY <2>3, <2>4, <3>2 DEF Mapped
    <3>3. \A p \in Pages : pte'[p] # 0
      BY <2>4 DEF MemoryInv, Frames, NotPresent
    <3>4. \A p, q \in Pages : Mapped(p)' /\ pte'[p] = pte'[q] => p = q
      <4>1. ASSUME NEW p \in Pages, NEW q \in Pages, Mapped(p)', pte'[p] = pte'[q] PROVE p = q
        <5>1. Mapped(q)'
          BY <4>1 DEF Mapped
        <5>2. Mapped(p) /\ pte[p] = pte[q]
          BY <3>2, <4>1, <5>1
        <5> QED BY <5>2 DEF MemoryInv, Frames
      <4> QED BY <4>1
    <3>5. ~Mapped(0)'
      BY <1>2, <3>2 DEF MemoryInv, Frames, Pages
    <3> QED BY <2>1, <3>1, <3>2, <3>3, <3>4, <3>5 DEF MemoryInv, Frames
  <2>8. Tables'
    <3>1. ASSUME NEW d \in UserDirs, pd[d] # NotPresent
          PROVE  pd[d] \in MEMORY' /\ pte'[pd[d]] = pd[d] /\ pd[d] \in 1 .. KernelPages - 1
      <4>1. pd[d] \in MEMORY /\ pte[pd[d]] = pd[d] /\ pd[d] \in 1 .. KernelPages - 1 /\ pd[d] \in Pages
        BY <1>1, <3>1 DEF MemoryInv, Tables
      <4>2. pd[d] # t
        BY <2>3 DEF IsTable
      <4> QED BY <2>1, <2>3, <2>4, <4>1, <4>2
    <3> QED BY <1>1, <3>1 DEF MemoryInv, Tables
  <2>9. BootImageMapped'
    <3>1. ASSUME NEW k \in 1 .. booted, NEW p \in RangeOf(BootRanges[k])
          PROVE  p \in MEMORY' /\ pte'[p] = p
      <4>1. p \in MEMORY /\ pte[p] = p /\ p \in Pages
        BY <1>1 DEF MemoryInv, BootImageMapped, PhysicalInv, PhysicalTypeOK
      <4>2. p \in BootPages
        <5>1. k \in DOMAIN BootRanges
          BY <1>1, MemoryAssumption DEF MemoryInv, BootProgress
        <5> QED BY <5>1 DEF BootPages
      <4> QED BY <2>1, <2>3, <2>4, <4>1, <4>2
    <3> QED BY <1>1, <3>1 DEF BootImageMapped
  <2>10. \A p \in Pages : p # t => pte'[p] = pte[p] /\ (Client(p) => Client(p)')
    BY <1>1, <2>4 DEF Client, Mapped, IsTable
  <2> QED BY <1>0, <1>1, <1>2, <1>3, <2>0, <2>1, <2>3, <2>4, <2>5, <2>6, <2>7, <2>8, <2>9, <2>10 DEF Mapped
<1> QED BY <1>4, <1>5

\* The iteration as a whole.
LEMMA FreePageKeepsInv == MemoryInv /\ FreePage => MemoryInv'
<1> SUFFICES ASSUME MemoryInv, FreePage PROVE MemoryInv'
  OBVIOUS
<1>0. PICK t : t = ThisPage
  OBVIOUS
<1>1. /\ PhysicalInv' /\ Frames' /\ Tables' /\ BootImageMapped'
      /\ t \in Pages /\ t \notin owned /\ 0 \in MEMORY'
      /\ ~Mapped(t)'
      /\ \A p \in Pages : p # t => pte'[p] = pte[p] /\ (Client(p) => Client(p)')
      /\ \A m \in MEMORY' : m \in MEMORY /\ m # pte[t]
      /\ pte' \in [Pages -> Pages \cup {NotPresent}]
  BY <1>0, FreePageEffect
<1>2. /\ pc = "free" /\ call.op = "free" /\ call.done < call.count /\ ~Booting
      /\ UNCHANGED <<panicked, pd, booted, owned, lost>>
      /\ call \in [op : {"none", "boot", "alloc", "alloc_user", "map", "map_identity", "free"},
                   base : 0 .. PAGES, count : 0 .. PAGES, done : 0 .. PAGES, frame : Pages]
  BY DEF FreePage, MemoryInv, CallShape, Booting, MemoryTypeOK
<1>3. /\ PAGES \in Nat \ {0} /\ call.base \in Nat /\ call.count \in Nat /\ call.done \in Nat
      /\ call.base + call.count <= PAGES /\ call.base >= HEAP_BASE
      /\ t = call.base + call.done /\ 0 \in Pages
  BY <1>0, <1>2, CallNumbers DEF MemoryInv, CallPlace, Pages
<1>4. \A p \in owned' : Client(p)'
  BY <1>1, <1>2 DEF MemoryInv, MemoryTypeOK
<1>5. NoFrameLeaks'
  <2>1. ASSUME NEW m \in MEMORY' \cap Available PROVE m \in {pte'[p] : p \in Pages} \cup lost \cup {0}
    <3>1. m \in MEMORY \cap Available /\ m # pte[t]
      BY <1>1
    <3>2. m \in {pte[p] : p \in Pages} \cup lost \cup {0}
      BY <1>2, <3>1 DEF MemoryInv, NoFrameLeaks, InFlight
    <3> QED BY <1>1, <3>1, <3>2
  <2> QED BY <1>2, <2>1 DEF NoFrameLeaks
<1>6. CASE ~LastPage /\ NextPage /\ UNCHANGED pc
  <2>1. /\ call'.op = "free" /\ call'.base = call.base /\ call'.count = call.count
        /\ call'.done = call.done + 1 /\ call'.frame = call.frame
        /\ call.done + 1 < call.count
        /\ call' \in [op : {"none", "boot", "alloc", "alloc_user", "map", "map_identity", "free"},
                      base : 0 .. PAGES, count : 0 .. PAGES, done : 0 .. PAGES, frame : Pages]
    BY <1>2, <1>3, <1>6 DEF NextPage, LastPage
  <2>2. Rest' = Rest \ {t} /\ Rest \subseteq Pages
    BY <1>0, <1>3, <2>1 DEF Rest, ThisPage, Pages
  <2>3. MemoryTypeOK'
    BY <1>1, <1>2, <1>6, <2>1 DEF MemoryInv, MemoryTypeOK, PhysicalInv
  <2>4. CallShape' /\ CallPlace'
    BY <1>2, <1>3, <1>6, <2>1 DEF CallShape, CallPlace
  <2>5. CallProgress'
    <3>1. \A p \in Rest' : Mapped(p)' => Client(p)'
      BY <1>1, <1>2, <2>2 DEF MemoryInv, CallProgress, Mapped
    <3>2. owned' \cap Rest' = {}
      BY <1>2, <2>2 DEF MemoryInv, CallProgress
    <3> QED BY <1>2, <1>6, <2>1, <3>1, <3>2 DEF CallProgress
  <2>6. BootProgress'
    BY <1>1, <1>2, <1>6, <2>1 DEF MemoryInv, BootProgress, Booting
  <2> QED BY <1>1, <1>4, <1>5, <2>3, <2>4, <2>5, <2>6 DEF MemoryInv
<1>7. CASE LastPage /\ Return
  <2>1. /\ call' \in [op : {"none", "boot", "alloc", "alloc_user", "map", "map_identity", "free"},
                      base : 0 .. PAGES, count : 0 .. PAGES, done : 0 .. PAGES, frame : Pages]
        /\ call'.op = "none" /\ call'.base = 0 /\ call'.count = 0 /\ call'.done = 0
        /\ call' = NoCall /\ pc' = "idle"
    BY <1>3, <1>7 DEF Return, NoCall, Call
  <2>2. MemoryTypeOK'
    BY <1>1, <1>2, <2>1 DEF MemoryInv, MemoryTypeOK, PhysicalInv
  <2>3. CallShape' /\ CallPlace' /\ CallProgress'
    BY <1>3, <2>1 DEF CallShape, CallPlace, CallProgress
  <2>4. BootProgress'
    BY <1>1, <1>2, <2>1 DEF MemoryInv, BootProgress, Booting
  <2> QED BY <1>1, <1>4, <1>5, <2>2, <2>3, <2>4 DEF MemoryInv
<1> QED BY <1>6, <1>7 DEF FreePage
-----------------------------------------------------------------------------
(* The theorems.                                                           *)

\* Every step preserves the invariant.
LEMMA MemoryNextInv == MemoryInv /\ [MemoryNext]_memoryVars => MemoryInv'
<1> SUFFICES ASSUME MemoryInv, [MemoryNext]_memoryVars PROVE MemoryInv'
  OBVIOUS
<1>1. CASE VirtualMapPage
  BY <1>1, VirtualMapPageKeepsInv
<1>2. CASE VirtualMapTable
  BY <1>2, VirtualMapTableKeepsInv
<1>3. CASE VirtualMapError
  BY <1>3, VirtualMapErrorKeepsInv
<1>4. CASE VirtualMapAssert
  BY <1>4, PanicKeepsInv DEF VirtualMapAssert, PANIC
<1>5. CASE BootMap
  BY <1>5, BootMapKeepsInv
<1>6. CASE BootPageZero
  BY <1>6, BootPageZeroKeepsInv
<1>7. CASE virtual_alloc
  BY <1>7, VirtualAllocKeepsInv
<1>8. CASE MapPage
  BY <1>8, MapPageKeepsInv
<1>9. CASE MapReturn
  BY <1>9, MapReturnKeepsInv
<1>10. CASE FreePage
  BY <1>10, FreePageKeepsInv
<1>11. ASSUME NEW n \in 1 .. MaxRequest, alloc_panic(n) PROVE MemoryInv'
  <2>1. UNCHANGED <<frameVars, pagingVars, callVars>> /\ panicked' \in BOOLEAN
    BY <1>11 DEF alloc_panic, physical_alloc_panic, PANIC
  <2> QED BY <2>1, PanicKeepsInv
<1>12. ASSUME NEW n \in 1 .. MaxRequest, NEW user \in BOOLEAN, alloc(user, n) PROVE MemoryInv'
  BY <1>12, AllocKeepsInv
<1>13. ASSUME NEW n \in 1 .. MaxRequest, NEW b \in KernelPages .. PAGES - n, map(b, n)
       PROVE  MemoryInv'
  BY <1>13, MapCallKeepsInv
<1>14. ASSUME NEW n \in 1 .. MaxRequest, NEW b \in HEAP_BASE .. PAGES - n, free(b, n)
       PROVE  MemoryInv'
  BY <1>14, FreeCallKeepsInv
<1>15. ASSUME NEW r \in Devices, map_identity(r) PROVE MemoryInv'
  BY <1>15, MapIdentityKeepsInv
<1>16. CASE UNCHANGED memoryVars
  <2>1. UNCHANGED <<frameVars, pagingVars, callVars>> /\ panicked' \in BOOLEAN
    BY <1>16 DEF memoryVars, physicalVars, MemoryInv, PhysicalInv, PhysicalTypeOK
  <2> QED BY <2>1, PanicKeepsInv
<1>17. CASE KernelStep
  BY <1>1, <1>2, <1>3, <1>4, <1>5, <1>6, <1>7, <1>8, <1>9, <1>10, <1>17 DEF KernelStep
<1>18. CASE ClientCall
  BY <1>11, <1>12, <1>13, <1>14, <1>15, <1>18 DEF ClientCall
<1> QED BY <1>16, <1>17, <1>18 DEF MemoryNext

\* The invariant holds in every reachable state, so the variables keep their
\* types and no table, frame or page is ever in two hands.
THEOREM MemorySafety == MemorySpec => []MemoryInv
  BY MemoryInitInv, MemoryNextInv, PTL DEF MemorySpec

\* A frame some page maps is marked used and mapped by no other page.
THEOREM FramesStayPrivate == MemorySpec => []FramesArePrivate
<1>1. MemoryInv => FramesArePrivate
  BY DEF MemoryInv, Frames, FramesArePrivate, Mapped
<1> QED BY <1>1, MemorySafety, PTL

\* The kernel finds each page table at its physical address, out of clients'
\* reach, and no page is mapped without one.
THEOREM PageTablesStayReachable == MemorySpec => []PageTablesAreReachable
<1>1. ASSUME MemoryInv PROVE PageTablesAreReachable
  <2>1. ASSUME NEW d \in UserDirs, pd[d] # NotPresent
        PROVE  /\ pd[d] \in MEMORY /\ pte[pd[d]] = pd[d] /\ pd[d] \notin owned
               /\ \A e \in UserDirs : pd[e] = pd[d] => e = d
    BY <1>1, <2>1 DEF MemoryInv, Tables, Client, IsTable
  <2>2. \A p \in Pages : Mapped(p) => DirPresent(p)
    BY <1>1 DEF MemoryInv, Frames
  <2> QED BY <2>1, <2>2 DEF PageTablesAreReachable
<1> QED BY <1>1, MemorySafety, PTL

\* The boot image stays mapped on itself in memory that is never given out,
\* and page zero unmapped, whatever clients free.
THEOREM BootLayoutStays == MemorySpec => []BootLayoutIsKept
<1>1. ASSUME MemoryInv PROVE BootLayoutIsKept
  <2>1. CASE Booting
    BY <2>1 DEF Booting, BootLayoutIsKept
  <2>2. CASE ~Booting
    BY <1>1, <2>2, BootImageIsMapped DEF BootLayoutIsKept, MemoryInv, Frames
  <2> QED BY <2>1, <2>2
<1> QED BY <1>1, MemorySafety, PTL

\* Every frame in use is mapped, in the hands of the call under way, frame
\* zero or one a failed map() forgot.
THEOREM FramesDoNotLeak == MemorySpec => []NoFrameLeaks
<1>1. MemoryInv => NoFrameLeaks
  BY DEF MemoryInv
<1> QED BY <1>1, MemorySafety, PTL

\* The mapping of a page a client holds does not change while it holds it.
LEMMA StepKeepsOwnedMappings ==
  ASSUME MemoryInv, MemoryNext, NEW p \in owned, p \in owned'
  PROVE  pte'[p] = pte[p]
<1>1. Client(p) /\ Mapped(p) /\ p \in Pages
  BY DEF MemoryInv, MemoryTypeOK, Client
<1>2. CASE VirtualMapPage
  <2>1. pc = "virtual_map" /\ MapsThisPage({})
    BY <1>2 DEF VirtualMapPage, MapsThisPage, physicalVars, frameVars, MemoryInv, MemoryTypeOK
  <2> QED BY <1>1, <2>1, MapKeepsMappings
<1>3. CASE VirtualMapTable
  <2>1. pc = "virtual_map" /\ MapsThisPage({Min(IdentityPages)})
    BY <1>3, NewTableMapsThisPage DEF VirtualMapTable
  <2> QED BY <1>1, <2>1, MapKeepsMappings
<1>4. CASE FreePage
  <2>1. ThisPage \notin owned /\ \A q \in Pages : q # ThisPage => pte'[q] = pte[q]
    BY <1>4, FreePageEffect
  <2> QED BY <1>1, <2>1
<1>5. CASE BootPageZero
  BY <1>5, BootPageZeroKeepsInv
<1>6. CASE VirtualMapError \/ VirtualMapAssert \/ BootMap \/ virtual_alloc \/ MapPage \/ MapReturn
  BY <1>6 DEF VirtualMapError, VirtualMapAssert, BootMap, BeginMapIdentity, virtual_alloc,
     MapPage, MapReturn, pagingVars
<1>7. CASE ClientCall
  BY <1>7 DEF ClientCall, alloc_panic, alloc, map, free, map_identity, BeginMapIdentity, pagingVars
<1> QED BY <1>2, <1>3, <1>4, <1>5, <1>6, <1>7 DEF MemoryNext, KernelStep

\* A page that comes into a client's hands is present, and keeps its frame
\* for as long as the client holds it.
THEOREM OwnedMappingsStay == MemorySpec => OwnedMappingsAreStable
<1>1. ASSUME MemoryInv, MemoryInv', MemoryNext
      PROVE  \A p \in owned' : virtual_present(p)' /\ (p \in owned => pte'[p] = pte[p])
  <2>1. ASSUME NEW p \in owned' PROVE virtual_present(p)'
    <3>1. p \in Pages /\ Mapped(p)' /\ DirPresent(p)'
      BY <1>1 DEF MemoryInv, MemoryTypeOK, Client, Frames
    <3> QED BY <3>1 DEF virtual_present, Mapped
  <2> QED BY <1>1, <2>1, StepKeepsOwnedMappings
<1>2. MemoryInv /\ MemoryInv' /\ [MemoryNext]_memoryVars
        => [\A p \in owned' :
              /\ virtual_present(p)'
              /\ p \in owned => pte'[p] = pte[p]]_memoryVars
  BY <1>1
<1> QED BY <1>2, MemorySafety, PTL DEF MemorySpec, OwnedMappingsAreStable

\* Each step of the memory manager is one call of the physical allocator, or
\* none.
LEMMA StepUsesAllocator ==
  ASSUME MemoryInv, MemoryNext
  PROVE  [PhysicalNext]_physicalVars
<1>0. ~panicked /\ MaxRequest \in 1 .. PAGES /\ PAGES \in Nat \ {0}
  BY PhysicalAssumption, MemoryAssumption DEF MemoryNext
<1>1. ASSUME NEW x \in Pages PROVE {x} \in Ranges
  <2>1. Run(x, 1) = x .. x
    BY <1>0, RunIsInterval DEF Pages
  <2>2. Run(x, 1) = {x} /\ 1 \in 1 .. PAGES - x
    BY <1>0, <2>1 DEF Pages
  <2> QED BY <2>2 DEF Ranges
\* A panic of the paging code is one the allocator may have for a request
\* nothing can satisfy.
<1>2. ASSUME PANIC, UNCHANGED frameVars PROVE PhysicalNext
  <2>1. PAGES \in 1 .. PAGES
    BY <1>0
  <2>2. \A b \in Candidates(PAGES) : b \in Pages /\ b + PAGES < TOTAL_MEMORY
    BY <2>1, CandidatesAreFindable DEF MemoryInv
  <2>3. Candidates(PAGES) = {}
    BY <2>2, PhysicalAssumption DEF Pages
  <2> QED BY <1>0, <1>2, <2>1, <2>3 DEF PhysicalNext, physical_alloc_panic
<1>3. CASE VirtualMapPage \/ VirtualMapError \/ MapReturn
  BY <1>3 DEF VirtualMapPage, VirtualMapError, MapReturn
<1>4. CASE VirtualMapTable
  <2> DEFINE table == Min(IdentityPages)
  <2>1. table \in Pages
    <3>1. IdentityPages \in SUBSET Nat
      BY CallNumbers DEF IdentityPages
    <3>2. table \in IdentityPages
      BY <1>4, <3>1, MinIsLeast DEF VirtualMapTable
    <3> QED BY <3>2, IdentityPagesAreUnmapped
  <2>2. SetUsed({table})
    BY <1>4 DEF VirtualMapTable, SetUsed
  <2> QED BY <1>0, <1>1, <2>1, <2>2 DEF PhysicalNext
<1>5. CASE VirtualMapAssert
  BY <1>2, <1>5 DEF VirtualMapAssert
<1>6. CASE BootMap
  <2>1. booted + 1 \in DOMAIN BootRanges
    BY <1>6, NextRange DEF BootMap
  <2>2. PICK S \in Ranges : S = RangeOf(BootRanges[booted + 1])
    BY <2>1, NamedRangesAreIntervals
  <2>3. SetUsed(S)
    BY <1>6, <2>2 DEF BootMap, BeginMapIdentity, SetUsed
  <2> QED BY <1>0, <2>3 DEF PhysicalNext
<1>7. CASE BootPageZero
  <2>1. SetUsed({0}) /\ 0 \in Pages
    BY <1>0, <1>7 DEF BootPageZero, SetUsed, Pages
  <2> QED BY <1>0, <1>1, <2>1 DEF PhysicalNext
<1>8. CASE virtual_alloc
  <2>1. (PANIC \/ UNCHANGED panicked) /\ UNCHANGED frameVars
    BY <1>8 DEF virtual_alloc
  <2> QED BY <1>2, <2>1 DEF physicalVars
<1>9. CASE MapPage
  <2>1. \/ UNCHANGED physicalVars
        \/ physical_alloc(1) /\ UNCHANGED panicked
        \/ physical_alloc_panic(1)
    BY <1>9 DEF MapPage
  <2>2. 1 \in 1 .. PAGES
    BY <1>0
  <2> QED BY <1>0, <2>1, <2>2 DEF PhysicalNext, Allocate
<1>10. CASE FreePage
  <2>1. CASE virtual_present(ThisPage)
    <3>1. pte[ThisPage] \in Available /\ pte[ThisPage] \in Pages
      BY <1>10, <2>1, FreePageEffect
    <3>2. Free({pte[ThisPage]})
      BY <1>10, <2>1 DEF FreePage, Free
    <3> QED BY <1>0, <1>1, <3>1, <3>2 DEF PhysicalNext
  <2>2. CASE ~virtual_present(ThisPage)
    BY <1>10, <2>2 DEF FreePage, physicalVars
  <2> QED BY <2>1, <2>2
<1>11. CASE ClientCall
  <2>1. ASSUME NEW n \in 1 .. MaxRequest, alloc_panic(n) PROVE PhysicalNext
    BY <1>0, <2>1 DEF alloc_panic, PhysicalNext
  <2>2. ASSUME NEW n \in 1 .. MaxRequest, NEW user \in BOOLEAN, alloc(user, n)
        PROVE  PhysicalNext
    BY <1>0, <2>2 DEF alloc, PhysicalNext, Allocate
  <2>3. ASSUME NEW n \in 1 .. MaxRequest, NEW b, map(b, n) \/ free(b, n)
        PROVE  UNCHANGED physicalVars
    BY <2>3 DEF map, free
  <2>4. ASSUME NEW r \in Devices, map_identity(r) PROVE PhysicalNext
    <3>1. RangeOf(r) \in Ranges
      BY NamedRangesAreIntervals
    <3>2. SetUsed(RangeOf(r))
      BY <2>4 DEF map_identity, BeginMapIdentity, SetUsed
    <3> QED BY <1>0, <3>1, <3>2 DEF PhysicalNext
  <2> QED BY <1>11, <2>1, <2>2, <2>3, <2>4 DEF ClientCall
<1> QED BY <1>3, <1>4, <1>5, <1>6, <1>7, <1>8, <1>9, <1>10, <1>11 DEF MemoryNext, KernelStep

\* The memory manager stays within the contract of the physical allocator,
\* so what is proved of the allocator holds under it.
THEOREM MemoryUsesAllocator == MemorySpec => UsesPhysicalAllocator
<1>1. MemoryInit => PhysicalInit
  BY DEF MemoryInit
<1>2. MemoryInv /\ [MemoryNext]_memoryVars => [PhysicalNext]_physicalVars
  BY StepUsesAllocator DEF memoryVars
<1> QED BY <1>1, <1>2, MemorySafety, PTL DEF MemorySpec, UsesPhysicalAllocator, PhysicalSpec
=============================================================================
