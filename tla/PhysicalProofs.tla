--------------------------- MODULE PhysicalProofs ---------------------------
(***************************************************************************)
(* Theorems about the physical page allocator, for every number of pages   *)
(* and every memory map, and about the memory map get_bootdata keeps, with *)
(* the proofs TLAPS checks.                                                *)
(***************************************************************************)
EXTENDS Physical, Boot, Induction, SequenceTheorems

\* Every subset of the pages is finite, and its size is a natural number.
LEMMA PageSetsAreFinite ==
  ASSUME NEW S \in SUBSET Pages
  PROVE  IsFiniteSet(S) /\ Cardinality(S) \in Nat /\ Cardinality(S) <= PAGES
<1>1. IsFiniteSet(Pages) /\ Cardinality(Pages) = PAGES
  BY FS_Interval, PhysicalAssumption DEF Pages
<1> QED BY <1>1, FS_Subset, FS_CardinalityType

\* A range whose addresses do not wrap is an interval of pages.
LEMMA RunIsInterval ==
  ASSUME NEW b \in Pages, NEW n \in Nat, b + n <= PAGES
  PROVE  Run(b, n) = b .. b + n - 1
<1>1. \A i \in 0 .. n - 1 : (b + i) % PAGES = b + i
  BY PhysicalAssumption DEF Pages
<1>2. ASSUME NEW x \in b .. b + n - 1 PROVE x \in Run(b, n)
  <2>1. x - b \in 0 .. n - 1 /\ b + (x - b) = x
    BY DEF Pages
  <2> QED BY <1>1, <2>1 DEF Run
<1>3. ASSUME NEW x \in Run(b, n) PROVE x \in b .. b + n - 1
  BY <1>1 DEF Run, Pages
<1> QED BY <1>2, <1>3

\* Addresses wrap, so every range is a set of pages.
LEMMA RunInPages ==
  ASSUME NEW b \in Nat, NEW n \in Nat
  PROVE  Run(b, n) \subseteq Pages
  BY PhysicalAssumption DEF Run, Pages

\* Where best_bet lies after a range was marked: not below where it was, on
\* a page not just marked, and past marked pages only.
LEMMA BestBetAfterUse ==
  ASSUME NEW F \in SUBSET Pages, best_bet \in 0 .. PAGES
  PROVE  LET b == Min((best_bet .. PAGES) \ F) IN
         /\ b \in best_bet .. PAGES
         /\ b \notin F
         /\ \A p \in Pages : best_bet <= p /\ p < b => p \in F
<1> DEFINE C == (best_bet .. PAGES) \ F
<1>1. C \in SUBSET Nat /\ PAGES \in C
  BY PhysicalAssumption DEF Pages
<1>2. Min(C) \in C /\ \A x \in C : Min(C) <= x
  BY <1>1, MinIsLeast
<1> QED BY <1>1, <1>2, PhysicalAssumption DEF Pages

\* Where best_bet lies after a range was freed.
LEMMA BestBetAfterFree ==
  ASSUME NEW F \in SUBSET Pages, best_bet \in 0 .. PAGES
  PROVE  LET b == Min(F \cup {best_bet}) IN
         b \in 0 .. PAGES /\ b <= best_bet /\ \A p \in F : b <= p
<1> DEFINE C == F \cup {best_bet}
<1>1. C \in SUBSET Nat /\ best_bet \in C
  BY PhysicalAssumption DEF Pages
<1>2. Min(C) \in C /\ \A x \in C : Min(C) <= x
  BY <1>1, MinIsLeast
<1>3. \A p \in F : p \in C
  OBVIOUS
<1> HIDE DEF C
<1>4. Min(C) \in Nat /\ Min(C) <= best_bet /\ \A p \in F : Min(C) <= p
  BY <1>1, <1>2, <1>3
<1>5. Min(C) \in 0 .. PAGES
  BY <1>4, PhysicalAssumption
<1> QED BY <1>4, <1>5 DEF C
-----------------------------------------------------------------------------
PhysicalInv ==
  /\ PhysicalTypeOK
  /\ NoFreePageBelowBestBet
  /\ ReservedStaysUsed
  /\ UsedMemoryIsExact

\* Marking any set of pages keeps the invariant: the pages best_bet moves
\* past are the ones just marked, and only available pages can be fresh.
LEMMA MarkUsedKeepsInv ==
  ASSUME PhysicalInv, NEW S \in SUBSET Pages, mark_used(S),
         handed' \in SUBSET (handed \cup S), panicked' \in BOOLEAN
  PROVE  PhysicalInv'
<1> DEFINE fresh == S \ MEMORY
<1>1. /\ MEMORY' = MEMORY \cup S
      /\ USED_MEMORY' = (USED_MEMORY + Cardinality(fresh)) % PAGES
      /\ best_bet' = Min((best_bet .. PAGES) \ fresh)
  BY DEF mark_used
<1>2. fresh \in SUBSET Pages /\ fresh \subseteq Available
  BY DEF PhysicalInv, ReservedStaysUsed
<1>3. PhysicalTypeOK'
  <2>1. best_bet' \in 0 .. PAGES
    <3>1. best_bet \in 0 .. PAGES
      BY DEF PhysicalInv, PhysicalTypeOK
    <3>2. best_bet' \in best_bet .. PAGES
      BY <1>1, <1>2, <3>1, BestBetAfterUse
    <3> QED BY <3>1, <3>2, PhysicalAssumption
  <2>2. USED_MEMORY' \in Pages
    <3>1. Cardinality(fresh) \in Nat
      BY <1>2, PageSetsAreFinite
    <3> HIDE DEF fresh
    <3> QED BY <1>1, <3>1, PhysicalAssumption DEF PhysicalInv, PhysicalTypeOK, Pages
  <2>3. handed' \subseteq MEMORY'
    BY <1>1 DEF PhysicalInv, PhysicalTypeOK
  <2> QED BY <1>1, <2>1, <2>2, <2>3 DEF PhysicalInv, PhysicalTypeOK
<1>4. NoFreePageBelowBestBet'
  <2>1. \A p \in Pages : best_bet <= p /\ p < best_bet' => p \in fresh
    BY <1>1, <1>2, BestBetAfterUse DEF PhysicalInv, PhysicalTypeOK
  <2>2. ASSUME NEW p \in Pages, p < best_bet' PROVE p \in MEMORY'
    <3>1. CASE p < best_bet
      BY <1>1, <3>1 DEF PhysicalInv, NoFreePageBelowBestBet
    <3>2. CASE ~(p < best_bet)
      <4>1. best_bet <= p
        BY <3>2 DEF PhysicalInv, PhysicalTypeOK, Pages
      <4> QED BY <1>1, <2>1, <2>2, <4>1
    <3> QED BY <3>1, <3>2
  <2> QED BY <2>2 DEF NoFreePageBelowBestBet
<1>5. ReservedStaysUsed'
  BY <1>1 DEF PhysicalInv, ReservedStaysUsed
<1>6. UsedMemoryIsExact'
  <2> DEFINE old == MEMORY \cap Available
  <2>1. old \in SUBSET Pages /\ old \cup fresh \in SUBSET Available
    BY <1>2, PhysicalAssumption DEF PhysicalInv, PhysicalTypeOK
  <2>2. IsFiniteSet(old) /\ IsFiniteSet(fresh) /\ IsFiniteSet(Available)
    BY <1>2, <2>1, PageSetsAreFinite, PhysicalAssumption DEF Pages
  <2>3. Cardinality(old \cup fresh) = Cardinality(old) + Cardinality(fresh)
    <3>1. old \cap fresh = {}
      OBVIOUS
    <3>2. Cardinality(old \cap fresh) = 0
      BY <3>1, FS_EmptySet
    <3>3. Cardinality(old) \in Nat /\ Cardinality(fresh) \in Nat
      BY <2>2, FS_CardinalityType
    <3>4. Cardinality(old \cup fresh) = Cardinality(old) + Cardinality(fresh)
                                          - Cardinality(old \cap fresh)
      BY <2>2, FS_Union
    <3> HIDE DEF old, fresh
    <3> QED BY <3>2, <3>3, <3>4
  <2>4. old \cup fresh = MEMORY' \cap Available
    BY <1>1, <1>2
  <2>5. Cardinality(old \cup fresh) \in 0 .. PAGES - 1
    <3>1. Cardinality(old \cup fresh) <= Cardinality(Available)
      BY <2>1, <2>2, FS_Subset
    <3>2. Cardinality(old \cup fresh) \in Nat /\ Cardinality(Available) \in Nat
      <4>1. IsFiniteSet(old \cup fresh)
        BY <2>1, <2>2, FS_Subset
      <4> QED BY <4>1, <2>2, FS_CardinalityType
    <3> HIDE DEF old, fresh
    <3> QED BY <3>1, <3>2, PhysicalAssumption
  <2>6. USED_MEMORY' = Cardinality(old \cup fresh) % PAGES
    BY <1>1, <2>3 DEF PhysicalInv, UsedMemoryIsExact
  <2> HIDE DEF old, fresh
  <2>7. USED_MEMORY' = Cardinality(old \cup fresh)
    BY <2>5, <2>6, PhysicalAssumption
  <2> QED BY <2>4, <2>7 DEF UsedMemoryIsExact
<1> QED BY <1>3, <1>4, <1>5, <1>6 DEF PhysicalInv

\* Freeing available pages keeps the invariant: best_bet drops to the lowest
\* page that became free.
LEMMA SetFreeKeepsInv ==
  ASSUME PhysicalInv, NEW S \in SUBSET Available, physical_set_free(S),
         panicked' \in BOOLEAN
  PROVE  PhysicalInv'
<1> DEFINE freed == S \cap MEMORY
<1>1. /\ MEMORY' = MEMORY \ S
      /\ USED_MEMORY' = (USED_MEMORY - Cardinality(freed)) % PAGES
      /\ best_bet' = Min(freed \cup {best_bet})
      /\ handed' = handed \ S
  BY DEF physical_set_free
<1>2. freed \in SUBSET Pages
  BY PhysicalAssumption DEF PhysicalInv, PhysicalTypeOK, Pages
<1>3. /\ best_bet' \in 0 .. PAGES
      /\ best_bet' <= best_bet
      /\ \A p \in freed : best_bet' <= p
  BY <1>1, <1>2, BestBetAfterFree DEF PhysicalInv, PhysicalTypeOK
<1>4. NoFreePageBelowBestBet'
  <2>1. ASSUME NEW p \in Pages, p < best_bet' PROVE p \in MEMORY'
    <3>1. p < best_bet
      BY <1>3, <2>1, PhysicalAssumption DEF PhysicalInv, PhysicalTypeOK, Pages
    <3>2. p \in MEMORY
      BY <3>1 DEF PhysicalInv, NoFreePageBelowBestBet
    <3>3. p \notin freed
      BY <1>3, <2>1, PhysicalAssumption DEF Pages
    <3> QED BY <1>1, <3>2, <3>3
  <2> QED BY <2>1 DEF NoFreePageBelowBestBet
<1>5. ReservedStaysUsed'
  BY <1>1 DEF PhysicalInv, ReservedStaysUsed
<1>6. PhysicalTypeOK' /\ UsedMemoryIsExact'
  <2> DEFINE old == MEMORY \cap Available
  <2>1. /\ old \in SUBSET Available
        /\ MEMORY' \cap Available = old \ freed
        /\ freed = old \cap freed
    BY <1>1
  <2>2. IsFiniteSet(old)
    BY <2>1, PageSetsAreFinite, PhysicalAssumption DEF Pages
  <2>3. /\ Cardinality(old \ freed) = Cardinality(old) - Cardinality(freed)
        /\ Cardinality(old \ freed) \in Nat
        /\ Cardinality(old) \in Nat
        /\ Cardinality(freed) \in Nat
    <3>1. /\ IsFiniteSet(old \ freed)
          /\ Cardinality(old \ freed) = Cardinality(old) - Cardinality(old \cap freed)
      BY <2>2, FS_Difference
    <3>2. Cardinality(freed) = Cardinality(old \cap freed)
      BY <2>1
    <3>3. IsFiniteSet(freed)
      BY <1>2, PageSetsAreFinite
    <3> QED BY <2>2, <3>1, <3>2, <3>3, FS_CardinalityType
  <2>4. Cardinality(old) <= Cardinality(Available) /\ Cardinality(Available) \in Nat
    BY <2>1, FS_Subset, FS_CardinalityType, PageSetsAreFinite, PhysicalAssumption
       DEF Pages
  <2>5. USED_MEMORY = Cardinality(old)
    BY DEF PhysicalInv, UsedMemoryIsExact
  <2> HIDE DEF old, freed
  <2>6. /\ Cardinality(old) - Cardinality(freed) \in 0 .. PAGES - 1
        /\ (Cardinality(old) - Cardinality(freed)) % PAGES
              = Cardinality(old) - Cardinality(freed)
    BY <2>3, <2>4, PhysicalAssumption
  <2>7. USED_MEMORY' = Cardinality(old \ freed) /\ USED_MEMORY' \in Pages
    BY <1>1, <2>3, <2>5, <2>6 DEF Pages
  <2>8. UsedMemoryIsExact'
    BY <2>1, <2>7 DEF UsedMemoryIsExact
  <2>9. handed' \subseteq MEMORY'
    BY <1>1 DEF PhysicalInv, PhysicalTypeOK
  <2> QED BY <1>1, <1>3, <2>7, <2>8, <2>9 DEF PhysicalInv, PhysicalTypeOK
<1> QED BY <1>4, <1>5, <1>6 DEF PhysicalInv

\* What callers name are sets of pages.
LEMMA RangesAreSetsOfPages == \A S \in Ranges : S \in SUBSET Pages
<1> SUFFICES ASSUME NEW b \in Pages, NEW n \in 1 .. PAGES - b
             PROVE  Run(b, n) \in SUBSET Pages
  BY DEF Ranges
<1> QED BY RunInPages, PhysicalAssumption DEF Pages

\* A successful search names a page below the last one.
LEMMA AllocBaseIsCandidate ==
  ASSUME PhysicalInv, NEW n \in 1 .. PAGES, Candidates(n) # {}
  PROVE  /\ AllocBase(n) \in Candidates(n)
         /\ \A b \in Candidates(n) : AllocBase(n) <= b
         /\ Run(AllocBase(n), n) \in SUBSET Pages
<1>1. Candidates(n) \in SUBSET Nat
  BY PhysicalAssumption DEF Candidates, PhysicalInv, PhysicalTypeOK
<1>2. /\ AllocBase(n) \in Candidates(n)
      /\ \A b \in Candidates(n) : AllocBase(n) <= b
  BY <1>1, MinIsLeast DEF AllocBase
<1> QED BY <1>1, <1>2, RunInPages

\* memory_initialize establishes the invariant.
LEMMA PhysicalInitInv == PhysicalInit => PhysicalInv
<1> SUFFICES ASSUME PhysicalInit PROVE PhysicalInv
  OBVIOUS
<1>1. MEMORY \cap Available = {}
  BY DEF PhysicalInit
<1>2. UsedMemoryIsExact
  BY <1>1, FS_EmptySet DEF PhysicalInit, UsedMemoryIsExact
<1>3. PhysicalTypeOK
  <2>1. MEMORY \subseteq Pages /\ panicked \in BOOLEAN /\ handed \subseteq MEMORY
    BY DEF PhysicalInit
  <2>2. best_bet \in 0 .. PAGES /\ USED_MEMORY \in Pages
    BY PhysicalAssumption DEF PhysicalInit, Pages
  <2> QED BY <2>1, <2>2 DEF PhysicalTypeOK
<1>4. NoFreePageBelowBestBet
  BY DEF PhysicalInit, NoFreePageBelowBestBet, Pages
<1> QED BY <1>2, <1>3, <1>4 DEF PhysicalInit, PhysicalInv, ReservedStaysUsed

\* Every call preserves it.
LEMMA PhysicalNextInv == PhysicalInv /\ [PhysicalNext]_physicalVars => PhysicalInv'
<1> SUFFICES ASSUME PhysicalInv, [PhysicalNext]_physicalVars
             PROVE  PhysicalInv'
  OBVIOUS
<1>1. ASSUME NEW n \in 1 .. PAGES, Allocate(n) PROVE PhysicalInv'
  <2>1. panicked' \in BOOLEAN
    BY <1>1 DEF Allocate, PhysicalInv, PhysicalTypeOK
  <2> QED BY <1>1, <2>1, AllocBaseIsCandidate, MarkUsedKeepsInv
         DEF Allocate, physical_alloc
<1>2. ASSUME NEW n \in 1 .. PAGES, physical_alloc_panic(n) PROVE PhysicalInv'
  BY <1>2 DEF physical_alloc_panic, PANIC, frameVars, PhysicalInv, PhysicalTypeOK,
     NoFreePageBelowBestBet, ReservedStaysUsed, UsedMemoryIsExact
<1>3. ASSUME NEW S \in Ranges, SetUsed(S) PROVE PhysicalInv'
  <2>1. panicked' \in BOOLEAN
    BY <1>3 DEF SetUsed, PhysicalInv, PhysicalTypeOK
  <2> QED BY <1>3, <2>1, RangesAreSetsOfPages, MarkUsedKeepsInv
         DEF SetUsed, physical_set_used
<1>4. ASSUME NEW S \in Ranges, S \subseteq Available, Free(S) PROVE PhysicalInv'
  <2>1. panicked' \in BOOLEAN
    BY <1>4 DEF Free, PhysicalInv, PhysicalTypeOK
  <2> QED BY <1>4, <2>1, SetFreeKeepsInv DEF Free
<1>5. CASE UNCHANGED physicalVars
  BY <1>5 DEF physicalVars, frameVars, PhysicalInv, PhysicalTypeOK, NoFreePageBelowBestBet,
     ReservedStaysUsed, UsedMemoryIsExact
<1> QED BY <1>1, <1>2, <1>3, <1>4, <1>5 DEF PhysicalNext

\* The allocator's state stays well typed, best_bet never points past a free
\* page, reserved memory is never released, and get_used() is exact, for
\* every sequence of calls on every memory map.
THEOREM PhysicalSafety == PhysicalSpec => []PhysicalInv
<1>1. QED
  BY PhysicalInitInv, PhysicalNextInv, PTL DEF PhysicalSpec

\* No free page hides below the search hint.
THEOREM SearchHintIsSound == PhysicalSpec => []NoFreePageBelowBestBet
<1>1. PhysicalInv => NoFreePageBelowBestBet
  BY DEF PhysicalInv
<1> QED BY <1>1, PhysicalSafety, PTL

\* No sequence of calls marks memory free that the boot loader did not offer.
THEOREM ReservedMemoryIsSafe == PhysicalSpec => []ReservedStaysUsed
<1>1. PhysicalInv => ReservedStaysUsed
  BY DEF PhysicalInv
<1> QED BY <1>1, PhysicalSafety, PTL

\* get_used() counts exactly the available pages in use.
THEOREM UsedMemoryExact == PhysicalSpec => []UsedMemoryIsExact
<1>1. PhysicalInv => UsedMemoryIsExact
  BY DEF PhysicalInv
<1> QED BY <1>1, PhysicalSafety, PTL
-----------------------------------------------------------------------------
(***************************************************************************)
(* The allocator implements FrameAllocator: starting at best_bet instead   *)
(* of at 0 makes no difference to what it returns and to when it panics.   *)
(* The unsigned bound TOTAL_MEMORY - size does: it puts the pages          *)
(* OutOfReach, and no others, beyond what the search looks at.             *)
(***************************************************************************)

\* A range of n pages, even one that wraps around, has n pages.
LEMMA RunCardinality ==
  ASSUME NEW b \in Pages, NEW n \in 1 .. PAGES
  PROVE  Cardinality(Run(b, n)) = n
<1>1. CASE b + n <= PAGES
  <2>1. Run(b, n) = b .. b + n - 1
    BY <1>1, RunIsInterval, PhysicalAssumption
  <2> QED BY <2>1, FS_Interval DEF Pages
<1>2. CASE b + n > PAGES
  <2> DEFINE high == b .. PAGES - 1
             low == 0 .. b + n - 1 - PAGES
  <2>1. ASSUME NEW i \in 0 .. n - 1
        PROVE  (b + i) % PAGES = IF b + i < PAGES THEN b + i ELSE b + i - PAGES
    BY PhysicalAssumption DEF Pages
  <2>2. ASSUME NEW x \in Run(b, n) PROVE x \in high \cup low
    <3>1. PICK i \in 0 .. n - 1 : x = (b + i) % PAGES
      BY DEF Run
    <3> QED BY <1>2, <2>1, <3>1, PhysicalAssumption DEF Pages
  <2>3. ASSUME NEW x \in high PROVE x \in Run(b, n)
    <3>1. x - b \in 0 .. n - 1 /\ b + (x - b) = x /\ x < PAGES
      BY <1>2, PhysicalAssumption DEF Pages
    <3>2. x = (b + (x - b)) % PAGES
      BY <2>1, <3>1
    <3> QED BY <3>1, <3>2 DEF Run
  <2>4. ASSUME NEW x \in low PROVE x \in Run(b, n)
    <3> DEFINE i == x + PAGES - b
    <3>1. i \in 0 .. n - 1 /\ ~(b + i < PAGES) /\ b + i - PAGES = x
      BY <1>2, PhysicalAssumption DEF Pages
    <3> HIDE DEF i
    <3>2. (b + i) % PAGES = x
      BY <2>1, <3>1
    <3> QED BY <3>1, <3>2 DEF Run
  <2>5. Run(b, n) = high \cup low
    BY <2>2, <2>3, <2>4
  <2>6. high \cap low = {}
    BY PhysicalAssumption DEF Pages
  <2>7. /\ IsFiniteSet(high) /\ Cardinality(high) = PAGES - b
        /\ IsFiniteSet(low) /\ Cardinality(low) = b + n - PAGES
    <3>1. /\ b \in Int /\ PAGES - 1 \in Int /\ ~(b > PAGES - 1)
          /\ PAGES - 1 - b + 1 = PAGES - b
      BY PhysicalAssumption DEF Pages
    <3> DEFINE top == b + n - 1 - PAGES
    <3>2. top \in Nat /\ top + 1 = b + n - PAGES
      BY <1>2, PhysicalAssumption DEF Pages
    <3>3. IsFiniteSet(high) /\ Cardinality(high) = PAGES - b
      BY <3>1, FS_Interval
    <3>4. IsFiniteSet(low) /\ Cardinality(low) = b + n - PAGES
      <4> HIDE DEF top
      <4>1. IsFiniteSet(0 .. top) /\ Cardinality(0 .. top) = top + 1
        BY <3>2, FS_Interval
      <4> QED BY <3>2, <4>1 DEF top
    <3> QED BY <3>3, <3>4
  <2>8. Cardinality(high \cap low) = 0
    BY <2>6, FS_EmptySet
  <2>9. Cardinality(high \cup low)
          = Cardinality(high) + Cardinality(low) - Cardinality(high \cap low)
    BY <2>7, FS_Union
  <2> HIDE DEF high, low
  <2> QED BY <2>5, <2>7, <2>8, <2>9, PhysicalAssumption DEF Pages
<1> QED BY <1>1, <1>2, PhysicalAssumption DEF Pages

\* The bases physical_alloc accepts are those of the runs of free pages that
\* touch no page out of reach.
LEMMA CandidatesAreFindable ==
  ASSUME PhysicalInv, NEW n \in 1 .. PAGES
  PROVE  /\ Candidates(n) = AsFrameAllocator!Findable(n)
         /\ \A b \in Candidates(n) : b \in Pages /\ b + n < TOTAL_MEMORY
<1>1. ASSUME NEW b \in Pages, b + n < TOTAL_MEMORY
      PROVE  /\ Run(b, n) = AsFrameAllocator!RunFrom(b, n)
             /\ Run(b, n) \in SUBSET Pages
  BY <1>1, RunIsInterval, RunInPages, PhysicalAssumption
     DEF AsFrameAllocator!RunFrom, Pages
<1>2. ASSUME NEW b \in Candidates(n)
      PROVE  b \in Pages /\ b + n < TOTAL_MEMORY /\ Run(b, n) \cap MEMORY = {}
  <2>1. b \in Pages /\ Run(b, n) \cap MEMORY = {}
    BY PhysicalAssumption DEF Candidates, PhysicalInv, PhysicalTypeOK, Pages
  <2>2. n <= TOTAL_MEMORY
    <3>1. Run(b, n) \in SUBSET Available
      BY <2>1, RunInPages DEF PhysicalInv, ReservedStaysUsed, Pages
    <3>2. Cardinality(Run(b, n)) <= Cardinality(Available)
      BY <3>1, PageSetsAreFinite, FS_Subset, PhysicalAssumption DEF Pages
    <3>3. Cardinality(Run(b, n)) = n
      BY <2>1, RunCardinality
    <3>4. Cardinality(Available) \in Nat
      BY PageSetsAreFinite, PhysicalAssumption DEF Pages
    <3> QED BY <3>2, <3>3, <3>4, PhysicalAssumption
  <2>3. (TOTAL_MEMORY - n) % PAGES = TOTAL_MEMORY - n
    BY <2>2, PhysicalAssumption
  <2>4. b + n < TOTAL_MEMORY
    BY <2>3, PhysicalAssumption DEF Candidates, PhysicalInv, PhysicalTypeOK
  <2> QED BY <2>1, <2>4
<1>3. ASSUME NEW b \in Candidates(n) PROVE b \in AsFrameAllocator!Findable(n)
  <2>1. /\ b \in Pages /\ b + n < TOTAL_MEMORY
        /\ AsFrameAllocator!RunFrom(b, n) \subseteq Pages \ MEMORY
    BY <1>1, <1>2
  <2>2. AsFrameAllocator!RunFrom(b, n) \cap OutOfReach = {}
    BY <2>1, PhysicalAssumption DEF AsFrameAllocator!RunFrom, OutOfReach, Pages
  <2> QED BY <2>1, <2>2 DEF AsFrameAllocator!Findable, AsFrameAllocator!Bases
<1>4. ASSUME NEW b \in AsFrameAllocator!Findable(n) PROVE b \in Candidates(n)
  <2>1. /\ b \in Pages
        /\ AsFrameAllocator!RunFrom(b, n) \subseteq Pages \ MEMORY
        /\ AsFrameAllocator!RunFrom(b, n) \cap OutOfReach = {}
    BY DEF AsFrameAllocator!Findable, AsFrameAllocator!Bases
  <2>2. /\ b \in AsFrameAllocator!RunFrom(b, n)
        /\ b + n - 1 \in AsFrameAllocator!RunFrom(b, n)
    BY <2>1 DEF AsFrameAllocator!RunFrom, Pages
  <2>3. b + n < TOTAL_MEMORY
    <3>1. b + n - 1 \in Pages /\ b + n - 1 \notin OutOfReach
      BY <2>1, <2>2
    <3>2. b + n - 1 < TOTAL_MEMORY - 1
      BY <2>1, <3>1, PhysicalAssumption DEF OutOfReach, Pages
    <3> QED BY <2>1, <3>2, PhysicalAssumption DEF Pages
  <2>4. Run(b, n) \cap MEMORY = {}
    BY <1>1, <2>1, <2>3
  <2>5. best_bet <= b
    BY <2>1, <2>2, PhysicalAssumption
       DEF PhysicalInv, PhysicalTypeOK, NoFreePageBelowBestBet, Pages
  <2>6. (TOTAL_MEMORY - n) % PAGES = TOTAL_MEMORY - n
    BY <2>1, <2>3, PhysicalAssumption DEF Pages
  <2> QED BY <2>1, <2>3, <2>4, <2>5, <2>6, PhysicalAssumption
         DEF Candidates, PhysicalInv, PhysicalTypeOK, Pages
<1> QED BY <1>2, <1>3, <1>4

\* The base physical_alloc returns is the lowest of all runs of free pages:
\* one that touches a page out of reach lies higher.
LEMMA AllocBaseIsLowest ==
  ASSUME PhysicalInv, NEW n \in 1 .. PAGES, Candidates(n) # {}
  PROVE  /\ AllocBase(n) \in AsFrameAllocator!Bases(n)
         /\ \A c \in AsFrameAllocator!Bases(n) : AllocBase(n) <= c
<1>1. /\ AllocBase(n) \in Candidates(n)
      /\ \A b \in Candidates(n) : AllocBase(n) <= b
  BY AllocBaseIsCandidate
<1>2. /\ AllocBase(n) \in AsFrameAllocator!Bases(n)
      /\ AllocBase(n) \in Pages /\ AllocBase(n) + n < TOTAL_MEMORY
  BY <1>1, CandidatesAreFindable DEF AsFrameAllocator!Findable
<1>3. ASSUME NEW c \in AsFrameAllocator!Bases(n) PROVE AllocBase(n) <= c
  <2>1. CASE c \in AsFrameAllocator!Findable(n)
    BY <1>1, <2>1, CandidatesAreFindable
  <2>2. CASE c \notin AsFrameAllocator!Findable(n)
    <3>1. c \in Pages
      BY DEF AsFrameAllocator!Bases
    <3>2. PICK p \in OutOfReach : p \in AsFrameAllocator!RunFrom(c, n)
      BY <2>2 DEF AsFrameAllocator!Findable
    <3>3. c + n >= TOTAL_MEMORY
      BY <3>1, <3>2, PhysicalAssumption DEF AsFrameAllocator!RunFrom, OutOfReach, Pages
    <3> QED BY <1>2, <3>1, <3>3, PhysicalAssumption DEF Pages
  <2> QED BY <2>1, <2>2
<1> QED BY <1>2, <1>3

\* A call for n pages panics only where the abstract allocator may.
LEMMA PanicMeansExhausted ==
  ASSUME PhysicalInv, NEW n \in 1 .. PAGES, ~panicked, physical_alloc_panic(n)
  PROVE  AsFrameAllocator!Exhausted(n)
BY CandidatesAreFindable
   DEF AsFrameAllocator!Exhausted, physical_alloc_panic, PANIC, frameVars

\* Each call is the call of the same name of the abstract allocator.
LEMMA PhysicalStepSimulates ==
  ASSUME PhysicalInv, PhysicalNext
  PROVE  AsFrameAllocator!Next
<1>1. ASSUME NEW n \in 1 .. PAGES, ~panicked, Allocate(n)
      PROVE  AsFrameAllocator!Allocate(n)
  <2> DEFINE b == AllocBase(n)
  <2>1. /\ b \in AsFrameAllocator!Bases(n)
        /\ \A c \in AsFrameAllocator!Bases(n) : b <= c
    BY <1>1, AllocBaseIsLowest DEF Allocate, physical_alloc
  <2>2. Run(b, n) = AsFrameAllocator!RunFrom(b, n)
    <3>1. b \in Pages /\ b + n < TOTAL_MEMORY
      BY <1>1, AllocBaseIsCandidate, CandidatesAreFindable DEF Allocate, physical_alloc
    <3> QED BY <3>1, RunIsInterval, PhysicalAssumption
           DEF AsFrameAllocator!RunFrom, Pages
  <2>3. Pages \ MEMORY' = (Pages \ MEMORY) \ AsFrameAllocator!RunFrom(b, n)
    BY <1>1, <2>2 DEF Allocate, physical_alloc, mark_used
  <2>4. handed' = handed \cup AsFrameAllocator!RunFrom(b, n)
    BY <1>1, <2>2 DEF Allocate, physical_alloc
  <2> HIDE DEF b
  <2> QED BY <1>1, <2>1, <2>3, <2>4 DEF AsFrameAllocator!Allocate, Allocate
<1>2. ASSUME NEW n \in 1 .. PAGES, ~panicked, physical_alloc_panic(n)
      PROVE  AsFrameAllocator!Exhausted(n)
  BY <1>2, PanicMeansExhausted
<1>3. ASSUME NEW S \in Ranges, ~panicked, SetUsed(S)
      PROVE  S \in SUBSET Pages /\ AsFrameAllocator!Reserve(S)
  BY <1>3, RangesAreSetsOfPages
     DEF AsFrameAllocator!Reserve, SetUsed, physical_set_used, mark_used
<1>4. ASSUME NEW S \in Ranges, ~panicked, S \subseteq Available, Free(S)
      PROVE  AsFrameAllocator!Release(S)
  BY <1>4, RangesAreSetsOfPages
     DEF AsFrameAllocator!Release, Free, physical_set_free
<1>5. CASE \E n \in 1 .. PAGES : Allocate(n) \/ physical_alloc_panic(n)
  <2>1. PICK n \in 1 .. PAGES : Allocate(n) \/ physical_alloc_panic(n)
    BY <1>5
  <2>2. AsFrameAllocator!Allocate(n) \/ AsFrameAllocator!Exhausted(n)
    BY <1>1, <1>2, <2>1 DEF PhysicalNext
  <2> QED BY <2>2 DEF AsFrameAllocator!Next
<1>6. CASE \E S \in Ranges : SetUsed(S)
  <2>1. PICK S \in Ranges : SetUsed(S)
    BY <1>6
  <2>2. S \in SUBSET Pages /\ AsFrameAllocator!Reserve(S)
    BY <1>3, <2>1 DEF PhysicalNext
  <2> QED BY <2>2 DEF AsFrameAllocator!Next
<1>7. CASE \E S \in Ranges : S \subseteq Available /\ Free(S)
  <2>1. PICK S \in Ranges : S \subseteq Available /\ Free(S)
    BY <1>7
  <2>2. AsFrameAllocator!Release(S)
    BY <1>4, <2>1 DEF PhysicalNext
  <2> QED BY <2>1, <2>2 DEF AsFrameAllocator!Next
<1> QED BY <1>5, <1>6, <1>7 DEF PhysicalNext

\* Physical.cpp implements the first-fit allocator that panics only when
\* every run of as many free frames as were asked for touches a frame
\* OutOfReach, which are those at and above the last one below TOTAL_MEMORY.
THEOREM PhysicalRefinement == PhysicalSpec => ImplementsFrameAllocator
<1>1. PhysicalInit => AsFrameAllocator!Init
  BY PhysicalAssumption DEF PhysicalInit, AsFrameAllocator!Init, Pages
<1>2. PhysicalInv /\ [PhysicalNext]_physicalVars
        => [AsFrameAllocator!Next]_<<Pages \ MEMORY, handed, panicked>>
  BY PhysicalStepSimulates DEF physicalVars, frameVars
<1>3. PhysicalInv /\ [PhysicalNext]_physicalVars
        => [\A n \in 1 .. PAGES :
              physical_alloc_panic(n) => AsFrameAllocator!Exhausted(n)]_physicalVars
  <2> SUFFICES ASSUME PhysicalInv, PhysicalNext, NEW n \in 1 .. PAGES,
                      physical_alloc_panic(n)
               PROVE  AsFrameAllocator!Exhausted(n)
    OBVIOUS
  <2> QED BY PanicMeansExhausted DEF PhysicalNext
<1> QED
  BY <1>1, <1>2, <1>3, PhysicalSafety, PTL
     DEF PhysicalSpec, ImplementsFrameAllocator, AsFrameAllocator!Spec
-----------------------------------------------------------------------------
(***************************************************************************)
(* What get_bootdata keeps of what the boot loader says.                   *)
(***************************************************************************)

\* The size of a page and the end of the address space.
LEMMA PagesDivideMemory ==
  \E P \in Nat \ {0}, L \in Nat \ {0} : P = PageSize /\ L = Limit /\ L % P = 0
BY BootAssumption

\* A number on its page: its distance from the boundary below.
LEMMA OnItsPage ==
  ASSUME NEW x \in Nat, NEW P \in Nat \ {0}
  PROVE  \E q \in Nat, r \in 0 .. P - 1 : x = P * q + r /\ x % P = r
<1>1. PICK q \in Int, r \in 0 .. P - 1 : x = P * q + r /\ x % P = r
  <2>1. x = P * (x \div P) + (x % P) /\ x \div P \in Int /\ x % P \in 0 .. P - 1
    OBVIOUS
  <2> QED BY <2>1
<1>2. q >= 0
  <2>1. q <= -1 => P * q <= -P
    OBVIOUS
  <2> QED BY <1>1, <2>1
<1> QED BY <1>1, <1>2

\* Multiples of a page lie a page apart, and add up to multiples.
LEMMA Multiples ==
  ASSUME NEW P \in Nat \ {0}, NEW a \in Nat, NEW b \in Nat, a % P = 0, b % P = 0
  PROVE  (a + b) % P = 0 /\ (a < b => a + P <= b)
<1>1. PICK q \in Nat : a = P * q
  <2>1. PICK q \in Nat, r \in 0 .. P - 1 : a = P * q + r /\ a % P = r
    BY OnItsPage
  <2>2. r = 0
    BY <2>1
  <2> QED BY <2>1, <2>2
<1>2. PICK s \in Nat : b = P * s
  <2>1. PICK s \in Nat, r \in 0 .. P - 1 : b = P * s + r /\ b % P = r
    BY OnItsPage
  <2>2. r = 0
    BY <2>1
  <2> QED BY <2>1, <2>2
<1>3. (a + b) % P = 0
  <2>1. PICK t \in Int, x \in Int, z \in 0 .. P - 1 : t = q + s /\ x = a + b /\ z = 0
    OBVIOUS
  <2>2. P * t = P * q + P * s
    BY <2>1
  <2>3. x = P * t + z
    BY <1>1, <1>2, <2>1, <2>2
  <2>4. x % P = z
    BY <2>3, RemainderIsUnique
  <2> QED BY <2>1, <2>4
<1>4. a < b => a + P <= b
  <2>1. SUFFICES ASSUME a < b PROVE a + P <= b
    OBVIOUS
  <2>2. PICK d \in Int : d = s - q
    OBVIOUS
  <2>3. P * s = P * q + P * d
    BY <2>2
  <2>4. PICK e \in Int : e = P * d
    OBVIOUS
  <2>5. b = a + e
    BY <1>1, <1>2, <2>3, <2>4
  <2>6. e > 0
    BY <2>1, <2>5
  <2>7. d <= 0 => P * d <= 0
    OBVIOUS
  <2>8. d >= 1
    BY <2>4, <2>6, <2>7
  <2>9. P * d >= P
    BY <2>8
  <2> QED BY <2>4, <2>5, <2>9
<1> QED BY <1>3, <1>4

\* A number below the modulus is its own remainder.
LEMMA SmallRemainder ==
  ASSUME NEW M \in Nat \ {0}, NEW x \in 0 .. M - 1
  PROVE  x % M = x
<1>1. x = M * 0 + x /\ x \in Int /\ 0 \in Int
  OBVIOUS
<1> QED BY <1>1, RemainderIsUnique

\* AlignDown goes to the boundary at or below.
LEMMA AlignDownGives ==
  ASSUME NEW x \in Nat
  PROVE  /\ AlignDown(x) \in Nat /\ AlignDown(x) % PageSize = 0
         /\ AlignDown(x) <= x /\ x - AlignDown(x) < PageSize
<1>1. PICK P \in Nat \ {0} : P = PageSize
  BY BootAssumption
<1>2. PICK q \in Nat, r \in 0 .. P - 1 : x = P * q + r /\ x % P = r
  BY OnItsPage
<1>3. PICK y \in Nat : y = P * q
  OBVIOUS
<1>4. AlignDown(x) = y
  BY <1>1, <1>2, <1>3 DEF AlignDown
<1>5. y % P = 0
  <2>1. PICK z \in 0 .. P - 1 : z = 0
    OBVIOUS
  <2>2. y = P * q + z /\ y \in Int /\ q \in Int
    BY <1>3, <2>1
  <2> QED BY <2>1, <2>2, RemainderIsUnique
<1> QED BY <1>1, <1>2, <1>3, <1>4, <1>5

\* Align is the way to the boundary at or above.
LEMMA AlignGives ==
  ASSUME NEW x \in Nat
  PROVE  Align(x) \in Nat /\ Align(x) < PageSize /\ (x + Align(x)) % PageSize = 0
<1>1. PICK P \in Nat \ {0} : P = PageSize
  BY BootAssumption
<1>2. PICK q \in Nat, r \in 0 .. P - 1 : x = P * q + r /\ x % P = r
  BY OnItsPage
<1>3. PICK y \in Nat : y = P * q
  OBVIOUS
<1>4. Align(x) = (P - r) % P
  BY <1>1, <1>2 DEF Align
<1>5. CASE r = 0
  <2>1. PICK z \in 0 .. P - 1 : z = 0
    OBVIOUS
  <2>2. P % P = z
    <3>1. P = P * 1 + z /\ P \in Int /\ 1 \in Int
      BY <2>1
    <3> QED BY <3>1, RemainderIsUnique
  <2>3. P - r = P
    BY <1>5
  <2>4. Align(x) = 0
    BY <1>4, <2>1, <2>2, <2>3
  <2> QED BY <1>1, <1>2, <1>5, <2>4
<1>6. CASE r # 0
  <2>1. PICK a \in 0 .. P - 1 : a = P - r
    BY <1>6
  <2>2. Align(x) = a
    BY <1>4, <2>1, SmallRemainder
  <2>3. PICK s \in Nat, z \in 0 .. P - 1, w \in Int : s = q + 1 /\ z = 0 /\ w = x + a
    OBVIOUS
  <2>4. P * s = P * q + P
    BY <2>3
  <2>5. w = P * s + z
    BY <1>2, <2>1, <2>3, <2>4
  <2>6. w % P = z
    BY <2>5, RemainderIsUnique
  <2> QED BY <1>1, <2>1, <2>2, <2>3, <2>6
<1> QED BY <1>5, <1>6

\* An entry of the memory map shrinks to the pages it holds, unless it is too
\* short to hold a boundary.
LEMMA FromNonAlignedGives ==
  ASSUME NEW base \in Nat, NEW size \in Nat, base + size < Limit,
         NEW kept, kept = from_non_aligned_address(base, size)
  PROVE  /\ kept \in [base : Nat, size : Nat] /\ PageAligned(kept)
         /\ ~(size < Align(base)) =>
              /\ base <= kept.base /\ kept.base + kept.size <= base + size
              /\ size - kept.size < 2 * PageSize - 1
<1>1. PICK P \in Nat \ {0}, L \in Nat \ {0} : P = PageSize /\ L = Limit /\ L % P = 0
  BY PagesDivideMemory
<1>2. PICK a \in Nat : a = Align(base) /\ a < P /\ (base + a) % P = 0
  BY <1>1, AlignGives
<1>3. PICK x \in Nat : x = (base + a) % L /\ x % P = 0 /\ (base + a < L => x = base + a)
  <2>1. PICK s \in Nat : s = base + a /\ s % P = 0
    BY <1>2
  <2>2. CASE s < L
    <3>1. s % L = s
      BY <2>2, SmallRemainder
    <3> QED BY <2>1, <3>1
  <2>3. CASE ~(s < L)
    <3>1. ~(L < s)
      <4>1. L < s => L + P <= s
        BY <1>1, <2>1, Multiples
      <4> QED BY <1>1, <1>2, <2>1, <4>1
    <3>2. s = L
      BY <2>3, <3>1
    <3>3. PICK z \in 0 .. L - 1, y \in 0 .. P - 1 : z = 0 /\ y = 0
      OBVIOUS
    <3>4. L = L * 1 + z /\ L \in Int /\ 1 \in Int
      BY <3>3
    <3>5. L % L = z
      BY <3>4, RemainderIsUnique
    <3>6. y % P = y
      BY SmallRemainder
    <3>7. 0 % P = 0
      BY <3>3, <3>6
    <3> QED BY <2>1, <2>3, <3>2, <3>3, <3>5, <3>7
  <2> QED BY <2>2, <2>3
<1>4. PICK w \in Nat : w = (size - a) % L
  <2>1. PICK d \in Int : d = size - a
    OBVIOUS
  <2>2. d % L \in 0 .. L - 1
    OBVIOUS
  <2> QED BY <2>1, <2>2
<1>5. PICK y \in Nat : y = AlignDown(w) /\ y % P = 0 /\ y <= w /\ w - y < P
  BY <1>1, AlignDownGives
<1>6. kept = [base |-> x, size |-> y]
  BY <1>1, <1>2, <1>3, <1>4, <1>5 DEF from_non_aligned_address
<1>7. kept \in [base : Nat, size : Nat] /\ kept.base = x /\ kept.size = y
  BY <1>6
<1>8. PageAligned(kept)
  BY <1>1, <1>3, <1>5, <1>7 DEF PageAligned
<1>9. ASSUME ~(size < a)
      PROVE  base <= x /\ x + y <= base + size /\ size - y < 2 * P - 1
  <2>1. PICK d \in 0 .. L - 1 : d = size - a
    BY <1>1, <1>9
  <2>2. w = d
    BY <1>4, <2>1, SmallRemainder
  <2>3. x = base + a
    BY <1>1, <1>3, <1>9
  <2> QED BY <1>2, <1>5, <2>1, <2>2, <2>3
<1> QED BY <1>1, <1>2, <1>7, <1>8, <1>9

\* A module's range grows to the pages it touches.
LEMMA AroundNonAlignedGives ==
  ASSUME NEW module \in ModuleRanges,
         NEW kept, kept = around_non_aligned_address(module.addr, module.len)
  PROVE  /\ kept \in [base : Nat, size : Nat] /\ PageAligned(kept)
         /\ kept.base <= module.addr /\ module.addr + module.len <= kept.base + kept.size
         /\ kept.size - module.len < 2 * PageSize
<1>1. PICK P \in Nat \ {0}, L \in Nat \ {0} : P = PageSize /\ L = Limit /\ L % P = 0
  BY PagesDivideMemory
<1>2. PICK base \in Nat, size \in Nat :
        base = module.addr /\ size = module.len /\ base >= P /\ base + size < L
  <2>1. module \in [addr : Nat, len : Nat] /\ module.addr >= PageSize
        /\ module.addr + module.len < Limit
    BY BootAssumption
  <2> QED BY <1>1, <2>1
<1>3. PICK r \in 0 .. P - 1 : r = base % P
  OBVIOUS
<1>4. PICK x \in Nat : x = AlignDown(base) /\ x % P = 0 /\ x <= base /\ x = base - r
  <2>1. AlignDown(base) = base - r
    BY <1>1, <1>3 DEF AlignDown
  <2> QED BY <1>1, <2>1, AlignDownGives
<1>5. x >= P
  <2>1. PICK z \in Nat : z = 0 /\ z % P = 0
    <3>1. PICK z \in 0 .. P - 1 : z = 0
      OBVIOUS
    <3>2. z % P = z
      BY SmallRemainder
    <3> QED BY <3>1, <3>2
  <2>2. 0 < x
    BY <1>2, <1>3, <1>4
  <2>3. z < x => z + P <= x
    BY <1>4, <2>1, Multiples
  <2> QED BY <2>1, <2>2, <2>3
<1>6. PICK s \in 0 .. L - 1 : s = size + r /\ (size + r) % L = s
  <2>1. PICK s \in 0 .. L - 1 : s = size + r
    BY <1>2, <1>3, <1>4
  <2>2. s % L = s
    BY SmallRemainder
  <2> QED BY <2>1, <2>2
<1>7. PICK t \in 0 .. L - 1 : t = s + P - 1 /\ (s + P - 1) % L = t
  <2>1. PICK t \in 0 .. L - 1 : t = s + P - 1
    BY <1>2, <1>4, <1>5, <1>6
  <2>2. t % L = t
    BY SmallRemainder
  <2> QED BY <2>1, <2>2
<1>8. PICK y \in Nat : y = AlignDown(t) /\ y % P = 0 /\ y <= t /\ t - y < P
  BY <1>1, AlignDownGives
<1>9. kept = [base |-> x, size |-> y]
  <2>1. AlignUp(s) = y
    BY <1>1, <1>7, <1>8 DEF AlignUp
  <2>2. kept = [base |-> AlignDown(base), size |-> AlignUp((size + (base % PageSize)) % Limit)]
    BY <1>2 DEF around_non_aligned_address
  <2> QED BY <1>1, <1>3, <1>4, <1>6, <2>1, <2>2
<1>10. kept \in [base : Nat, size : Nat] /\ kept.base = x /\ kept.size = y
  BY <1>9
<1>11. PageAligned(kept)
  BY <1>1, <1>4, <1>8, <1>10 DEF PageAligned
<1>12. x + y >= base + size /\ y - size < 2 * P
  BY <1>3, <1>4, <1>6, <1>7, <1>8
<1> QED BY <1>1, <1>2, <1>4, <1>10, <1>11, <1>12

EntryType == [addr : Nat, len : Nat \ {0}, available : BOOLEAN]

\* f holds what is kept of the first n entries, for each n.
Keeping(f, said) ==
  /\ f \in [0 .. Len(said) -> Seq(EntryType)]
  /\ f[0] = <<>>
  /\ \A n \in 1 .. Len(said) :
       f[n] = IF Low(said[n]) THEN Append(f[n - 1], said[n]) ELSE f[n - 1]

\* NotSkipped is the last of these.
LEMMA NotSkippedIsKeeping ==
  ASSUME NEW said \in Seq(EntryType)
  PROVE  \E f : Keeping(f, said) /\ NotSkipped(said) = f[Len(said)]
<1>0. PICK N \in Nat : N = Len(said)
  OBVIOUS
<1> DEFINE V == Seq(EntryType)
           G == [p \in (1 .. N) \X V |-> IF Low(said[p[1]]) THEN Append(p[2], said[p[1]]) ELSE p[2]]
           Is(f) == f = [n \in 0 .. N |->
                           IF n = 0 THEN <<>>
                           ELSE IF Low(said[n]) THEN Append(f[n - 1], said[n]) ELSE f[n - 1]]
<1>9. PICK none : none = <<>> /\ none \in V
  <2>1. <<>> \in V
    OBVIOUS
  <2> QED BY <2>1
<1>1. G \in StepFunctions(N, V)
  <2>1. ASSUME NEW n \in 1 .. N, NEW v \in V
        PROVE  (IF Low(said[n]) THEN Append(v, said[n]) ELSE v) \in V
    <3>1. said[n] \in EntryType
      BY <1>0
    <3>2. Append(v, said[n]) \in V
      BY <3>1
    <3> QED BY <3>2
  <2> QED BY <2>1 DEF StepFunctions
<1>2. PICK g : Recursive(g, N, V, none, G)
  <2> HIDE DEF G, V
  <2> QED BY <1>1, <1>9, RecursionUpTo
<1>3. ASSUME NEW n \in 1 .. N
      PROVE  g[n] = IF Low(said[n]) THEN Append(g[n - 1], said[n]) ELSE g[n - 1]
  <2>1. g[n] = G[<<n, g[n - 1]>>] /\ g[n - 1] \in V
    <3> HIDE DEF G, Is, V
    <3> QED BY <1>2 DEF Recursive
  <2> QED BY <2>1
<1>4. Is(g)
  <2>1. g \in [0 .. N -> V] /\ g[0] = none
    <3> HIDE DEF G, V
    <3> QED BY <1>2 DEF Recursive
  <2>2. ASSUME NEW n \in 0 .. N
        PROVE  g[n] = IF n = 0 THEN <<>>
                      ELSE IF Low(said[n]) THEN Append(g[n - 1], said[n]) ELSE g[n - 1]
    <3>1. CASE n = 0
      BY <1>9, <2>1, <3>1
    <3>2. CASE n # 0
      <4>1. n \in 1 .. N
        BY <3>2
      <4> QED BY <1>3, <3>2, <4>1
    <3> QED BY <3>1, <3>2
  <2>3. g = [n \in 0 .. N |-> g[n]]
    <3> HIDE DEF V
    <3> QED BY <2>1
  <2> QED BY <2>2, <2>3
<1>5. PICK f : Is(f) /\ NotSkipped(said) = f[N]
  <2>1. NotSkipped(said) = (CHOOSE f : Is(f))[N]
    BY <1>0 DEF NotSkipped
  <2> HIDE DEF Is
  <2> QED BY <1>4, <2>1
<1>6. /\ DOMAIN f = 0 .. N /\ f[0] = <<>>
      /\ \A n \in 1 .. N : f[n] = IF Low(said[n]) THEN Append(f[n - 1], said[n]) ELSE f[n - 1]
  <2>1. DOMAIN f = 0 .. N
    BY <1>5
  <2>2. f[0] = <<>>
    <3>1. 0 \in 0 .. N
      OBVIOUS
    <3> QED BY <1>5, <3>1
  <2>3. ASSUME NEW n \in 1 .. N
        PROVE  f[n] = IF Low(said[n]) THEN Append(f[n - 1], said[n]) ELSE f[n - 1]
    <3>1. n \in 0 .. N /\ n # 0
      OBVIOUS
    <3> QED BY <1>5, <3>1
  <2> QED BY <2>1, <2>2, <2>3
<1> DEFINE S == {n \in 0 .. N : f[n] \in V}
<1>7. 0 .. N \subseteq S
  <2>1. 0 \in S
    <3>1. f[0] = none
      BY <1>6, <1>9
    <3> HIDE DEF V
    <3> QED BY <1>9, <3>1
  <2>2. ASSUME NEW n \in 1 .. N, n - 1 \in S PROVE n \in S
    <3>1. said[n] \in EntryType /\ f[n - 1] \in V
      BY <1>0, <2>2
    <3>2. f[n] = IF Low(said[n]) THEN Append(f[n - 1], said[n]) ELSE f[n - 1]
      BY <1>6
    <3>3. CASE Low(said[n])
      <4>1. Append(f[n - 1], said[n]) \in V
        BY <3>1
      <4>2. f[n] = Append(f[n - 1], said[n])
        BY <3>2, <3>3
      <4> HIDE DEF V
      <4>3. f[n] \in V
        BY <4>1, <4>2, Zenon
      <4> QED BY <4>3
    <3>4. CASE ~Low(said[n])
      BY <3>1, <3>2, <3>4
    <3> QED BY <3>3, <3>4
  <2> HIDE DEF S
  <2> QED BY <2>1, <2>2, InductionUpTo
<1>8. f \in [0 .. N -> V]
  <2>1. f = [n \in 0 .. N |-> f[n]]
    BY <1>5
  <2>2. \A n \in 0 .. N : f[n] \in V
    BY <1>7
  <2> QED BY <2>1, <2>2
<1> QED BY <1>0, <1>5, <1>6, <1>8 DEF Keeping

\* One entry more is kept, or skipped.
LEMMA OneEntryMore ==
  ASSUME NEW said \in Seq(EntryType), NEW e \in EntryType
  PROVE  /\ NotSkipped(said) \in Seq(EntryType)
         /\ NotSkipped(Append(said, e))
              = IF Low(e) THEN Append(NotSkipped(said), e) ELSE NotSkipped(said)
<1>1. PICK more \in Seq(EntryType), N \in Nat :
        /\ more = Append(said, e) /\ N = Len(said) /\ Len(more) = N + 1 /\ more[N + 1] = e
        /\ \A n \in 1 .. N : more[n] = said[n]
  <2>1. Append(said, e) \in Seq(EntryType) /\ Len(said) \in Nat
    OBVIOUS
  <2>2. /\ Len(Append(said, e)) = Len(said) + 1 /\ Append(said, e)[Len(said) + 1] = e
        /\ \A n \in 1 .. Len(said) : Append(said, e)[n] = said[n]
    BY AppendProperties
  <2> QED BY <2>1, <2>2
<1>2. PICK f : Keeping(f, said) /\ NotSkipped(said) = f[N]
  BY <1>1, NotSkippedIsKeeping
<1>3. PICK g : Keeping(g, more) /\ NotSkipped(more) = g[N + 1]
  BY <1>1, NotSkippedIsKeeping
<1> DEFINE S == {n \in 0 .. N : g[n] = f[n]}
<1>4. 0 \in S
  BY <1>2, <1>3 DEF Keeping
<1>5. ASSUME NEW n \in 1 .. N, n - 1 \in S PROVE n \in S
  <2>1. n \in 1 .. Len(said) /\ n \in 1 .. Len(more) /\ more[n] = said[n]
    BY <1>1
  <2>2. f[n] = IF Low(said[n]) THEN Append(f[n - 1], said[n]) ELSE f[n - 1]
    BY <1>2, <2>1 DEF Keeping
  <2>3. g[n] = IF Low(more[n]) THEN Append(g[n - 1], more[n]) ELSE g[n - 1]
    BY <1>3, <2>1 DEF Keeping
  <2> QED BY <1>5, <2>1, <2>2, <2>3
<1>6. g[N] = f[N]
  <2> HIDE DEF S
  <2>1. 0 .. N \subseteq S
    BY <1>4, <1>5, InductionUpTo
  <2>2. N \in S
    BY <2>1
  <2> QED BY <2>2 DEF S
<1>7. g[N + 1] = IF Low(e) THEN Append(g[N], e) ELSE g[N]
  <2>1. PICK n \in 1 .. Len(more) : n = N + 1 /\ n - 1 = N
    BY <1>1
  <2>2. g[n] = IF Low(more[n]) THEN Append(g[n - 1], more[n]) ELSE g[n - 1]
    BY <1>3, <2>1 DEF Keeping
  <2> QED BY <1>1, <2>1, <2>2
<1>8. f[N] \in Seq(EntryType)
  BY <1>1, <1>2 DEF Keeping
<1> QED BY <1>1, <1>2, <1>3, <1>6, <1>7, <1>8

\* Nothing is kept of no entries.
LEMMA NothingSkipped == NotSkipped(<<>>) = <<>>
<1>1. <<>> \in Seq(EntryType) /\ Len(<<>>) = 0
  OBVIOUS
<1>2. PICK f : Keeping(f, <<>>) /\ NotSkipped(<<>>) = f[Len(<<>>)]
  BY <1>1, NotSkippedIsKeeping
<1> QED BY <1>1, <1>2 DEF Keeping

\* What the memory map says of an entry.
AsKept(e) == [range |-> from_non_aligned_address(e.addr, e.len), available |-> e.available]

RangeType == [base : Nat, size : Nat]

NoneTooShort == \A n \in DOMAIN entries : entries[n].available => ~TooShort(entries[n])

BootTyped ==
  /\ tag \in {"next", "mmap", "END"} /\ refused \in BOOLEAN
  /\ entries \in Seq(EntryType) /\ loaded \in Seq(ModuleRanges)
  /\ memory_map \in Seq([range : RangeType, available : BOOLEAN]) /\ modules \in Seq(RangeType)
  /\ memory_usable \in Nat

\* The memory map is what is kept of the entries, in their order.
MapFollowsEntries ==
  /\ Kept \in Seq(EntryType)
  /\ Len(memory_map) = Len(Kept) /\ Len(memory_map) <= MEMORY_MAP_SIZE
  /\ \A n \in DOMAIN memory_map : memory_map[n] = AsKept(Kept[n]) /\ Low(Kept[n])
  /\ \A n \in DOMAIN Kept : \E k \in DOMAIN entries : entries[k] = Kept[n]

ModulesFollow ==
  /\ Len(modules) <= Len(loaded) /\ Len(modules) <= MODULES_SIZE
  /\ ~refused => Len(modules) = Len(loaded)
  /\ \A n \in DOMAIN modules :
       modules[n] = around_non_aligned_address(loaded[n].addr, loaded[n].len)

\* What is counted lies below the end of the last entry: it does not wrap.
UsableFollows ==
  /\ memory_usable < Limit
  /\ entries = <<>> => memory_usable = 0
  /\ entries # <<>> => memory_usable <= Last(entries).addr + Last(entries).len

PagesFit ==
  /\ IsFiniteSet(AvailablePages)
  /\ NoneTooShort => Cardinality(AvailablePages) * PageSize <= memory_usable

BootInv == BootTyped /\ MapFollowsEntries /\ ModulesFollow /\ UsableFollows /\ PagesFit

\* A range that starts and ends on page boundaries has the pages its size says.
LEMMA PagesOfARange ==
  ASSUME NEW r \in RangeType, PageAligned(r)
  PROVE  /\ IsFiniteSet(PagesIn(r)) /\ Cardinality(PagesIn(r)) \in Nat
         /\ Cardinality(PagesIn(r)) * PageSize <= r.size
         /\ \A p \in PagesIn(r) :
              p \in Nat /\ r.base <= p * PageSize /\ p * PageSize + PageSize <= r.base + r.size
<1>1. PICK P \in Nat \ {0} : P = PageSize
  BY BootAssumption
<1>2. PICK base \in Nat, size \in Nat :
        base = r.base /\ size = r.size /\ base % P = 0 /\ size % P = 0
  BY <1>1 DEF RangeType, PageAligned
<1>3. PICK a \in Nat : base = P * a
  <2>1. PICK q \in Nat, s \in 0 .. P - 1 : base = P * q + s /\ base % P = s
    BY OnItsPage
  <2>2. s = 0
    BY <1>2, <2>1
  <2> QED BY <2>1, <2>2
<1>4. PICK c \in Nat : size = P * c
  <2>1. PICK q \in Nat, s \in 0 .. P - 1 : size = P * q + s /\ size % P = s
    BY OnItsPage
  <2>2. s = 0
    BY <1>2, <2>1
  <2> QED BY <2>1, <2>2
<1>5. ASSUME NEW p \in PagesIn(r)
      PROVE  p \in Nat /\ base <= p * P /\ p * P + P <= base + size /\ p \in a .. a + c - 1
  <2>1. p \in Nat /\ base <= p * P /\ p * P < base + size
    <3>1. p \in 0 .. Limit \div PageSize - 1 /\ p * P \in base .. base + size - 1
      BY <1>1, <1>2 DEF PagesIn, Bytes
    <3>2. p \in Nat
      BY <3>1
    <3>3. p * P \in Int /\ base <= p * P /\ p * P <= base + size - 1
      BY <3>1
    <3> QED BY <3>2, <3>3
  <2>2. PICK d \in Int, h \in Int : d = p - a /\ h = c - d
    BY <2>1
  <2>3. PICK x \in Int, y \in Int : x = P * d /\ y = P * h
    OBVIOUS
  <2>4. p * P = base + x
    <3>1. p * P = P * a + P * d
      BY <2>1, <2>2
    <3> QED BY <1>3, <2>3, <3>1
  <2>5. size = x + y
    <3>1. c = d + h
      BY <2>2
    <3>2. P * c = P * d + P * h
      BY <3>1
    <3> QED BY <1>4, <2>3, <3>2
  <2>6. x >= 0 /\ y > 0
    BY <2>1, <2>4, <2>5
  <2>7. d >= 0
    <3>1. d <= -1 => P * d <= -P
      OBVIOUS
    <3> QED BY <2>3, <2>6, <3>1
  <2>8. h >= 1
    <3>1. h <= 0 => P * h <= 0
      OBVIOUS
    <3> QED BY <2>3, <2>6, <3>1
  <2>9. y >= P
    <3>1. P * h >= P
      BY <2>8
    <3> QED BY <2>3, <3>1
  <2>10. p * P + P <= base + size
    BY <2>4, <2>5, <2>9
  <2>11. p \in a .. a + c - 1
    BY <2>1, <2>2, <2>7, <2>8
  <2> QED BY <2>1, <2>10, <2>11
<1>6. /\ IsFiniteSet(a .. a + c - 1) /\ Cardinality(a .. a + c - 1) = c
  <2>1. PICK z \in Int : z = a + c - 1
    OBVIOUS
  <2>2. IsFiniteSet(a .. z) /\ Cardinality(a .. z) = IF a > z THEN 0 ELSE z - a + 1
    BY FS_Interval
  <2>3. Cardinality(a .. z) = c
    <3>1. CASE c = 0
      BY <2>1, <2>2, <3>1
    <3>2. CASE c # 0
      BY <2>1, <2>2, <3>2
    <3> QED BY <3>1, <3>2
  <2> QED BY <2>1, <2>2, <2>3
<1>7. PagesIn(r) \subseteq a .. a + c - 1
  BY <1>5
<1>8. PICK n \in Nat : n = Cardinality(PagesIn(r)) /\ IsFiniteSet(PagesIn(r)) /\ n <= c
  BY <1>6, <1>7, FS_Subset, FS_CardinalityType
<1>9. n * P <= size
  <2>1. PICK d \in Nat : c = n + d
    <3>1. c - n \in Nat /\ c = n + (c - n)
      BY <1>8
    <3> QED BY <3>1
  <2>2. P * c = n * P + P * d /\ P * d \in Nat /\ n * P \in Nat
    BY <2>1
  <2> QED BY <1>4, <2>2
<1> QED BY <1>1, <1>2, <1>5, <1>8, <1>9

\* The available pages, from the ranges of a memory map.
PagesOfMap(map) ==
  UNION {PagesIn(map[i].range) : i \in {j \in DOMAIN map : map[j].available}}

\* A range more adds its pages, if it is available.
LEMMA OneRangeMore ==
  ASSUME NEW map \in Seq([range : RangeType, available : BOOLEAN]),
         NEW kept \in [range : RangeType, available : BOOLEAN]
  PROVE  PagesOfMap(Append(map, kept))
           = PagesOfMap(map) \cup IF kept.available THEN PagesIn(kept.range) ELSE {}
<1>1. PICK N \in Nat : N = Len(map)
  OBVIOUS
<1>11. PICK more : more = Append(map, kept)
  OBVIOUS
<1>12. /\ more[N + 1] = kept /\ DOMAIN more = 1 .. N + 1 /\ DOMAIN map = 1 .. N
       /\ \A n \in 1 .. N : more[n] = map[n]
  <2>1. Append(map, kept) \in Seq([range : RangeType, available : BOOLEAN])
    OBVIOUS
  <2>2. /\ Len(Append(map, kept)) = Len(map) + 1 /\ Append(map, kept)[Len(map) + 1] = kept
        /\ \A n \in 1 .. Len(map) : Append(map, kept)[n] = map[n]
    BY AppendProperties
  <2>3. DOMAIN more = 1 .. N + 1
    BY <1>1, <1>11, <2>1, <2>2
  <2>4. DOMAIN map = 1 .. N
    BY <1>1
  <2>5. more[N + 1] = kept /\ \A n \in 1 .. N : more[n] = map[n]
    BY <1>1, <1>11, <2>2
  <2> QED BY <2>3, <2>4, <2>5
<1>2. PICK last : last = N + 1 /\ last \in DOMAIN more /\ last \notin DOMAIN map
                  /\ DOMAIN more = DOMAIN map \cup {last}
  BY <1>12
<1>3. more[last] = kept /\ \A n \in DOMAIN map : more[n] = map[n]
  BY <1>12, <1>2
<1>4. ASSUME NEW p
      PROVE  p \in PagesOfMap(more) <=>
               p \in PagesOfMap(map) \/ (kept.available /\ p \in PagesIn(kept.range))
  <2>1. p \in PagesOfMap(more) <=> \E n \in DOMAIN more : more[n].available /\ p \in PagesIn(more[n].range)
    BY DEF PagesOfMap
  <2>2. p \in PagesOfMap(map) <=> \E n \in DOMAIN map : map[n].available /\ p \in PagesIn(map[n].range)
    BY DEF PagesOfMap
  <2> QED BY <1>2, <1>3, <2>1, <2>2
<1> QED BY <1>11, <1>4

\* An entry parsed: what is kept of it follows it, what is counted stays below
\* its end, and its pages are covered by what is counted.
LEMMA ParseEntryKeepsBoot ==
  ASSUME BootInv, ParseEntry
  PROVE  BootInv'
<1>1. PICK addr \in Addresses, len \in Lengths, available \in BOOLEAN, e \in EntryType :
        /\ e = [addr |-> addr, len |-> len, available |-> available]
        /\ entries # <<>> => Last(entries).addr + Last(entries).len <= addr
        /\ SkipEntry(e) \/ KeepEntry(e)
        /\ entries' = Append(entries, e)
  <2>1. ASSUME NEW addr \in Addresses, NEW len \in Lengths, NEW available \in BOOLEAN
        PROVE  [addr |-> addr, len |-> len, available |-> available] \in EntryType
    BY BootAssumption DEF EntryType
  <2> QED BY <2>1 DEF ParseEntry
<1>2. /\ addr \in Nat /\ len \in Nat \ {0} /\ e.addr = addr /\ e.len = len /\ e.available = available
      /\ Limit \in Nat \ {0}
  BY <1>1, BootAssumption
<1>3. PICK said \in Seq(EntryType), now \in Seq(EntryType), N \in Nat :
        /\ said = entries /\ now = entries' /\ now = Append(said, e)
        /\ N = Len(said) /\ Len(now) = N + 1 /\ now[N + 1] = e /\ \A n \in 1 .. N : now[n] = said[n]
  <2>1. PICK said \in Seq(EntryType) : said = entries
    BY DEF BootInv, BootTyped
  <2>2. Append(said, e) \in Seq(EntryType) /\ Len(said) \in Nat
    OBVIOUS
  <2>3. /\ Len(Append(said, e)) = Len(said) + 1 /\ Append(said, e)[Len(said) + 1] = e
        /\ \A n \in 1 .. Len(said) : Append(said, e)[n] = said[n]
    BY AppendProperties
  <2> QED BY <1>1, <2>1, <2>2, <2>3
<1>4. /\ tag' = tag /\ loaded' = loaded /\ refused' = refused /\ modules' = modules
      /\ Len(memory_map) < MEMORY_MAP_SIZE /\ MEMORY_MAP_SIZE \in Nat
  BY <1>1, BootAssumption DEF ParseEntry, SkipEntry, KeepEntry, bootdata
<1>5. PICK kept \in Seq(EntryType) : kept = Kept /\ kept = NotSkipped(said)
  BY <1>3, OneEntryMore DEF Kept
<1>6. Kept' = IF Low(e) THEN Append(kept, e) ELSE kept
  <2>1. NotSkipped(now) = IF Low(e) THEN Append(kept, e) ELSE kept
    BY <1>3, <1>5, OneEntryMore
  <2> QED BY <1>3, <2>1 DEF Kept
<1>7. /\ DOMAIN said = 1 .. N /\ DOMAIN now = 1 .. N + 1
  BY <1>3
\* The old entries are still there.
<1>8. NoneTooShort' => NoneTooShort /\ (available => ~TooShort(e))
  <2>1. \A n \in DOMAIN said : n \in DOMAIN now /\ now[n] = said[n]
    BY <1>3, <1>7
  <2>2. N + 1 \in DOMAIN now /\ now[N + 1] = e
    BY <1>3, <1>7
  <2> QED BY <1>2, <1>3, <2>1, <2>2 DEF NoneTooShort
<1>9. memory_usable \in Nat /\ (entries # <<>> => Last(entries).addr + Last(entries).len \in Nat)
      /\ memory_usable <= addr
  <2>1. memory_usable \in Nat
    BY DEF BootInv, BootTyped
  <2>2. CASE said = <<>>
    BY <1>2, <1>3, <2>1, <2>2 DEF BootInv, UsableFollows
  <2>3. CASE said # <<>>
    <3>1. PICK last \in EntryType : last = Last(said)
      BY <2>3 DEF Last
    <3>2. last.addr \in Nat /\ last.len \in Nat
      BY <3>1 DEF EntryType
    <3>3. memory_usable <= last.addr + last.len /\ last.addr + last.len <= addr
      BY <1>1, <1>3, <2>3, <3>1 DEF BootInv, UsableFollows
    <3> QED BY <1>2, <1>3, <2>1, <3>1, <3>2, <3>3
  <2> QED BY <2>2, <2>3
<1>10. Last(entries') = e /\ entries' # <<>>
  BY <1>3 DEF Last
<1>11. CASE SkipEntry(e)
  <2>1. ~Low(e) /\ memory_map' = memory_map /\ memory_usable' = memory_usable
    BY <1>11 DEF SkipEntry, bootdata
  <2>2. Kept' = kept
    BY <1>6, <2>1
  <2>3. BootTyped'
    BY <1>3, <1>4, <2>1 DEF BootInv, BootTyped
  <2>4. MapFollowsEntries'
    <3>1. \A n \in DOMAIN kept : \E k \in DOMAIN said : said[k] = kept[n]
      BY <1>3, <1>5 DEF BootInv, MapFollowsEntries
    <3>2. \A n \in DOMAIN kept : \E k \in DOMAIN now : now[k] = kept[n]
      BY <1>3, <1>7, <3>1
    <3>3. \A n \in DOMAIN memory_map : memory_map[n] = AsKept(kept[n]) /\ Low(kept[n])
      BY <1>5 DEF BootInv, MapFollowsEntries
    <3>4. Len(memory_map) = Len(kept) /\ Len(memory_map) <= MEMORY_MAP_SIZE
      BY <1>5 DEF BootInv, MapFollowsEntries
    <3> QED BY <1>3, <2>1, <2>2, <3>2, <3>3, <3>4 DEF MapFollowsEntries
  <2>5. ModulesFollow'
    BY <1>4 DEF BootInv, ModulesFollow
  <2>6. UsableFollows'
    <3>1. memory_usable' < Limit
      BY <2>1 DEF BootInv, UsableFollows
    <3>2. memory_usable' <= e.addr + e.len
      BY <1>2, <1>9, <2>1
    <3> QED BY <1>10, <3>1, <3>2 DEF UsableFollows
  <2>7. PagesFit'
    <3>1. AvailablePages' = AvailablePages
      BY <2>1 DEF AvailablePages
    <3> QED BY <1>8, <2>1, <3>1 DEF BootInv, PagesFit
  <2> QED BY <2>3, <2>4, <2>5, <2>6, <2>7 DEF BootInv
<1>12. CASE KeepEntry(e)
  <2>1. addr < Limit /\ addr + len < Limit /\ Low(e)
    BY <1>2, <1>12 DEF KeepEntry, Low
  <2>2. PICK r \in RangeType : /\ r = from_non_aligned_address(addr, len) /\ PageAligned(r)
                               /\ ~(len < Align(addr)) => r.size <= len
    <3>1. PICK r : r = from_non_aligned_address(addr, len)
      OBVIOUS
    <3>2. /\ r \in [base : Nat, size : Nat] /\ PageAligned(r)
          /\ ~(len < Align(addr)) => addr <= r.base /\ r.base + r.size <= addr + len
      BY <1>2, <2>1, <3>1, FromNonAlignedGives
    <3>3. r.base \in Nat /\ r.size \in Nat
      BY <3>2
    <3>4. ~(len < Align(addr)) => r.size <= len
      BY <1>2, <3>2, <3>3
    <3> QED BY <3>1, <3>2, <3>4 DEF RangeType
  <2>3. PICK new : /\ new \in [range : RangeType, available : BOOLEAN]
                   /\ new = AsKept(e) /\ new.range = r /\ new.available = available
    <3>1. PICK new : new = [range |-> r, available |-> available]
      OBVIOUS
    <3>2. AsKept(e) = new
      BY <1>2, <2>2, <3>1 DEF AsKept
    <3>3. new \in [range : RangeType, available : BOOLEAN]
      BY <3>1
    <3> QED BY <3>1, <3>2, <3>3
  <2>4. PICK map \in Seq([range : RangeType, available : BOOLEAN]) : map = memory_map
    BY DEF BootInv, BootTyped
  <2>5. memory_map' = Append(map, new)
    BY <1>2, <1>12, <2>2, <2>3, <2>4 DEF KeepEntry, AsKept
  <2>6. PICK usable \in Nat : /\ usable = memory_usable' /\ usable < Limit /\ usable <= addr + len
                              /\ usable = memory_usable + IF available THEN len ELSE 0
    <3>1. CASE available
      <4>1. PICK u \in 0 .. Limit - 1 : u = memory_usable + len
        BY <1>2, <1>9, <2>1
      <4>2. memory_usable' = u % Limit
        BY <1>2, <1>12, <3>1, <4>1 DEF KeepEntry
      <4>3. u % Limit = u
        BY <1>2, SmallRemainder
      <4> QED BY <1>2, <1>9, <3>1, <4>1, <4>2, <4>3
    <3>2. CASE ~available
      <4>1. memory_usable' = memory_usable
        BY <1>2, <1>12, <3>2 DEF KeepEntry
      <4>2. memory_usable < Limit
        BY DEF BootInv, UsableFollows
      <4>3. memory_usable <= addr + len /\ memory_usable = memory_usable + 0
        BY <1>2, <1>9
      <4> QED BY <1>9, <3>2, <4>1, <4>2, <4>3
    <3> QED BY <3>1, <3>2
  <2>7. /\ Append(map, new) \in Seq([range : RangeType, available : BOOLEAN])
        /\ Len(Append(map, new)) = Len(map) + 1 /\ Append(map, new)[Len(map) + 1] = new
        /\ \A n \in 1 .. Len(map) : Append(map, new)[n] = map[n]
    BY <2>3, AppendProperties
  <2>8. BootTyped'
    BY <1>3, <1>4, <2>5, <2>6, <2>7 DEF BootInv, BootTyped
  <2>9. PICK more \in Seq(EntryType) :
          /\ more = Kept' /\ Len(more) = Len(kept) + 1 /\ more[Len(kept) + 1] = e
          /\ \A n \in 1 .. Len(kept) : more[n] = kept[n]
    <3>1. /\ Append(kept, e) \in Seq(EntryType)
          /\ Len(Append(kept, e)) = Len(kept) + 1 /\ Append(kept, e)[Len(kept) + 1] = e
          /\ \A n \in 1 .. Len(kept) : Append(kept, e)[n] = kept[n]
      BY AppendProperties
    <3> QED BY <1>6, <2>1, <3>1
  <2>10. PICK k \in Nat : k = Len(kept) /\ k = Len(map)
    <3>1. Len(kept) \in Nat
      OBVIOUS
    <3>2. Len(kept) = Len(map)
      BY <1>5, <2>4 DEF BootInv, MapFollowsEntries
    <3> QED BY <3>1, <3>2
  <2>11. MapFollowsEntries'
    <3>1. PICK after : after = Append(map, new) /\ after = memory_map'
      BY <2>5
    <3>2. /\ Len(after) = k + 1 /\ after[k + 1] = new /\ \A n \in 1 .. k : after[n] = map[n]
          /\ DOMAIN after = 1 .. k + 1
      BY <2>7, <2>10, <3>1
    <3>3. \A n \in 1 .. k : map[n] = AsKept(kept[n]) /\ Low(kept[n])
      BY <1>5, <2>4, <2>10 DEF BootInv, MapFollowsEntries
    <3>4. ASSUME NEW n \in DOMAIN after PROVE after[n] = AsKept(more[n]) /\ Low(more[n])
      <4>1. CASE n = k + 1
        BY <2>1, <2>3, <2>9, <2>10, <3>2, <4>1
      <4>2. CASE n # k + 1
        <5>1. n \in 1 .. k
          BY <3>2, <4>2
        <5>2. after[n] = map[n]
          BY <3>2, <5>1
        <5>4. n \in 1 .. Len(kept)
          BY <2>10, <5>1
        <5>5. more[n] = kept[n]
          BY <2>9, <5>4
        <5>6. map[n] = AsKept(kept[n]) /\ Low(kept[n])
          BY <3>3, <5>1
        <5> QED BY <5>2, <5>5, <5>6
      <4> QED BY <4>1, <4>2
    <3>5. \A n \in DOMAIN kept : \E j \in DOMAIN said : said[j] = kept[n]
      BY <1>3, <1>5 DEF BootInv, MapFollowsEntries
    <3>6. ASSUME NEW n \in DOMAIN more PROVE \E j \in DOMAIN now : now[j] = more[n]
      <4>1. CASE n = k + 1
        <5>1. N + 1 \in DOMAIN now /\ now[N + 1] = more[n]
          BY <1>3, <1>7, <2>9, <2>10, <4>1
        <5> QED BY <5>1
      <4>2. CASE n # k + 1
        <5>1. n \in DOMAIN kept /\ more[n] = kept[n]
          <6>3. DOMAIN kept = 1 .. Len(kept) /\ DOMAIN more = 1 .. Len(more)
            BY LenProperties
          <6>4. DOMAIN kept = 1 .. k /\ DOMAIN more = 1 .. Len(more)
            BY <2>10, <6>3
          <6>5. Len(more) = k + 1
            BY <2>9, <2>10
          <6>1. DOMAIN more = 1 .. k + 1 /\ DOMAIN kept = 1 .. k
            BY <6>4, <6>5
          <6>2. n \in 1 .. k
            BY <4>2, <6>1
          <6>6. n \in 1 .. Len(kept)
            BY <2>10, <6>2
          <6> QED BY <2>9, <6>1, <6>2, <6>6
        <5>2. PICK j \in DOMAIN said : said[j] = kept[n]
          BY <3>5, <5>1
        <5>3. j \in DOMAIN now /\ now[j] = said[j]
          BY <1>3, <1>7
        <5> QED BY <5>1, <5>2, <5>3
      <4> QED BY <4>1, <4>2
    <3>7. Len(after) = Len(more) /\ Len(after) <= MEMORY_MAP_SIZE
      BY <1>4, <2>4, <2>9, <2>10, <3>2
    <3> QED BY <1>3, <2>9, <3>1, <3>4, <3>6, <3>7 DEF MapFollowsEntries
  <2>12. ModulesFollow'
    BY <1>4 DEF BootInv, ModulesFollow
  <2>13. UsableFollows'
    BY <1>2, <1>10, <2>6 DEF UsableFollows
  <2>14. PagesFit'
    <3>1. AvailablePages' = AvailablePages \cup IF available THEN PagesIn(r) ELSE {}
      <4>1. PagesOfMap(Append(map, new)) = PagesOfMap(map) \cup IF available THEN PagesIn(r) ELSE {}
        BY <2>3, OneRangeMore
      <4>2. AvailablePages = PagesOfMap(map)
        BY <2>4 DEF AvailablePages, PagesOfMap
      <4>3. AvailablePages' = PagesOfMap(Append(map, new))
        BY <2>5 DEF AvailablePages, PagesOfMap
      <4> QED BY <4>1, <4>2, <4>3
    <3>2. /\ IsFiniteSet(PagesIn(r)) /\ Cardinality(PagesIn(r)) \in Nat
          /\ Cardinality(PagesIn(r)) * PageSize <= r.size
      BY <2>2, PagesOfARange
    <3>3. CASE available
      <4>1. PICK A, B : A = AvailablePages /\ B = PagesIn(r) /\ AvailablePages' = A \cup B
        BY <3>1, <3>3
      <4>2. IsFiniteSet(A) /\ IsFiniteSet(B) /\ IsFiniteSet(A \cap B)
        BY <3>2, <4>1, FS_Subset DEF BootInv, PagesFit
      <4>3. /\ IsFiniteSet(A \cup B)
            /\ Cardinality(A \cup B) = Cardinality(A) + Cardinality(B) - Cardinality(A \cap B)
        BY <4>2, FS_Union
      <4>4. PICK a \in Nat, b \in Nat, c \in Nat, u \in Nat :
              /\ a = Cardinality(A) /\ b = Cardinality(B)
              /\ c = Cardinality(A \cap B) /\ u = Cardinality(A \cup B) /\ u = a + b - c
        BY <4>2, <4>3, FS_CardinalityType
      <4>5. ASSUME NoneTooShort' PROVE u * PageSize <= memory_usable'
        <5>1. PICK P \in Nat \ {0} : P = PageSize
          BY BootAssumption
        <5>2. a * P <= memory_usable
          BY <1>8, <4>1, <4>4, <4>5, <5>1 DEF BootInv, PagesFit
        <5>3. ~(len < Align(addr))
          BY <1>2, <1>8, <3>3, <4>5 DEF TooShort
        <5>4. b * P <= len
          <6>1. b * P <= r.size /\ r.size <= len
            BY <2>2, <3>2, <4>1, <4>4, <5>1, <5>3
          <6>2. b * P \in Nat /\ r.size \in Nat
            BY <2>2 DEF RangeType
          <6> QED BY <1>2, <6>1, <6>2
        <5>5. u * P <= a * P + b * P
          <6>1. u + c = a + b
            BY <4>4, SMTT(30)
          <6>2. (u + c) * P = (a + b) * P
            BY <6>1
          <6>3. (u + c) * P = u * P + c * P
            OBVIOUS
          <6>4. (a + b) * P = a * P + b * P
            OBVIOUS
          <6>5. PICK x \in Nat, y \in Nat, z \in Nat, w \in Nat :
                  x = a * P /\ y = b * P /\ z = c * P /\ w = u * P
            OBVIOUS
          <6> QED BY <6>2, <6>3, <6>4, <6>5
        <5>6. memory_usable' = memory_usable + len
          BY <2>6, <3>3
        <5>7. PICK x \in Nat, y \in Nat, w \in Nat : x = a * P /\ y = b * P /\ w = u * P
          OBVIOUS
        <5>8. w <= memory_usable + len
          <6>1. x <= memory_usable /\ y <= len /\ w <= x + y
            BY <5>2, <5>4, <5>5, <5>7
          <6>2. memory_usable \in Nat /\ len \in Nat
            BY <1>2, <1>9
          <6> QED BY <6>1, <6>2
        <5> QED BY <5>1, <5>6, <5>7, <5>8
      <4> QED BY <4>1, <4>3, <4>4, <4>5 DEF PagesFit
    <3>4. CASE ~available
      <4>1. AvailablePages' = AvailablePages /\ memory_usable' = memory_usable
        BY <1>2, <1>12, <3>1, <3>4 DEF KeepEntry
      <4> QED BY <1>8, <4>1 DEF BootInv, PagesFit
    <3> QED BY <3>3, <3>4
  <2> QED BY <2>8, <2>11, <2>12, <2>13, <2>14 DEF BootInv
<1> QED BY <1>1, <1>11, <1>12

\* A module's tag: what is kept of it follows it, or the kernel stops.
LEMMA ParseModuleKeepsBoot ==
  ASSUME BootInv, ParseModule
  PROVE  BootInv'
<1>1. PICK module \in ModuleRanges :
        /\ loaded' = Append(loaded, module)
        /\ \/ /\ Len(modules) < MODULES_SIZE
              /\ modules' = Append(modules, around_non_aligned_address(module.addr, module.len))
              /\ UNCHANGED refused
           \/ Len(modules) = MODULES_SIZE /\ refused' = TRUE /\ UNCHANGED modules
  BY DEF ParseModule
<1>2. /\ memory_map' = memory_map /\ memory_usable' = memory_usable /\ tag' = tag
      /\ entries' = entries /\ ~refused
  BY DEF ParseModule
<1>3. MapFollowsEntries' /\ UsableFollows' /\ PagesFit'
  <2>1. Kept' = Kept /\ NoneTooShort' = NoneTooShort /\ AvailablePages' = AvailablePages
    BY <1>2 DEF Kept, NoneTooShort, AvailablePages
  <2> QED BY <1>2, <2>1 DEF BootInv, MapFollowsEntries, UsableFollows, PagesFit
<1>4. PICK was \in Seq(ModuleRanges), now \in Seq(ModuleRanges), N \in Nat :
        /\ was = loaded /\ now = loaded' /\ N = Len(was) /\ Len(now) = N + 1
        /\ now[N + 1] = module /\ \A n \in 1 .. N : now[n] = was[n]
  <2>1. PICK was \in Seq(ModuleRanges) : was = loaded
    BY DEF BootInv, BootTyped
  <2>2. Append(was, module) \in Seq(ModuleRanges) /\ Len(was) \in Nat
    OBVIOUS
  <2>3. /\ Len(Append(was, module)) = Len(was) + 1 /\ Append(was, module)[Len(was) + 1] = module
        /\ \A n \in 1 .. Len(was) : Append(was, module)[n] = was[n]
    BY AppendProperties
  <2> QED BY <1>1, <2>1, <2>2, <2>3
<1>5. PICK old \in Seq(RangeType), M \in Nat : old = modules /\ M = Len(old) /\ M = N
  <2>1. PICK old \in Seq(RangeType) : old = modules
    BY DEF BootInv, BootTyped
  <2>2. Len(modules) = Len(loaded)
    BY <1>2 DEF BootInv, ModulesFollow
  <2> QED BY <1>4, <2>1, <2>2
<1>6. \A n \in 1 .. M : old[n] = around_non_aligned_address(was[n].addr, was[n].len)
  <2>3. DOMAIN old = 1 .. Len(old)
    BY LenProperties
  <2>1. DOMAIN old = 1 .. M
    BY <1>5, <2>3
  <2>2. \A n \in DOMAIN old : old[n] = around_non_aligned_address(loaded[n].addr, loaded[n].len)
    BY <1>5 DEF BootInv, ModulesFollow
  <2> QED BY <1>4, <2>1, <2>2
<1>7. MODULES_SIZE \in Nat
  BY BootAssumption
<1>8. CASE /\ Len(modules) < MODULES_SIZE
           /\ modules' = Append(modules, around_non_aligned_address(module.addr, module.len))
           /\ UNCHANGED refused
  <2>1. PICK r : r = around_non_aligned_address(module.addr, module.len) /\ r \in RangeType
    BY AroundNonAlignedGives DEF RangeType
  <2>2. PICK new \in Seq(RangeType) :
          /\ new = modules' /\ Len(new) = M + 1 /\ new[M + 1] = r
          /\ \A n \in 1 .. M : new[n] = old[n]
    <3>1. Append(old, r) \in Seq(RangeType)
      BY <2>1
    <3>2. /\ Len(Append(old, r)) = Len(old) + 1 /\ Append(old, r)[Len(old) + 1] = r
          /\ \A n \in 1 .. Len(old) : Append(old, r)[n] = old[n]
      BY <2>1, AppendProperties
    <3>3. modules' = Append(old, r)
      BY <1>5, <1>8, <2>1
    <3> QED BY <1>5, <3>1, <3>2, <3>3
  <2>3. BootTyped'
    BY <1>2, <1>4, <1>8, <2>2 DEF BootInv, BootTyped
  <2>4. ASSUME NEW n \in DOMAIN new
        PROVE  new[n] = around_non_aligned_address(now[n].addr, now[n].len)
    <3>1. CASE n = M + 1
      <4>1. new[n] = r /\ now[n] = module
        BY <1>4, <1>5, <2>2, <3>1
      <4> QED BY <2>1, <4>1
    <3>2. CASE n # M + 1
      <4>1. n \in 1 .. M /\ n \in 1 .. N
        BY <1>5, <2>2, <3>2
      <4>2. new[n] = old[n] /\ now[n] = was[n]
        BY <1>4, <2>2, <4>1
      <4> QED BY <1>6, <4>1, <4>2
    <3> QED BY <3>1, <3>2
  <2>5. Len(new) <= Len(now) /\ Len(new) = Len(now) /\ Len(new) <= MODULES_SIZE
    BY <1>4, <1>5, <1>7, <1>8, <2>2
  <2>6. ModulesFollow'
    BY <1>4, <2>2, <2>4, <2>5 DEF ModulesFollow
  <2> QED BY <1>3, <2>3, <2>6 DEF BootInv
<1>9. CASE Len(modules) = MODULES_SIZE /\ refused' = TRUE /\ UNCHANGED modules
  <2>1. BootTyped'
    BY <1>2, <1>4, <1>9 DEF BootInv, BootTyped
  <2>2. ASSUME NEW n \in 1 .. M
        PROVE  old[n] = around_non_aligned_address(now[n].addr, now[n].len)
    <3>1. n \in 1 .. N
      BY <1>5
    <3>2. now[n] = was[n]
      BY <1>4, <3>1
    <3> QED BY <1>6, <3>2
  <2>3. Len(old) <= Len(now) /\ Len(old) <= MODULES_SIZE /\ DOMAIN old = 1 .. M
    <3>1. Len(old) <= Len(now)
      BY <1>4, <1>5
    <3>2. Len(old) <= MODULES_SIZE
      <4>1. Len(old) = MODULES_SIZE
        BY <1>5, <1>9
      <4> QED BY <1>7, <4>1
    <3>4. DOMAIN old = 1 .. Len(old)
      BY LenProperties
    <3>3. DOMAIN old = 1 .. M
      BY <1>5, <3>4
    <3> QED BY <3>1, <3>2, <3>3
  <2>4. ModulesFollow'
    BY <1>4, <1>5, <1>9, <2>2, <2>3 DEF ModulesFollow
  <2> QED BY <1>3, <2>1, <2>4 DEF BootInv
<1> QED BY <1>1, <1>8, <1>9

\* The steps between tags, and the assertion, leave what is kept alone.
LEMMA OtherStepsKeepBoot ==
  ASSUME BootInv, MemoryMapTag \/ ParseEntryAssert \/ MemoryMapEnd \/ EndTag \/ UNCHANGED bootVars
  PROVE  BootInv'
<1>1. /\ memory_map' = memory_map /\ memory_usable' = memory_usable /\ modules' = modules
      /\ entries' = entries /\ loaded' = loaded
  BY DEF MemoryMapTag, ParseEntryAssert, MemoryMapEnd, EndTag, bootVars, bootdata
<1>2. tag' \in {"next", "mmap", "END"} /\ refused' \in BOOLEAN /\ (~refused' => ~refused)
  BY DEF BootInv, BootTyped, MemoryMapTag, ParseEntryAssert, MemoryMapEnd, EndTag, bootVars, bootdata
<1>3. BootTyped'
  BY <1>1, <1>2 DEF BootInv, BootTyped
<1>4. MapFollowsEntries' /\ UsableFollows' /\ PagesFit'
  <2>1. Kept' = Kept /\ NoneTooShort' = NoneTooShort /\ AvailablePages' = AvailablePages
    BY <1>1 DEF Kept, NoneTooShort, AvailablePages
  <2> QED BY <1>1, <2>1 DEF BootInv, MapFollowsEntries, UsableFollows, PagesFit
<1>5. ModulesFollow'
  BY <1>1, <1>2 DEF BootInv, ModulesFollow
<1> QED BY <1>3, <1>4, <1>5 DEF BootInv

\* Before the first tag nothing is kept.
LEMMA BootInvHoldsAtFirst ==
  ASSUME BootInit
  PROVE  BootInv
<1>1. Kept = <<>> /\ DOMAIN memory_map = {} /\ DOMAIN modules = {} /\ Len(memory_map) = 0
      /\ Len(modules) = 0 /\ Len(loaded) = 0 /\ Len(Kept) = 0 /\ DOMAIN Kept = {}
  BY NothingSkipped DEF BootInit, Kept
<1>2. BootTyped
  <2>1. entries \in Seq(EntryType) /\ loaded \in Seq(ModuleRanges)
    BY DEF BootInit
  <2>2. /\ memory_map \in Seq([range : RangeType, available : BOOLEAN])
        /\ modules \in Seq(RangeType)
    BY DEF BootInit
  <2>3. tag \in {"next", "mmap", "END"} /\ refused \in BOOLEAN /\ memory_usable \in Nat
    BY DEF BootInit
  <2> QED BY <2>1, <2>2, <2>3 DEF BootTyped
<1>3. MapFollowsEntries
  <2>1. Kept \in Seq(EntryType)
    BY <1>1
  <2> QED BY <1>1, <2>1, BootAssumption DEF MapFollowsEntries
<1>4. ModulesFollow
  BY <1>1, BootAssumption DEF ModulesFollow
<1>5. UsableFollows
  BY BootAssumption DEF BootInit, UsableFollows
<1>6. PagesFit
  <2>1. AvailablePages = {}
    BY <1>1 DEF AvailablePages
  <2>2. IsFiniteSet(AvailablePages) /\ Cardinality(AvailablePages) = 0
    BY <2>1, FS_EmptySet
  <2>3. 0 * PageSize = 0
    BY BootAssumption
  <2> QED BY <2>2, <2>3 DEF BootInit, PagesFit
<1> QED BY <1>2, <1>3, <1>4, <1>5, <1>6 DEF BootInv

\* What the memory map and the modules' ranges say, from what they follow.
LEMMA RangesFollow ==
  ASSUME BootInv
  PROVE  BootRangesAreSound
<1>1. tag \in {"next", "mmap", "END"} /\ memory_usable \in 0 .. Limit - 1
  BY BootAssumption DEF BootInv, BootTyped, UsableFollows
<1>2. /\ Len(memory_map) = Len(Kept) /\ Len(memory_map) <= MEMORY_MAP_SIZE
      /\ Len(modules) <= Len(loaded) /\ Len(modules) <= MODULES_SIZE
  BY DEF BootInv, MapFollowsEntries, ModulesFollow
<1>3. ASSUME NEW i \in DOMAIN memory_map
      PROVE  /\ PageAligned(memory_map[i].range) /\ memory_map[i].available = Kept[i].available
             /\ ~TooShort(Kept[i]) =>
                  /\ Bytes(memory_map[i].range.base, memory_map[i].range.size)
                       \subseteq Bytes(Kept[i].addr, Kept[i].len)
                  /\ Kept[i].len - memory_map[i].range.size < 2 * PageSize - 1
  <2>1. PICK e \in EntryType : e = Kept[i] /\ memory_map[i] = AsKept(e) /\ Low(e)
    <3>1. i \in DOMAIN Kept
      BY <1>2 DEF BootInv, BootTyped, MapFollowsEntries
    <3>2. Kept[i] \in EntryType
      BY <3>1 DEF BootInv, MapFollowsEntries
    <3> QED BY <3>2 DEF BootInv, MapFollowsEntries
  <2>2. PICK addr \in Nat, len \in Nat : addr = e.addr /\ len = e.len /\ addr + len < Limit
    BY <2>1 DEF EntryType, Low
  <2>3. PICK r : r = from_non_aligned_address(addr, len) /\ memory_map[i].range = r
                 /\ memory_map[i].available = e.available
    BY <2>1, <2>2 DEF AsKept
  <2>4. /\ r \in [base : Nat, size : Nat] /\ PageAligned(r)
        /\ ~(len < Align(addr)) =>
             /\ addr <= r.base /\ r.base + r.size <= addr + len
             /\ len - r.size < 2 * PageSize - 1
    BY <2>2, <2>3, FromNonAlignedGives
  <2>5. ~TooShort(e) => /\ Bytes(r.base, r.size) \subseteq Bytes(addr, len)
                        /\ len - r.size < 2 * PageSize - 1
    <3>1. PICK base \in Nat, size \in Nat : base = r.base /\ size = r.size
      BY <2>4
    <3> QED BY <2>2, <2>4, <3>1 DEF TooShort, Bytes
  <2> QED BY <2>1, <2>2, <2>3, <2>4, <2>5
<1>4. ASSUME NEW i \in DOMAIN modules
      PROVE  /\ PageAligned(modules[i])
             /\ Bytes(loaded[i].addr, loaded[i].len) \subseteq Bytes(modules[i].base, modules[i].size)
             /\ modules[i].size - loaded[i].len < 2 * PageSize
  <2>1. PICK module \in ModuleRanges : module = loaded[i]
    <3>1. i \in DOMAIN loaded
      BY <1>2 DEF BootInv, BootTyped
    <3> QED BY <3>1 DEF BootInv, BootTyped
  <2>2. PICK r : r = around_non_aligned_address(module.addr, module.len) /\ modules[i] = r
    BY <2>1 DEF BootInv, ModulesFollow
  <2>3. /\ r \in [base : Nat, size : Nat] /\ PageAligned(r)
        /\ r.base <= module.addr /\ module.addr + module.len <= r.base + r.size
        /\ r.size - module.len < 2 * PageSize
    BY <2>2, AroundNonAlignedGives
  <2>4. PICK base \in Nat, size \in Nat, addr \in Nat, len \in Nat :
          base = r.base /\ size = r.size /\ addr = module.addr /\ len = module.len
    <3>1. module \in [addr : Nat, len : Nat]
      BY BootAssumption
    <3> QED BY <2>3, <3>1
  <2>5. Bytes(addr, len) \subseteq Bytes(base, size)
    BY <2>3, <2>4 DEF Bytes
  <2> QED BY <2>1, <2>2, <2>3, <2>4, <2>5
<1> QED BY <1>1, <1>2, <1>3, <1>4 DEF BootRangesAreSound

\* An available page lies in an available entry.
LEMMA PagesLieInEntries ==
  ASSUME BootInv, NoneTooShort, NEW p \in AvailablePages
  PROVE  \E i \in DOMAIN entries :
            /\ entries[i].available
            /\ Bytes(p * PageSize, PageSize) \subseteq Bytes(entries[i].addr, entries[i].len)
<1>1. PICK n \in DOMAIN memory_map : memory_map[n].available /\ p \in PagesIn(memory_map[n].range)
  BY DEF AvailablePages
<1>2. PICK e \in EntryType : e = Kept[n] /\ memory_map[n] = AsKept(e) /\ Low(e) /\ n \in DOMAIN Kept
  <2>1. n \in DOMAIN Kept
    BY <1>1 DEF BootInv, BootTyped, MapFollowsEntries
  <2>2. Kept[n] \in EntryType
    BY <2>1 DEF BootInv, MapFollowsEntries
  <2> QED BY <2>1, <2>2 DEF BootInv, MapFollowsEntries
<1>3. PICK i \in DOMAIN entries : entries[i] = e
  BY <1>2 DEF BootInv, MapFollowsEntries
<1>4. e.available /\ ~TooShort(e)
  BY <1>1, <1>2, <1>3 DEF AsKept, NoneTooShort
<1>5. PICK addr \in Nat, len \in Nat : addr = e.addr /\ len = e.len /\ addr + len < Limit
  BY <1>2 DEF EntryType, Low
<1>6. PICK r : r = from_non_aligned_address(addr, len) /\ memory_map[n].range = r
  BY <1>2, <1>5 DEF AsKept
<1>7. /\ r \in [base : Nat, size : Nat] /\ PageAligned(r)
      /\ addr <= r.base /\ r.base + r.size <= addr + len
  <2>1. ~(len < Align(addr))
    BY <1>4, <1>5 DEF TooShort
  <2> QED BY <1>5, <1>6, <2>1, FromNonAlignedGives
<1>8. p \in Nat /\ r.base <= p * PageSize /\ p * PageSize + PageSize <= r.base + r.size
  <2>1. r \in RangeType
    BY <1>7 DEF RangeType
  <2> QED BY <1>1, <1>6, <1>7, <2>1, PagesOfARange
<1>9. Bytes(p * PageSize, PageSize) \subseteq Bytes(addr, len)
  <2>1. PICK P \in Nat, x \in Nat, base \in Nat, size \in Nat :
          P = PageSize /\ x = p * PageSize /\ base = r.base /\ size = r.size
    <3>1. PageSize \in Nat
      BY BootAssumption
    <3>2. p * PageSize \in Nat /\ r.base \in Nat /\ r.size \in Nat
      BY <1>7, <1>8, <3>1
    <3> QED BY <3>1, <3>2
  <2>2. addr <= base /\ base + size <= addr + len /\ base <= x /\ x + P <= base + size
    BY <1>7, <1>8, <2>1
  <2>3. Bytes(x, P) \subseteq Bytes(addr, len)
    BY <2>2 DEF Bytes
  <2> QED BY <2>1, <2>3
<1> QED BY <1>3, <1>4, <1>5, <1>9

\* For every memory map the boot loader may report, what get_bootdata keeps
\* is sound, and the physical allocator may take it: the pages of the
\* available entries fit in memory_usable, which has not wrapped.
THEOREM MemoryMapIsSound == BootSpec => []KeepsPhysicalAssumption
<1>1. BootInit => BootInv
  BY BootInvHoldsAtFirst
<1>2. BootInv /\ [BootNext]_bootVars => BootInv'
  BY ParseEntryKeepsBoot, ParseModuleKeepsBoot, OtherStepsKeepBoot DEF BootNext
<1>3. BootInv => KeepsPhysicalAssumption
  <2>1. SUFFICES ASSUME BootInv PROVE KeepsPhysicalAssumption
    OBVIOUS
  <2>2. BootRangesAreSound
    BY <2>1, RangesFollow
  <2>3. memory_usable < Limit
    BY <2>1 DEF BootInv, UsableFollows
  <2>4. NoneTooShort => Cardinality(AvailablePages) * PageSize <= memory_usable
    BY <2>1 DEF BootInv, PagesFit
  <2>5. NoneTooShort => \A p \in AvailablePages : \E i \in DOMAIN entries :
            /\ entries[i].available
            /\ Bytes(p * PageSize, PageSize) \subseteq Bytes(entries[i].addr, entries[i].len)
    BY <2>1, PagesLieInEntries
  <2> QED BY <2>2, <2>3, <2>4, <2>5 DEF KeepsPhysicalAssumption, NoneTooShort
<1> QED BY <1>1, <1>2, <1>3, PTL DEF BootSpec
=============================================================================
