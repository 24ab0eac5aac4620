------------------------------ MODULE Physical ------------------------------
(***************************************************************************)
(* The physical page allocator: kernel/kernel/memory/Physical.cpp.         *)
(*                                                                         *)
(* Memory is counted in pages.  The bitmap MEMORY is the set of the pages  *)
(* whose bit is 1; TOTAL_MEMORY and USED_MEMORY are byte counters of 32    *)
(* bits that only ever move by whole pages, so they are page counters      *)
(* modulo PAGES, the number of pages in 2^32 bytes and of bits in MEMORY.  *)
(***************************************************************************)
EXTENDS Integers, FiniteSets, FiniteSetsExt

CONSTANTS PAGES,         \* bits of MEMORY, 1024 * 1024
          Available,     \* the pages of the AVAILABLE memory map entries
          TOTAL_MEMORY   \* the bytes of those entries, in whole pages

\* The entries are aligned inwards (MemoryRange::from_non_aligned_address)
\* while memory_usable adds their raw length, hence the inequality.
ASSUME PhysicalAssumption ==
  /\ PAGES \in Nat \ {0}
  /\ Available \subseteq 0 .. PAGES - 1
  /\ TOTAL_MEMORY \in 0 .. PAGES - 1
  /\ Cardinality(Available) <= TOTAL_MEMORY

VARIABLES MEMORY,        \* the pages marked used
          best_bet,      \* where physical_alloc starts to search
          USED_MEMORY,   \* the counter get_used() reports
          handed,        \* auxiliary: the pages physical_alloc has returned
          panicked       \* PANIC() was called and the machine has stopped

frameVars == <<MEMORY, best_bet, USED_MEMORY, handed>>
physicalVars == <<frameVars, panicked>>

Pages == 0 .. PAGES - 1

\* The pages of a MemoryRange; addresses wrap at 2^32.
Run(base, n) == {(base + i) % PAGES : i \in 0 .. n - 1}

\* The ranges a caller can name: page aligned, not wrapping, not empty.
Ranges == UNION {{Run(b, n) : n \in 1 .. PAGES - b} : b \in Pages}
-----------------------------------------------------------------------------
\* Bug: every page of the range is counted, used before or not.
mark_used_CountsAll(S) ==
  /\ MEMORY' = MEMORY \cup S
  /\ USED_MEMORY' = (USED_MEMORY + Cardinality(S)) % PAGES
  /\ best_bet' = Min((best_bet .. PAGES) \ (S \ MEMORY))

\* The loop of physical_set_used goes up through the range, counts the
\* pages that were free and advances best_bet when it meets that page, so
\* best_bet ends at the first page, from where it was, not newly marked.
mark_used(S) ==
  LET fresh == S \ MEMORY IN
  /\ MEMORY' = MEMORY \cup S
  /\ USED_MEMORY' = (USED_MEMORY + Cardinality(fresh)) % PAGES
  /\ best_bet' = Min((best_bet .. PAGES) \ fresh)

physical_set_used(S) == mark_used(S) /\ UNCHANGED handed

\* Bug: best_bet is left where it was.
set_free_KeepsHint(S) ==
  /\ MEMORY' = MEMORY \ S
  /\ USED_MEMORY' = (USED_MEMORY - Cardinality(S \cap MEMORY)) % PAGES
  /\ handed' = handed \ S
  /\ UNCHANGED best_bet

\* physical_set_free(S): pages already free are skipped, the others pull
\* best_bet down.
physical_set_free(S) ==
  LET freed == S \cap MEMORY IN
  /\ MEMORY' = MEMORY \ S
  /\ USED_MEMORY' = (USED_MEMORY - Cardinality(freed)) % PAGES
  /\ best_bet' = Min(freed \cup {best_bet})
  /\ handed' = handed \ S

\* Bug: only the first page of the range is looked at.
Candidates_FirstPageOnly(n) ==
  {b \in best_bet .. ((TOTAL_MEMORY - n) % PAGES) - 1 : b \notin MEMORY}

\* Bug: the search ends where it would if the free pages were the first ones.
Candidates_UpToFree(n) ==
  {b \in best_bet .. ((TOTAL_MEMORY - USED_MEMORY - n) % PAGES) - 1 :
     Run(b, n) \cap MEMORY = {}}

\* The pages the loop of physical_alloc accepts as a base, from best_bet up
\* to (TOTAL_MEMORY - size), an unsigned subtraction.
Candidates(n) ==
  {b \in best_bet .. ((TOTAL_MEMORY - n) % PAGES) - 1 : Run(b, n) \cap MEMORY = {}}

\* The base physical_alloc returns when it returns.
AllocBase(n) == Min(Candidates(n))

PANIC == panicked' = TRUE

physical_alloc(n) ==
  /\ Candidates(n) # {}
  /\ mark_used(Run(AllocBase(n), n))
  /\ handed' = handed \cup Run(AllocBase(n), n)

physical_alloc_panic(n) ==
  /\ Candidates(n) = {}
  /\ PANIC
  /\ UNCHANGED frameVars
-----------------------------------------------------------------------------
\* Bug: every entry of the memory map is freed, whatever its type.
PhysicalInit_FreesEveryEntry ==
  MEMORY = {} /\ best_bet = 0 /\ USED_MEMORY = 0 /\ handed = {} /\ panicked = FALSE

\* The state after memory_initialize has filled the bitmap, freed the
\* available entries and reset the counters: every page was marked and
\* best_bet was 0 when the entries were freed, so it still is.
PhysicalInit ==
  /\ MEMORY = Pages \ Available
  /\ best_bet = 0
  /\ USED_MEMORY = 0
  /\ handed = {}
  /\ panicked = FALSE

\* One call of the interface.  Callers free only memory the map offered
\* (physical_alloc never returns anything else), perhaps twice.
Allocate(n) == physical_alloc(n) /\ UNCHANGED panicked
SetUsed(S) == physical_set_used(S) /\ UNCHANGED panicked
Free(S) == physical_set_free(S) /\ UNCHANGED panicked

PhysicalNext ==
  /\ ~panicked
  /\ \/ \E n \in 1 .. PAGES : Allocate(n)
     \/ \E n \in 1 .. PAGES : physical_alloc_panic(n)
     \/ \E S \in Ranges : SetUsed(S)
     \/ \E S \in Ranges : S \subseteq Available /\ Free(S)

PhysicalSpec == PhysicalInit /\ [][PhysicalNext]_physicalVars
-----------------------------------------------------------------------------
\* Types: the bitmap, the hint (which may point one past the last page) and
\* the counter stay in range, and what was handed out is marked used.
PhysicalTypeOK ==
  /\ MEMORY \subseteq Pages
  /\ best_bet \in 0 .. PAGES
  /\ USED_MEMORY \in Pages
  /\ handed \subseteq MEMORY
  /\ panicked \in BOOLEAN

\* The hint is sound: whatever the order of calls, no free page lies below
\* best_bet, so the search of physical_alloc misses nothing by starting there.
NoFreePageBelowBestBet == \A p \in Pages : p < best_bet => p \in MEMORY

\* Memory the boot loader did not offer is never handed out: its bits stay
\* set through every sequence of calls.
ReservedStaysUsed == Pages \ Available \subseteq MEMORY

\* get_used() is exact: marking pages that were already used and freeing
\* pages that were already free are not counted, so the counter is the
\* number of available pages in use and has not wrapped.
UsedMemoryIsExact == USED_MEMORY = Cardinality(MEMORY \cap Available)

\* The frames physical_alloc never hands out, free or not: its bound is
\* strict, so the last frame below TOTAL_MEMORY is lost, and TOTAL_MEMORY is
\* the sum of the lengths of the entries and not the end of the memory, so
\* where the memory map has a hole the frames from there on are lost too.
OutOfReach == {p \in Pages : p >= TOTAL_MEMORY - 1}

\* The allocator as a first-fit allocator with no hint: the bitmap, the
\* counter and best_bet are hidden.
AsFrameAllocator ==
  INSTANCE FrameAllocator WITH Frames <- Pages, FreeAtBoot <- Available,
                               MaxRun <- PAGES, free <- Pages \ MEMORY

\* The hint changes nothing: an allocation hands out the lowest run of free
\* pages there is in all of memory, of pages nobody else has been handed, and
\* a call for n pages panics only when every run of n free pages touches a
\* page OutOfReach.  It does panic when such runs are left.  The last conjunct
\* ties the panic to the size that was asked for, which no state records.
ImplementsFrameAllocator ==
  /\ AsFrameAllocator!Spec
  /\ [][\A n \in 1 .. PAGES :
          physical_alloc_panic(n) => AsFrameAllocator!Exhausted(n)]_physicalVars
=============================================================================
