-------------------------------- MODULE Heap --------------------------------
(***************************************************************************)
(* The heap of the C library: userspace/libraries/libc/__alloc__.cpp       *)
(* (liballoc 1.1), over the two memory calls the kernel plugs in for it.   *)
(*                                                                         *)
(* A call runs under the memory lock from its first access to the heap to  *)
(* its last, so malloc and free are one step each.  The list from          *)
(* l_memRoot and the lists of blocks in it are sequences; sizes and        *)
(* addresses are numbers in a unit the constants choose.                   *)
(***************************************************************************)
EXTENDS Integers, FiniteSets, SequencesExt

CONSTANTS MAJOR,       \* sizeof(AllocMajor)
          MINOR,       \* sizeof(AllocMinor)
          ALIGNMENT, ALIGN_INFO,
          PAGE_SIZE,   \* _PAGE_SIZE, also the kernel's
          PAGE_COUNT,  \* _PAGE_COUNT, the least pages of a major block
          HeapPages,   \* the pages the kernel can give, numbered from 1
          Requests     \* the sizes clients ask for

ASSUME HeapAssumption ==
  /\ {MAJOR, MINOR, ALIGNMENT, ALIGN_INFO, PAGE_SIZE, PAGE_COUNT, HeapPages}
       \subseteq Nat \ {0}
  /\ Requests \subseteq Nat

VARIABLES majors,      \* the major blocks, from l_memRoot along next
          l_bestBet,   \* the base of a major block, or 0 for nullptr
          l_allocated, l_inuse,
          granted,     \* external: the pages the kernel has given the heap
          panicked     \* "no", or why the kernel has stopped

heapVars == <<majors, l_bestBet, l_allocated, l_inuse, granted, panicked>>

PagesOf(base, count) == base \div PAGE_SIZE .. base \div PAGE_SIZE + count - 1

EndOf(minor) == minor.at + MINOR + minor.size

Unused(maj) == maj.size - maj.usage
-----------------------------------------------------------------------------
\* Bug: the room the header takes is forgotten.
FitsAfter_NoHeader(maj, i, size) ==
  LET low  == IF i = 0 THEN maj.base + MAJOR ELSE EndOf(maj.minors[i])
      high == IF i = Len(maj.minors) THEN maj.base + maj.size
              ELSE maj.minors[i + 1].at
  IN  high - low >= size

\* A block of size units and its header fit after minor i of the major, or
\* before its first one when i = 0.
FitsAfter(maj, i, size) ==
  LET low  == IF i = 0 THEN maj.base + MAJOR ELSE EndOf(maj.minors[i])
      high == IF i = Len(maj.minors) THEN maj.base + maj.size
              ELSE maj.minors[i + 1].at
  IN  high - low >= size + MINOR

\* Where the scan of one major puts the block: the first gap that fits, if
\* the unused total is large enough to look for one.  An empty major takes
\* it at once: it was made for it.
Gaps(maj, size) ==
  IF Unused(maj) < size + MINOR THEN {}
  ELSE {i \in 0 .. Len(maj.minors) : FitsAfter(maj, i, size)}

WithBlock(maj, i, size, req) ==
  LET at == IF i = 0 THEN maj.base + MAJOR ELSE EndOf(maj.minors[i]) IN
  [maj EXCEPT !.minors = InsertAt(@, i + 1, [at |-> at, size |-> size, req |-> req]),
              !.usage = @ + size + MINOR]

\* allocate_new_page: the pages of a new major block.
NewPages(size) ==
  LET need == size + MAJOR + MINOR IN
  Max({PAGE_COUNT, (need + PAGE_SIZE - 1) \div PAGE_SIZE})

NewMajor(base, size) ==
  [base |-> base, pages |-> NewPages(size), size |-> NewPages(size) * PAGE_SIZE,
   usage |-> MAJOR, minors |-> << >>]

\* The kernel's memory_alloc gives the lowest free run of pages (first fit),
\* or panics.
FreeRuns(count) ==
  {p \in 1 .. HeapPages - count + 1 : p .. p + count - 1 \cap granted = {}}
-----------------------------------------------------------------------------
\* Bug: the search that started at the best bet does not start over.
Visits_NoRestart(size) ==
  LET bet == {k \in DOMAIN majors :
                majors[k].base = l_bestBet /\ Unused(majors[k]) > size + MINOR}
      from == IF bet = {} THEN 1 ELSE Min(bet)
  IN  [k \in 1 .. Len(majors) - from + 1 |-> from + k - 1]

\* The order in which malloc visits the majors: from the best bet to the end
\* and then again from the root if the best bet has more than enough unused
\* space, from the root otherwise.
Visits(size) ==
  LET all == [k \in DOMAIN majors |-> k]
      bet == {k \in DOMAIN majors :
                majors[k].base = l_bestBet /\ Unused(majors[k]) > size + MINOR}
  IN  IF bet = {} THEN all
      ELSE SubSeq(all, Min(bet), Len(all)) \o all

\* The unused space of the best bet, 0 for nullptr.
BetSize ==
  IF l_bestBet = 0 THEN 0
  ELSE Unused(majors[CHOOSE k \in DOMAIN majors : majors[k].base = l_bestBet])

\* l_bestBet after visiting these majors: the first of those with the most
\* unused space, if that is more than the best bet had.
BetAfter(visited) ==
  LET best == Max({BetSize} \cup {Unused(visited[v]) : v \in DOMAIN visited})
      first == Min({v \in DOMAIN visited : Unused(visited[v]) = best})
  IN  IF best = BetSize THEN l_bestBet ELSE visited[first].base

Account(size) == l_inuse' = l_inuse + size

\* The visits, in order, to majors that have a gap for the block.
Hits(size) ==
  LET order == Visits(size) IN
  {v \in DOMAIN order : Gaps(majors[order[v]], size) # {}}

\* Bug: the block has no room for moving the pointer up to the alignment.
MallocInGap_NoSlack(req) ==
  LET size == req + ALIGN_INFO
      order == Visits(size)
      first == Min(Hits(size))
      k == order[first]
  IN  /\ Hits(size) # {}
      /\ majors' = [majors EXCEPT
                      ![k] = WithBlock(@, Min(Gaps(@, size)), size, req)]
      /\ l_bestBet' = BetAfter([v \in 1 .. first |-> majors[order[v]]])
      /\ Account(size)
      /\ UNCHANGED <<l_allocated, granted, panicked>>

\* malloc when some major has a gap for the block.
MallocInGap(req) ==
  LET size == req + ALIGNMENT + ALIGN_INFO
      order == Visits(size)
      first == Min(Hits(size))
      k == order[first]
  IN  /\ Hits(size) # {}
      /\ majors' = [majors EXCEPT
                      ![k] = WithBlock(@, Min(Gaps(@, size)), size, req)]
      /\ l_bestBet' = BetAfter([v \in 1 .. first |-> majors[order[v]]])
      /\ Account(size)
      /\ UNCHANGED <<l_allocated, granted, panicked>>

\* malloc when none has: a major is appended.  It is visited as a best bet
\* only if the list was empty, or if the last major had enough unused space
\* in all and it was the scan of its gaps that failed.
MallocInNewMajor(req) ==
  LET size == req + ALIGNMENT + ALIGN_INFO
      order == Visits(size)
      count == NewPages(size)
      fresh == NewMajor(Min(FreeRuns(count)) * PAGE_SIZE, size)
      visited == [v \in DOMAIN order |-> majors[order[v]]]
      scanned == majors = << >> \/ Unused(Last(majors)) >= size + MINOR
  IN  /\ Hits(size) = {}
      /\ FreeRuns(count) # {}
      /\ granted' = granted \cup PagesOf(fresh.base, count)
      /\ l_allocated' = l_allocated + fresh.size
      /\ majors' = Append(majors, WithBlock(fresh, 0, size, req))
      /\ l_bestBet' = BetAfter(IF scanned THEN Append(visited, fresh) ELSE visited)
      /\ Account(size)
      /\ UNCHANGED panicked

MallocPanic(req) ==
  LET size == req + ALIGNMENT + ALIGN_INFO IN
  /\ Hits(size) = {}
  /\ FreeRuns(NewPages(size)) = {}
  /\ panicked' = "out of memory"
  /\ UNCHANGED <<majors, l_bestBet, l_allocated, l_inuse, granted>>
-----------------------------------------------------------------------------
\* Bug: the header of the block stays counted as used.
FreeBlock_HeaderKept(k, i) ==
  LET maj == majors[k]
      left == [maj EXCEPT !.minors = RemoveAt(@, i), !.usage = @ - maj.minors[i].size]
  IN  /\ Len(maj.minors) > 1
      /\ majors' = [majors EXCEPT ![k] = left]
      /\ l_inuse' = l_inuse - maj.minors[i].size
      /\ UNCHANGED <<l_bestBet, l_allocated, granted, panicked>>

\* free of block i of major k, while other blocks of the major stay.
FreeBlock(k, i) ==
  LET maj == majors[k]
      left == [maj EXCEPT !.minors = RemoveAt(@, i),
                          !.usage = @ - (maj.minors[i].size + MINOR)]
      bet == IF maj.base = l_bestBet THEN Unused(left) ELSE BetSize
  IN  /\ Len(maj.minors) > 1
      /\ majors' = [majors EXCEPT ![k] = left]
      /\ l_inuse' = l_inuse - maj.minors[i].size
      /\ l_bestBet' = IF l_bestBet # 0 /\ Unused(left) > bet THEN maj.base
                                                            ELSE l_bestBet
      /\ UNCHANGED <<l_allocated, granted, panicked>>

\* The kernel's memory_free takes a size in bytes and asserts that base and
\* size are page aligned.
memory_free(base, size) ==
  IF base % PAGE_SIZE = 0 /\ size % PAGE_SIZE = 0
  THEN /\ granted' = granted \ PagesOf(base, size \div PAGE_SIZE)
       /\ UNCHANGED panicked
  ELSE panicked' = "assertion" /\ UNCHANGED granted

\* Bug: the best bet still points to the major given back.
FreeLastBlock_BetKept(k) ==
  LET maj == majors[k] IN
  /\ Len(maj.minors) = 1
  /\ majors' = RemoveAt(majors, k)
  /\ l_inuse' = l_inuse - maj.minors[1].size
  /\ l_allocated' = l_allocated - maj.size
  /\ memory_free(maj.base, maj.pages)
  /\ UNCHANGED l_bestBet

\* free of the last block of major k: the major is unlinked and its number
\* of pages is passed as the size to give back.
FreeLastBlock(k) ==
  LET maj == majors[k] IN
  /\ Len(maj.minors) = 1
  /\ majors' = RemoveAt(majors, k)
  /\ l_inuse' = l_inuse - maj.minors[1].size
  /\ l_bestBet' = IF l_bestBet = maj.base THEN 0 ELSE l_bestBet
  /\ l_allocated' = l_allocated - maj.size
  /\ memory_free(maj.base, maj.pages)
-----------------------------------------------------------------------------
HeapInit ==
  /\ majors = << >>
  /\ l_bestBet = 0
  /\ l_allocated = 0
  /\ l_inuse = 0
  /\ granted = {}
  /\ panicked = "no"

HeapNext ==
  /\ panicked = "no"
  /\ \/ \E req \in Requests : MallocInGap(req)
     \/ \E req \in Requests : MallocInNewMajor(req)
     \/ \E req \in Requests : MallocPanic(req)
     \/ \E k \in DOMAIN majors : \E i \in DOMAIN majors[k].minors : FreeBlock(k, i)
     \/ \E k \in DOMAIN majors : FreeLastBlock(k)

HeapSpec == HeapInit /\ [][HeapNext]_heapVars
-----------------------------------------------------------------------------
MinorType == [at : Nat, size : Nat, req : Requests]

\* The types of the variables.  l_bestBet is never a dangling pointer: it is null or a major
\* block of the list.
HeapTypeOK ==
  /\ \A k \in DOMAIN majors :
       LET maj == majors[k] IN
       /\ {maj.base, maj.pages, maj.size, maj.usage} \subseteq Nat
       /\ \A i \in DOMAIN maj.minors : maj.minors[i] \in MinorType
  /\ {l_bestBet, l_allocated, l_inuse} \subseteq Nat
  /\ l_bestBet # 0 => \E k \in DOMAIN majors : majors[k].base = l_bestBet
  /\ granted \subseteq 1 .. HeapPages
  /\ panicked \in {"no", "out of memory", "assertion"}

\* Blocks with their headers lie in address order inside their major, after
\* its header.
BlocksFill(maj) ==
  \A i \in DOMAIN maj.minors :
    /\ maj.base + MAJOR <= maj.minors[i].at
    /\ EndOf(maj.minors[i])
         <= IF i = Len(maj.minors) THEN maj.base + maj.size ELSE maj.minors[i + 1].at

BlocksFillTheirMajor == \A k \in DOMAIN majors : BlocksFill(majors[k])

\* The majors in the list are memory the kernel has granted, and are disjoint.
MajorsAreGranted ==
  /\ \A k \in DOMAIN majors : PagesOf(majors[k].base, majors[k].pages) \subseteq granted
  /\ \A j, k \in DOMAIN majors :
       j < k => PagesOf(majors[j].base, majors[j].pages)
                  \cap PagesOf(majors[k].base, majors[k].pages) = {}

\* What ALIGN returns for a block, from the address after its header.
Aligned(p) == p + ALIGN_INFO + ((-(p + ALIGN_INFO)) % ALIGNMENT)

\* The pointer handed to the client is aligned, the byte ALIGN writes below
\* it and the bytes the client asked for lie inside the block, and UNALIGN
\* finds the way back (its guard accepts the stored distance).
ClientBytesLieInTheBlock ==
  \A k \in DOMAIN majors : \A i \in DOMAIN majors[k].minors :
    LET m == majors[k].minors[i]
        start == m.at + MINOR
        p == Aligned(start)
    IN  /\ p % ALIGNMENT = 0
        /\ start <= p - ALIGN_INFO
        /\ p + m.req <= EndOf(m)
        /\ p - start < ALIGNMENT + ALIGN_INFO

\* Blocks and headers, of one major or of two, never overlap, and lie in memory
\* the heap holds: no gap was misjudged, no major used after it was given back.
\* What a client writes stays inside its block.
BlocksAreDisjoint ==
  BlocksFillTheirMajor /\ MajorsAreGranted /\ ClientBytesLieInTheBlock

TotalOf(numbers) ==
  LET total[n \in 0 .. Len(numbers)] ==
        IF n = 0 THEN 0 ELSE total[n - 1] + numbers[n]
  IN  total[Len(numbers)]

\* The bytes of a major in blocks, and in blocks and headers.
InBlocks(maj) == TotalOf([n \in DOMAIN maj.minors |-> maj.minors[n].size])
InUse(maj) == MAJOR + TotalOf([n \in DOMAIN maj.minors |-> maj.minors[n].size + MINOR])

\* What the search trusts is exact: what a major says is used, what the heap
\* says is in use and what it says it holds, and where the best bet points.
CountersAreExact ==
  /\ HeapTypeOK
  /\ \A k \in DOMAIN majors : majors[k].usage = InUse(majors[k])
  /\ l_inuse = TotalOf([k \in DOMAIN majors |-> InBlocks(majors[k])])
  /\ l_allocated = TotalOf([k \in DOMAIN majors |-> majors[k].size])

\* The heap grows only when it must: a new major is appended only if no gap
\* in any major, searched or not, holds the block.
GrowsForNeed ==
  Len(majors') > Len(majors) =>
    \A k \in DOMAIN majors : \A i \in 0 .. Len(majors[k].minors) :
      ~FitsAfter(majors[k], i, Last(majors').minors[1].size)

GrowsOnlyWhenFull == [][GrowsForNeed]_heapVars

\* The kernel's assertions about the ranges it is given hold.
MemoryFreeAssertionHolds == panicked # "assertion"
=============================================================================
