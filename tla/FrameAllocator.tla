--------------------------- MODULE FrameAllocator ---------------------------
(***************************************************************************)
(* What the kernel expects of its physical page allocator, without the     *)
(* bitmap, the byte counter and the search hint: a set of free frames, the *)
(* frames handed to callers, an allocation that hands out the lowest run   *)
(* of free frames, and a panic that is allowed only when every run of free *)
(* frames of that length touches a frame named as out of reach.  With      *)
(* OutOfReach empty the panic means that there is no run.                  *)
(***************************************************************************)
EXTENDS Integers

CONSTANTS Frames,      \* the frame numbers, an initial segment of Nat
          FreeAtBoot,  \* the frames the boot loader reports as usable
          OutOfReach,  \* the frames an implementation may fail to hand out
          MaxRun       \* the longest run a caller can ask for

VARIABLES free, handed, panicked

RunFrom(b, n) == b .. b + n - 1

\* The bases from which n free frames follow, wherever they lie.
Bases(n) == {b \in Frames : RunFrom(b, n) \subseteq free}

\* Those an implementation must not miss.
Findable(n) == {b \in Bases(n) : RunFrom(b, n) \cap OutOfReach = {}}

Init == free = FreeAtBoot /\ handed = {} /\ panicked = FALSE

Allocate(n) ==
  /\ ~panicked
  /\ \E b \in Bases(n) :
       /\ \A c \in Bases(n) : b <= c
       /\ free' = free \ RunFrom(b, n)
       /\ handed' = handed \cup RunFrom(b, n)
  /\ UNCHANGED panicked

\* Running out of the frames in reach is fatal, and only that is.
Exhausted(n) ==
  /\ ~panicked
  /\ Findable(n) = {}
  /\ panicked' = TRUE
  /\ UNCHANGED <<free, handed>>

Release(S) ==
  /\ ~panicked
  /\ free' = free \cup S
  /\ handed' = handed \ S
  /\ UNCHANGED panicked

\* Frames are withheld from allocation; nobody is handed them.
Reserve(S) == ~panicked /\ free' = free \ S /\ UNCHANGED <<handed, panicked>>

Next ==
  \/ \E n \in 1 .. MaxRun : Allocate(n) \/ Exhausted(n)
  \/ \E S \in SUBSET FreeAtBoot : Release(S)
  \/ \E S \in SUBSET Frames : Reserve(S)

Spec == Init /\ [][Next]_<<free, handed, panicked>>
=============================================================================
