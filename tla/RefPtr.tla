------------------------------- MODULE RefPtr -------------------------------
(***************************************************************************)
(* Reference counting: libsystem/RefPtr.h over libsystem/RefCounted.h.     *)
(*                                                                         *)
(* Pointers are variables that come and go, or members of an object that   *)
(* live as long as it does.  Dropping a reference may delete an object and *)
(* with it its members, which drop theirs: `releasing` holds the calls of  *)
(* deref still to be made, the innermost first, and an assignment is only  *)
(* completed when the release of its old target has run its course.        *)
(* Memory is reused: a deleted object may be made again.                   *)
(***************************************************************************)
EXTENDS Integers, Sequences, FiniteSets, SequencesExt

CONSTANTS
  Objects, Pointers,
  NULL,
  Owner,          \* of each pointer: the object it is a member of, or NULL
  ResetsHolding   \* whether clients assign nullptr to a pointer that holds one

ASSUME RefPtrAssumption ==
  /\ NULL \notin Objects \cup Pointers
  /\ IsFiniteSet(Pointers)
  /\ Owner \in [Pointers -> Objects \cup {NULL}]
  /\ ResetsHolding \in BOOLEAN

VARIABLES
  refcount, orphan,   \* the fields of RefCounted, per object
  alive,              \* the objects that exist
  ptr,                \* _ptr of each pointer, null out of scope
  scope,              \* the pointers that exist
  releasing,          \* objects deref is still to be called on
  assigning,          \* the assignment waiting for it: <<kind, to, from>>
  failed              \* the assertion or the fault that stopped the kernel

refPtrVars == <<refcount, orphan, alive, ptr, scope, releasing, assigning, failed>>

NoAssignment == <<"none", NULL, NULL>>
Ready == releasing = <<>> /\ assigning = NoAssignment /\ failed = "none"

Members(o) == {p \in Pointers : Owner[p] = o}
Locals == Members(NULL)

Holds(o) == {p \in scope : ptr[p] = o}

\* What the pointers of P lead to: what those that are variables point to, what the
\* members of that point to, and so on.
LeadsTo(S, P) == \A p \in P : Owner[p] \in S \cup {NULL} => ptr[p] \in S \cup {NULL}
Reached(P) == {o \in Objects : \A S \in SUBSET Objects : LeadsTo(S, P) => o \in S}

\* The pointers a client can name: its own, and the members of what they reach.
Named == {p \in scope : Owner[p] \in Reached(scope) \cup {NULL}}

-----------------------------------------------------------------------------
(***************************************************************************)
(* RefCounted.  Whoever calls ref or deref through a null pointer faults.  *)
(***************************************************************************)
Release(o) == releasing' = IF o = NULL THEN <<>> ELSE <<o>>

\* ref(), as part of the copy of a pointer: the new one holds its result.
ref(o) ==
  IF o = NULL THEN failed' = "fault" /\ UNCHANGED refcount
  ELSE IF orphan[o] THEN UNCHANGED <<refcount, failed>>
  ELSE IF refcount[o] > 0
       THEN refcount' = [refcount EXCEPT ![o] = @ + 1] /\ UNCHANGED failed
       ELSE failed' = "ref" /\ UNCHANGED refcount

DerefOrphan(o) ==
  /\ orphan[o]
  /\ releasing' = Tail(releasing)
  /\ UNCHANGED <<refcount, alive, ptr, scope, failed>>

DerefAssertion(o) ==
  /\ ~orphan[o] /\ refcount[o] <= 0
  /\ failed' = "deref"
  /\ UNCHANGED <<refcount, alive, ptr, scope, releasing>>

\* Bug: the destructor is not virtual, the members are not destroyed.
DerefLast_MembersKept(o) ==
  /\ ~orphan[o] /\ refcount[o] = 1
  /\ refcount' = [refcount EXCEPT ![o] = 0]
  /\ alive' = alive \ {o}
  /\ releasing' = Tail(releasing)
  /\ UNCHANGED <<ptr, scope, failed>>

\* Bug: the members are destroyed without releasing what they point to.
DerefLast_NoRelease(o) ==
  /\ ~orphan[o] /\ refcount[o] = 1
  /\ refcount' = [refcount EXCEPT ![o] = 0]
  /\ alive' = alive \ {o}
  /\ scope' = scope \ Members(o)
  /\ ptr' = [p \in Pointers |-> IF p \in Members(o) THEN NULL ELSE ptr[p]]
  /\ releasing' = Tail(releasing)
  /\ UNCHANGED failed

\* Bug: an object is deleted while one reference is left.
DerefShared_DeletesAtOne(o) ==
  /\ ~orphan[o] /\ refcount[o] > 1
  /\ refcount' = [refcount EXCEPT ![o] = @ - 1]
  /\ alive' = IF refcount[o] = 2 THEN alive \ {o} ELSE alive
  /\ releasing' = Tail(releasing)
  /\ UNCHANGED <<ptr, scope, failed>>

DerefShared(o) ==
  /\ ~orphan[o] /\ refcount[o] > 1
  /\ refcount' = [refcount EXCEPT ![o] = @ - 1]
  /\ releasing' = Tail(releasing)
  /\ UNCHANGED <<alive, ptr, scope, failed>>

\* The object is deleted; its members, destroyed with it, release theirs.
DerefLast(o) ==
  /\ ~orphan[o] /\ refcount[o] = 1
  /\ refcount' = [refcount EXCEPT ![o] = 0]
  /\ alive' = alive \ {o}
  /\ scope' = scope \ Members(o)
  /\ ptr' = [p \in Pointers |-> IF p \in Members(o) THEN NULL ELSE ptr[p]]
  /\ LET held == SetToSeq({p \in Members(o) \cap scope : ptr[p] # NULL})
     IN  releasing' = [i \in DOMAIN held |-> ptr[held[i]]] \o Tail(releasing)
  /\ UNCHANGED failed

deref ==
  /\ releasing # <<>> /\ failed = "none"
  /\ LET o == Head(releasing)
     IN  DerefOrphan(o) \/ DerefAssertion(o) \/ DerefShared(o) \/ DerefLast(o)
  /\ UNCHANGED <<orphan, assigning>>

make_orphan ==
  /\ Ready
  /\ \E o \in alive : orphan' = [orphan EXCEPT ![o] = TRUE]
  /\ UNCHANGED <<refcount, alive, ptr, scope, releasing, assigning, failed>>

-----------------------------------------------------------------------------
(***************************************************************************)
(* RefPtr: construction and destruction.                                   *)
(***************************************************************************)
\* make(): a new object, its count adopted by the pointer; its members are null.
make(p, o) ==
  /\ p \in Locals \ scope /\ o \notin alive
  /\ refcount' = [refcount EXCEPT ![o] = 1]
  /\ orphan' = [orphan EXCEPT ![o] = FALSE]
  /\ alive' = alive \cup {o}
  /\ scope' = scope \cup {p} \cup Members(o)
  /\ ptr' = [q \in Pointers |-> IF q = p THEN o
                                ELSE IF q \in Members(o) THEN NULL ELSE ptr[q]]
  /\ UNCHANGED <<releasing, assigning, failed>>

ConstructNull(p) ==
  /\ p \in Locals \ scope
  /\ scope' = scope \cup {p}
  /\ ptr' = [ptr EXCEPT ![p] = NULL]
  /\ UNCHANGED <<refcount, orphan, alive, releasing, assigning, failed>>

\* RefPtr(RefPtr&) does not ask whether the other pointer is null.
ConstructCopy(p, other) ==
  /\ p \in Locals \ scope /\ other \in Named
  /\ scope' = scope \cup {p}
  /\ ptr' = [ptr EXCEPT ![p] = ptr[other]]
  /\ ref(ptr[other])
  /\ UNCHANGED <<orphan, alive, releasing, assigning>>

\* Bug: the moved-from pointer keeps its object.
ConstructMove_BothKeep(p, other) ==
  /\ p \in Locals \ scope /\ other \in Named
  /\ scope' = scope \cup {p}
  /\ ptr' = [ptr EXCEPT ![p] = ptr[other]]
  /\ UNCHANGED <<refcount, orphan, alive, releasing, assigning, failed>>

ConstructMove(p, other) ==
  /\ p \in Locals \ scope /\ other \in Named
  /\ scope' = scope \cup {p}
  /\ ptr' = [ptr EXCEPT ![p] = ptr[other], ![other] = NULL]
  /\ UNCHANGED <<refcount, orphan, alive, releasing, assigning, failed>>

Destroy(p) ==
  /\ p \in Locals \cap scope
  /\ scope' = scope \ {p}
  /\ Release(ptr[p])
  /\ ptr' = [ptr EXCEPT ![p] = NULL]
  /\ UNCHANGED <<refcount, orphan, alive, assigning, failed>>

-----------------------------------------------------------------------------
(***************************************************************************)
(* RefPtr: assignment.  The old target is released first, and only then is *)
(* the other pointer read.                                                 *)
(***************************************************************************)
\* operator=(nullptr_t) releases the target and goes on pointing to it.
AssignNull(p) ==
  /\ p \in Named
  /\ ptr[p] = NULL \/ ResetsHolding
  /\ Release(ptr[p])
  /\ UNCHANGED <<refcount, orphan, alive, ptr, scope, assigning, failed>>

AssignCopy(p, other) ==
  /\ {p, other} \subseteq Named
  /\ ptr[p] # ptr[other]
  /\ Release(ptr[p])
  /\ assigning' = <<"copy", p, other>>
  /\ UNCHANGED <<refcount, orphan, alive, ptr, scope, failed>>

AssignMove(p, other) ==
  /\ {p, other} \subseteq Named
  /\ p # other
  /\ Release(ptr[p])
  /\ assigning' = <<"move", p, other>>
  /\ UNCHANGED <<refcount, orphan, alive, ptr, scope, failed>>

\* What is left of an assignment once the old target is released.
Assigned(p, other) == ptr' = [ptr EXCEPT ![p] = ptr[other]]

FinishCopy(p, other) ==
  /\ assigning[1] = "copy" /\ {p, other} \subseteq scope
  /\ Assigned(p, other)
  /\ ref(ptr[other])
  /\ assigning' = NoAssignment
  /\ UNCHANGED <<orphan, alive, scope, releasing>>

FinishMove(p, other) ==
  /\ assigning[1] = "move" /\ {p, other} \subseteq scope
  /\ ptr' = [ptr EXCEPT ![p] = ptr[other], ![other] = NULL]
  /\ assigning' = NoAssignment
  /\ UNCHANGED <<refcount, orphan, alive, scope, releasing, failed>>

\* The release deleted the object one of the two pointers was a member of:
\* freed memory is read, or written, and what follows is not modelled.
FinishFreed(p, other) ==
  /\ assigning # NoAssignment /\ ~({p, other} \subseteq scope)
  /\ failed' = "freed"
  /\ UNCHANGED <<refcount, orphan, alive, ptr, scope, releasing, assigning>>

FinishAssign ==
  /\ releasing = <<>> /\ failed = "none"
  /\ LET p == assigning[2]
         other == assigning[3]
     IN  FinishCopy(p, other) \/ FinishMove(p, other) \/ FinishFreed(p, other)

RefPtrInit ==
  /\ refcount = [o \in Objects |-> 0] /\ orphan = [o \in Objects |-> FALSE]
  /\ alive = {}
  /\ ptr = [p \in Pointers |-> NULL] /\ scope = {}
  /\ releasing = <<>> /\ assigning = NoAssignment /\ failed = "none"

ClientStep ==
  /\ Ready
  /\ \/ \E p \in Pointers, o \in Objects : make(p, o)
     \/ \E p \in Pointers : ConstructNull(p) \/ Destroy(p) \/ AssignNull(p)
     \/ \E p, other \in Pointers :
          \/ ConstructCopy(p, other) \/ ConstructMove(p, other)
          \/ AssignCopy(p, other) \/ AssignMove(p, other)

RefPtrNext == ClientStep \/ make_orphan \/ deref \/ FinishAssign

RefPtrSpec == RefPtrInit /\ [][RefPtrNext]_refPtrVars

-----------------------------------------------------------------------------
(***************************************************************************)
(* Properties                                                              *)
(***************************************************************************)

\* The types of the variables.  RefCounted's count is never negative, and the members of
\* exactly the objects alive are in scope.
RefPtrTypeOK ==
  /\ refcount \in [Objects -> Nat] /\ orphan \in [Objects -> BOOLEAN]
  /\ alive \subseteq Objects
  /\ ptr \in [Pointers -> Objects \cup {NULL}]
  /\ scope \ Locals = {p \in Pointers : Owner[p] \in alive}
  /\ \A i \in DOMAIN releasing : releasing[i] \in Objects
  /\ assigning[1] \in {"none", "copy", "move"}
  /\ failed \in {"none", "fault", "freed", "ref", "deref"}

\* Between operations no pointer refers to a deleted object, and no object is
\* left that had its last reference dropped.
LivesAsLongAsHeld ==
  Ready => \A o \in Objects :
             /\ Holds(o) # {} => o \in alive
             /\ o \in alive => orphan[o] \/ refcount[o] > 0

\* Between operations the count of an object is the number of pointers to it.
\* While a release is under way the releases it waits for count too, and the
\* pointer being assigned to does not: a ring of objects is never entered twice,
\* nothing is deleted too early.  The assertions of ref and deref never fail.
CountsAreExact ==
  /\ RefPtrTypeOK
  /\ LivesAsLongAsHeld
  /\ failed \notin {"ref", "deref"}
  /\ failed = "none" =>
       \A o \in alive :
         LET waiting == {i \in DOMAIN releasing : releasing[i] = o}
         IN  orphan[o] \/ refcount[o] =
               Cardinality(waiting) + Cardinality(Holds(o) \ {assigning[2]})

\* RefCounted.h:42, deref(): assert(_refcount > 0).
DerefAssertHolds == failed # "deref"
=============================================================================
