------------------------------- MODULE OwnPtr -------------------------------
(***************************************************************************)
(* Exclusive ownership: libsystem/OwnPtr.h.  A pointer is a variable that  *)
(* comes and goes, or a member of an object, which is destroyed with it    *)
(* and deletes what it owns in turn.  A copy takes the object away from    *)
(* the pointer it copies, and so does a comparison, which takes its        *)
(* argument by value.                                                      *)
(***************************************************************************)
EXTENDS Integers, FiniteSets

CONSTANTS
  Targets, OwnPtrs,
  Nullptr,
  MemberOf    \* of each pointer: the object it is a member of, or Nullptr

ASSUME OwnPtrAssumption ==
  /\ Nullptr \notin Targets
  /\ MemberOf \in [OwnPtrs -> Targets \cup {Nullptr}]

VARIABLES
  existing,    \* the objects that exist
  _ptr,        \* of each pointer, null out of scope
  in_scope,    \* the pointers that exist
  given,       \* the objects a client took with give_ref
  misread      \* freed memory was read: anything may happen from here

ownPtrVars == <<existing, _ptr, in_scope, given, misread>>

MembersOf(S) == {p \in OwnPtrs : MemberOf[p] \in S}
OwnLocals == MembersOf({Nullptr})

\* What the pointers of P own, and what its members own, down to the last:
\* deleting through P deletes all of it.
Owned(P) == {_ptr[p] : p \in P} \ {Nullptr}
Closed(S, P) == Owned(P \cup MembersOf(S)) \subseteq S
Reach(P) == {o \in Targets : \A S \in SUBSET Targets : Closed(S, P) => o \in S}

\* The pointers a client can name: its own, and the members of what they reach.
Nameable ==
  in_scope \cap (OwnLocals \cup MembersOf(Reach(OwnLocals)))

\* The pointers `to` and `from` become those values, the doomed objects and
\* their members go, and the pointers in `out` leave scope.
Update(values, doomed, out) ==
  LET gone == MembersOf(doomed) \cup out
  IN  /\ existing' = existing \ doomed
      /\ in_scope' = in_scope \ gone
      /\ _ptr' = [p \in OwnPtrs |->
                   IF p \in gone THEN Nullptr
                   ELSE IF p \in DOMAIN values THEN values[p] ELSE _ptr[p]]

-----------------------------------------------------------------------------
(* Construction and destruction.                                           *)

ConstructEmpty(p) ==
  /\ p \in OwnLocals \ in_scope
  /\ in_scope' = in_scope \cup {p}
  /\ UNCHANGED <<existing, _ptr, given, misread>>

\* own(): a new object, whose members own nothing yet.
own(p, o) ==
  /\ p \in OwnLocals \ in_scope /\ o \in Targets \ (existing \cup given)
  /\ existing' = existing \cup {o}
  /\ in_scope' = in_scope \cup {p} \cup MembersOf({o})
  /\ _ptr' = [_ptr EXCEPT ![p] = o]
  /\ UNCHANGED <<given, misread>>

\* Bug: the copy leaves the object with both.
ConstructFrom_Shares(p, other) ==
  /\ p \in OwnLocals \ in_scope /\ other \in Nameable
  /\ in_scope' = in_scope \cup {p}
  /\ _ptr' = [_ptr EXCEPT ![p] = _ptr[other]]
  /\ UNCHANGED <<existing, given, misread>>

\* The copy, the move and both conversions.
ConstructFrom(p, other) ==
  /\ p \in OwnLocals \ in_scope /\ other \in Nameable
  /\ in_scope' = in_scope \cup {p}
  /\ _ptr' = [_ptr EXCEPT ![p] = _ptr[other], ![other] = Nullptr]
  /\ UNCHANGED <<existing, given, misread>>

Destruct(p) ==
  /\ p \in OwnLocals \cap in_scope
  /\ Update(<<>>, Reach({p}), {p})
  /\ UNCHANGED <<given, misread>>

-----------------------------------------------------------------------------
(* Assignment, comparison, and the pointer itself.                         *)

\* The old target is deleted first; when the other pointer is a member of
\* it, directly or further down, it is read after that.
Assign(p, other) ==
  /\ {p, other} \subseteq Nameable
  /\ LET doomed == Reach({p})
     IN  CASE _ptr[p] = _ptr[other] ->
                UNCHANGED <<existing, _ptr, in_scope, misread>>
           [] _ptr[p] # _ptr[other] /\ {p, other} \cap MembersOf(doomed) # {} ->
                misread' = TRUE /\ UNCHANGED <<existing, _ptr, in_scope>>
           [] OTHER ->
                /\ Update([q \in {p, other} |->
                             IF q = p THEN _ptr[other] ELSE Nullptr], doomed, {})
                /\ UNCHANGED misread
  /\ UNCHANGED given

\* operator==: the argument is copied, so that it is emptied, and what it
\* owned is deleted when the comparison is over.
Compare(p, other) ==
  /\ {p, other} \subseteq Nameable
  /\ Update([q \in {other} |-> Nullptr], Reach({other}), {})
  /\ UNCHANGED <<given, misread>>

\* The client takes the object and answers for it, ...
give_ref(p) ==
  /\ p \in Nameable /\ _ptr[p] # Nullptr
  /\ given' = given \cup {_ptr[p]}
  /\ _ptr' = [_ptr EXCEPT ![p] = Nullptr]
  /\ UNCHANGED <<existing, in_scope, misread>>

\* ... until it hands it to a new pointer.
ConstructOwner(p, o) ==
  /\ p \in OwnLocals \ in_scope /\ o \in given
  /\ given' = given \ {o}
  /\ in_scope' = in_scope \cup {p}
  /\ _ptr' = [_ptr EXCEPT ![p] = o]
  /\ UNCHANGED <<existing, misread>>

OwnPtrInit ==
  /\ existing = {} /\ in_scope = {} /\ given = {}
  /\ _ptr = [p \in OwnPtrs |-> Nullptr]
  /\ misread = FALSE

OwnPtrNext ==
  /\ ~misread
  /\ \/ \E p \in OwnPtrs : ConstructEmpty(p) \/ Destruct(p) \/ give_ref(p)
     \/ \E p \in OwnPtrs, o \in Targets : own(p, o) \/ ConstructOwner(p, o)
     \/ \E p, q \in OwnPtrs :
          ConstructFrom(p, q) \/ Assign(p, q) \/ Compare(p, q)

OwnPtrSpec == OwnPtrInit /\ [][OwnPtrNext]_ownPtrVars

-----------------------------------------------------------------------------
(* Properties.                                                             *)

OwnersOf(o) == {p \in in_scope : _ptr[p] = o}

\* Every object that exists has one owner, a pointer in scope or the client
\* that took it, and no pointer owns an object that is gone: through copies
\* that move, assignments and deletions that reach further objects, an
\* object is never deleted twice and never left without anyone to delete
\* it; a cycle of members has owners too, but none a client can name
\* (OwnPtr.h:15-117).
OwnersAreExclusive ==
  /\ \A o \in existing : Cardinality(OwnersOf(o)) = IF o \in given THEN 0 ELSE 1
  /\ \A p \in in_scope : _ptr[p] \in existing \cup {Nullptr}
  /\ given \subseteq existing
  /\ \A p \in OwnPtrs \ OwnLocals : p \in in_scope <=> MemberOf[p] \in existing
=============================================================================
