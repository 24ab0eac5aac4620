--------------------------- MODULE LibsystemProofs ---------------------------
(***************************************************************************)
(* Theorems about the classes of libsystem: exclusive ownership,           *)
(* reference counting, the decoder of UTF-8 and the linked list, for any   *)
(* objects, pointers, codepoints, nodes and values.                        *)
(***************************************************************************)
EXTENDS OwnPtr, RefPtr, Unicode, LinkedList, Induction, FunctionTheorems, SequenceTheorems

-----------------------------------------------------------------------------
(* Exclusive ownership.                                                    *)

OwnPtrTyped ==
  /\ existing \subseteq Targets /\ in_scope \subseteq OwnPtrs /\ given \subseteq existing
  /\ _ptr \in [OwnPtrs -> Targets \cup {Nullptr}]

\* No two pointers own one object, and none owns an object that is gone or given away.
OwnersDiffer ==
  /\ \A p \in OwnPtrs : _ptr[p] # Nullptr =>
       p \in in_scope /\ _ptr[p] \in existing \ given
  /\ \A p, q \in OwnPtrs : _ptr[p] # Nullptr /\ _ptr[p] = _ptr[q] => p = q

\* Every other object has an owner.
ObjectsHaveOwners ==
  \A o \in existing \ given : \E p \in OwnPtrs : _ptr[p] = o

\* Members live as long as their object.
MembersLive ==
  \A p \in OwnPtrs \ OwnLocals : p \in in_scope <=> MemberOf[p] \in existing

OwnPtrInv == OwnPtrTyped /\ OwnersDiffer /\ ObjectsHaveOwners /\ MembersLive

\* What can be reached from pointers exists, is closed, and each object of it is
\* reached through its owner.
LEMMA ReachIsClosed ==
  ASSUME OwnPtrInv, NEW P \in SUBSET OwnPtrs
  PROVE  /\ Reach(P) \subseteq existing \ given
         /\ \A p \in P \cup MembersOf(Reach(P)) : _ptr[p] \in Reach(P) \cup {Nullptr}
         /\ \A o \in Reach(P) : \E p \in P \cup MembersOf(Reach(P)) : _ptr[p] = o
<1>0. \A S : MembersOf(S) \subseteq OwnPtrs
  BY DEF MembersOf
<1>1. PICK R : R = Reach(P)
  OBVIOUS
<1>2. R \subseteq existing \ given
  <2>1. Closed(existing \ given, P)
    BY <1>0 DEF OwnPtrInv, OwnersDiffer, Closed, Owned
  <2>2. existing \ given \in SUBSET Targets
    BY DEF OwnPtrInv, OwnPtrTyped
  <2> QED BY <1>1, <2>1, <2>2 DEF Reach
<1>3. ASSUME NEW p \in P \cup MembersOf(R), _ptr[p] # Nullptr
      PROVE  _ptr[p] \in R
  <2>1. p \in OwnPtrs /\ _ptr[p] \in Targets
    BY <1>0, <1>3 DEF OwnPtrInv, OwnPtrTyped
  <2> SUFFICES ASSUME NEW S \in SUBSET Targets, Closed(S, P)
               PROVE  _ptr[p] \in S
    BY <1>1, <2>1 DEF Reach
  <2>2. R \subseteq S
    BY <1>1 DEF Reach
  <2>3. p \in P \cup MembersOf(S)
    BY <2>2 DEF MembersOf
  <2> QED BY <1>3, <2>3 DEF Closed, Owned
<1>4. ASSUME NEW o \in R PROVE \E p \in P \cup MembersOf(R) : _ptr[p] = o
  <2> DEFINE S == {x \in R : \E p \in P \cup MembersOf(R) : _ptr[p] = x}
  <2>1. Closed(S, P)
    <3> SUFFICES ASSUME NEW p \in P \cup MembersOf(S), _ptr[p] # Nullptr
                 PROVE  _ptr[p] \in S
      BY DEF Closed, Owned
    <3>1. p \in P \cup MembersOf(R)
      BY DEF MembersOf
    <3> QED BY <1>3, <3>1
  <2>2. S \in SUBSET Targets
    BY <1>1 DEF Reach
  <2>3. R \subseteq S
    BY <1>1, <2>1, <2>2 DEF Reach
  <2> QED BY <2>3
<1> QED BY <1>1, <1>2, <1>3, <1>4

\* A deletion: what P owns goes with its members, and so do the pointers in out;
\* the pointers values is about are null or own what one of them owned.
LEMMA UpdateKeeps ==
  ASSUME OwnPtrInv, NEW P \in SUBSET OwnPtrs, NEW out \in SUBSET OwnPtrs, NEW values,
         Update(values, Reach(P), out), given' = given,
         out \subseteq P \cap OwnLocals, P \subseteq out \cup DOMAIN values,
         DOMAIN values \subseteq in_scope,
         \A p \in DOMAIN values : values[p] # Nullptr =>
           /\ p \notin out \cup MembersOf(Reach(P))
           /\ \E q \in DOMAIN values \ (P \cup MembersOf(Reach(P))) : _ptr[q] = values[p],
         \A p, q \in DOMAIN values : values[p] # Nullptr /\ values[p] = values[q] => p = q,
         \A q \in DOMAIN values \ (P \cup MembersOf(Reach(P))) : _ptr[q] # Nullptr =>
           \E p \in DOMAIN values : values[p] = _ptr[q]
  PROVE  OwnPtrInv'
<1>1. PICK doomed : doomed = Reach(P)
  OBVIOUS
<1>2. /\ doomed \subseteq existing \ given
      /\ \A p \in P \cup MembersOf(doomed) : _ptr[p] \in doomed \cup {Nullptr}
      /\ \A o \in doomed : \E p \in P \cup MembersOf(doomed) : _ptr[p] = o
  BY <1>1, ReachIsClosed
<1>3. PICK gone : gone = MembersOf(doomed) \cup out
  OBVIOUS
<1>4. /\ existing' = existing \ doomed /\ in_scope' = in_scope \ gone
      /\ _ptr' = [p \in OwnPtrs |->
                    IF p \in gone THEN Nullptr
                    ELSE IF p \in DOMAIN values THEN values[p] ELSE _ptr[p]]
  BY <1>1, <1>3 DEF Update
<1>5. \A p \in OwnPtrs : _ptr'[p] = IF p \in gone THEN Nullptr
                    ELSE IF p \in DOMAIN values THEN values[p] ELSE _ptr[p]
  BY <1>4
<1>6. PICK D : D = DOMAIN values
  OBVIOUS
<1>7. D \subseteq OwnPtrs /\ D \subseteq in_scope /\ out \subseteq P /\ P \subseteq out \cup D
  BY <1>6 DEF OwnPtrInv, OwnPtrTyped
<1>8. MembersOf(doomed) \subseteq OwnPtrs
  BY DEF MembersOf
\* Whoever owns a doomed object is doomed or cleared.
<1>9. ASSUME NEW p \in OwnPtrs, _ptr[p] \in doomed PROVE p \in P \cup MembersOf(doomed)
  <2>1. PICK q \in P \cup MembersOf(doomed) : _ptr[q] = _ptr[p]
    BY <1>2, <1>9
  <2>2. q \in OwnPtrs
    BY <1>8
  <2>3. _ptr[p] # Nullptr
    BY <1>2, <1>9, OwnPtrAssumption DEF OwnPtrInv, OwnPtrTyped
  <2> QED BY <2>1, <2>2, <2>3 DEF OwnPtrInv, OwnersDiffer
\* A pointer that owns something afterwards: it did before, or another that D clears did.
<1>10. ASSUME NEW p \in OwnPtrs, _ptr'[p] # Nullptr
       PROVE  /\ p \in in_scope' /\ p \notin gone
              /\ \E q \in OwnPtrs \ (P \cup MembersOf(doomed)) :
                   _ptr[q] = _ptr'[p] /\ (q \in D <=> p \in D) /\ (p \notin D => q = p)
  <2>1. p \notin gone
    BY <1>5, <1>10
  <2>2. CASE p \in D
    <3>1. _ptr'[p] = values[p]
      BY <1>5, <1>6, <2>1, <2>2
    <3>2. PICK q \in D \ (P \cup MembersOf(doomed)) : _ptr[q] = values[p]
      BY <1>1, <1>6, <1>10, <2>2, <3>1
    <3> QED BY <1>4, <1>7, <2>1, <2>2, <3>1, <3>2
  <2>3. CASE p \notin D
    <3>1. _ptr'[p] = _ptr[p]
      BY <1>5, <1>6, <2>1, <2>3
    <3>2. p \notin P \cup MembersOf(doomed)
      BY <1>3, <1>7, <2>1, <2>3
    <3>3. p \in in_scope
      BY <1>10, <3>1 DEF OwnPtrInv, OwnersDiffer
    <3> QED BY <1>4, <2>1, <2>3, <3>1, <3>2, <3>3
  <2> QED BY <2>2, <2>3
<1>11. OwnersDiffer'
  <2>1. ASSUME NEW p \in OwnPtrs, _ptr'[p] # Nullptr
        PROVE  p \in in_scope' /\ _ptr'[p] \in existing' \ given'
    <3>1. PICK q \in OwnPtrs \ (P \cup MembersOf(doomed)) : _ptr[q] = _ptr'[p]
      BY <1>10, <2>1
    <3>2. _ptr[q] \in existing \ given
      BY <2>1, <3>1 DEF OwnPtrInv, OwnersDiffer
    <3>3. _ptr[q] \notin doomed
      BY <1>9, <3>1
    <3> QED BY <1>4, <1>10, <2>1, <3>1, <3>2, <3>3
  <2>2. ASSUME NEW p \in OwnPtrs, NEW q \in OwnPtrs, _ptr'[p] # Nullptr, _ptr'[p] = _ptr'[q]
        PROVE  p = q
    <3>1. PICK r \in OwnPtrs : _ptr[r] = _ptr'[p] /\ (r \in D <=> p \in D) /\ (p \notin D => r = p)
      BY <1>10, <2>2
    <3>2. PICK t \in OwnPtrs : _ptr[t] = _ptr'[q] /\ (t \in D <=> q \in D) /\ (q \notin D => t = q)
      BY <1>10, <2>2
    <3>3. r = t
      BY <2>2, <3>1, <3>2 DEF OwnPtrInv, OwnersDiffer
    <3>4. CASE p \in D
      <4>1. q \in D /\ p \notin gone /\ q \notin gone
        BY <1>10, <2>2, <3>1, <3>2, <3>3, <3>4
      <4>2. values[p] = _ptr'[p] /\ values[q] = _ptr'[q]
        BY <1>5, <1>6, <3>4, <4>1
      <4> QED BY <1>6, <2>2, <3>4, <4>1, <4>2
    <3> QED BY <3>1, <3>2, <3>3, <3>4
  <2> QED BY <2>1, <2>2 DEF OwnersDiffer
<1>12. ObjectsHaveOwners'
  <2> SUFFICES ASSUME NEW o \in existing \ given, o \notin doomed
               PROVE  \E p \in OwnPtrs : _ptr'[p] = o
    BY <1>4 DEF ObjectsHaveOwners
  <2>1. PICK q \in OwnPtrs : _ptr[q] = o
    BY DEF OwnPtrInv, ObjectsHaveOwners
  <2>2. q \notin P \cup MembersOf(doomed)
    BY <1>2, <2>1, OwnPtrAssumption DEF OwnPtrInv, OwnPtrTyped
  <2>3. CASE q \in D
    <3>1. o # Nullptr
      BY OwnPtrAssumption DEF OwnPtrInv, OwnPtrTyped
    <3>2. PICK p \in D : values[p] = o
      BY <1>1, <1>6, <2>1, <2>2, <2>3, <3>1
    <3>3. p \notin gone
      BY <1>1, <1>3, <1>6, <3>1, <3>2
    <3> QED BY <1>5, <1>6, <1>7, <3>2, <3>3
  <2>4. CASE q \notin D
    <3>1. q \notin gone
      BY <1>3, <1>7, <2>2
    <3> QED BY <1>5, <1>6, <2>1, <2>4, <3>1
  <2> QED BY <2>3, <2>4
<1>13. MembersLive'
  <2> SUFFICES ASSUME NEW p \in OwnPtrs \ OwnLocals
               PROVE  p \in in_scope' <=> MemberOf[p] \in existing'
    BY DEF MembersLive
  <2>1. p \in in_scope <=> MemberOf[p] \in existing
    BY DEF OwnPtrInv, MembersLive
  <2>2. p \in gone <=> MemberOf[p] \in doomed
    BY <1>3 DEF MembersOf
  <2> QED BY <1>4, <2>1, <2>2
<1>14. OwnPtrTyped'
  <2>1. \A p \in OwnPtrs : _ptr'[p] \in Targets \cup {Nullptr}
    BY <1>11, <1>4 DEF OwnersDiffer, OwnPtrInv, OwnPtrTyped
  <2> QED BY <1>2, <1>4, <2>1 DEF OwnPtrInv, OwnPtrTyped
<1> QED BY <1>11, <1>12, <1>13, <1>14 DEF OwnPtrInv

\* Every step keeps the inductive invariant.
LEMMA NextKeepsOwnPtrInv ==
  ASSUME OwnPtrInv, [OwnPtrNext]_ownPtrVars
  PROVE  OwnPtrInv'
<1>0. /\ OwnLocals \subseteq OwnPtrs
      /\ \A p \in OwnPtrs : p \in OwnLocals <=> MemberOf[p] = Nullptr
      /\ \A p \in Nameable : p \in OwnPtrs /\ p \in in_scope
  BY DEF OwnLocals, MembersOf, Nameable, OwnPtrInv, OwnPtrTyped
<1>1. ASSUME NEW p \in OwnPtrs, ConstructEmpty(p) PROVE OwnPtrInv'
  BY <1>0, <1>1 DEF ConstructEmpty, OwnPtrInv, OwnPtrTyped, OwnersDiffer, ObjectsHaveOwners,
                    MembersLive
<1>2. ASSUME NEW p \in OwnPtrs, Destruct(p) PROVE OwnPtrInv'
  <2>1. PICK values : values = <<>>
    OBVIOUS
  <2>2. DOMAIN values = {}
    BY <2>1
  <2>3. Update(values, Reach({p}), {p})
    BY <1>2, <2>1 DEF Destruct
  <2>4. PICK P \in SUBSET OwnPtrs : P = {p}
    OBVIOUS
  <2>5. P \subseteq P \cap OwnLocals /\ given' = given
    BY <1>2, <2>4 DEF Destruct
  <2>6. Update(values, Reach(P), P)
    BY <2>3, <2>4
  <2> QED BY <2>2, <2>5, <2>6, UpdateKeeps
<1>3. ASSUME NEW p \in OwnPtrs, give_ref(p) PROVE OwnPtrInv'
  <2>1. /\ _ptr[p] # Nullptr /\ given' = given \cup {_ptr[p]}
        /\ existing' = existing /\ in_scope' = in_scope
        /\ _ptr[p] \in existing \ given
    BY <1>3 DEF give_ref, OwnPtrInv, OwnersDiffer
  <2>2. \A q \in OwnPtrs : _ptr'[q] = IF q = p THEN Nullptr ELSE _ptr[q]
    BY <1>3 DEF give_ref, OwnPtrInv, OwnPtrTyped
  <2>3. OwnPtrTyped'
    BY <1>3, <2>1 DEF give_ref, OwnPtrInv, OwnPtrTyped
  <2>4. OwnersDiffer' /\ ObjectsHaveOwners'
    BY <2>1, <2>2 DEF OwnPtrInv, OwnersDiffer, ObjectsHaveOwners
  <2> QED BY <2>1, <2>3, <2>4 DEF OwnPtrInv, MembersLive
<1>4. ASSUME NEW p \in OwnPtrs, NEW o \in Targets, own(p, o) PROVE OwnPtrInv'
  <2>1. /\ p \in OwnLocals \ in_scope /\ o \notin existing
        /\ existing' = existing \cup {o} /\ given' = given
        /\ in_scope' = in_scope \cup {p} \cup MembersOf({o})
    BY <1>4 DEF own
  <2>2. \A q \in OwnPtrs : _ptr'[q] = IF q = p THEN o ELSE _ptr[q]
    BY <1>4 DEF own, OwnPtrInv, OwnPtrTyped
  <2>3. OwnPtrTyped'
    BY <1>4, <2>1 DEF own, OwnPtrInv, OwnPtrTyped, MembersOf
  <2>40. _ptr[p] = Nullptr
    BY <2>1 DEF OwnPtrInv, OwnersDiffer
  <2>4. OwnersDiffer' /\ ObjectsHaveOwners'
    <3>1. \A q \in OwnPtrs : _ptr'[q] # Nullptr => q \in in_scope' /\ _ptr'[q] \in existing' \ given'
      BY <2>1, <2>2 DEF OwnPtrInv, OwnPtrTyped, OwnersDiffer
    <3>2. \A q, r \in OwnPtrs : _ptr'[q] # Nullptr /\ _ptr'[q] = _ptr'[r] => q = r
      BY <2>1, <2>2 DEF OwnPtrInv, OwnersDiffer
    <3>3. ASSUME NEW x \in existing' \ given' PROVE \E q \in OwnPtrs : _ptr'[q] = x
      <4>1. CASE x = o
        BY <2>2, <4>1
      <4>2. CASE x # o
        <5>1. x # Nullptr
          BY <2>1, OwnPtrAssumption DEF OwnPtrInv, OwnPtrTyped
        <5>2. PICK q \in OwnPtrs : _ptr[q] = x
          BY <2>1, <4>2 DEF OwnPtrInv, ObjectsHaveOwners
        <5> QED BY <2>2, <2>40, <5>1, <5>2
      <4> QED BY <4>1, <4>2
    <3> QED BY <3>1, <3>2, <3>3 DEF OwnersDiffer, ObjectsHaveOwners
  <2>5. MembersLive'
    BY <1>0, <2>1 DEF OwnPtrInv, MembersLive, MembersOf
  <2> QED BY <2>3, <2>4, <2>5 DEF OwnPtrInv
<1>5. ASSUME NEW p \in OwnPtrs, NEW o \in Targets, ConstructOwner(p, o) PROVE OwnPtrInv'
  <2>1. /\ p \in OwnLocals \ in_scope /\ o \in given
        /\ existing' = existing /\ given' = given \ {o}
        /\ in_scope' = in_scope \cup {p}
    BY <1>5 DEF ConstructOwner
  <2>2. \A q \in OwnPtrs : _ptr'[q] = IF q = p THEN o ELSE _ptr[q]
    BY <1>5 DEF ConstructOwner, OwnPtrInv, OwnPtrTyped
  <2>3. OwnPtrTyped'
    BY <1>5, <2>1 DEF ConstructOwner, OwnPtrInv, OwnPtrTyped
  <2>40. _ptr[p] = Nullptr
    BY <2>1 DEF OwnPtrInv, OwnersDiffer
  <2>4. OwnersDiffer' /\ ObjectsHaveOwners'
    <3>1. \A q \in OwnPtrs : _ptr'[q] # Nullptr => q \in in_scope' /\ _ptr'[q] \in existing' \ given'
      BY <2>1, <2>2 DEF OwnPtrInv, OwnPtrTyped, OwnersDiffer
    <3>2. \A q, r \in OwnPtrs : _ptr'[q] # Nullptr /\ _ptr'[q] = _ptr'[r] => q = r
      BY <2>1, <2>2 DEF OwnPtrInv, OwnersDiffer
    <3>3. ASSUME NEW x \in existing' \ given' PROVE \E q \in OwnPtrs : _ptr'[q] = x
      <4>1. CASE x = o
        BY <2>2, <4>1
      <4>2. CASE x # o
        <5>1. x # Nullptr
          BY <2>1, OwnPtrAssumption DEF OwnPtrInv, OwnPtrTyped
        <5>2. PICK q \in OwnPtrs : _ptr[q] = x
          BY <2>1, <4>2 DEF OwnPtrInv, ObjectsHaveOwners
        <5> QED BY <2>2, <2>40, <5>1, <5>2
      <4> QED BY <4>1, <4>2
    <3> QED BY <3>1, <3>2, <3>3 DEF OwnersDiffer, ObjectsHaveOwners
  <2>5. MembersLive'
    BY <1>0, <2>1 DEF OwnPtrInv, MembersLive
  <2> QED BY <2>3, <2>4, <2>5 DEF OwnPtrInv
<1>6. ASSUME NEW p \in OwnPtrs, NEW other \in OwnPtrs, ConstructFrom(p, other) PROVE OwnPtrInv'
  <2>1. /\ p \in OwnLocals \ in_scope /\ other \in in_scope
        /\ existing' = existing /\ given' = given
        /\ in_scope' = in_scope \cup {p}
    BY <1>0, <1>6 DEF ConstructFrom
  <2>2. \A q \in OwnPtrs : _ptr'[q] = IF q = other THEN Nullptr
                                      ELSE IF q = p THEN _ptr[other] ELSE _ptr[q]
    BY <1>6 DEF ConstructFrom, OwnPtrInv, OwnPtrTyped
  <2>3. OwnPtrTyped'
    BY <1>6, <2>1 DEF ConstructFrom, OwnPtrInv, OwnPtrTyped
  <2>4. OwnersDiffer'
    BY <2>1, <2>2 DEF OwnPtrInv, OwnPtrTyped, OwnersDiffer
  <2>5. ObjectsHaveOwners'
    <3> SUFFICES ASSUME NEW o \in existing \ given PROVE \E q \in OwnPtrs : _ptr'[q] = o
      BY <2>1 DEF ObjectsHaveOwners
    <3>1. PICK q \in OwnPtrs : _ptr[q] = o
      BY DEF OwnPtrInv, ObjectsHaveOwners
    <3>2. CASE q = other
      BY <2>1, <2>2, <3>1, <3>2
    <3>3. CASE q # other
      <4>1. o # Nullptr
        BY OwnPtrAssumption DEF OwnPtrInv, OwnPtrTyped
      <4>2. q # p
        BY <2>1, <3>1, <4>1 DEF OwnPtrInv, OwnersDiffer
      <4> QED BY <2>2, <3>1, <3>3, <4>2
    <3> QED BY <3>2, <3>3
  <2>6. MembersLive'
    BY <1>0, <2>1 DEF OwnPtrInv, MembersLive
  <2> QED BY <2>3, <2>4, <2>5, <2>6 DEF OwnPtrInv
<1>7. ASSUME NEW p \in OwnPtrs, NEW other \in OwnPtrs, Assign(p, other) PROVE OwnPtrInv'
  <2>1. given' = given /\ p \in in_scope /\ other \in in_scope
    BY <1>0, <1>7 DEF Assign
  <2>2. CASE UNCHANGED <<existing, _ptr, in_scope>>
    BY <2>1, <2>2 DEF OwnPtrInv, OwnPtrTyped, OwnersDiffer, ObjectsHaveOwners, MembersLive
  <2>3. CASE ~(UNCHANGED <<existing, _ptr, in_scope>>)
    <3>1. /\ _ptr[p] # _ptr[other]
          /\ {p, other} \cap MembersOf(Reach({p})) = {}
          /\ Update([q \in {p, other} |-> IF q = p THEN _ptr[other] ELSE Nullptr],
                    Reach({p}), {})
      BY <1>7, <2>3 DEF Assign
    <3>2. PICK values : values = [q \in {p, other} |-> IF q = p THEN _ptr[other] ELSE Nullptr]
      OBVIOUS
    <3>3. /\ DOMAIN values = {p, other} /\ p # other
          /\ values[p] = _ptr[other] /\ values[other] = Nullptr
      BY <3>1, <3>2
    <3>4. Update(values, Reach({p}), {})
      BY <3>1, <3>2
    <3>5. \A q \in DOMAIN values : values[q] # Nullptr =>
            /\ q \notin {} \cup MembersOf(Reach({p}))
            /\ \E r \in DOMAIN values \ ({p} \cup MembersOf(Reach({p}))) : _ptr[r] = values[q]
      BY <3>1, <3>3
    <3>6. \A q, r \in DOMAIN values : values[q] # Nullptr /\ values[q] = values[r] => q = r
      BY <3>3
    <3>7. \A q \in DOMAIN values \ ({p} \cup MembersOf(Reach({p}))) : _ptr[q] # Nullptr =>
            \E r \in DOMAIN values : values[r] = _ptr[q]
      BY <3>3
    <3>8. DOMAIN values \subseteq in_scope /\ {p} \subseteq {} \cup DOMAIN values
      BY <2>1, <3>3
    <3>9. PICK none \in SUBSET OwnPtrs : none = {}
      OBVIOUS
    <3> QED BY <2>1, <3>4, <3>5, <3>6, <3>7, <3>8, <3>9, UpdateKeeps, ZenonT(60)
  <2> QED BY <2>2, <2>3
<1>8. ASSUME NEW p \in OwnPtrs, NEW other \in OwnPtrs, Compare(p, other) PROVE OwnPtrInv'
  <2>1. PICK values : values = [q \in {other} |-> Nullptr]
    OBVIOUS
  <2>2. DOMAIN values = {other} /\ values[other] = Nullptr
    BY <2>1
  <2>3. Update(values, Reach({other}), {}) /\ given' = given /\ other \in in_scope
    BY <1>0, <1>8, <2>1 DEF Compare
  <2>4. PICK none \in SUBSET OwnPtrs : none = {}
    OBVIOUS
  <2> QED BY <2>2, <2>3, <2>4, UpdateKeeps
<1>9. CASE UNCHANGED ownPtrVars
  BY <1>9 DEF ownPtrVars, OwnPtrInv, OwnPtrTyped, OwnersDiffer, ObjectsHaveOwners, MembersLive
<1> QED BY <1>1, <1>2, <1>3, <1>4, <1>5, <1>6, <1>7, <1>8, <1>9 DEF OwnPtrNext

\* The inductive invariant of exclusive ownership, for any objects and members.
THEOREM OwnPtrSafety == OwnPtrSpec => []OwnPtrInv
<1>1. OwnPtrInit => OwnPtrInv
  BY OwnPtrAssumption DEF OwnPtrInit, OwnPtrInv, OwnPtrTyped, OwnersDiffer, ObjectsHaveOwners,
         MembersLive, OwnLocals, MembersOf
<1>2. OwnPtrInv /\ [OwnPtrNext]_ownPtrVars => OwnPtrInv'
  BY NextKeepsOwnPtrInv
<1> QED BY <1>1, <1>2, PTL DEF OwnPtrSpec

\* Every object has exactly one owner, a pointer or the client that took it, and
\* no pointer owns an object that is gone (OwnPtr.h).
THEOREM OwnersStayExclusive == OwnPtrSpec => []OwnersAreExclusive
<1>1. OwnPtrInv => OwnersAreExclusive
  <2> SUFFICES ASSUME OwnPtrInv PROVE OwnersAreExclusive
    OBVIOUS
  <2>1. ASSUME NEW o \in existing
        PROVE  Cardinality(OwnersOf(o)) = IF o \in given THEN 0 ELSE 1
    <3>0. o # Nullptr
      BY OwnPtrAssumption DEF OwnPtrInv, OwnPtrTyped
    <3>1. CASE o \in given
      <4>1. OwnersOf(o) = {}
        BY <3>0, <3>1 DEF OwnersOf, OwnPtrInv, OwnersDiffer, OwnPtrTyped
      <4> QED BY <3>1, <4>1, FS_EmptySet
    <3>2. CASE o \notin given
      <4>1. PICK p \in OwnPtrs : _ptr[p] = o
        BY <3>2 DEF OwnPtrInv, ObjectsHaveOwners
      <4>2. OwnersOf(o) = {p}
        BY <3>0, <4>1 DEF OwnersOf, OwnPtrInv, OwnersDiffer, OwnPtrTyped
      <4> QED BY <3>2, <4>2, FS_Singleton
    <3> QED BY <3>1, <3>2
  <2>2. \A p \in in_scope : _ptr[p] \in existing \cup {Nullptr}
    BY DEF OwnPtrInv, OwnersDiffer, OwnPtrTyped
  <2> QED BY <2>1, <2>2 DEF OwnersAreExclusive, OwnPtrInv, OwnPtrTyped, MembersLive
<1> QED BY <1>1, OwnPtrSafety, PTL

-----------------------------------------------------------------------------
(* Counting in sequences.                                                  *)

\* The places of x in s.
Places(s, x) == {i \in DOMAIN s : s[i] = x}

\* A map that is one to one and onto keeps the number of elements.
LEMMA SameCount ==
  ASSUME NEW S, NEW T, IsFiniteSet(S), NEW f \in [S -> T],
         \A a, b \in S : f[a] = f[b] => a = b,
         \A t \in T : \E a \in S : f[a] = t
  PROVE  IsFiniteSet(T) /\ Cardinality(T) = Cardinality(S)
<1>1. f \in Bijection(S, T)
  BY Fun_IsBij
<1> QED BY <1>1, FS_Bijection DEF ExistsBijection

\* The places in a sequence are finitely many.
LEMMA PlacesFinite ==
  ASSUME NEW S, NEW s \in Seq(S), NEW x
  PROVE  IsFiniteSet(Places(s, x)) /\ Cardinality(Places(s, x)) \in Nat
<1>1. Len(s) \in Nat /\ DOMAIN s = 1 .. Len(s)
  BY LenProperties
<1>2. IsFiniteSet(1 .. Len(s))
  BY <1>1, FS_Interval
<1>3. Places(s, x) \in SUBSET (1 .. Len(s))
  BY <1>1 DEF Places
<1> QED BY <1>2, <1>3, FS_Subset, FS_CardinalityType

\* Concatenation adds the places up.
LEMMA PlacesAdd ==
  ASSUME NEW S, NEW s \in Seq(S), NEW t \in Seq(S), NEW x
  PROVE  Cardinality(Places(s \o t, x)) = Cardinality(Places(s, x)) + Cardinality(Places(t, x))
<1>1. Len(s) \in Nat /\ DOMAIN s = 1 .. Len(s) /\ Len(t) \in Nat /\ DOMAIN t = 1 .. Len(t)
  BY LenProperties
<1>2. PICK u \in Seq(S) : u = s \o t
  BY ConcatProperties
<1>3. /\ DOMAIN u = 1 .. Len(s) + Len(t)
      /\ \A i \in 1 .. Len(s) + Len(t) : u[i] = IF i <= Len(s) THEN s[i] ELSE t[i - Len(s)]
  BY <1>2, ConcatProperties, LenProperties
<1>4. PICK later : later = {i \in DOMAIN u : u[i] = x /\ i > Len(s)}
  OBVIOUS
<1>5. IsFiniteSet(later) /\ Cardinality(later) = Cardinality(Places(t, x))
  <2>1. PICK f : f = [i \in Places(t, x) |-> i + Len(s)]
    OBVIOUS
  <2>2. \A i \in Places(t, x) : f[i] = i + Len(s) /\ i \in 1 .. Len(t)
    BY <1>1, <2>1 DEF Places
  <2>3. \A i \in Places(t, x) : f[i] \in later
    <3> SUFFICES ASSUME NEW i \in Places(t, x) PROVE f[i] \in later
      OBVIOUS
    <3>1. i \in 1 .. Len(t) /\ t[i] = x /\ f[i] = i + Len(s)
      BY <2>2 DEF Places
    <3>10. i + Len(s) \in 1 .. Len(s) + Len(t)
      <4>1. i \in 1 .. Len(t)
        BY <2>2
      <4> QED BY <1>1, <4>1
    <3>2. PICK j \in 1 .. Len(s) + Len(t) : j = i + Len(s)
      BY <3>10
    <3>3. u[j] = t[i] /\ j > Len(s)
      BY <1>1, <1>3, <3>1, <3>2, SMTT(30)
    <3> QED BY <1>3, <1>4, <3>1, <3>2, <3>3
  <2>4. f \in [Places(t, x) -> later]
    BY <2>1, <2>3
  <2>5. \A a, b \in Places(t, x) : f[a] = f[b] => a = b
    BY <1>1, <2>2
  <2>6. ASSUME NEW j \in later PROVE \E i \in Places(t, x) : f[i] = j
    <3>1. j \in 1 .. Len(s) + Len(t) /\ j > Len(s) /\ u[j] = x
      BY <1>3, <1>4
    <3>10. j \in 1 .. Len(s) + Len(t) /\ j > Len(s)
      BY <3>1
    <3>11. j - Len(s) \in 1 .. Len(t)
      BY <1>1, <3>10
    <3>2. PICK i \in 1 .. Len(t) : i = j - Len(s)
      BY <3>11
    <3>3. t[i] = x /\ j = i + Len(s)
      BY <1>1, <1>3, <3>1, <3>2
    <3>4. i \in Places(t, x)
      BY <1>1, <3>3 DEF Places
    <3> QED BY <2>2, <3>3, <3>4
  <2> QED BY <2>4, <2>5, <2>6, PlacesFinite, SameCount
<1>6. Places(u, x) = Places(s, x) \cup later
  <2>1. ASSUME NEW i \in Places(u, x) PROVE i \in Places(s, x) \cup later
    BY <1>1, <1>3, <1>4 DEF Places
  <2>2. ASSUME NEW i \in Places(s, x) PROVE i \in Places(u, x)
    BY <1>1, <1>3 DEF Places
  <2> QED BY <1>4, <2>1, <2>2 DEF Places
<1>7. Places(s, x) \cap later = {}
  BY <1>1, <1>4 DEF Places
<1>8. Cardinality(Places(u, x)) = Cardinality(Places(s, x)) + Cardinality(later)
  <2>1. IsFiniteSet(Places(s, x)) /\ Cardinality(Places(s, x)) \in Nat
    BY PlacesFinite
  <2>2. Cardinality(later) \in Nat
    BY <1>5, FS_CardinalityType
  <2>3. Cardinality(Places(s, x) \cap later) = 0
    BY <1>7, FS_EmptySet
  <2>4. Cardinality(Places(s, x) \cup later)
          = Cardinality(Places(s, x)) + Cardinality(later) - Cardinality(Places(s, x) \cap later)
    BY <1>5, <2>1, FS_Union
  <2> QED BY <1>6, <2>1, <2>2, <2>3, <2>4
<1> QED BY <1>2, <1>5, <1>8

\* The first element is one place, the tail has the others.
LEMMA PlacesOfTail ==
  ASSUME NEW S, NEW s \in Seq(S), s # <<>>, NEW x
  PROVE  Cardinality(Places(s, x))
           = Cardinality(Places(Tail(s), x)) + (IF Head(s) = x THEN 1 ELSE 0)
<1>1. /\ Head(s) \in S /\ Tail(s) \in Seq(S)
      /\ s = <<Head(s)>> \o Tail(s)
  OBVIOUS
<1>2. PICK h \in Seq(S) : h = <<Head(s)>>
  <2>1. PICK head \in S : head = Head(s)
    BY <1>1
  <2>2. <<head>> \in Seq(S)
    OBVIOUS
  <2> QED BY <2>1, <2>2
<1>3. Cardinality(Places(s, x)) = Cardinality(Places(h, x)) + Cardinality(Places(Tail(s), x))
  <2>1. PICK t \in Seq(S) : t = Tail(s)
    BY <1>1
  <2>2. s = h \o t
    BY <1>1, <1>2, <2>1
  <2>3. Cardinality(Places(h \o t, x)) = Cardinality(Places(h, x)) + Cardinality(Places(t, x))
    BY PlacesAdd
  <2> QED BY <2>1, <2>2, <2>3
<1>4. Cardinality(Places(h, x)) = IF Head(s) = x THEN 1 ELSE 0
  <2>1. CASE Head(s) = x
    <3>1. Places(h, x) = {1}
      BY <1>2, <2>1 DEF Places
    <3> QED BY <2>1, <3>1, FS_Singleton
  <2>2. CASE Head(s) # x
    <3>1. Places(h, x) = {}
      BY <1>2, <2>2 DEF Places
    <3> QED BY <2>2, <3>1, FS_EmptySet
  <2> QED BY <2>1, <2>2
<1>5. Cardinality(Places(Tail(s), x)) \in Nat
  BY <1>1, PlacesFinite
<1> QED BY <1>3, <1>4, <1>5

\* A finite set laid out as a sequence has each element in one place.
LEMMA PlacesOfSet ==
  ASSUME NEW S, IsFiniteSet(S), NEW V, NEW value \in [S -> V], NEW held, held = SetToSeq(S)
  PROVE  /\ [i \in DOMAIN held |-> value[held[i]]] \in Seq(V)
         /\ \A x : Cardinality(Places([i \in DOMAIN held |-> value[held[i]]], x))
                     = Cardinality({p \in S : value[p] = x})
         /\ \A i \in DOMAIN held : held[i] \in S
<1>1. PICK n \in Nat : n = Cardinality(S)
  BY FS_CardinalityType
<1>2. \E f \in [1 .. n -> S] : IsInjective(f)
  <2>1. PICK f : f \in Bijection(1 .. n, S)
    BY <1>1, FS_CardinalityType DEF ExistsBijection
  <2> QED BY <2>1 DEF Bijection, Injection
<1>3. held \in [1 .. n -> S] /\ IsInjective(held)
  BY <1>1, <1>2 DEF SetToSeq
<1>4. DOMAIN held = 1 .. n /\ \A i \in 1 .. n : held[i] \in S
  BY <1>3
<1>5. \A p \in S : \E i \in 1 .. n : held[i] = p
  <2>1. held \in Injection(1 .. n, S)
    BY <1>3 DEF Injection
  <2>2. IsFiniteSet(1 .. n) /\ Cardinality(1 .. n) = n
    BY FS_Interval
  <2>3. held \in Surjection(1 .. n, S)
    BY <1>1, <2>1, <2>2, FS_Injection
  <2> QED BY <2>3 DEF Surjection
<1>6. \A i, j \in 1 .. n : held[i] = held[j] => i = j
  BY <1>3, <1>4 DEF IsInjective
<1>7. PICK s : s = [i \in DOMAIN held |-> value[held[i]]]
  OBVIOUS
<1>8. s \in Seq(V)
  <2>1. s \in [1 .. n -> V]
    BY <1>4, <1>7
  <2> QED BY <2>1, SeqDef
<1>9. DOMAIN s = 1 .. n /\ \A i \in 1 .. n : s[i] = value[held[i]]
  BY <1>4, <1>7
<1>10. ASSUME NEW x PROVE Cardinality(Places(s, x)) = Cardinality({p \in S : value[p] = x})
  <2>1. PICK f : f = [i \in Places(s, x) |-> held[i]]
    OBVIOUS
  <2>2. \A i \in Places(s, x) : f[i] = held[i] /\ i \in 1 .. n /\ s[i] = x
    BY <1>9, <2>1 DEF Places
  <2>3. f \in [Places(s, x) -> {p \in S : value[p] = x}]
    BY <1>4, <1>9, <2>1, <2>2
  <2>4. \A a, b \in Places(s, x) : f[a] = f[b] => a = b
    BY <1>6, <2>2
  <2>5. ASSUME NEW p \in {q \in S : value[q] = x} PROVE \E i \in Places(s, x) : f[i] = p
    <3>1. PICK i \in 1 .. n : held[i] = p
      BY <1>5
    <3>2. i \in Places(s, x)
      BY <1>9, <3>1 DEF Places
    <3> QED BY <2>2, <3>1, <3>2
  <2>6. PICK A, B : A = Places(s, x) /\ B = {p \in S : value[p] = x}
    OBVIOUS
  <2>7. IsFiniteSet(A)
    BY <1>8, <2>6, PlacesFinite
  <2>8. /\ f \in [A -> B] /\ \A a, b \in A : f[a] = f[b] => a = b
        /\ \A p \in B : \E i \in A : f[i] = p
    BY <2>3, <2>4, <2>5, <2>6
  <2>9. Cardinality(B) = Cardinality(A)
    BY <2>7, <2>8, SameCount
  <2> QED BY <2>6, <2>9
<1> QED BY <1>4, <1>7, <1>8, <1>10

-----------------------------------------------------------------------------
(* Reference counting.  A release may delete objects, and with them other  *)
(* pointers, but never the pointer being assigned to: a chain of pointers  *)
(* leads to it that does not go through it, and keeps its object alive.    *)

RefPtrTyped ==
  /\ refcount \in [Objects -> Nat] /\ orphan \in [Objects -> BOOLEAN]
  /\ alive \subseteq Objects /\ scope \subseteq Pointers
  /\ ptr \in [Pointers -> Objects \cup {NULL}]
  /\ releasing \in Seq(Objects)
  /\ assigning = NoAssignment \/ assigning \in {"copy", "move"} \X Pointers \X Pointers
  /\ failed \in {"none", "fault", "freed"}

MembersInScope ==
  \A p \in Pointers : Owner[p] # NULL => (p \in scope <=> Owner[p] \in alive)

AliveIsCounted == \A o \in alive : orphan[o] \/ refcount[o] > 0

\* The pointers to o that count.
Counting(o) == Holds(o) \ {assigning[2]}

\* An object counts the pointers to it and the releases it waits for.
Counted ==
  \A o \in alive :
    orphan[o] \/ refcount[o] = Cardinality(Places(releasing, o)) + Cardinality(Counting(o))

PointersLive ==
  /\ \A p \in Pointers : ptr[p] # NULL => p \in scope
  /\ \A p \in Pointers : ptr[p] # NULL /\ p # assigning[2] => ptr[p] \in alive

ReleasesLive == \A i \in DOMAIN releasing : releasing[i] \in alive

\* Objects that keep each other and p alive, without p.
Keeps(R, p) ==
  /\ Owner[p] \in R \cup {NULL}
  /\ \A r \in R : \E q \in scope \ {p} : ptr[q] = r /\ Owner[q] \in R \cup {NULL}

TargetKept ==
  assigning # NoAssignment =>
    /\ assigning[2] \in scope /\ assigning[2] # assigning[3]
    /\ \E R \in SUBSET alive : Keeps(R, assigning[2])

RefPtrInv ==
  /\ RefPtrTyped /\ MembersInScope /\ AliveIsCounted
  /\ failed = "none" => Counted /\ PointersLive /\ ReleasesLive /\ TargetKept

\* Between operations every pointer counts.
LEMMA WhenReady ==
  ASSUME RefPtrInv, Ready
  PROVE  /\ assigning[2] = NULL /\ assigning = NoAssignment /\ releasing = <<>>
         /\ failed = "none"
         /\ Counted /\ PointersLive
         /\ \A o : Counting(o) = Holds(o) /\ Places(releasing, o) = {}
         /\ \A p \in Pointers : ptr[p] # NULL => ptr[p] \in alive /\ p \in scope
<1>1. /\ assigning[2] = NULL /\ releasing = <<>> /\ failed = "none"
      /\ assigning = NoAssignment
  BY DEF Ready, NoAssignment
<1>2. NULL \notin scope /\ NULL \notin Pointers
  BY RefPtrAssumption DEF RefPtrInv, RefPtrTyped
<1>3. \A o : Counting(o) = Holds(o)
  BY <1>1, <1>2 DEF Counting, Holds
<1>4. \A o : Places(releasing, o) = {}
  BY <1>1 DEF Places
<1> QED BY <1>1, <1>2, <1>3, <1>4 DEF RefPtrInv, PointersLive

\* The pointers that count are finitely many.
LEMMA CountingFinite ==
  ASSUME RefPtrTyped, NEW o
  PROVE  IsFiniteSet(Counting(o)) /\ Cardinality(Counting(o)) \in Nat
<1>1. Counting(o) \in SUBSET Pointers
  BY DEF Counting, Holds, RefPtrTyped
<1> QED BY <1>1, RefPtrAssumption, FS_Subset, FS_CardinalityType

\* A pointer a client can name is kept by others.
LEMMA NamedIsKept ==
  ASSUME RefPtrInv, Ready, NEW p \in Named
  PROVE  \E R \in SUBSET alive : Keeps(R, p)
<1>1. PICK R : R = Reached(scope \ {p})
  OBVIOUS
<1>2. R \subseteq Objects /\ scope \subseteq Pointers
  BY <1>1 DEF Reached, RefPtrInv, RefPtrTyped
<1>3. ASSUME NEW q \in scope \ {p}, Owner[q] \in R \cup {NULL}, ptr[q] # NULL
      PROVE  ptr[q] \in R
  <2>1. ptr[q] \in Objects
    BY <1>2, <1>3 DEF RefPtrInv, RefPtrTyped
  <2> SUFFICES ASSUME NEW S \in SUBSET Objects, LeadsTo(S, scope \ {p})
               PROVE  ptr[q] \in S
    BY <1>1, <2>1 DEF Reached
  <2>2. R \subseteq S
    BY <1>1 DEF Reached
  <2> QED BY <1>3, <2>2 DEF LeadsTo
<1>4. ASSUME NEW r \in R
      PROVE  \E q \in scope \ {p} : ptr[q] = r /\ Owner[q] \in R \cup {NULL}
  <2> DEFINE S == {x \in R : \E q \in scope \ {p} : ptr[q] = x /\ Owner[q] \in R \cup {NULL}}
  <2>1. LeadsTo(S, scope \ {p})
    BY <1>3 DEF LeadsTo
  <2>2. S \in SUBSET Objects
    BY <1>2
  <2>3. R \subseteq S
    BY <1>1, <2>1, <2>2 DEF Reached
  <2> QED BY <2>3
<1>5. R \in SUBSET alive
  <2> SUFFICES ASSUME NEW r \in R PROVE r \in alive
    OBVIOUS
  <2>1. PICK q \in scope \ {p} : ptr[q] = r
    BY <1>4
  <2>2. q \in Pointers /\ r # NULL
    BY <1>2, RefPtrAssumption
  <2> QED BY <2>1, <2>2, WhenReady
<1>6. Owner[p] \in R \cup {NULL}
  <2> SUFFICES ASSUME Owner[p] \notin R \cup {NULL} PROVE FALSE
    OBVIOUS
  <2>1. LeadsTo(R, scope)
    BY <1>3 DEF LeadsTo
  <2>2. Reached(scope) \subseteq R
    BY <1>2, <2>1 DEF Reached
  <2> QED BY <2>2 DEF Named
<1> QED BY <1>4, <1>5, <1>6 DEF Keeps

\* A client's pointer is a variable, and what it names is in scope.
LEMMA Nameables ==
  ASSUME RefPtrInv
  PROVE  /\ Locals \subseteq Pointers /\ \A p \in Pointers : p \in Locals <=> Owner[p] = NULL
         /\ Named \subseteq scope /\ Named \subseteq Pointers /\ scope \subseteq Pointers
BY DEF Locals, Members, Named, RefPtrInv, RefPtrTyped

\* Between operations only the pointers and the counts matter.
LEMMA ReadyAgain ==
  ASSUME releasing' = <<>>, assigning' = NoAssignment, failed' = "none",
         RefPtrTyped', MembersInScope', AliveIsCounted', PointersLive',
         \A o \in alive' : orphan'[o] \/ refcount'[o] = Cardinality(Counting(o)')
  PROVE  RefPtrInv'
<1>1. \A o : Places(releasing, o)' = {}
  BY DEF Places
<1>2. Counted'
  <2> SUFFICES ASSUME NEW o \in alive', ~orphan'[o]
               PROVE  refcount'[o] = Cardinality(Places(releasing, o)') + Cardinality(Counting(o)')
    BY DEF Counted
  <2>1. Cardinality(Places(releasing, o)') = 0
    BY <1>1, FS_EmptySet
  <2>2. refcount'[o] = Cardinality(Counting(o)')
    OBVIOUS
  <2>3. refcount'[o] \in Nat
    BY DEF RefPtrTyped
  <2> QED BY <2>1, <2>2, <2>3
<1> QED BY <1>2 DEF RefPtrInv, ReleasesLive, TargetKept

\* A step between operations that starts no release and no assignment.
LEMMA StaysReady ==
  ASSUME RefPtrInv, Ready, UNCHANGED <<releasing, assigning, failed>>,
         RefPtrTyped', MembersInScope', AliveIsCounted',
         \A o \in alive' : orphan'[o] \/ refcount'[o] = Cardinality(Counting(o)'),
         \A p \in Pointers : ptr'[p] # NULL => ptr'[p] \in alive' /\ p \in scope'
  PROVE  RefPtrInv'
<1>1. releasing' = <<>> /\ assigning' = NoAssignment /\ failed' = "none"
  BY WhenReady
<1>2. PointersLive'
  BY DEF PointersLive
<1> QED BY <1>1, <1>2, ReadyAgain

\* A new object (RefPtr.h, make).
LEMMA MakeKeeps ==
  ASSUME RefPtrInv, Ready, NEW p \in Pointers, NEW o \in Objects, make(p, o)
  PROVE  RefPtrInv'
<1>0. /\ assigning[2] = NULL /\ NULL \notin Pointers /\ NULL \notin Objects
      /\ \A q \in Pointers : ptr[q] # NULL => ptr[q] \in alive /\ q \in scope
  BY WhenReady, RefPtrAssumption
<1>1. /\ p \in Pointers /\ Owner[p] = NULL /\ p \notin scope /\ o \notin alive
      /\ alive' = alive \cup {o} /\ scope' = scope \cup {p} \cup Members(o)
      /\ UNCHANGED <<releasing, assigning, failed>>
  BY Nameables DEF make
<1>2. /\ refcount' = [refcount EXCEPT ![o] = 1] /\ orphan' = [orphan EXCEPT ![o] = FALSE]
      /\ \A q \in Pointers : ptr'[q] = IF q = p THEN o
                                       ELSE IF q \in Members(o) THEN NULL ELSE ptr[q]
  BY DEF make
<1>3. RefPtrTyped'
  BY <1>1, <1>2 DEF make, RefPtrInv, RefPtrTyped, Members
<1>4. MembersInScope'
  BY <1>0, <1>1 DEF RefPtrInv, MembersInScope, Members
<1>5. AliveIsCounted'
  BY <1>1, <1>2 DEF RefPtrInv, RefPtrTyped, AliveIsCounted
<1>6. \A q \in Pointers : ptr'[q] # NULL => ptr'[q] \in alive' /\ q \in scope'
  BY <1>0, <1>1, <1>2
<1>7. \A q \in Members(o) : q \in Pointers /\ q \notin scope /\ q # p
  BY <1>0, <1>1 DEF RefPtrInv, MembersInScope, Members
<1>8. ASSUME NEW x \in alive', ~orphan'[x]
      PROVE  refcount'[x] = Cardinality(Counting(x)')
  <2>1. CASE x = o
    <3>1. Counting(x)' = {p}
      BY <1>0, <1>1, <1>2, <1>6, <1>7, <2>1, Nameables DEF Counting, Holds, RefPtrInv, RefPtrTyped
    <3>2. Cardinality(Counting(x)') = 1
      BY <3>1, FS_Singleton
    <3>3. refcount'[x] = 1
      BY <1>2, <2>1 DEF RefPtrInv, RefPtrTyped
    <3> QED BY <3>2, <3>3
  <2>2. CASE x # o
    <3>1. x \in alive /\ x \in Objects
      BY <1>1, <2>2 DEF RefPtrInv, RefPtrTyped
    <3>2. Counting(x)' = Counting(x)
      BY <1>0, <1>1, <1>2, <1>7, <2>2, <3>1, Nameables DEF Counting, Holds
    <3>3. refcount'[x] = refcount[x] /\ ~orphan[x]
      BY <1>2, <1>8, <2>2, <3>1 DEF RefPtrInv, RefPtrTyped
    <3>4. refcount[x] = 0 + Cardinality(Counting(x))
      BY <3>1, <3>3, WhenReady, FS_EmptySet DEF Counted
    <3>5. Cardinality(Counting(x)) \in Nat
      BY CountingFinite DEF RefPtrInv
    <3> QED BY <3>2, <3>3, <3>4, <3>5
  <2> QED BY <2>1, <2>2
<1> QED BY <1>1, <1>3, <1>4, <1>5, <1>6, <1>8, StaysReady

\* A pointer that owns nothing.
LEMMA ConstructNullKeeps ==
  ASSUME RefPtrInv, Ready, NEW p \in Pointers, ConstructNull(p)
  PROVE  RefPtrInv'
<1>0. /\ assigning[2] = NULL /\ NULL \notin Pointers /\ NULL \notin Objects
      /\ \A q \in Pointers : ptr[q] # NULL => ptr[q] \in alive /\ q \in scope
  BY WhenReady, RefPtrAssumption
<1>1. /\ Owner[p] = NULL /\ p \notin scope
      /\ scope' = scope \cup {p}
      /\ UNCHANGED <<releasing, assigning, failed, refcount, orphan, alive>>
  BY Nameables DEF ConstructNull
<1>2. ptr' = ptr
  BY <1>0, <1>1 DEF ConstructNull, RefPtrInv, RefPtrTyped
<1>3. RefPtrTyped' /\ MembersInScope' /\ AliveIsCounted'
  BY <1>1, <1>2 DEF RefPtrInv, RefPtrTyped, MembersInScope, AliveIsCounted
<1>4. ASSUME NEW x \in alive, ~orphan[x]
      PROVE  refcount[x] = Cardinality(Counting(x)')
  <2>1. x \in Objects
    BY DEF RefPtrInv, RefPtrTyped
  <2>2. Counting(x)' = Counting(x)
    BY <1>0, <1>1, <1>2, <2>1 DEF Counting, Holds
  <2>3. refcount[x] = 0 + Cardinality(Counting(x))
    BY <1>4, WhenReady, FS_EmptySet DEF Counted
  <2>4. Cardinality(Counting(x)) \in Nat
    BY CountingFinite DEF RefPtrInv
  <2> QED BY <2>2, <2>3, <2>4
<1> QED BY <1>0, <1>1, <1>2, <1>3, <1>4, StaysReady

\* What ref does to the object of a pointer that counts: it counts one more.
LEMMA RefCounts ==
  ASSUME RefPtrInv, failed = "none", NEW o \in Objects \cup {NULL}, ref(o), o # NULL => o \in alive
  PROVE  \/ o = NULL /\ failed' = "fault" /\ refcount' = refcount
         \/ /\ o \in alive /\ failed' = failed
            /\ refcount' = IF orphan[o] THEN refcount ELSE [refcount EXCEPT ![o] = @ + 1]
<1>1. CASE o = NULL
  BY <1>1 DEF ref
<1>2. CASE o # NULL
  <2>1. o \in alive
    BY <1>2
  <2>2. orphan[o] \/ refcount[o] > 0
    BY <2>1 DEF RefPtrInv, AliveIsCounted
  <2>3. CASE orphan[o]
    BY <1>2, <2>1, <2>3 DEF ref
  <2>4. CASE ~orphan[o]
    BY <1>2, <2>1, <2>2, <2>4 DEF ref
  <2> QED BY <2>3, <2>4
<1> QED BY <1>1, <1>2

\* A copy, counted by ref.
LEMMA ConstructCopyKeeps ==
  ASSUME RefPtrInv, Ready, NEW p \in Pointers, NEW other \in Pointers, ConstructCopy(p, other)
  PROVE  RefPtrInv'
<1>0. /\ assigning[2] = NULL /\ NULL \notin Pointers /\ NULL \notin Objects
      /\ \A q \in Pointers : ptr[q] # NULL => ptr[q] \in alive /\ q \in scope
      /\ failed = "none"
  BY WhenReady, RefPtrAssumption
<1>1. /\ Owner[p] = NULL /\ p \notin scope /\ other \in scope /\ p # other
      /\ scope \subseteq Pointers
      /\ scope' = scope \cup {p}
      /\ UNCHANGED <<releasing, assigning, orphan, alive>>
      /\ \A q \in Pointers : ptr'[q] = IF q = p THEN ptr[other] ELSE ptr[q]
  BY Nameables DEF ConstructCopy, RefPtrInv, RefPtrTyped
<1>2. PICK o \in Objects \cup {NULL} : o = ptr[other]
  BY DEF RefPtrInv, RefPtrTyped
<1>3. \/ o = NULL /\ failed' = "fault" /\ refcount' = refcount
      \/ /\ o \in alive /\ failed' = failed
         /\ refcount' = IF orphan[o] THEN refcount ELSE [refcount EXCEPT ![o] = @ + 1]
  BY <1>0, <1>2, RefCounts DEF ConstructCopy
<1>4. RefPtrTyped'
  BY <1>0, <1>1, <1>3 DEF RefPtrInv, RefPtrTyped, ConstructCopy
<1>5. MembersInScope' /\ AliveIsCounted'
  BY <1>1, <1>3, SMTT(30) DEF RefPtrInv, RefPtrTyped, MembersInScope, AliveIsCounted
<1>6. CASE failed' = "fault"
  BY <1>4, <1>5, <1>6 DEF RefPtrInv
<1>7. CASE o \in alive /\ failed' = failed
  <2>1. refcount' = IF orphan[o] THEN refcount ELSE [refcount EXCEPT ![o] = @ + 1]
    BY <1>0, <1>3, <1>7
  <2>2. ASSUME NEW x \in alive, ~orphan[x]
        PROVE  refcount'[x] = Cardinality(Counting(x)')
    <3>0. x \in Objects
      BY DEF RefPtrInv, RefPtrTyped
    <3>1. refcount[x] = 0 + Cardinality(Counting(x))
      BY <2>2, WhenReady, FS_EmptySet DEF Counted
    <3>2. IsFiniteSet(Counting(x)) /\ Cardinality(Counting(x)) \in Nat
      BY CountingFinite DEF RefPtrInv
    <3>3. CASE x = o
      <4>1. Counting(x)' = Counting(x) \cup {p}
        BY <1>0, <1>1, <1>2, <3>0, <3>3 DEF Counting, Holds
      <4>2. p \notin Counting(x)
        BY <1>1 DEF Counting, Holds
      <4>3. Cardinality(Counting(x)') = Cardinality(Counting(x)) + 1
        BY <3>2, <4>1, <4>2, FS_AddElement
      <4>4. refcount'[x] = refcount[x] + 1
        BY <2>1, <2>2, <3>0, <3>3 DEF RefPtrInv, RefPtrTyped
      <4> QED BY <3>1, <3>2, <4>3, <4>4
    <3>4. CASE x # o
      <4>1. Counting(x)' = Counting(x)
        BY <1>0, <1>1, <1>2, <3>0, <3>4 DEF Counting, Holds
      <4>2. refcount'[x] = refcount[x]
        BY <2>1, <3>0, <3>4 DEF RefPtrInv, RefPtrTyped
      <4> QED BY <3>1, <3>2, <4>1, <4>2
    <3> QED BY <3>3, <3>4
  <2>3. \A q \in Pointers : ptr'[q] # NULL => ptr'[q] \in alive' /\ q \in scope'
    BY <1>0, <1>1
  <2> QED BY <1>1, <1>4, <1>5, <1>7, <2>2, <2>3, StaysReady
<1> QED BY <1>3, <1>6, <1>7

\* A move.
LEMMA ConstructMoveKeeps ==
  ASSUME RefPtrInv, Ready, NEW p \in Pointers, NEW other \in Pointers, ConstructMove(p, other)
  PROVE  RefPtrInv'
<1>0. /\ assigning[2] = NULL /\ NULL \notin Pointers /\ NULL \notin Objects
      /\ \A q \in Pointers : ptr[q] # NULL => ptr[q] \in alive /\ q \in scope
  BY WhenReady, RefPtrAssumption
<1>1. /\ Owner[p] = NULL /\ p \notin scope /\ other \in scope /\ p # other
      /\ scope \subseteq Pointers
      /\ scope' = scope \cup {p}
      /\ UNCHANGED <<releasing, assigning, failed, refcount, orphan, alive>>
      /\ \A q \in Pointers : ptr'[q] = IF q = other THEN NULL
                                       ELSE IF q = p THEN ptr[other] ELSE ptr[q]
  BY Nameables DEF ConstructMove, RefPtrInv, RefPtrTyped
<1>2. RefPtrTyped' /\ MembersInScope' /\ AliveIsCounted'
  BY <1>1 DEF RefPtrInv, RefPtrTyped, MembersInScope, AliveIsCounted, ConstructMove
<1>3. ASSUME NEW x \in alive, ~orphan[x]
      PROVE  refcount[x] = Cardinality(Counting(x)')
  <2>0. x \in Objects
    BY DEF RefPtrInv, RefPtrTyped
  <2>1. refcount[x] = 0 + Cardinality(Counting(x))
    BY <1>3, WhenReady, FS_EmptySet DEF Counted
  <2>2. IsFiniteSet(Counting(x)) /\ Cardinality(Counting(x)) \in Nat
    BY CountingFinite DEF RefPtrInv
  <2>3. CASE x = ptr[other]
    <3>1. PICK rest : rest = Counting(x) \ {other}
      OBVIOUS
    <3>2. other \in Counting(x)
      BY <1>0, <1>1, <2>3 DEF Counting, Holds
    <3>3. IsFiniteSet(rest) /\ Cardinality(rest) = Cardinality(Counting(x)) - 1
      BY <2>2, <3>1, <3>2, FS_RemoveElement
    <3>4. Counting(x)' = rest \cup {p}
      BY <1>0, <1>1, <2>0, <2>3, <3>1 DEF Counting, Holds
    <3>5. p \notin rest
      BY <1>1, <3>1 DEF Counting, Holds
    <3>6. Cardinality(Counting(x)') = Cardinality(rest) + 1
      BY <3>3, <3>4, <3>5, FS_AddElement
    <3> QED BY <2>1, <2>2, <3>3, <3>6
  <2>4. CASE x # ptr[other]
    <3>1. Counting(x)' = Counting(x)
      BY <1>0, <1>1, <2>0, <2>4 DEF Counting, Holds
    <3> QED BY <2>1, <2>2, <3>1
  <2> QED BY <2>3, <2>4
<1>4. \A q \in Pointers : ptr'[q] # NULL => ptr'[q] \in alive' /\ q \in scope'
  BY <1>0, <1>1
<1> QED BY <1>1, <1>2, <1>3, <1>4, StaysReady

\* A pointer stops counting, and the release of its object begins.
LEMMA ReleaseStarts ==
  ASSUME RefPtrInv, Ready, NEW p \in scope, Release(ptr[p]),
         UNCHANGED <<refcount, orphan, alive>>,
         \A x \in alive : Counting(x)' = Counting(x) \ {p}
  PROVE  Counted' /\ ReleasesLive' /\ releasing' \in Seq(Objects)
<1>0. /\ NULL \notin Objects /\ scope \subseteq Pointers
      /\ \A q \in Pointers : ptr[q] # NULL => ptr[q] \in alive /\ q \in scope
      /\ alive \subseteq Objects
  BY WhenReady, RefPtrAssumption DEF RefPtrInv, RefPtrTyped
<1>1. PICK o : o = ptr[p]
  OBVIOUS
<1>2. releasing' = IF o = NULL THEN <<>> ELSE <<o>>
  BY <1>1 DEF Release
<1>3. o # NULL => o \in alive
  BY <1>0, <1>1
<1>4. releasing' \in Seq(Objects) /\ ReleasesLive'
  BY <1>0, <1>2, <1>3 DEF ReleasesLive
<1>5. ASSUME NEW x \in alive
      PROVE  Cardinality(Places(releasing, x)') = IF x = o THEN 1 ELSE 0
  <2>1. CASE x = o
    <3>1. Places(releasing, x)' = {1}
      BY <1>0, <1>2, <2>1 DEF Places
    <3> QED BY <2>1, <3>1, FS_Singleton
  <2>2. CASE x # o
    <3>1. Places(releasing, x)' = {}
      BY <1>2, <2>2 DEF Places
    <3> QED BY <2>2, <3>1, FS_EmptySet
  <2> QED BY <2>1, <2>2
<1>6. ASSUME NEW x \in alive, ~orphan[x]
      PROVE  refcount[x] = Cardinality(Places(releasing, x)') + Cardinality(Counting(x)')
  <2>1. refcount[x] = 0 + Cardinality(Counting(x))
    BY <1>6, WhenReady, FS_EmptySet DEF Counted
  <2>2. IsFiniteSet(Counting(x)) /\ Cardinality(Counting(x)) \in Nat
    BY CountingFinite DEF RefPtrInv
  <2>3. p \in Counting(x) <=> x = o
    BY <1>0, <1>1, WhenReady DEF Counting, Holds
  <2>4. Cardinality(Counting(x)') = IF x = o THEN Cardinality(Counting(x)) - 1
                                    ELSE Cardinality(Counting(x))
    BY <2>2, <2>3, FS_RemoveElement
  <2> QED BY <1>5, <2>1, <2>2, <2>4
<1> QED BY <1>4, <1>6 DEF Counted

\* The destructor of a variable.
LEMMA DestroyKeeps ==
  ASSUME RefPtrInv, Ready, NEW p \in Pointers, Destroy(p)
  PROVE  RefPtrInv'
<1>0. /\ assigning[2] = NULL /\ assigning = NoAssignment
      /\ NULL \notin Pointers /\ NULL \notin Objects /\ scope \subseteq Pointers
      /\ \A q \in Pointers : ptr[q] # NULL => ptr[q] \in alive /\ q \in scope
  BY WhenReady, RefPtrAssumption, Nameables
<1>1. /\ Owner[p] = NULL /\ p \in scope /\ scope' = scope \ {p} /\ Release(ptr[p])
      /\ UNCHANGED <<assigning, failed, refcount, orphan, alive>>
      /\ \A q \in Pointers : ptr'[q] = IF q = p THEN NULL ELSE ptr[q]
  BY Nameables DEF Destroy, RefPtrInv, RefPtrTyped
<1>2. \A x \in alive : Counting(x)' = Counting(x) \ {p}
  BY <1>0, <1>1 DEF Counting, Holds
<1>3. Counted' /\ ReleasesLive' /\ releasing' \in Seq(Objects)
  BY <1>1, <1>2, ReleaseStarts
<1>4. PointersLive' /\ TargetKept'
  BY <1>0, <1>1 DEF PointersLive, TargetKept
<1>5. RefPtrTyped' /\ MembersInScope' /\ AliveIsCounted'
  BY <1>1, <1>3 DEF RefPtrInv, RefPtrTyped, MembersInScope, AliveIsCounted, Destroy
<1> QED BY <1>3, <1>4, <1>5 DEF RefPtrInv

\* The invariant is about nothing but the variables.
LEMMA RefPtrStutters ==
  ASSUME RefPtrInv, UNCHANGED refPtrVars
  PROVE  RefPtrInv'
<1>1. \A o : Places(releasing, o)' = Places(releasing, o) /\ Counting(o)' = Counting(o)
  BY DEF refPtrVars, Places, Counting, Holds
<1>2. Counted => Counted'
  BY <1>1 DEF refPtrVars, Counted
<1>3. /\ RefPtrTyped' /\ MembersInScope' /\ AliveIsCounted'
      /\ PointersLive => PointersLive'
      /\ ReleasesLive => ReleasesLive'
  BY DEF refPtrVars, RefPtrInv, RefPtrTyped, MembersInScope, AliveIsCounted, PointersLive,
         ReleasesLive
<1>4. TargetKept => TargetKept'
  BY DEF refPtrVars, TargetKept, Keeps
<1> QED BY <1>2, <1>3, <1>4 DEF RefPtrInv, refPtrVars

\* Assigning nullptr, where that is to a pointer that has nothing to lose.
LEMMA AssignNullKeeps ==
  ASSUME RefPtrInv, Ready, ~ResetsHolding, NEW p \in Pointers, AssignNull(p)
  PROVE  RefPtrInv'
<1>1. releasing' = <<>> /\ releasing = <<>>
  BY WhenReady DEF AssignNull, Release
<1> QED BY <1>1, RefPtrStutters DEF AssignNull, refPtrVars

\* An assignment begins: its pointer no longer counts.
LEMMA AssignKeeps ==
  ASSUME RefPtrInv, Ready, NEW p \in Pointers, NEW other \in Pointers, p # other,
         p \in Named, Release(ptr[p]), NEW kind \in {"copy", "move"},
         assigning' = <<kind, p, other>>,
         UNCHANGED <<refcount, orphan, alive, ptr, scope, failed>>
  PROVE  RefPtrInv'
<1>0. /\ assigning[2] = NULL
      /\ NULL \notin Pointers /\ NULL \notin Objects /\ scope \subseteq Pointers
      /\ \A q \in Pointers : ptr[q] # NULL => ptr[q] \in alive /\ q \in scope
      /\ p \in scope
  BY WhenReady, RefPtrAssumption, Nameables
<1>1. assigning'[2] = p /\ assigning'[3] = other /\ assigning' \in {"copy", "move"} \X Pointers \X Pointers
  OBVIOUS
<1>2. \A x \in alive : Counting(x)' = Counting(x) \ {p}
  BY <1>0, <1>1 DEF Counting, Holds
<1>3. Counted' /\ ReleasesLive' /\ releasing' \in Seq(Objects)
  BY <1>0, <1>2, ReleaseStarts
<1>4. PointersLive'
  BY <1>0, <1>1 DEF PointersLive
<1>5. TargetKept'
  <2>1. PICK R \in SUBSET alive : Keeps(R, p)
    BY NamedIsKept
  <2>2. Keeps(R, p)'
    BY <2>1 DEF Keeps
  <2> QED BY <1>0, <1>1, <2>2 DEF TargetKept
<1>6. RefPtrTyped' /\ MembersInScope' /\ AliveIsCounted'
  BY <1>1, <1>3 DEF RefPtrInv, RefPtrTyped, MembersInScope, AliveIsCounted
<1> QED BY <1>3, <1>4, <1>5, <1>6 DEF RefPtrInv

\* A release of an object that has other references, or none that count.
LEMMA DerefSharedKeeps ==
  ASSUME RefPtrInv, failed = "none", releasing # <<>>, NEW o, o = Head(releasing),
         DerefOrphan(o) \/ DerefShared(o), UNCHANGED <<orphan, assigning>>
  PROVE  RefPtrInv'
<1>1. o \in alive /\ o \in Objects
  <2>1. 1 \in DOMAIN releasing /\ releasing[1] = o
    BY DEF RefPtrInv, RefPtrTyped
  <2> QED BY <2>1 DEF RefPtrInv, RefPtrTyped, ReleasesLive
<1>2. /\ releasing' = Tail(releasing) /\ releasing' \in Seq(Objects)
      /\ UNCHANGED <<orphan, assigning, alive, ptr, scope, failed>>
  <2>1. releasing \in Seq(Objects)
    BY DEF RefPtrInv, RefPtrTyped
  <2>2. Tail(releasing) \in Seq(Objects)
    BY <2>1, HeadTailProperties
  <2> QED BY <2>2 DEF DerefOrphan, DerefShared
<1>3. \/ orphan[o] /\ refcount' = refcount
      \/ refcount[o] > 1 /\ refcount' = [refcount EXCEPT ![o] = @ - 1]
  BY DEF DerefOrphan, DerefShared
<1>30. /\ refcount' \in [Objects -> Nat]
       /\ \A x \in Objects : orphan[x] \/ refcount[x] > 0 => orphan[x] \/ refcount'[x] > 0
  <2>1. refcount \in [Objects -> Nat]
    BY DEF RefPtrInv, RefPtrTyped
  <2>2. CASE orphan[o] /\ refcount' = refcount
    BY <2>1, <2>2
  <2>3. CASE refcount[o] > 1 /\ refcount' = [refcount EXCEPT ![o] = @ - 1]
    <3>1. refcount[o] - 1 \in Nat /\ refcount[o] - 1 > 0
      BY <1>1, <2>1, <2>3
    <3> QED BY <1>1, <2>1, <2>3, <3>1
  <2> QED BY <1>3, <2>2, <2>3
<1>4. RefPtrTyped' /\ MembersInScope'
  BY <1>2, <1>30 DEF RefPtrInv, RefPtrTyped, MembersInScope
<1>5. AliveIsCounted'
  BY <1>2, <1>30 DEF RefPtrInv, RefPtrTyped, AliveIsCounted
<1>6. Counted'
  <2> SUFFICES ASSUME NEW x \in alive, ~orphan[x]
               PROVE  refcount'[x] = Cardinality(Places(releasing, x)') + Cardinality(Counting(x)')
    BY <1>2 DEF Counted
  <2>1. Counting(x)' = Counting(x)
    BY <1>2 DEF Counting, Holds
  <2>2. PICK s : s = Tail(releasing)
    OBVIOUS
  <2>3. Places(releasing, x)' = Places(s, x)
    BY <1>2, <2>2 DEF Places
  <2>4. Cardinality(Places(releasing, x)) = Cardinality(Places(s, x)) + (IF o = x THEN 1 ELSE 0)
    BY <2>2, PlacesOfTail DEF RefPtrInv, RefPtrTyped
  <2>5. Cardinality(Places(s, x)) \in Nat
    BY <1>2, <2>2, PlacesFinite
  <2>6. refcount[x] = Cardinality(Places(releasing, x)) + Cardinality(Counting(x))
    BY DEF RefPtrInv, Counted
  <2>7. Cardinality(Counting(x)) \in Nat
    BY CountingFinite DEF RefPtrInv
  <2>8. refcount'[x] = IF x = o THEN refcount[x] - 1 ELSE refcount[x]
    <3>1. x \in Objects
      BY DEF RefPtrInv, RefPtrTyped
    <3> QED BY <1>1, <1>3, <3>1 DEF RefPtrInv, RefPtrTyped
  <2> QED BY <2>1, <2>3, <2>4, <2>5, <2>6, <2>7, <2>8
<1>7. ReleasesLive'
  <2>1. releasing \in Seq(Objects) /\ ReleasesLive
    BY DEF RefPtrInv, RefPtrTyped
  <2> QED BY <1>2, <2>1 DEF ReleasesLive
<1>8. PointersLive' /\ TargetKept'
  BY <1>2, ZenonT(30) DEF RefPtrInv, PointersLive, TargetKept, Keeps
<1> QED BY <1>4, <1>5, <1>6, <1>7, <1>8 DEF RefPtrInv

\* The assertion of deref holds.
LEMMA DerefAsserts ==
  ASSUME RefPtrInv, failed = "none", releasing # <<>>
  PROVE  ~DerefAssertion(Head(releasing))
<1>1. PICK o : o = Head(releasing)
  OBVIOUS
<1>2. o \in alive
  <2>1. 1 \in DOMAIN releasing /\ releasing[1] = o
    BY <1>1 DEF RefPtrInv, RefPtrTyped
  <2> QED BY <2>1 DEF RefPtrInv, RefPtrTyped, ReleasesLive
<1>3. refcount[o] \in Nat
  BY <1>2 DEF RefPtrInv, RefPtrTyped
<1> QED BY <1>1, <1>2, <1>3 DEF RefPtrInv, AliveIsCounted, DerefAssertion

\* The last release deletes the object; its members release what they hold.
LEMMA DerefLastKeeps ==
  ASSUME RefPtrInv, failed = "none", releasing # <<>>, NEW o, o = Head(releasing),
         DerefLast(o), UNCHANGED <<orphan, assigning>>
  PROVE  RefPtrInv'
<1>0. /\ NULL \notin Pointers /\ NULL \notin Objects /\ scope \subseteq Pointers
      /\ alive \subseteq Objects /\ ptr \in [Pointers -> Objects \cup {NULL}]
      /\ releasing \in Seq(Objects)
  BY RefPtrAssumption DEF RefPtrInv, RefPtrTyped
<1>1. o \in alive /\ o \in Objects
  <2>1. 1 \in DOMAIN releasing /\ releasing[1] = o
    BY <1>0
  <2> QED BY <1>0, <2>1 DEF RefPtrInv, ReleasesLive
<1>2. PICK p : p = assigning[2]
  OBVIOUS
<1>3. PICK tail \in Seq(Objects) : tail = Tail(releasing)
  BY <1>0, HeadTailProperties
<1>4. /\ ~orphan[o] /\ refcount[o] = 1 /\ refcount' = [refcount EXCEPT ![o] = 0]
      /\ alive' = alive \ {o} /\ scope' = scope \ Members(o)
      /\ UNCHANGED <<orphan, assigning, failed>>
      /\ \A q \in Pointers : ptr'[q] = IF q \in Members(o) THEN NULL ELSE ptr[q]
  BY DEF DerefLast
\* The release is the only reference left.
<1>5. ASSUME NEW x \in alive
      PROVE  /\ Cardinality(Places(releasing, x)) = Cardinality(Places(tail, x)) + (IF o = x THEN 1 ELSE 0)
             /\ IsFiniteSet(Places(tail, x)) /\ Cardinality(Places(tail, x)) \in Nat
             /\ IsFiniteSet(Counting(x)) /\ Cardinality(Counting(x)) \in Nat
             /\ ~orphan[x] =>
                  refcount[x] = Cardinality(Places(releasing, x)) + Cardinality(Counting(x))
  BY <1>0, <1>3, PlacesOfTail, PlacesFinite, CountingFinite DEF RefPtrInv, Counted
<1>6. Places(tail, o) = {} /\ Counting(o) = {}
  <2>1. 1 = Cardinality(Places(tail, o)) + 1 + Cardinality(Counting(o))
    BY <1>1, <1>4, <1>5
  <2>2. Cardinality(Places(tail, o)) = 0 /\ Cardinality(Counting(o)) = 0
    BY <1>1, <1>5, <2>1
  <2> QED BY <1>1, <1>5, <2>2, FS_EmptySet
\* The pointer being assigned to is not among the members.
<1>7. p \notin Members(o)
  <2> SUFFICES ASSUME p \in Pointers, Owner[p] = o PROVE FALSE
    BY DEF Members
  <2>1. assigning # NoAssignment
    BY <1>0, <1>2 DEF NoAssignment
  <2>2. PICK R \in SUBSET alive : Keeps(R, p)
    BY <1>2, <2>1 DEF RefPtrInv, TargetKept
  <2>3. o \in R
    BY <1>0, <1>1, <2>2 DEF Keeps
  <2>4. PICK q \in scope \ {p} : ptr[q] = o
    BY <2>2, <2>3 DEF Keeps
  <2> QED BY <1>2, <1>6, <2>4 DEF Counting, Holds
<1>8. PICK S : S = {q \in Members(o) \cap scope : ptr[q] # NULL}
  OBVIOUS
<1>9. IsFiniteSet(S) /\ \A q \in S : q \in Pointers /\ q # p /\ ptr[q] \in alive /\ ptr[q] # o
  <2>1. S \in SUBSET Pointers
    BY <1>0, <1>8
  <2>2. ASSUME NEW q \in S PROVE q \in Pointers /\ q # p /\ ptr[q] \in alive /\ ptr[q] # o
    <3>1. q \in Pointers /\ q \in scope /\ q # p /\ ptr[q] # NULL
      BY <1>0, <1>7, <1>8
    <3>2. ptr[q] \in alive
      BY <1>2, <3>1 DEF RefPtrInv, PointersLive
    <3>3. ptr[q] # o
      BY <1>2, <1>6, <3>1 DEF Counting, Holds
    <3> QED BY <3>1, <3>2, <3>3
  <2> QED BY <2>1, <2>2, RefPtrAssumption, FS_Subset
<1>10. PICK first \in Seq(Objects) :
         /\ releasing' = first \o tail
         /\ \A x : Cardinality(Places(first, x)) = Cardinality({q \in S : ptr[q] = x})
         /\ \A i \in DOMAIN first : first[i] \in alive \ {o}
  <2>1. PICK held : held = SetToSeq(S)
    OBVIOUS
  <2>2. PICK value : value = [q \in S |-> ptr[q]]
    OBVIOUS
  <2>3. value \in [S -> Objects] /\ \A q \in S : value[q] = ptr[q]
    BY <1>0, <1>9, <2>2
  <2>4. /\ [i \in DOMAIN held |-> value[held[i]]] \in Seq(Objects)
        /\ \A x : Cardinality(Places([i \in DOMAIN held |-> value[held[i]]], x))
                    = Cardinality({q \in S : value[q] = x})
        /\ \A i \in DOMAIN held : held[i] \in S
    BY <1>9, <2>1, <2>3, PlacesOfSet
  <2>5. [i \in DOMAIN held |-> value[held[i]]] = [i \in DOMAIN held |-> ptr[held[i]]]
    BY <2>3, <2>4
  <2>6. PICK first \in Seq(Objects) : first = [i \in DOMAIN held |-> value[held[i]]]
    BY <2>4
  <2>7. releasing' = first \o tail
    BY <1>3, <1>8, <2>1, <2>5, <2>6 DEF DerefLast
  <2>8. ASSUME NEW x PROVE Cardinality(Places(first, x)) = Cardinality({q \in S : ptr[q] = x})
    <3>1. {q \in S : value[q] = x} = {q \in S : ptr[q] = x}
      BY <2>3
    <3> QED BY <2>4, <2>6, <3>1
  <2>9. ASSUME NEW i \in DOMAIN first PROVE first[i] \in alive \ {o}
    <3>1. i \in DOMAIN held /\ first[i] = ptr[held[i]] /\ held[i] \in S
      BY <2>3, <2>4, <2>6
    <3> QED BY <1>9, <3>1
  <2> QED BY <2>7, <2>8, <2>9
<1>11. releasing' \in Seq(Objects)
  BY <1>10, ConcatProperties
<1>12. RefPtrTyped'
  BY <1>0, <1>1, <1>4, <1>11 DEF DerefLast, RefPtrInv, RefPtrTyped
<1>13. MembersInScope' /\ AliveIsCounted'
  BY <1>0, <1>1, <1>4 DEF RefPtrInv, RefPtrTyped, MembersInScope, AliveIsCounted, Members
<1>14. PointersLive'
  <2>1. ASSUME NEW q \in Pointers, ptr'[q] # NULL
        PROVE  q \in scope' /\ (q # p => ptr'[q] \in alive')
    <3>1. q \notin Members(o) /\ ptr'[q] = ptr[q] /\ q \in scope
      BY <1>4, <2>1 DEF RefPtrInv, PointersLive
    <3>2. q # p => ptr[q] \in alive
      BY <1>2, <2>1, <3>1 DEF RefPtrInv, PointersLive
    <3>3. q # p => ptr[q] # o
      BY <1>2, <1>6, <3>1 DEF Counting, Holds
    <3> QED BY <1>4, <3>1, <3>2, <3>3
  <2> QED BY <1>2, <1>4, <2>1 DEF PointersLive
<1>15. ReleasesLive'
  <2>1. ASSUME NEW i \in DOMAIN tail PROVE tail[i] \in alive \ {o}
    <3>1. tail[i] = releasing[i + 1] /\ i + 1 \in DOMAIN releasing
      BY <1>0, <1>3, <2>1
    <3>2. tail[i] # o
      BY <1>6 DEF Places
    <3> QED BY <3>1, <3>2 DEF RefPtrInv, ReleasesLive
  <2> QED BY <1>4, <1>10, <2>1 DEF ReleasesLive
<1>16. TargetKept'
  <2> SUFFICES ASSUME assigning # NoAssignment PROVE TargetKept'
    BY <1>4 DEF TargetKept
  <2>1. p \in scope /\ p # assigning[3]
    BY <1>2 DEF RefPtrInv, TargetKept
  <2>2. PICK R \in SUBSET alive : Keeps(R, p)
    BY <1>2 DEF RefPtrInv, TargetKept
  <2>3. o \notin R
    <3> SUFFICES ASSUME o \in R PROVE FALSE
      OBVIOUS
    <3>1. PICK q \in scope \ {p} : ptr[q] = o
      BY <2>2 DEF Keeps
    <3> QED BY <1>2, <1>6, <3>1 DEF Counting, Holds
  <2>4. ASSUME NEW r \in R
        PROVE  \E q \in scope' \ {p} : ptr'[q] = r /\ Owner[q] \in R \cup {NULL}
    <3>1. PICK q \in scope \ {p} : ptr[q] = r /\ Owner[q] \in R \cup {NULL}
      BY <2>2 DEF Keeps
    <3>2. q \notin Members(o) /\ q \in Pointers
      BY <1>0, <1>1, <2>3, <3>1 DEF Members
    <3> QED BY <1>4, <3>1, <3>2
  <2>5. Keeps(R, p)'
    BY <2>2, <2>4 DEF Keeps
  <2>6. R \in SUBSET alive' /\ p \in scope'
    BY <1>4, <1>7, <2>1, <2>3
  <2>7. assigning'[2] = p
    BY <1>2, <1>4
  <2> QED BY <1>2, <1>4, <2>1, <2>5, <2>6, <2>7 DEF TargetKept
<1>17. Counted'
  <2> SUFFICES ASSUME NEW x \in alive, x # o, ~orphan[x]
               PROVE  refcount'[x] = Cardinality(Places(releasing, x)') + Cardinality(Counting(x)')
    BY <1>4 DEF Counted
  <2>1. refcount[x] = Cardinality(Places(tail, x)) + Cardinality(Counting(x)) /\ refcount'[x] = refcount[x]
    BY <1>0, <1>4, <1>5 DEF RefPtrInv, RefPtrTyped
  <2>2. PICK hers : hers = {q \in S : ptr[q] = x}
    OBVIOUS
  <2>3. hers \subseteq Counting(x) /\ hers \cap Counting(x)' = {} /\ Counting(x) = hers \cup Counting(x)'
    <3>0. x # NULL
      BY <1>0
    <3>1. Counting(x) = {q \in scope : ptr[q] = x /\ q # p}
      BY <1>2 DEF Counting, Holds
    <3>2. Counting(x)' = {q \in scope \ Members(o) : ptr[q] = x /\ q # p}
      BY <1>0, <1>2, <1>4 DEF Counting, Holds
    <3>3. hers = {q \in Members(o) \cap scope : ptr[q] = x}
      BY <1>8, <2>2, <3>0
    <3> QED BY <1>7, <3>1, <3>2, <3>3
  <2>4. PICK rest : rest = Counting(x)'
    OBVIOUS
  <2>5. IsFiniteSet(hers) /\ IsFiniteSet(rest) /\ Cardinality(hers) \in Nat /\ Cardinality(rest) \in Nat
    <3>1. IsFiniteSet(Counting(x)) /\ hers \in SUBSET Counting(x) /\ rest \in SUBSET Counting(x)
      BY <1>5, <2>3, <2>4
    <3>2. IsFiniteSet(hers) /\ IsFiniteSet(rest)
      BY <3>1, FS_Subset
    <3> QED BY <3>2, FS_CardinalityType
  <2>6. Cardinality(Counting(x)) = Cardinality(hers) + Cardinality(rest)
    <3>1. hers \cap rest = {} /\ Counting(x) = hers \cup rest
      BY <2>3, <2>4
    <3>2. Cardinality(hers \cup rest) = Cardinality(hers) + Cardinality(rest) - Cardinality(hers \cap rest)
      BY <2>5, FS_Union
    <3>3. Cardinality(hers \cap rest) = 0
      BY <3>1, FS_EmptySet
    <3> QED BY <2>5, <3>1, <3>2, <3>3
  <2>7. PICK s : s = first \o tail
    OBVIOUS
  <2>8. Places(releasing, x)' = Places(s, x)
    BY <1>10, <2>7 DEF Places
  <2>9. Cardinality(Places(s, x)) = Cardinality(Places(first, x)) + Cardinality(Places(tail, x))
    BY <2>7, PlacesAdd
  <2>10. Cardinality(Places(first, x)) = Cardinality(hers)
    BY <1>10, <2>2
  <2>11. Cardinality(Places(tail, x)) \in Nat
    BY <1>5
  <2> QED BY <2>1, <2>4, <2>5, <2>6, <2>8, <2>9, <2>10, <2>11
<1> QED BY <1>12, <1>13, <1>14, <1>15, <1>16, <1>17 DEF RefPtrInv

\* The assignment is completed, once the release has run its course.
LEMMA FinishKeeps ==
  ASSUME RefPtrInv, FinishAssign
  PROVE  RefPtrInv'
<1>1. PICK p, other : p = assigning[2] /\ other = assigning[3]
  OBVIOUS
<1>2. /\ releasing = <<>> /\ failed = "none"
      /\ FinishCopy(p, other) \/ FinishMove(p, other) \/ FinishFreed(p, other)
  BY <1>1 DEF FinishAssign
<1>3. CASE FinishFreed(p, other)
  BY <1>2, <1>3 DEF FinishFreed, RefPtrInv, RefPtrTyped, MembersInScope, AliveIsCounted
<1>4. CASE FinishCopy(p, other) \/ FinishMove(p, other)
  <2>1. assigning # NoAssignment /\ {p, other} \subseteq scope
    BY <1>4 DEF FinishCopy, FinishMove, NoAssignment
  <2>2. /\ p # other /\ p \in Pointers /\ other \in Pointers /\ p \in scope /\ other \in scope
        /\ NULL \notin Pointers /\ NULL \notin Objects /\ scope \subseteq Pointers
        /\ alive \subseteq Objects /\ ptr \in [Pointers -> Objects \cup {NULL}]
    BY <1>1, <1>2, <2>1, RefPtrAssumption DEF RefPtrInv, RefPtrTyped, TargetKept
  <2>3. PICK o \in Objects \cup {NULL} : o = ptr[other] /\ (o # NULL => o \in alive)
    BY <1>1, <1>2, <2>2 DEF RefPtrInv, PointersLive
  <2>4. /\ assigning' = NoAssignment /\ assigning'[2] = NULL
        /\ UNCHANGED <<releasing, orphan, alive, scope>>
    BY <1>4 DEF FinishCopy, FinishMove, NoAssignment
  <2>5. \A x : Places(releasing, x) = {} /\ Places(releasing, x)' = {}
    BY <1>2, <2>4 DEF Places
  <2>6. \A q \in scope : q # p => ptr[q] = NULL \/ ptr[q] \in alive
    BY <1>1, <1>2, <2>2 DEF RefPtrInv, PointersLive
  <2>7. ASSUME NEW x \in alive
        PROVE  /\ IsFiniteSet(Counting(x)) /\ Cardinality(Counting(x)) \in Nat
               /\ ~orphan[x] => refcount[x] = Cardinality(Counting(x))
    <3>1. IsFiniteSet(Counting(x)) /\ Cardinality(Counting(x)) \in Nat
      BY CountingFinite DEF RefPtrInv
    <3>2. Cardinality(Places(releasing, x)) = 0
      BY <2>5, FS_EmptySet
    <3>3. ~orphan[x] => refcount[x] = Cardinality(Places(releasing, x)) + Cardinality(Counting(x))
      BY <1>2 DEF RefPtrInv, Counted
    <3> QED BY <3>1, <3>2, <3>3
  <2>8. \A x : Counting(x) = {q \in scope : ptr[q] = x /\ q # p}
    BY <1>1 DEF Counting, Holds
  <2>9. CASE FinishCopy(p, other)
    <3>1. /\ \A q \in Pointers : ptr'[q] = IF q = p THEN o ELSE ptr[q]
          /\ ptr' \in [Pointers -> Objects \cup {NULL}]
      BY <2>2, <2>3, <2>9 DEF FinishCopy, Assigned
    <3>2. \/ o = NULL /\ failed' = "fault" /\ refcount' = refcount
          \/ /\ o \in alive /\ failed' = failed
             /\ refcount' = IF orphan[o] THEN refcount ELSE [refcount EXCEPT ![o] = @ + 1]
      BY <1>2, <2>3, <2>9, RefCounts DEF FinishCopy
    <3>3. RefPtrTyped' /\ MembersInScope' /\ AliveIsCounted'
      <4>1. /\ refcount' \in [Objects -> Nat]
            /\ \A x \in Objects : orphan[x] \/ refcount[x] > 0 => orphan[x] \/ refcount'[x] > 0
        <5>1. refcount \in [Objects -> Nat]
          BY DEF RefPtrInv, RefPtrTyped
        <5>2. CASE refcount' = refcount
          BY <5>1, <5>2
        <5>3. CASE o \in alive /\ refcount' = [refcount EXCEPT ![o] = @ + 1]
          <6>1. o \in Objects
            BY <2>2, <5>3
          <6>2. refcount[o] + 1 \in Nat /\ refcount[o] + 1 > 0
            BY <5>1, <6>1
          <6> QED BY <5>1, <5>3, <6>1, <6>2
        <5> QED BY <3>2, <5>2, <5>3
      <4> QED BY <1>2, <2>4, <3>1, <3>2, <4>1 DEF RefPtrInv, RefPtrTyped, MembersInScope,
                                                  AliveIsCounted
    <3>4. CASE failed' = "fault"
      BY <3>3, <3>4 DEF RefPtrInv
    <3>5. CASE o \in alive /\ failed' = failed
      <4>1. refcount' = IF orphan[o] THEN refcount ELSE [refcount EXCEPT ![o] = @ + 1]
        BY <1>2, <3>2, <3>5
      <4>2. ASSUME NEW x \in alive, ~orphan[x]
            PROVE  refcount'[x] = Cardinality(Counting(x)')
        <5>0. x \in Objects
          BY <2>2
        <5>1. Counting(x)' = {q \in scope : ptr'[q] = x}
          BY <2>2, <2>4 DEF Counting, Holds
        <5>2. CASE x = o
          <6>1. Counting(x)' = Counting(x) \cup {p} /\ p \notin Counting(x)
            BY <2>2, <2>8, <3>1, <5>1, <5>2
          <6>2. Cardinality(Counting(x)') = Cardinality(Counting(x)) + 1
            BY <2>7, <6>1, FS_AddElement
          <6>3. refcount'[x] = refcount[x] + 1
            BY <4>1, <4>2, <5>0, <5>2 DEF RefPtrInv, RefPtrTyped
          <6> QED BY <2>7, <4>2, <6>2, <6>3
        <5>3. CASE x # o
          <6>1. Counting(x)' = Counting(x)
            BY <2>2, <2>8, <3>1, <5>1, <5>3
          <6>2. refcount'[x] = refcount[x]
            BY <4>1, <5>0, <5>3 DEF RefPtrInv, RefPtrTyped
          <6> QED BY <2>7, <4>2, <6>1, <6>2
        <5> QED BY <5>2, <5>3
      <4>3. PointersLive'
        BY <1>2, <2>2, <2>3, <2>4, <2>6, <3>1, <3>5 DEF PointersLive, RefPtrInv
      <4> QED BY <1>2, <2>4, <3>3, <3>5, <4>2, <4>3, ReadyAgain
    <3> QED BY <3>2, <3>4, <3>5
  <2>10. CASE FinishMove(p, other)
    <3>1. /\ \A q \in Pointers : ptr'[q] = IF q = other THEN NULL ELSE IF q = p THEN o ELSE ptr[q]
          /\ ptr' \in [Pointers -> Objects \cup {NULL}]
          /\ refcount' = refcount /\ failed' = failed
      BY <2>2, <2>3, <2>10 DEF FinishMove
    <3>2. RefPtrTyped' /\ MembersInScope' /\ AliveIsCounted'
      BY <1>2, <2>4, <3>1 DEF RefPtrInv, RefPtrTyped, MembersInScope, AliveIsCounted
    <3>3. ASSUME NEW x \in alive, ~orphan[x]
          PROVE  refcount'[x] = Cardinality(Counting(x)')
      <4>0. x \in Objects /\ x # NULL
        BY <2>2
      <4>1. Counting(x)' = {q \in scope : ptr'[q] = x}
        BY <2>2, <2>4 DEF Counting, Holds
      <4>2. CASE x = o
        <5>1. PICK rest : rest = Counting(x) \ {other}
          OBVIOUS
        <5>2. other \in Counting(x)
          BY <2>2, <2>3, <2>8, <4>2
        <5>3. IsFiniteSet(rest) /\ Cardinality(rest) = Cardinality(Counting(x)) - 1
          BY <2>7, <5>1, <5>2, FS_RemoveElement
        <5>4. Counting(x)' = rest \cup {p} /\ p \notin rest
          BY <2>2, <2>8, <3>1, <4>0, <4>1, <4>2, <5>1
        <5>5. Cardinality(Counting(x)') = Cardinality(rest) + 1
          BY <5>3, <5>4, FS_AddElement
        <5> QED BY <2>7, <3>1, <3>3, <5>3, <5>5
      <4>3. CASE x # o
        <5>1. Counting(x)' = Counting(x)
          BY <2>2, <2>3, <2>8, <3>1, <4>0, <4>1, <4>3
        <5> QED BY <2>7, <3>1, <3>3, <5>1
      <4> QED BY <4>2, <4>3
    <3>4. PointersLive'
      BY <1>2, <2>2, <2>3, <2>4, <2>6, <3>1 DEF PointersLive, RefPtrInv
    <3> QED BY <1>2, <2>4, <3>1, <3>2, <3>3, <3>4, ReadyAgain
  <2> QED BY <1>4, <2>9, <2>10
<1> QED BY <1>2, <1>3, <1>4

-----------------------------------------------------------------------------
(* The theorems about reference counting.                                  *)

\* Every step keeps the inductive invariant.
LEMMA NextKeepsRefPtrInv ==
  ASSUME ~ResetsHolding, RefPtrInv, [RefPtrNext]_refPtrVars
  PROVE  RefPtrInv'
<1>1. CASE ClientStep
  <2>0. Ready
    BY <1>1 DEF ClientStep
  <2>1. ASSUME NEW p \in Pointers, NEW o \in Objects, make(p, o) PROVE RefPtrInv'
    BY <2>0, <2>1, MakeKeeps
  <2>2. ASSUME NEW p \in Pointers, ConstructNull(p) \/ Destroy(p) \/ AssignNull(p)
        PROVE  RefPtrInv'
    BY <2>0, <2>2, ConstructNullKeeps, DestroyKeeps, AssignNullKeeps
  <2>3. ASSUME NEW p \in Pointers, NEW other \in Pointers,
               ConstructCopy(p, other) \/ ConstructMove(p, other)
        PROVE  RefPtrInv'
    BY <2>0, <2>3, ConstructCopyKeeps, ConstructMoveKeeps
  <2>4. ASSUME NEW p \in Pointers, NEW other \in Pointers, AssignCopy(p, other)
        PROVE  RefPtrInv'
    <3>1. PICK kind \in {"copy", "move"} : kind = "copy"
      OBVIOUS
    <3> QED BY <2>0, <2>4, <3>1, AssignKeeps DEF AssignCopy
  <2>5. ASSUME NEW p \in Pointers, NEW other \in Pointers, AssignMove(p, other)
        PROVE  RefPtrInv'
    <3>1. PICK kind \in {"copy", "move"} : kind = "move"
      OBVIOUS
    <3> QED BY <2>0, <2>5, <3>1, AssignKeeps DEF AssignMove
  <2> QED BY <1>1, <2>1, <2>2, <2>3, <2>4, <2>5 DEF ClientStep
<1>2. CASE make_orphan
  <2>1. PICK o \in alive : orphan' = [orphan EXCEPT ![o] = TRUE]
    BY <1>2 DEF make_orphan
  <2>2. UNCHANGED <<refcount, alive, ptr, scope, releasing, assigning, failed>> /\ Ready
    BY <1>2 DEF make_orphan
  <2>3. \A x \in alive : ~orphan'[x] => ~orphan[x]
    BY <2>1 DEF RefPtrInv, RefPtrTyped
  <2>4. RefPtrTyped' /\ MembersInScope' /\ AliveIsCounted'
    BY <2>1, <2>2, <2>3 DEF RefPtrInv, RefPtrTyped, MembersInScope, AliveIsCounted
  <2>5. \A x : Counting(x)' = Counting(x)
    BY <2>2 DEF Counting, Holds
  <2>6. ASSUME NEW x \in alive, ~orphan'[x] PROVE refcount[x] = Cardinality(Counting(x)')
    <3>1. Cardinality(Places(releasing, x)) = 0 /\ Cardinality(Counting(x)) \in Nat
      BY <2>2, WhenReady, CountingFinite, FS_EmptySet DEF RefPtrInv
    <3>2. refcount[x] = Cardinality(Places(releasing, x)) + Cardinality(Counting(x))
      BY <2>2, <2>3, <2>6, WhenReady DEF Counted
    <3> QED BY <2>5, <3>1, <3>2
  <2>7. PointersLive'
    BY <2>2, WhenReady DEF PointersLive
  <2> QED BY <2>2, <2>4, <2>6, <2>7, WhenReady, ReadyAgain
<1>3. CASE deref
  <2>1. PICK o : o = Head(releasing)
    OBVIOUS
  <2>2. /\ releasing # <<>> /\ failed = "none" /\ UNCHANGED <<orphan, assigning>>
        /\ DerefOrphan(o) \/ DerefAssertion(o) \/ DerefShared(o) \/ DerefLast(o)
    BY <1>3, <2>1 DEF deref
  <2> QED BY <2>1, <2>2, DerefSharedKeeps, DerefLastKeeps, DerefAsserts
<1>4. CASE FinishAssign
  BY <1>4, FinishKeeps
<1>5. CASE UNCHANGED refPtrVars
  BY <1>5, RefPtrStutters
<1> QED BY <1>1, <1>2, <1>3, <1>4, <1>5 DEF RefPtrNext

\* The inductive invariant of reference counting, for any objects and members and
\* for clients that do not reset a pointer that holds an object.
THEOREM RefPtrSafety ==
  ASSUME ~ResetsHolding
  PROVE  RefPtrSpec => []RefPtrInv
<1>1. RefPtrInit => RefPtrInv
  <2> SUFFICES ASSUME RefPtrInit PROVE RefPtrInv
    OBVIOUS
  <2>1. RefPtrTyped /\ MembersInScope /\ AliveIsCounted
    BY RefPtrAssumption DEF RefPtrInit, RefPtrTyped, MembersInScope, AliveIsCounted
  <2> QED BY <2>1 DEF RefPtrInit, RefPtrInv, Counted, PointersLive, ReleasesLive, TargetKept
<1>2. RefPtrInv /\ [RefPtrNext]_refPtrVars => RefPtrInv'
  BY NextKeepsRefPtrInv
<1> QED BY <1>1, <1>2, PTL DEF RefPtrSpec

\* The count of an object is the number of pointers to it and of the releases it
\* waits for, no object outlives its last reference or is deleted before, and
\* the assertions of ref and deref hold (RefCounted.h, RefPtr.h).
THEOREM CountsStayExact ==
  ASSUME ~ResetsHolding
  PROVE  RefPtrSpec => []CountsAreExact
<1>1. RefPtrInv => CountsAreExact
  <2> SUFFICES ASSUME RefPtrInv PROVE CountsAreExact
    OBVIOUS
  <2>1. RefPtrTypeOK
    <3>1. scope \ Locals = {p \in Pointers : Owner[p] \in alive}
      BY RefPtrAssumption DEF RefPtrInv, RefPtrTyped, MembersInScope, Locals, Members
    <3>2. assigning[1] \in {"none", "copy", "move"}
      BY DEF RefPtrInv, RefPtrTyped, NoAssignment
    <3>3. \A i \in DOMAIN releasing : releasing[i] \in Objects
      BY DEF RefPtrInv, RefPtrTyped
    <3> QED BY <3>1, <3>2, <3>3 DEF RefPtrInv, RefPtrTyped, RefPtrTypeOK
  <2>2. LivesAsLongAsHeld
    <3> SUFFICES ASSUME Ready, NEW o \in Objects
                 PROVE  /\ Holds(o) # {} => o \in alive
                        /\ o \in alive => orphan[o] \/ refcount[o] > 0
      BY DEF LivesAsLongAsHeld
    <3>1. Holds(o) # {} => o \in alive
      BY WhenReady, RefPtrAssumption DEF Holds, RefPtrInv, RefPtrTyped
    <3> QED BY <3>1 DEF RefPtrInv, AliveIsCounted
  <2>3. failed \notin {"ref", "deref"}
    BY DEF RefPtrInv, RefPtrTyped
  <2>4. ASSUME failed = "none", NEW o \in alive
        PROVE  orphan[o] \/ refcount[o] =
                 Cardinality({i \in DOMAIN releasing : releasing[i] = o})
                   + Cardinality(Holds(o) \ {assigning[2]})
    BY <2>4 DEF RefPtrInv, Counted, Counting, Places
  <2> QED BY <2>1, <2>2, <2>3, <2>4 DEF CountsAreExact
<1>2. RefPtrSpec => []RefPtrInv
  BY RefPtrSafety
<1> QED BY <1>1, <1>2, PTL

-----------------------------------------------------------------------------
(* The decoder of UTF-8.                                                   *)

\* The shifts, one by one, and what four bytes can carry.
LEMMA ShiftValues ==
  /\ Shift(0) = 1 /\ Shift(1) = 64 /\ Shift(2) = 4096 /\ Shift(3) = 262144
BY DEF Shift

\* Four bytes carry three bits and three times six.
LEMMA EightShifts ==
  Decodings = 8 * Shift(3)
BY DEF Decodings

\* A byte is less than what four bytes can carry.
LEMMA DecodingsRange ==
  Decodings \in Nat /\ 255 < Decodings
BY DEF Shift, Decodings

\* The bits of c above its last 6k ones.
Upper(c, k) == (c \div Shift(k)) * Shift(k)

\* The next byte supplies the next six bits.
LEMMA UpperStep ==
  ASSUME NEW c \in Nat, NEW k \in 0 .. 2
  PROVE  Upper(c, k) = Upper(c, k + 1) + ((c \div Shift(k)) % 64) * Shift(k)
<1>1. CASE k = 0
  <2>1. c = (c \div 64) * 64 + (c % 64)
    OBVIOUS
  <2>2. c \div 1 = c
    OBVIOUS
  <2> QED BY <1>1, <2>1, <2>2, ShiftValues DEF Upper
<1>2. CASE k = 1
  <2>1. (c \div 64) * 64 = (c \div 4096) * 4096 + ((c \div 64) % 64) * 64
    OBVIOUS
  <2> QED BY <1>2, <2>1, ShiftValues DEF Upper
<1>3. CASE k = 2
  <2>1. (c \div 4096) * 4096 = (c \div 262144) * 262144 + ((c \div 4096) % 64) * 4096
    OBVIOUS
  <2> QED BY <1>3, <2>1, ShiftValues DEF Upper
<1> QED BY <1>1, <1>2, <1>3

Bytes == 0 .. 255

\* A continuation byte carries six bits, and starts no codepoint of several bytes.
LEMMA TailByte ==
  ASSUME NEW c \in Nat, NEW k \in 0 .. 2
  PROVE  /\ Tail6(c, k) \in Bytes
         /\ IsContinuation(Tail6(c, k))
         /\ Tail6(c, k) % 64 = (c \div Shift(k)) % 64
         /\ Lead(Tail6(c, k)) = <<Tail6(c, k), 0>>
<1>1. Shift(k) \in Nat \ {0}
  BY ShiftValues
<1>2. PICK d \in 0 .. 63 : d = (c \div Shift(k)) % 64
  BY <1>1
<1>3. PICK byte \in 128 .. 191 : byte = 128 + d /\ byte = Tail6(c, k)
  BY <1>2 DEF Tail6
<1>4. byte \div 64 = 2 /\ byte % 64 = d
  BY <1>3
<1>5. byte \div 8 # 30 /\ byte \div 16 # 14 /\ byte \div 32 # 6
  OBVIOUS
<1>6. Lead(byte) = <<byte, 0>>
  BY <1>5 DEF Lead
<1> QED BY <1>2, <1>3, <1>4, <1>6 DEF IsContinuation, Bytes

\* The first byte tells how many follow, and carries the highest bits.
LEMMA LeadByte ==
  ASSUME NEW c \in Nat, c < CodepointLimit
  PROVE  /\ Len(Encoding(c)) \in 1 .. 4
         /\ \A i \in 1 .. Len(Encoding(c)) : Encoding(c)[i] \in Bytes
         /\ Lead(Encoding(c)[1])[2] = Len(Encoding(c)) - 1
         /\ Lead(Encoding(c)[1])[1] * Shift(Len(Encoding(c)) - 1) = Upper(c, Len(Encoding(c)) - 1)
         /\ ~IsContinuation(Encoding(c)[1])
         /\ \A i \in 2 .. Len(Encoding(c)) : Encoding(c)[i] = Tail6(c, Len(Encoding(c)) - i)
<1>0. Tail6(c, 0) \in Bytes /\ Tail6(c, 1) \in Bytes /\ Tail6(c, 2) \in Bytes
  BY TailByte
<1>1. CASE c < 128
  <2>1. Encoding(c) = <<c>>
    BY <1>1 DEF Encoding
  <2>2. c \div 8 # 30 /\ c \div 16 # 14 /\ c \div 32 # 6 /\ c \div 64 # 2
    BY <1>1
  <2>3. Lead(c) = <<c, 0>>
    BY <2>2 DEF Lead
  <2>4. Upper(c, 0) = c
    BY ShiftValues DEF Upper
  <2> QED BY <1>1, <2>1, <2>2, <2>3, <2>4, ShiftValues DEF IsContinuation, Bytes
<1>2. CASE 128 <= c /\ c < 2048
  <2>1. Encoding(c) = <<192 + (c \div 64), Tail6(c, 0)>>
    BY <1>2 DEF Encoding
  <2>2. PICK b \in 192 .. 223 : b = 192 + (c \div 64)
    BY <1>2
  <2>3. b \div 8 # 30 /\ b \div 16 # 14 /\ b \div 32 = 6 /\ b \div 64 # 2 /\ b % 32 = c \div 64
    BY <1>2, <2>2
  <2>4. Lead(b) = <<c \div 64, 1>>
    BY <2>3 DEF Lead
  <2>5. Upper(c, 1) = (c \div 64) * 64
    BY ShiftValues DEF Upper
  <2> QED BY <1>0, <2>1, <2>2, <2>3, <2>4, <2>5, ShiftValues DEF IsContinuation, Bytes
<1>3. CASE 2048 <= c /\ c < 65536
  <2>1. Encoding(c) = <<224 + (c \div 4096), Tail6(c, 1), Tail6(c, 0)>>
    BY <1>3 DEF Encoding
  <2>2. PICK b \in 224 .. 239 : b = 224 + (c \div 4096)
    BY <1>3
  <2>3. b \div 8 # 30 /\ b \div 16 = 14 /\ b \div 64 # 2 /\ b % 16 = c \div 4096
    BY <1>3, <2>2
  <2>4. Lead(b) = <<c \div 4096, 2>>
    BY <2>3 DEF Lead
  <2>5. Upper(c, 2) = (c \div 4096) * 4096
    BY ShiftValues DEF Upper
  <2> QED BY <1>0, <2>1, <2>2, <2>3, <2>4, <2>5, ShiftValues DEF IsContinuation, Bytes
<1>4. CASE 65536 <= c
  <2>1. Encoding(c) = <<240 + (c \div 262144), Tail6(c, 2), Tail6(c, 1), Tail6(c, 0)>>
    BY <1>4 DEF Encoding
  <2>20. c < 8 * 262144
    BY DEF CodepointLimit
  <2>2. PICK b \in 240 .. 247 : b = 240 + (c \div 262144)
    BY <1>4, <2>20
  <2>3. b \div 8 = 30 /\ b \div 64 # 2 /\ b % 8 = c \div 262144
    BY <1>4, <2>2, <2>20
  <2>4. Lead(b) = <<c \div 262144, 3>>
    BY <2>3 DEF Lead
  <2>5. Upper(c, 3) = (c \div 262144) * 262144
    BY ShiftValues DEF Upper
  <2> QED BY <1>0, <2>1, <2>2, <2>3, <2>4, <2>5, ShiftValues DEF IsContinuation, Bytes
<1> QED BY <1>1, <1>2, <1>3, <1>4

\* What the first byte of anything sets up leaves room for the bytes to come.
LEMMA LeadFits ==
  ASSUME NEW byte \in Bytes
  PROVE  /\ Lead(byte)[2] \in 0 .. 3
         /\ Lead(byte)[1] \in 0 .. 255
         /\ (Lead(byte)[1] + 1) * Shift(Lead(byte)[2]) <= Decodings
<1>1. CASE byte \div 8 = 30
  <2>1. Lead(byte) = <<byte % 8, 3>> /\ byte % 8 \in 0 .. 7
    BY <1>1 DEF Lead, Bytes
  <2> QED BY <2>1, ShiftValues, EightShifts
<1>2. CASE byte \div 8 # 30 /\ byte \div 16 = 14
  <2>1. Lead(byte) = <<byte % 16, 2>> /\ byte % 16 \in 0 .. 15
    BY <1>2 DEF Lead, Bytes
  <2> QED BY <2>1, ShiftValues, EightShifts
<1>3. CASE byte \div 16 # 14 /\ byte \div 32 = 6
  <2>1. byte \div 8 # 30
    BY <1>3 DEF Bytes
  <2>2. Lead(byte) = <<byte % 32, 1>> /\ byte % 32 \in 0 .. 31
    BY <1>3, <2>1 DEF Lead, Bytes
  <2> QED BY <2>2, ShiftValues, EightShifts
<1>4. CASE byte \div 8 # 30 /\ byte \div 16 # 14 /\ byte \div 32 # 6
  <2>1. Lead(byte) = <<byte, 0>>
    BY <1>4 DEF Lead
  <2> QED BY <2>1, ShiftValues, EightShifts DEF Bytes
<1> QED BY <1>1, <1>2, <1>3, <1>4

-----------------------------------------------------------------------------
(* The inductive invariant.                                                *)

\* What the decoder holds leaves room for the bytes it waits for.
DecoderOK ==
  /\ UnicodeTypeOK
  /\ is_decoding => current_decoding + Shift(width_decoding) <= Decodings
  /\ sending \in Seq(Bytes)

\* What is left to send of an intact codepoint is the end of its encoding.
SendsTheRest ==
  intact =>
    /\ ch \in Codepoints
    /\ Len(sending) <= Len(Encoding(ch))
    /\ \A i \in 1 .. Len(sending) :
         sending[i] = Encoding(ch)[Len(Encoding(ch)) - Len(sending) + i]

\* Started while the decoder was idle, it is decoded as far as it is sent.
DecodedSoFar ==
  intact /\ clean =>
    CASE sending = <<>> -> ~is_decoding /\ output = ch
      [] sending # <<>> /\ Len(sending) = Len(Encoding(ch)) -> ~is_decoding /\ output = Nothing
      [] sending # <<>> /\ Len(sending) # Len(Encoding(ch)) ->
           /\ is_decoding /\ width_decoding = Len(sending)
           /\ current_decoding = Upper(ch, Len(sending))
           /\ output = Nothing

\* Its first byte ends whatever the decoder was waiting for.
IdleAfterFirst ==
  intact /\ ~clean => (is_decoding <=> Len(sending) = Len(Encoding(ch)))

UnicodeInv == DecoderOK /\ SendsTheRest /\ DecodedSoFar /\ IdleAfterFirst

\* What is sent of a codepoint.
LEMMA SendStarts ==
  ASSUME UnicodeInv, Send
  PROVE  UnicodeInv'
<1>1. PICK c \in Codepoints :
        \E first \in 1 .. Len(Encoding(c)), last \in 1 .. Len(Encoding(c)) :
          /\ first <= last
          /\ sending' = SubSeq(Encoding(c), first, last)
          /\ intact' = (first = 1 /\ last = Len(Encoding(c)))
          /\ ch' = c
  BY DEF Send
<1>2. PICK first \in 1 .. Len(Encoding(c)), last \in 1 .. Len(Encoding(c)) :
          /\ first <= last
          /\ sending' = SubSeq(Encoding(c), first, last)
          /\ intact' = (first = 1 /\ last = Len(Encoding(c)))
          /\ ch' = c
  BY <1>1
<1>3. /\ clean' = ~is_decoding /\ output' = Nothing
      /\ is_decoding' = is_decoding /\ current_decoding' = current_decoding
      /\ width_decoding' = width_decoding
  BY DEF Send, decoderVars
<1>4. c \in Nat /\ c < CodepointLimit
  BY UnicodeAssumption
<1>5. PICK e : e = Encoding(c)
  OBVIOUS
<1>6. Len(e) \in 1 .. 4 /\ \A i \in 1 .. Len(e) : e[i] \in Bytes
  BY <1>4, <1>5, LeadByte
<1>7. PICK s : s = sending'
  OBVIOUS
<1>8. first \in 1 .. Len(e) /\ last \in 1 .. Len(e) /\ first \in Int /\ last \in Int
  BY <1>5, <1>6
<1>9. \A i \in first .. last : e[i] \in Bytes
  BY <1>6, <1>8
<1>10. /\ s \in Seq(Bytes) /\ Len(s) = last - first + 1
       /\ \A i \in 1 .. last - first + 1 : s[i] = e[first + i - 1]
  <2>1. s = SubSeq(e, first, last)
    BY <1>2, <1>5, <1>7
  <2> QED BY <1>2, <1>8, <1>9, <2>1, SubSeqProperties
<1>11. Len(s) >= 1 /\ Len(s) <= Len(e)
  BY <1>2, <1>6, <1>8, <1>10
<1>12. DecoderOK'
  <2>1. Nothing \in Nothing .. Decodings - 1
    BY DecodingsRange DEF Nothing
  <2> QED BY <1>2, <1>3, <1>7, <1>10, <2>1 DEF UnicodeInv, DecoderOK, UnicodeTypeOK
<1>13. ASSUME intact' PROVE Len(s) = Len(e) /\ \A i \in 1 .. Len(s) : s[i] = e[i]
  <2>1. first = 1 /\ last = Len(e)
    BY <1>2, <1>5, <1>13
  <2> QED BY <1>6, <1>10, <2>1
<1>14. SendsTheRest'
  <2> SUFFICES ASSUME intact' PROVE SendsTheRest'
    BY DEF SendsTheRest
  <2>1. \A i \in 1 .. Len(s) : s[i] = e[Len(e) - Len(s) + i]
    BY <1>6, <1>13
  <2> QED BY <1>2, <1>5, <1>7, <1>11, <2>1 DEF SendsTheRest
<1>15. DecodedSoFar'
  <2> SUFFICES ASSUME intact', clean'
               PROVE  /\ ~is_decoding' /\ output' = Nothing
                      /\ sending' # <<>> /\ Len(sending') = Len(Encoding(ch'))
    BY DEF DecodedSoFar
  <2>1. s # <<>>
    BY <1>11
  <2> QED BY <1>2, <1>3, <1>5, <1>7, <1>13, <2>1
<1>16. IdleAfterFirst'
  <2> SUFFICES ASSUME intact', ~clean'
               PROVE  is_decoding' /\ Len(sending') = Len(Encoding(ch'))
    BY DEF IdleAfterFirst
  <2>1. is_decoding'
    BY <1>3, Zenon
  <2> QED BY <1>2, <1>5, <1>7, <1>13, <2>1
<1> QED BY <1>12, <1>14, <1>15, <1>16 DEF UnicodeInv

\* Whatever byte comes, the decoder's numbers stay in range.
LEMMA WriteKeepsDecoder ==
  ASSUME DecoderOK, write_byte
  PROVE  DecoderOK'
<1>1. PICK byte \in Bytes : byte = Head(sending)
  BY DEF write_byte, DecoderOK
<1>2. sending' \in Seq(Bytes) /\ ch' = ch
  BY DEF write_byte, DecoderOK
<1>3. CASE FirstByte(byte)
  <2>1. PICK bits \in 0 .. 255, width \in 0 .. 3 :
          /\ bits = Lead(byte)[1] /\ width = Lead(byte)[2]
          /\ (bits + 1) * Shift(width) <= Decodings
    BY LeadFits
  <2>2. PICK m \in Nat \ {0} : m = Shift(width)
    BY ShiftValues
  <2>20. Decodings \in Nat /\ 255 < Decodings
    BY DecodingsRange
  <2>3. /\ current_decoding' = bits * m /\ width_decoding' = width
        /\ is_decoding' = (width > 0) /\ output' = IF width = 0 THEN bits ELSE Nothing
    BY <1>3, <2>1, <2>2 DEF FirstByte
  <2>4. PICK v \in Nat : v = bits * m /\ v + m <= Decodings
    BY <2>1, <2>2, <2>20
  <2>5. current_decoding' \in 0 .. Decodings - 1 /\ output' \in Nothing .. Decodings - 1
    BY <2>2, <2>3, <2>20, <2>4 DEF Nothing
  <2>6. is_decoding' \in BOOLEAN /\ width_decoding' \in 0 .. 3 /\ (is_decoding' => width_decoding' \in 1 .. 3)
    <3>0. (width > 0) \in BOOLEAN
      OBVIOUS
    <3>1. is_decoding' \in BOOLEAN
      BY <2>3, <3>0, Zenon
    <3>2. is_decoding' => width > 0
      BY <2>3
    <3> QED BY <2>3, <3>1, <3>2
  <2>7. is_decoding' => current_decoding' + Shift(width_decoding') <= Decodings
    BY <2>2, <2>3, <2>4
  <2>8. ch' \in Codepoints \cup {0}
    BY <1>2 DEF DecoderOK, UnicodeTypeOK
  <2> QED BY <1>2, <2>5, <2>6, <2>7, <2>8 DEF DecoderOK, UnicodeTypeOK
<1>4. CASE NextByte(byte)
  <2>1. is_decoding /\ width_decoding \in 1 .. 3 /\ current_decoding \in Nat
    BY <1>4 DEF NextByte, DecoderOK, UnicodeTypeOK
  <2>2. PICK width \in 0 .. 2 : width = width_decoding - 1
    BY <2>1
  <2>3. PICK m \in Nat \ {0} : m = Shift(width) /\ Shift(width_decoding) = 64 * m
    BY <2>1, <2>2, ShiftValues
  <2>30. Decodings \in Nat
    BY DecodingsRange
  <2>4. PICK d \in 0 .. 63 : d = byte % 64
    BY DEF Bytes
  <2>5. PICK value \in Int : value = current_decoding + d * m
    BY <2>1, <2>3
  <2>6. /\ current_decoding' = value /\ width_decoding' = width
        /\ is_decoding' = (width > 0) /\ output' = IF width = 0 THEN value ELSE Nothing
    BY <1>4, <2>2, <2>3, <2>4, <2>5 DEF NextByte
  <2>7. current_decoding + 64 * m <= Decodings
    BY <2>1, <2>3 DEF DecoderOK
  <2>8. PICK dm \in Nat : dm = d * m /\ dm <= 63 * m
    BY <2>3
  <2>9. value \in Nat /\ value + m <= Decodings
    <3>1. value = current_decoding + dm
      BY <2>5, <2>8
    <3> QED BY <2>1, <2>30, <2>7, <2>8, <3>1
  <2>10. current_decoding' \in 0 .. Decodings - 1 /\ output' \in Nothing .. Decodings - 1
    BY <2>3, <2>30, <2>6, <2>9 DEF Nothing
  <2>11. is_decoding' \in BOOLEAN /\ width_decoding' \in 0 .. 3 /\ (is_decoding' => width_decoding' \in 1 .. 3)
    <3>0. (width > 0) \in BOOLEAN
      OBVIOUS
    <3>1. is_decoding' \in BOOLEAN
      BY <2>6, <3>0, Zenon
    <3>2. is_decoding' => width > 0
      BY <2>6
    <3> QED BY <2>6, <3>1, <3>2
  <2>12. is_decoding' => current_decoding' + Shift(width_decoding') <= Decodings
    BY <2>3, <2>6, <2>9
  <2>13. ch' \in Codepoints \cup {0}
    BY <1>2 DEF DecoderOK, UnicodeTypeOK
  <2> QED BY <1>2, <2>10, <2>11, <2>12, <2>13 DEF DecoderOK, UnicodeTypeOK
<1>5. CASE BadByte(byte)
  <2>1. /\ is_decoding' = FALSE /\ output' = Replacement
        /\ current_decoding' = current_decoding /\ width_decoding' = width_decoding
    BY <1>5 DEF BadByte
  <2>2. Replacement \in Nothing .. Decodings - 1
    BY DecodingsRange DEF Replacement, Nothing
  <2> QED BY <1>2, <2>1, <2>2 DEF DecoderOK, UnicodeTypeOK
<1> QED BY <1>1, <1>3, <1>4, <1>5 DEF write_byte

\* The byte written next belongs where the codepoint's encoding has it.
LEMMA NextByteSent ==
  ASSUME UnicodeInv, write_byte, intact, NEW e, e = Encoding(ch), NEW r, r = Len(sending)
  PROVE  /\ ch \in Nat /\ ch < CodepointLimit
         /\ r \in 1 .. Len(e) /\ Len(e) \in 1 .. 4
         /\ Head(sending) = e[Len(e) - r + 1]
         /\ Len(sending') = r - 1
         /\ \A i \in 1 .. r - 1 : sending'[i] = e[Len(e) - (r - 1) + i]
         /\ sending' = <<>> <=> r = 1
<1>1. ch \in Nat /\ ch < CodepointLimit /\ Len(sending) <= Len(e)
  BY UnicodeAssumption DEF UnicodeInv, SendsTheRest
<1>2. sending \in Seq(Bytes) /\ sending # <<>> /\ sending' = Tail(sending)
  BY DEF UnicodeInv, DecoderOK, write_byte
<1>3. Len(e) \in 1 .. 4
  BY <1>1, LeadByte
<1>4. r \in 1 .. Len(e)
  BY <1>1, <1>2, <1>3
<1>5. \A i \in 1 .. r : sending[i] = e[Len(e) - r + i]
  BY DEF UnicodeInv, SendsTheRest
<1>6. Head(sending) = e[Len(e) - r + 1]
  BY <1>2, <1>4, <1>5
<1>7. PICK s : s = sending'
  OBVIOUS
<1>8. s \in Seq(Bytes) /\ Len(s) = r - 1 /\ \A i \in 1 .. r - 1 : s[i] = sending[i + 1]
  BY <1>2, <1>4, <1>7
<1>9. ASSUME NEW i \in 1 .. r - 1 PROVE s[i] = e[Len(e) - (r - 1) + i]
  <2>1. i + 1 \in 1 .. r /\ Len(e) - r + (i + 1) = Len(e) - (r - 1) + i
    BY <1>3, <1>4
  <2> QED BY <1>5, <1>8, <2>1
<1>10. s = <<>> <=> r = 1
  BY <1>4, <1>8
<1> QED BY <1>1, <1>3, <1>4, <1>6, <1>7, <1>8, <1>9, <1>10

\* A codepoint that was started while the decoder was idle is decoded byte by byte.
LEMMA WriteDecodes ==
  ASSUME UnicodeInv, write_byte
  PROVE  DecodedSoFar'
<1> SUFFICES ASSUME intact, clean
             PROVE  DecodedSoFar'
  BY DEF write_byte, DecodedSoFar
<1>0. PICK e, r : e = Encoding(ch) /\ r = Len(sending)
  OBVIOUS
<1>1. /\ ch \in Nat /\ ch < CodepointLimit
      /\ r \in 1 .. Len(e) /\ Len(e) \in 1 .. 4
      /\ Head(sending) = e[Len(e) - r + 1]
      /\ Len(sending') = r - 1
      /\ sending' = <<>> <=> r = 1
  BY <1>0, NextByteSent
<1>2. PICK n \in 1 .. 4 : n = Len(e)
  BY <1>1
<1>20. PICK t \in 1 .. n : t = r
  <2>1. r \in 1 .. n
    BY <1>1, <1>2, Zenon
  <2> QED BY <2>1
<1>3. /\ FirstByte(Head(sending)) \/ NextByte(Head(sending)) \/ BadByte(Head(sending))
      /\ sending # <<>> /\ ch' = ch /\ intact' = intact /\ clean' = clean
  BY DEF write_byte
<1>4. PICK byte : byte = Head(sending)
  OBVIOUS
<1>5. CASE r = n
  <2>1. ~is_decoding
    BY <1>0, <1>2, <1>3, <1>5 DEF UnicodeInv, DecodedSoFar
  <2>2. FirstByte(byte) /\ byte = e[1]
    BY <1>1, <1>2, <1>3, <1>4, <1>5, <2>1 DEF NextByte, BadByte
  <2>3. Lead(byte)[2] = n - 1 /\ Lead(byte)[1] * Shift(n - 1) = Upper(ch, n - 1)
    BY <1>0, <1>1, <1>2, <2>2, LeadByte
  <2>4. /\ current_decoding' = Upper(ch, n - 1) /\ width_decoding' = n - 1
        /\ output' = IF n - 1 = 0 THEN Lead(byte)[1] ELSE Nothing
    BY <2>2, <2>3 DEF FirstByte
  <2>40. is_decoding' <=> n > 1
    <3>1. is_decoding' = (n - 1 > 0)
      BY <2>2, <2>3 DEF FirstByte
    <3>2. is_decoding' <=> n - 1 > 0
      BY <3>1, Zenon
    <3> QED BY <3>2
  <2>5. CASE n = 1
    <3>2. Lead(byte)[1] = ch
      <4>1. Encoding(ch)[1] \in Bytes
        BY <1>0, <1>1, LeadByte
      <4>2. Lead(byte)[1] \in 0 .. 255
        BY <1>0, <2>2, <4>1, LeadFits
      <4>3. Upper(ch, 0) = ch
        BY <1>1, ShiftValues DEF Upper
      <4>4. Lead(byte)[1] * 1 = ch
        BY <2>3, <2>5, <4>3, ShiftValues
      <4> QED BY <4>2, <4>4
    <3>3. ~is_decoding' /\ output' = ch'
      BY <1>3, <2>4, <2>40, <2>5, <3>2
    <3>4. sending' = <<>>
      BY <1>1, <1>5, <2>5
    <3> QED BY <3>3, <3>4 DEF DecodedSoFar
  <2>6. CASE n > 1
    <3>1. is_decoding' /\ width_decoding' = r - 1 /\ current_decoding' = Upper(ch, r - 1) /\ output' = Nothing
      BY <1>5, <2>4, <2>40, <2>6
    <3>2. sending' # <<>> /\ Len(sending') # Len(Encoding(ch'))
      BY <1>0, <1>1, <1>2, <1>3, <1>5, <2>6
    <3> QED BY <1>1, <1>3, <3>1, <3>2 DEF DecodedSoFar
  <2> QED BY <2>5, <2>6
<1>6. CASE r # n
  <2>1. /\ is_decoding /\ width_decoding = r
        /\ current_decoding = Upper(ch, r)
    BY <1>0, <1>2, <1>3, <1>6 DEF UnicodeInv, DecodedSoFar
  <2>21. r - 1 \in 0 .. 2
    BY <1>20, <1>6
  <2>2. PICK k \in 0 .. 2 : k = r - 1
    BY <2>21
  <2>3. byte = Tail6(ch, k)
    <3>1. PICK i \in 2 .. n : i = n - r + 1
      BY <1>1, <1>2, <1>6
    <3>2. e[i] = Tail6(ch, n - i)
      BY <1>0, <1>1, <1>2, LeadByte
    <3>3. n - i = k
      BY <1>1, <2>2, <3>1
    <3> QED BY <1>1, <1>2, <1>4, <3>1, <3>2, <3>3
  <2>4. IsContinuation(byte) /\ byte % 64 = (ch \div Shift(k)) % 64
    BY <1>1, <2>3, TailByte
  <2>5. NextByte(byte)
    BY <1>3, <1>4, <2>1, <2>4 DEF FirstByte, BadByte
  <2>6. width_decoding - 1 = k /\ r = k + 1
    BY <1>1, <2>1, <2>2
  <2>7. Upper(ch, k) = Upper(ch, k + 1) + ((ch \div Shift(k)) % 64) * Shift(k)
    BY <1>1, UpperStep
  <2>8. current_decoding + (byte % 64) * Shift(k) = Upper(ch, k)
    BY <2>1, <2>4, <2>6, <2>7
  <2>9. /\ current_decoding' = Upper(ch, k) /\ width_decoding' = k
        /\ output' = IF k = 0 THEN Upper(ch, k) ELSE Nothing
    BY <2>5, <2>6, <2>8 DEF NextByte
  <2>90. is_decoding' <=> k > 0
    <3>1. is_decoding' = (k > 0)
      BY <2>5, <2>6, <2>8 DEF NextByte
    <3> QED BY <3>1, Zenon
  <2>10. CASE k = 0
    <3>1. Upper(ch, 0) = ch
      BY <1>1, ShiftValues DEF Upper
    <3>2. ~is_decoding' /\ output' = ch' /\ sending' = <<>>
      BY <1>1, <1>3, <2>6, <2>9, <2>90, <2>10, <3>1
    <3> QED BY <3>2 DEF DecodedSoFar
  <2>11. CASE k > 0
    <3>1. is_decoding' /\ width_decoding' = r - 1 /\ current_decoding' = Upper(ch, r - 1) /\ output' = Nothing
      BY <2>2, <2>9, <2>90, <2>11
    <3>2. sending' # <<>> /\ Len(sending') # Len(Encoding(ch'))
      BY <1>0, <1>1, <1>2, <1>3, <2>2, <2>11
    <3> QED BY <1>1, <1>3, <3>1, <3>2 DEF DecodedSoFar
  <2> QED BY <2>10, <2>11
<1> QED BY <1>5, <1>6

\* The first byte of a codepoint ends a sequence that was waiting, and no later
\* one starts another.
LEMMA WriteEndsOlder ==
  ASSUME UnicodeInv, write_byte
  PROVE  IdleAfterFirst'
<1> SUFFICES ASSUME intact, ~clean
             PROVE  ~is_decoding' /\ Len(sending') # Len(Encoding(ch'))
  BY DEF write_byte, IdleAfterFirst
<1>0. PICK e, r : e = Encoding(ch) /\ r = Len(sending)
  OBVIOUS
<1>1. /\ ch \in Nat /\ ch < CodepointLimit
      /\ r \in 1 .. Len(e) /\ Len(e) \in 1 .. 4
      /\ Head(sending) = e[Len(e) - r + 1]
      /\ Len(sending') = r - 1
  BY <1>0, NextByteSent
<1>2. PICK n \in 1 .. 4 : n = Len(e)
  BY <1>1
<1>20. PICK t \in 1 .. n : t = r
  <2>1. r \in 1 .. n
    BY <1>1, <1>2, Zenon
  <2> QED BY <2>1
<1>3. /\ FirstByte(Head(sending)) \/ NextByte(Head(sending)) \/ BadByte(Head(sending))
      /\ ch' = ch
  BY DEF write_byte
<1>4. PICK byte : byte = Head(sending)
  OBVIOUS
<1>5. Len(sending') # Len(Encoding(ch'))
  BY <1>0, <1>1, <1>2, <1>3
<1>6. CASE r = n
  <2>1. is_decoding
    BY <1>0, <1>2, <1>6 DEF UnicodeInv, IdleAfterFirst
  <2>2. byte = e[1] /\ ~IsContinuation(e[1])
    BY <1>0, <1>1, <1>2, <1>4, <1>6, LeadByte
  <2>3. BadByte(byte)
    BY <1>3, <1>4, <2>1, <2>2 DEF FirstByte, NextByte
  <2> QED BY <1>5, <2>3 DEF BadByte
<1>7. CASE r # n
  <2>1. ~is_decoding
    BY <1>0, <1>2, <1>7 DEF UnicodeInv, IdleAfterFirst
  <2>21. r - 1 \in 0 .. 2
    BY <1>20, <1>7
  <2>2. PICK k \in 0 .. 2 : k = r - 1
    BY <2>21
  <2>3. byte = Tail6(ch, k)
    <3>1. PICK i \in 2 .. n : i = n - r + 1
      BY <1>1, <1>2, <1>7
    <3>2. e[i] = Tail6(ch, n - i)
      BY <1>0, <1>1, <1>2, LeadByte
    <3>3. n - i = k
      BY <1>1, <2>2, <3>1
    <3> QED BY <1>1, <1>2, <1>4, <3>1, <3>2, <3>3
  <2>4. Lead(byte) = <<byte, 0>>
    BY <1>1, <2>3, TailByte
  <2>5. FirstByte(byte)
    BY <1>3, <1>4, <2>1 DEF NextByte, BadByte
  <2>6. is_decoding' = (0 > 0)
    BY <2>4, <2>5 DEF FirstByte
  <2>7. is_decoding' <=> 0 > 0
    BY <2>6, Zenon
  <2> QED BY <1>5, <2>7
<1> QED BY <1>6, <1>7

-----------------------------------------------------------------------------
(* The theorems.                                                           *)

\* Every step keeps the inductive invariant.
LEMMA NextKeepsUnicodeInv ==
  ASSUME UnicodeInv, [UnicodeNext]_unicodeVars
  PROVE  UnicodeInv'
<1>1. CASE Send
  BY <1>1, SendStarts
<1>2. CASE write_byte
  <2>1. DecoderOK' /\ DecodedSoFar' /\ IdleAfterFirst'
    BY <1>2, WriteKeepsDecoder, WriteDecodes, WriteEndsOlder DEF UnicodeInv
  <2>2. SendsTheRest'
    <3> SUFFICES ASSUME intact PROVE SendsTheRest'
      BY <1>2 DEF write_byte, SendsTheRest
    <3>0. PICK e, r : e = Encoding(ch) /\ r = Len(sending)
      OBVIOUS
    <3>1. /\ r \in 1 .. Len(e) /\ Len(e) \in 1 .. 4
          /\ Len(sending') = r - 1
      BY <1>2, <3>0, NextByteSent
    <3>10. ASSUME NEW i \in 1 .. Len(sending')
           PROVE  sending'[i] = e[Len(e) - Len(sending') + i]
      <4>1. i \in 1 .. r - 1
        BY <3>1
      <4>2. sending'[i] = e[Len(e) - (r - 1) + i]
        BY <1>2, <3>0, <4>1, NextByteSent, SMTT(30)
      <4> QED BY <3>1, <4>2
    <3>2. ch' = ch /\ ch \in Codepoints
      BY <1>2 DEF write_byte, UnicodeInv, SendsTheRest
    <3>3. Len(sending') <= Len(e)
      BY <3>1
    <3> QED BY <3>0, <3>1, <3>10, <3>2, <3>3 DEF SendsTheRest
  <2> QED BY <2>1, <2>2 DEF UnicodeInv
<1>3. CASE UNCHANGED unicodeVars
  BY <1>3 DEF unicodeVars, decoderVars, UnicodeInv, DecoderOK, UnicodeTypeOK, SendsTheRest,
              DecodedSoFar, IdleAfterFirst
<1> QED BY <1>1, <1>2, <1>3 DEF UnicodeNext

\* The decoder and what is sent to it stay in step, for any codepoints.
THEOREM UnicodeSafety == UnicodeSpec => []UnicodeInv
<1>1. UnicodeInit => UnicodeInv
  <2> SUFFICES ASSUME UnicodeInit PROVE UnicodeInv
    OBVIOUS
  <2>1. 0 \in 0 .. Decodings - 1 /\ Nothing \in Nothing .. Decodings - 1
    BY DecodingsRange DEF Nothing
  <2>2. /\ is_decoding = FALSE /\ current_decoding = 0 /\ width_decoding = 0
        /\ output = Nothing /\ sending = <<>> /\ ch = 0 /\ intact = FALSE
    BY DEF UnicodeInit
  <2>3. UnicodeTypeOK
    <3>1. is_decoding \in BOOLEAN /\ ~is_decoding
      BY <2>2
    <3>2. width_decoding \in 0 .. 3 /\ ch \in Codepoints \cup {0}
      BY <2>2
    <3>3. current_decoding \in 0 .. Decodings - 1 /\ output \in Nothing .. Decodings - 1
      BY <2>1, <2>2
    <3> QED BY <3>1, <3>2, <3>3 DEF UnicodeTypeOK
  <2>4. DecoderOK
    BY <2>2, <2>3 DEF DecoderOK
  <2> QED BY <2>2, <2>4 DEF UnicodeInv, SendsTheRest, DecodedSoFar, IdleAfterFirst
<1>2. UnicodeInv /\ [UnicodeNext]_unicodeVars => UnicodeInv'
  BY NextKeepsUnicodeInv
<1> QED BY <1>1, <1>2, PTL DEF UnicodeSpec

\* An intact codepoint that starts while the decoder is idle comes out as itself
\* with its last byte, and not before (UTF8Stream::write_byte).
THEOREM EncodingIsInverted == UnicodeSpec => []DecodesWhatWasEncoded
<1>1. UnicodeInv => DecodesWhatWasEncoded
  BY DEF UnicodeInv, DecodedSoFar, DecodesWhatWasEncoded, Sent
<1> QED BY <1>1, UnicodeSafety, PTL

\* Whatever came before it, after one intact codepoint the decoder is idle.
THEOREM DamageDoesNotSpread == UnicodeSpec => []ResynchronizesAfterOne
<1>1. UnicodeInv => ResynchronizesAfterOne
  <2> SUFFICES ASSUME UnicodeInv PROVE ResynchronizesAfterOne
    OBVIOUS
  <2>1. UnicodeTypeOK
    BY DEF UnicodeInv, DecoderOK
  <2>2. ASSUME Sent PROVE ~is_decoding
    <3>1. CASE clean
      BY <2>2, <3>1 DEF Sent, UnicodeInv, DecodedSoFar
    <3>2. CASE ~clean
      <4>1. ch \in Nat /\ ch < CodepointLimit
        BY <2>2, UnicodeAssumption DEF Sent, UnicodeInv, SendsTheRest
      <4>2. Len(Encoding(ch)) \in 1 .. 4 /\ Len(sending) = 0
        BY <2>2, <4>1, LeadByte DEF Sent
      <4> QED BY <2>2, <3>2, <4>2 DEF Sent, UnicodeInv, IdleAfterFirst
    <3> QED BY <3>1, <3>2
  <2> QED BY <2>1, <2>2 DEF ResynchronizesAfterOne
<1> QED BY <1>1, UnicodeSafety, PTL
-----------------------------------------------------------------------------
(* The linked list.                                                        *)

ListItems == [value : Values, prev : Nodes \cup {Null}, next : Nodes \cup {Null}]

\* The nodes of s, each once, are linked both ways by f between h and t.
LinkedBy(s, h, t, f) ==
  /\ s \in Seq(Nodes)
  /\ \A i, j \in 1 .. Len(s) : s[i] = s[j] => i = j
  /\ h = IF s = <<>> THEN Null ELSE s[1]
  /\ t = IF s = <<>> THEN Null ELSE s[Len(s)]
  /\ \A i \in 1 .. Len(s) :
       /\ f[s[i]].prev = IF i = 1 THEN Null ELSE s[i - 1]
       /\ f[s[i]].next = IF i = Len(s) THEN Null ELSE s[i + 1]

\* A function over 1..n is a sequence of length n.
LEMMA FunctionIsSeq ==
  ASSUME NEW S, NEW n \in Nat, NEW g \in [1 .. n -> S]
  PROVE  g \in Seq(S) /\ Len(g) = n
<1>1. g \in Seq(S)
  BY SeqDef
<1>2. DOMAIN g = 1 .. Len(g) /\ Len(g) \in Nat
  BY <1>1, LenProperties
<1>3. 1 .. n = 1 .. Len(g)
  BY <1>2
<1> QED BY <1>1, <1>2, <1>3

\* A sequence without repetition is as long as its set of elements is large.
LEMMA DistinctCount ==
  ASSUME NEW S, NEW s \in Seq(S), \A i, j \in 1 .. Len(s) : s[i] = s[j] => i = j
  PROVE  IsFiniteSet(ToSet(s)) /\ Cardinality(ToSet(s)) = Len(s)
<1>1. PICK n \in Nat : n = Len(s)
  BY LenProperties
<1>2. /\ s \in [1 .. n -> ToSet(s)]
      /\ \A x \in ToSet(s) : \E i \in 1 .. n : s[i] = x
  BY <1>1, LenProperties DEF ToSet
<1>3. s \in Bijection(1 .. n, ToSet(s))
  BY <1>1, <1>2, Fun_IsBij
<1>4. ExistsBijection(1 .. n, ToSet(s))
  BY <1>3 DEF ExistsBijection
<1>5. IsFiniteSet(1 .. n) /\ Cardinality(1 .. n) = n
  BY FS_Interval
<1> QED BY <1>1, <1>4, <1>5, FS_Bijection

\* A list has no more nodes than there are.
LEMMA ListFits ==
  ASSUME NEW s, NEW h, NEW t, NEW f, LinkedBy(s, h, t, f)
  PROVE  Len(s) <= Cardinality(Nodes) /\ Cardinality(Nodes) \in Nat
<1>1. IsFiniteSet(ToSet(s)) /\ Cardinality(ToSet(s)) = Len(s)
  BY DistinctCount DEF LinkedBy
<1>2. ToSet(s) \subseteq Nodes /\ IsFiniteSet(Nodes)
  BY LinkedListAssumption DEF LinkedBy, ToSet
<1> QED BY <1>1, <1>2, FS_Subset, FS_CardinalityType

\* The functions Chain defines: one more node met, and the nodes met from p in
\* at most k steps, for k up to C.
OneMore(f, p) ==
  [s \in Seq(Nodes) |-> LET n == IF s = <<>> THEN p ELSE f[Last(s)].next
                        IN  IF n = Null THEN s ELSE Append(s, n)]
Chase(f, p, C) ==
  CHOOSE met : met = [k \in 0 .. C |-> IF k = 0 THEN <<>> ELSE OneMore(f, p)[met[k - 1]]]

\* One step of it.
Further(f, p, s) ==
  IF (IF s = <<>> THEN p ELSE f[Last(s)].next) = Null THEN s
  ELSE Append(s, IF s = <<>> THEN p ELSE f[Last(s)].next)

\* A step meets a node, if it meets anything.
LEMMA FurtherIsSeq ==
  ASSUME NEW f \in [Nodes -> ListItems], NEW p \in Nodes \cup {Null}, NEW s \in Seq(Nodes)
  PROVE  Further(f, p, s) \in Seq(Nodes)
<1>1. CASE s = <<>>
  <2>1. <<p>> = Append(s, p)
    BY <1>1
  <2>2. p # Null => Append(s, p) \in Seq(Nodes)
    OBVIOUS
  <2> QED BY <1>1, <2>2 DEF Further
<1>2. CASE s # <<>>
  <2>1. Len(s) \in 1 .. Len(s)
    BY <1>2
  <2>2. PICK z \in Nodes : z = Last(s)
    BY <2>1 DEF Last
  <2>3. PICK y \in Nodes \cup {Null} : y = f[z].next
    BY DEF ListItems
  <2>4. y # Null => Append(s, y) \in Seq(Nodes)
    OBVIOUS
  <2> QED BY <1>2, <2>2, <2>3, <2>4 DEF Further
<1> QED BY <1>1, <1>2

\* It satisfies its equation.
LEMMA ChaseSteps ==
  ASSUME NEW f \in [Nodes -> ListItems], NEW C \in Nat, NEW p \in Nodes \cup {Null}
  PROVE  /\ Chase(f, p, C)[0] = <<>>
         /\ \A k \in 1 .. C : Chase(f, p, C)[k] = Further(f, p, Chase(f, p, C)[k - 1])
<1> DEFINE Step(k, g) == OneMore(f, p)[g[k - 1]]
           Solves(g) == g = [k \in 0 .. C |-> IF k = 0 THEN <<>> ELSE Step(k, g)]
           G == [x \in (1 .. C) \X Seq(Nodes) |-> Further(f, p, x[2])]
           met == CHOOSE g : Solves(g)
<1>0. \A s \in Seq(Nodes) : OneMore(f, p)[s] = Further(f, p, s)
  BY DEF OneMore, Further
<1>1. G \in [(1 .. C) \X Seq(Nodes) -> Seq(Nodes)]
  BY FurtherIsSeq
<1>2. PICK g \in [0 .. C -> Seq(Nodes)] : g[0] = <<>> /\ \A k \in 1 .. C : g[k] = G[<<k, g[k - 1]>>]
  <2>1. G \in StepFunctions(C, Seq(Nodes))
    BY <1>1 DEF StepFunctions
  <2>2. <<>> \in Seq(Nodes)
    OBVIOUS
  <2> HIDE DEF G
  <2>3. \E e : Recursive(e, C, Seq(Nodes), <<>>, G)
    BY <2>1, <2>2, RecursionUpTo
  <2> QED BY <2>3 DEF Recursive
<1>3. Solves(g)
  <2>1. \A k \in 1 .. C : k - 1 \in 0 .. C
    OBVIOUS
  <2>2. \A k \in 1 .. C : g[k] = Step(k, g)
    <3>1. \A k \in 1 .. C : g[k - 1] \in Seq(Nodes)
      BY <1>2, <2>1
    <3>2. \A k \in 1 .. C : g[k] = Further(f, p, g[k - 1])
      BY <1>2, <3>1
    <3> QED BY <1>0, <3>1, <3>2
  <2>3. \A k \in 0 .. C : g[k] = IF k = 0 THEN <<>> ELSE Step(k, g)
    <3>1. \A k \in 0 .. C : k = 0 \/ k \in 1 .. C
      OBVIOUS
    <3> HIDE DEF Step
    <3> QED BY <1>2, <2>2, <3>1
  <2> HIDE DEF Step
  <2> QED BY <2>3
<1>4. Solves(met)
  <2> HIDE DEF Solves
  <2> QED BY <1>3
<1>5. met = Chase(f, p, C)
  BY DEF Chase
<1>6. met[0] = <<>> /\ \A k \in 1 .. C : met[k] = Step(k, met)
  <2>1. met = [k \in 0 .. C |-> IF k = 0 THEN <<>> ELSE Step(k, met)]
    <3> HIDE DEF met, Step
    <3> QED BY <1>4
  <2>2. 0 \in 0 .. C /\ \A k \in 1 .. C : k \in 0 .. C /\ k # 0
    OBVIOUS
  <2> HIDE DEF met, Step
  <2> QED BY <2>1, <2>2
<1> HIDE DEF met
<1> DEFINE Good == {k \in 0 .. C : met[k] \in Seq(Nodes)}
<1>7. 0 \in Good
  <2>1. 0 \in 0 .. C /\ <<>> \in Seq(Nodes)
    OBVIOUS
  <2> QED BY <1>6, <2>1
<1>8. ASSUME NEW k \in 1 .. C, k - 1 \in Good PROVE k \in Good
  <2>1. met[k - 1] \in Seq(Nodes) /\ k \in 0 .. C
    BY <1>8
  <2>2. met[k] = Further(f, p, met[k - 1])
    BY <1>0, <1>6, <2>1
  <2>3. met[k] \in Seq(Nodes)
    BY <2>1, <2>2, FurtherIsSeq
  <2> QED BY <2>1, <2>3
<1>9. 0 .. C \subseteq Good
  <2> HIDE DEF Good
  <2> QED BY <1>7, <1>8, InductionUpTo
<1>10. \A k \in 1 .. C : met[k] = Further(f, p, met[k - 1])
  <2>1. \A k \in 1 .. C : met[k - 1] \in Seq(Nodes)
    BY <1>9
  <2> QED BY <1>0, <1>6, <2>1
<1> QED BY <1>5, <1>6, <1>10

\* From the place i of a linked sequence it meets what comes after it.
LEMMA ChaseFollows ==
  ASSUME NEW f \in [Nodes -> ListItems], NEW C \in Nat,
         NEW n \in 0 .. C, NEW s \in Seq(Nodes), Len(s) = n,
         \A i \in 1 .. n : f[s[i]].next = IF i = n THEN Null ELSE s[i + 1],
         NEW i \in 1 .. n + 1
  PROVE  Chase(f, IF i = n + 1 THEN Null ELSE s[i], C)[C] = SubSeq(s, i, n)
<1>1. /\ Null \notin Nodes
      /\ \A j \in 1 .. n : s[j] \in Nodes
  BY LinkedListAssumption
<1>2. PICK p \in Nodes \cup {Null} : p = IF i = n + 1 THEN Null ELSE s[i]
  BY <1>1
<1>3. PICK met : met = Chase(f, p, C)
  OBVIOUS
<1>4. /\ met[0] = <<>>
      /\ \A k \in 1 .. C : met[k] = Further(f, p, met[k - 1])
  BY <1>3, ChaseSteps
<1> DEFINE End(k) == IF i + k - 1 <= n THEN i + k - 1 ELSE n
           Good == {k \in 0 .. C : met[k] = SubSeq(s, i, End(k))}
<1>5. 0 \in Good
  <2>1. End(0) = i - 1
    OBVIOUS
  <2>2. SubSeq(s, i, i - 1) = <<>>
    BY SubSeqEmpty
  <2>3. met[0] = SubSeq(s, i, End(0)) /\ 0 \in 0 .. C
    BY <1>4, <2>1, <2>2
  <2> HIDE DEF End
  <2> QED BY <2>3
<1>6. ASSUME NEW k \in 1 .. C, k - 1 \in Good PROVE k \in Good
  <2>1. met[k] = Further(f, p, SubSeq(s, i, End(k - 1)))
    BY <1>4, <1>6
  <2>2. PICK e \in Int : e = End(k - 1)
    OBVIOUS
  <2>3. e \in i - 1 .. n
    BY <2>2
  <2>4. PICK r \in Seq(Nodes) : /\ r = SubSeq(s, i, e) /\ Len(r) = e - i + 1
                                /\ \A j \in 1 .. e - i + 1 : r[j] = s[i + j - 1]
    <3>1. \A j \in i .. e : s[j] \in Nodes
      BY <1>1, <2>3
    <3>2. e - i + 1 = IF i <= e THEN e - i + 1 ELSE 0
      BY <2>3
    <3>3. /\ SubSeq(s, i, e) \in Seq(Nodes)
          /\ Len(SubSeq(s, i, e)) = IF i <= e THEN e - i + 1 ELSE 0
          /\ \A j \in 1 .. e - i + 1 : SubSeq(s, i, e)[j] = s[i + j - 1]
      <4>1. e \in Int /\ i \in Int
        OBVIOUS
      <4> HIDE DEF Good
      <4> QED BY <3>1, <4>1, SubSeqProperties
    <3> HIDE DEF Good
    <3> QED BY <3>2, <3>3
  <2>5. CASE e = n
    <3>1. Further(f, p, r) = r
      <4>1. CASE r = <<>>
        <5>1. i = n + 1
          BY <2>3, <2>4, <2>5, <4>1
        <5> QED BY <1>2, <4>1, <5>1 DEF Further
      <4>2. CASE r # <<>>
        <5>1. Len(r) \in 1 .. e - i + 1
          BY <2>3, <2>4, <4>2
        <5>2. Last(r) = s[n]
          BY <2>4, <2>5, <5>1 DEF Last
        <5>3. n \in 1 .. n
          BY <2>3, <2>5, <5>1
        <5>4. f[Last(r)].next = Null
          BY <5>2, <5>3
        <5> QED BY <4>2, <5>4 DEF Further
      <4> QED BY <4>1, <4>2
    <3>2. End(k) = n
      BY <2>2, <2>5
    <3> QED BY <2>1, <2>2, <2>4, <2>5, <3>1, <3>2
  <2>6. CASE e # n
    <3>1. e + 1 \in 1 .. n /\ e + 1 \in i .. n /\ End(k) = e + 1 /\ e = i + k - 2
      BY <2>2, <2>3, <2>6
    <3>2. (IF r = <<>> THEN p ELSE f[Last(r)].next) = s[e + 1]
      <4>1. CASE r = <<>>
        <5>1. e + 1 = i /\ i # n + 1
          BY <2>3, <2>4, <2>6, <4>1
        <5> QED BY <1>2, <4>1, <5>1
      <4>2. CASE r # <<>>
        <5>1. Len(r) \in 1 .. e - i + 1
          BY <2>3, <2>4, <4>2
        <5>2. Last(r) = s[e] /\ e \in 1 .. n
          BY <2>3, <2>4, <2>6, <5>1 DEF Last
        <5>3. f[s[e]].next = s[e + 1]
          BY <2>6, <5>2
        <5> QED BY <4>2, <5>2, <5>3
      <4> QED BY <4>1, <4>2
    <3>3. Further(f, p, r) = Append(r, s[e + 1])
      BY <1>1, <3>1, <3>2 DEF Further
    <3>4. SubSeq(s, i, e + 1) = SubSeq(s, i, e) \o <<s[e + 1]>>
      <4>1. i \in 1 .. Len(s) /\ e + 1 \in i .. Len(s) /\ (e + 1) - 1 = e
        BY <3>1
      <4> QED BY <4>1, SubSeqRecursiveSecond
    <3>5. Append(r, s[e + 1]) = r \o <<s[e + 1]>>
      BY <1>1, <3>1, AppendIsConcat
    <3>6. met[k] = SubSeq(s, i, End(k)) /\ k \in 0 .. C
      <4>1. met[k] = Further(f, p, r)
        <5> HIDE DEF Good, End
        <5> QED BY <2>1, <2>2, <2>4
      <4>2. End(k) = e + 1
        BY <3>1
      <4> HIDE DEF Good, End
      <4> QED BY <2>4, <3>3, <3>4, <3>5, <4>1, <4>2
    <3> HIDE DEF End
    <3> QED BY <3>6
  <2> QED BY <2>5, <2>6
<1>7. C \in Good
  <2> HIDE DEF Good
  <2>1. 0 .. C \subseteq Good
    BY <1>5, <1>6, InductionUpTo
  <2> QED BY <2>1
<1>8. End(C) = n
  OBVIOUS
<1>9. met[C] = SubSeq(s, i, n)
  BY <1>7, <1>8
<1> QED BY <1>2, <1>3, <1>9

\* Following the links from the head meets the nodes of the list, in order,
\* and from a node of it those that come after it.
LEMMA ChainFollows ==
  ASSUME NEW f \in [Nodes -> ListItems], NEW s, NEW h, NEW t, LinkedBy(s, h, t, f)
  PROVE  /\ Chain(f, h) = s
         /\ \A i \in 1 .. Len(s) : Chain(f, s[i]) = SubSeq(s, i, Len(s))
         /\ Chain(f, Null) = <<>>
<1>1. PICK C \in Nat : C = Cardinality(Nodes) /\ Len(s) <= C
  BY ListFits
<1>2. s \in Seq(Nodes) /\ Len(s) \in Nat
  BY DEF LinkedBy
<1>3. PICK n \in 0 .. C : n = Len(s)
  BY <1>1, <1>2
<1>4. ASSUME NEW i \in 1 .. n + 1
      PROVE  Chase(f, IF i = n + 1 THEN Null ELSE s[i], C)[C] = SubSeq(s, i, n)
  <2>1. \A j \in 1 .. n : f[s[j]].next = IF j = n THEN Null ELSE s[j + 1]
    BY <1>3 DEF LinkedBy
  <2> QED BY <1>2, <1>3, <2>1, ChaseFollows
<1>5. \A x : Chain(f, x) = Chase(f, x, C)[C]
  <2>1. \A x : Chain(f, x) = Chase(f, x, Cardinality(Nodes))[Cardinality(Nodes)]
    BY DEF Chain, Chase, OneMore
  <2> QED BY <1>1, <2>1
<1>6. ASSUME NEW i \in 1 .. n PROVE Chain(f, s[i]) = SubSeq(s, i, n)
  <2>1. i \in 1 .. n + 1 /\ i # n + 1
    OBVIOUS
  <2> QED BY <1>4, <1>5, <2>1
<1>7. Chain(f, Null) = <<>>
  <2>1. n + 1 \in 1 .. n + 1
    OBVIOUS
  <2>2. SubSeq(s, n + 1, n) = <<>>
    BY SubSeqEmpty
  <2> QED BY <1>4, <1>5, <2>1, <2>2
<1>8. Chain(f, h) = s
  <2>1. CASE s = <<>>
    BY <1>7, <2>1 DEF LinkedBy
  <2>2. CASE s # <<>>
    <3>1. h = s[1] /\ 1 \in 1 .. n
      BY <1>2, <1>3, <2>2 DEF LinkedBy
    <3>2. SubSeq(s, 1, n) = s
      BY <1>2, <1>3, SubSeqFull
    <3> QED BY <1>6, <3>1, <3>2
  <2> QED BY <2>1, <2>2
<1> QED BY <1>3, <1>6, <1>7, <1>8

\* g is f but for that link of the node a, if there is one.
OnlyNext(f, a, m, g) ==
  /\ g \in [Nodes -> ListItems]
  /\ \A x \in Nodes : /\ g[x].value = f[x].value
                      /\ g[x].prev = f[x].prev
                      /\ g[x].next = IF x = a THEN m ELSE f[x].next

\* What an assignment to one link to the next node changes.
LEMMA SetNextLinks ==
  ASSUME NEW f \in [Nodes -> ListItems], NEW a \in Nodes \cup {Null}, NEW m \in Nodes \cup {Null}
  PROVE  OnlyNext(f, a, m, SetNext(f, a, m))
<1>1. ASSUME NEW x \in Nodes
      PROVE  /\ [f[x] EXCEPT !.next = m] \in ListItems
             /\ [f[x] EXCEPT !.next = m].value = f[x].value
             /\ [f[x] EXCEPT !.next = m].prev = f[x].prev
             /\ [f[x] EXCEPT !.next = m].next = m
  BY DEF ListItems
<1>2. SetNext(f, a, m) \in [Nodes -> ListItems]
  BY <1>1 DEF SetNext
<1>3. \A x \in Nodes : SetNext(f, a, m)[x] = IF x = a THEN [f[x] EXCEPT !.next = m] ELSE f[x]
  BY DEF SetNext
<1>4. ASSUME NEW x \in Nodes
      PROVE  /\ SetNext(f, a, m)[x].value = f[x].value
             /\ SetNext(f, a, m)[x].prev = f[x].prev
             /\ SetNext(f, a, m)[x].next = IF x = a THEN m ELSE f[x].next
  BY <1>1, <1>3
<1> QED BY <1>2, <1>4 DEF OnlyNext

\* g is f but for that link of the node a, if there is one.
OnlyPrev(f, a, m, g) ==
  /\ g \in [Nodes -> ListItems]
  /\ \A x \in Nodes : /\ g[x].value = f[x].value
                      /\ g[x].next = f[x].next
                      /\ g[x].prev = IF x = a THEN m ELSE f[x].prev

\* What an assignment to one link to the previous node changes.
LEMMA SetPrevLinks ==
  ASSUME NEW f \in [Nodes -> ListItems], NEW a \in Nodes \cup {Null}, NEW m \in Nodes \cup {Null}
  PROVE  OnlyPrev(f, a, m, SetPrev(f, a, m))
<1>1. ASSUME NEW x \in Nodes
      PROVE  /\ [f[x] EXCEPT !.prev = m] \in ListItems
             /\ [f[x] EXCEPT !.prev = m].value = f[x].value
             /\ [f[x] EXCEPT !.prev = m].next = f[x].next
             /\ [f[x] EXCEPT !.prev = m].prev = m
  BY DEF ListItems
<1>2. SetPrev(f, a, m) \in [Nodes -> ListItems]
  BY <1>1 DEF SetPrev
<1>3. \A x \in Nodes : SetPrev(f, a, m)[x] = IF x = a THEN [f[x] EXCEPT !.prev = m] ELSE f[x]
  BY DEF SetPrev
<1>4. ASSUME NEW x \in Nodes
      PROVE  /\ SetPrev(f, a, m)[x].value = f[x].value
             /\ SetPrev(f, a, m)[x].next = f[x].next
             /\ SetPrev(f, a, m)[x].prev = IF x = a THEN m ELSE f[x].prev
  BY <1>1, <1>3
<1> QED BY <1>2, <1>4 DEF OnlyPrev

\* s without its element at i.
Dropped(s, i) == [j \in 1 .. Len(s) - 1 |-> IF j < i THEN s[j] ELSE s[j + 1]]

\* A sequence without its place i is one shorter, and keeps the other places.
LEMMA DroppedIsSeq ==
  ASSUME NEW S, NEW s \in Seq(S), NEW i \in 1 .. Len(s)
  PROVE  /\ Dropped(s, i) \in Seq(S) /\ Len(Dropped(s, i)) = Len(s) - 1
         /\ \A j \in 1 .. Len(s) - 1 : Dropped(s, i)[j] = IF j < i THEN s[j] ELSE s[j + 1]
<1>1. PICK n \in Nat : n = Len(s)
  BY LenProperties
<1>2. n - 1 \in Nat
  BY <1>1
<1>3. ASSUME NEW j \in 1 .. n - 1 PROVE s[j] \in S /\ s[j + 1] \in S
  <2>1. j \in 1 .. n /\ j + 1 \in 1 .. n
    BY <1>1
  <2> QED BY <1>1, <2>1
<1>4. Dropped(s, i) = [j \in 1 .. n - 1 |-> IF j < i THEN s[j] ELSE s[j + 1]]
  BY <1>1 DEF Dropped
<1>5. Dropped(s, i) \in [1 .. n - 1 -> S]
  BY <1>3, <1>4
<1>6. Dropped(s, i) \in Seq(S) /\ Len(Dropped(s, i)) = n - 1
  BY <1>2, <1>5, FunctionIsSeq
<1> QED BY <1>1, <1>4, <1>6

\* Dropping takes the element out of the set, if it was there once.
LEMMA DroppedNodes ==
  ASSUME NEW S, NEW s \in Seq(S), NEW i \in 1 .. Len(s),
         \A j, k \in 1 .. Len(s) : s[j] = s[k] => j = k
  PROVE  /\ ToSet(Dropped(s, i)) = ToSet(s) \ {s[i]}
         /\ \A j, k \in 1 .. Len(s) - 1 : Dropped(s, i)[j] = Dropped(s, i)[k] => j = k
<1>1. PICK n \in Nat : n = Len(s) /\ i \in 1 .. n
  BY LenProperties
<1>2. PICK r : r = Dropped(s, i)
  OBVIOUS
<1>3. /\ r \in Seq(S) /\ Len(r) = n - 1
      /\ \A j \in 1 .. n - 1 : r[j] = IF j < i THEN s[j] ELSE s[j + 1]
  BY <1>1, <1>2, DroppedIsSeq
<1>4. \A x : x \in ToSet(s) <=> \E j \in 1 .. n : x = s[j]
  BY <1>1 DEF ToSet
<1>5. \A x : x \in ToSet(r) <=> \E j \in 1 .. n - 1 : x = r[j]
  BY <1>3 DEF ToSet
<1>6. ASSUME NEW j \in 1 .. n - 1 PROVE r[j] \in ToSet(s) /\ r[j] # s[i]
  <2>1. j \in 1 .. n /\ j + 1 \in 1 .. n /\ (j < i => j # i) /\ (~(j < i) => j + 1 # i)
    BY <1>1
  <2> QED BY <1>1, <1>3, <1>4, <2>1
<1>7. ASSUME NEW j \in 1 .. n, j # i PROVE s[j] \in ToSet(r)
  <2>1. CASE j < i
    <3>1. j \in 1 .. n - 1
      BY <1>1, <2>1
    <3> QED BY <1>3, <1>5, <2>1, <3>1
  <2>2. CASE j > i
    <3>1. j - 1 \in 1 .. n - 1 /\ ~(j - 1 < i) /\ (j - 1) + 1 = j
      BY <1>1, <2>2
    <3>2. r[j - 1] = s[j]
      BY <1>3, <3>1
    <3> QED BY <1>5, <3>1, <3>2
  <2> QED BY <1>1, <1>7, <2>1, <2>2
<1>8. ToSet(r) = ToSet(s) \ {s[i]}
  <2>1. \A x \in ToSet(r) : x \in ToSet(s) \ {s[i]}
    BY <1>5, <1>6
  <2>2. ASSUME NEW x \in ToSet(s) \ {s[i]} PROVE x \in ToSet(r)
    <3>1. PICK j \in 1 .. n : x = s[j]
      BY <1>4
    <3> QED BY <1>7, <3>1
  <2> QED BY <2>1, <2>2
<1>9. ASSUME NEW j \in 1 .. n - 1, NEW k \in 1 .. n - 1, r[j] = r[k] PROVE j = k
  <2>1. j \in 1 .. n /\ j + 1 \in 1 .. n /\ k \in 1 .. n /\ k + 1 \in 1 .. n
    OBVIOUS
  <2>2. PICK a \in 1 .. n : a = IF j < i THEN j ELSE j + 1
    BY <2>1
  <2>3. PICK b \in 1 .. n : b = IF k < i THEN k ELSE k + 1
    BY <2>1
  <2>4. s[a] = s[b]
    BY <1>3, <1>9, <2>2, <2>3
  <2>5. a = b
    BY <1>1, <2>4
  <2> QED BY <1>1, <2>2, <2>3, <2>5
<1> QED BY <1>1, <1>2, <1>8, <1>9

\* Unlinking the node at i leaves the others linked.
LEMMA UnlinkKeeps ==
  ASSUME NEW f \in [Nodes -> ListItems], NEW s, NEW h, NEW t, LinkedBy(s, h, t, f),
         NEW i \in 1 .. Len(s), NEW l, l = [head |-> h, tail |-> t, item |-> f],
         NEW u, u = Unlink(l, s[i])
  PROVE  /\ u.item \in [Nodes -> ListItems]
         /\ \A x \in Nodes : u.item[x].value = f[x].value
         /\ LinkedBy(Dropped(s, i), u.head, u.tail, u.item)
         /\ u = [head |-> u.head, tail |-> u.tail, item |-> u.item]
<1>1. PICK n \in Nat : n = Len(s) /\ i \in 1 .. n
  BY LenProperties DEF LinkedBy
<1>2. /\ s \in Seq(Nodes) /\ \A j, k \in 1 .. n : s[j] = s[k] => j = k
      /\ h = s[1] /\ t = s[n]
      /\ \A j \in 1 .. n : s[j] \in Nodes
  BY <1>1 DEF LinkedBy
<1>3. /\ \A j \in 1 .. n : f[s[j]].prev = IF j = 1 THEN Null ELSE s[j - 1]
      /\ \A j \in 1 .. n : f[s[j]].next = IF j = n THEN Null ELSE s[j + 1]
  BY <1>1 DEF LinkedBy
<1>4. PICK p \in Nodes \cup {Null} : p = f[s[i]].prev
  BY <1>1, <1>2 DEF ListItems
<1>5. PICK x \in Nodes \cup {Null} : x = f[s[i]].next
  BY <1>1, <1>2 DEF ListItems
<1>6. PICK g \in [Nodes -> ListItems] :
        /\ g = SetPrev(SetNext(f, p, x), x, p)
        /\ \A y \in Nodes : /\ g[y].value = f[y].value
                            /\ g[y].next = IF y = p THEN x ELSE f[y].next
                            /\ g[y].prev = IF y = x THEN p ELSE f[y].prev
  <2>1. PICK e : e = SetNext(f, p, x) /\ OnlyNext(f, p, x, e)
    BY SetNextLinks
  <2>2. OnlyPrev(e, x, p, SetPrev(e, x, p))
    <3>1. e \in [Nodes -> ListItems]
      BY <2>1 DEF OnlyNext
    <3> QED BY <3>1, SetPrevLinks
  <2> QED BY <2>1, <2>2 DEF OnlyNext, OnlyPrev
<1>7. u = [head |-> IF p = Null THEN x ELSE h, tail |-> IF x = Null THEN p ELSE t, item |-> g]
  BY <1>4, <1>5, <1>6 DEF Unlink
<1>8. PICK r : r = Dropped(s, i)
  OBVIOUS
<1>9. /\ r \in Seq(Nodes) /\ Len(r) = n - 1
      /\ \A j \in 1 .. n - 1 : r[j] = IF j < i THEN s[j] ELSE s[j + 1]
      /\ \A j, k \in 1 .. n - 1 : r[j] = r[k] => j = k
  <2>1. /\ Dropped(s, i) \in Seq(Nodes) /\ Len(Dropped(s, i)) = Len(s) - 1
        /\ \A j \in 1 .. Len(s) - 1 : Dropped(s, i)[j] = IF j < i THEN s[j] ELSE s[j + 1]
    BY <1>2, DroppedIsSeq
  <2>2. \A j, k \in 1 .. Len(s) - 1 : Dropped(s, i)[j] = Dropped(s, i)[k] => j = k
    BY <1>1, <1>2, DroppedNodes
  <2> QED BY <1>1, <1>8, <2>1, <2>2
<1>10. (p = IF i = 1 THEN Null ELSE s[i - 1]) /\ (x = IF i = n THEN Null ELSE s[i + 1])
  BY <1>1, <1>3, <1>4, <1>5
<1>11. Null \notin Nodes
  BY LinkedListAssumption
<1>12. r = <<>> <=> n = 1
  <2>1. n = 1 => r = <<>>
    BY <1>9, EmptySeq
  <2> QED BY <1>1, <1>9, <2>1
<1>13. u.head = IF r = <<>> THEN Null ELSE r[1]
  <2>1. CASE i = 1
    <3>1. u.head = x
      BY <1>7, <1>10, <2>1
    <3>2. n # 1 => r[1] = s[2] /\ x = s[2]
      BY <1>1, <1>9, <1>10, <2>1
    <3> QED BY <1>10, <1>12, <2>1, <3>1, <3>2
  <2>2. CASE i # 1
    <3>1. i - 1 \in 1 .. n /\ n # 1 /\ 1 \in 1 .. n - 1 /\ 1 < i
      BY <1>1, <2>2
    <3>2. u.head = h /\ r[1] = s[1]
      BY <1>2, <1>7, <1>9, <1>10, <1>11, <2>2, <3>1
    <3> QED BY <1>2, <1>12, <3>1, <3>2
  <2> QED BY <2>1, <2>2
<1>14. u.tail = IF r = <<>> THEN Null ELSE r[Len(r)]
  <2>1. CASE i = n
    <3>1. u.tail = p
      BY <1>7, <1>10, <2>1
    <3>2. n # 1 => r[n - 1] = s[n - 1] /\ p = s[n - 1]
      BY <1>1, <1>9, <1>10, <2>1
    <3> QED BY <1>9, <1>10, <1>12, <2>1, <3>1, <3>2
  <2>2. CASE i # n
    <3>1. i + 1 \in 1 .. n /\ n # 1 /\ n - 1 \in 1 .. n - 1 /\ ~(n - 1 < i) /\ (n - 1) + 1 = n
      BY <1>1, <2>2
    <3>2. u.tail = t /\ r[n - 1] = s[n]
      BY <1>2, <1>7, <1>9, <1>10, <1>11, <2>2, <3>1
    <3> QED BY <1>2, <1>9, <1>12, <3>1, <3>2
  <2> QED BY <2>1, <2>2
<1>15. ASSUME NEW j \in 1 .. n - 1
       PROVE  /\ g[r[j]].prev = IF j = 1 THEN Null ELSE r[j - 1]
              /\ g[r[j]].next = IF j = n - 1 THEN Null ELSE r[j + 1]
  <2>1. j \in 1 .. n /\ j + 1 \in 1 .. n
    OBVIOUS
  <2>2. CASE j < i
    <3>1. r[j] = s[j] /\ s[j] \in Nodes
      BY <1>2, <1>9, <2>1, <2>2
    <3>2. s[j] # x
      <4>1. i # n => i + 1 \in 1 .. n /\ i + 1 # j
        BY <1>1, <2>2
      <4> QED BY <1>2, <1>10, <1>11, <2>1, <4>1
    <3>3. g[r[j]].prev = IF j = 1 THEN Null ELSE s[j - 1]
      BY <1>3, <1>6, <2>1, <3>1, <3>2, SMTT(30)
    <3>4. j # 1 => r[j - 1] = s[j - 1]
      <4>1. j # 1 => j - 1 \in 1 .. n - 1 /\ j - 1 < i
        BY <2>2
      <4> QED BY <1>9, <4>1
    <3>5. CASE j = i - 1
      <4>1. s[j] = p
        BY <1>1, <1>10, <3>5
      <4>2. g[r[j]].next = x
        BY <1>6, <3>1, <4>1
      <4>3. (j = n - 1 <=> i = n) /\ (i # n => i \in 1 .. n - 1)
        BY <1>1, <3>5
      <4>4. i # n => r[j + 1] = s[i + 1]
        BY <1>9, <3>5, <4>3
      <4> QED BY <1>10, <3>3, <3>4, <4>2, <4>3, <4>4
    <3>6. CASE j # i - 1
      <4>1. i # 1 => i - 1 \in 1 .. n
        BY <1>1
      <4>2. s[j] # p
        BY <1>2, <1>10, <1>11, <2>1, <3>6, <4>1
      <4>3. j # n /\ j # n - 1 /\ j + 1 \in 1 .. n - 1 /\ j + 1 < i
        BY <1>1, <2>2, <3>6
      <4>4. g[r[j]].next = s[j + 1]
        BY <1>3, <1>6, <2>1, <3>1, <4>2, <4>3
      <4>5. r[j + 1] = s[j + 1]
        BY <1>9, <4>3
      <4> QED BY <3>3, <3>4, <4>3, <4>4, <4>5
    <3> QED BY <3>5, <3>6
  <2>3. CASE ~(j < i)
    <3>1. r[j] = s[j + 1] /\ s[j + 1] \in Nodes
      BY <1>2, <1>9, <2>1, <2>3
    <3>2. s[j + 1] # p
      <4>1. i # 1 => i - 1 \in 1 .. n /\ i - 1 # j + 1
        BY <1>1, <2>3
      <4> QED BY <1>2, <1>10, <1>11, <2>1, <4>1
    <3>3. g[r[j]].next = IF j = n - 1 THEN Null ELSE r[j + 1]
      <4>1. g[r[j]].next = f[s[j + 1]].next
        BY <1>6, <3>1, <3>2
      <4>2. j # n - 1 => j + 1 \in 1 .. n - 1 /\ ~(j + 1 < i) /\ j + 1 # n
        BY <2>3
      <4>3. j # n - 1 => r[j + 1] = s[(j + 1) + 1]
        BY <1>9, <4>2
      <4>4. j = n - 1 => j + 1 = n
        OBVIOUS
      <4> QED BY <1>3, <2>1, <4>1, <4>2, <4>3, <4>4
    <3>4. CASE j = i
      <4>1. x = s[j + 1]
        BY <1>1, <1>10, <3>4
      <4>2. g[r[j]].prev = p
        BY <1>6, <3>1, <4>1
      <4>3. j # 1 => j - 1 \in 1 .. n - 1 /\ j - 1 < i
        BY <3>4
      <4>4. j # 1 => r[j - 1] = s[i - 1]
        BY <1>9, <3>4, <4>3
      <4> QED BY <1>10, <3>3, <3>4, <4>2, <4>4
    <3>5. CASE j # i
      <4>1. s[j + 1] # x
        <5>1. i # n => i + 1 \in 1 .. n /\ i + 1 # j + 1
          BY <1>1, <3>5
        <5> QED BY <1>2, <1>10, <1>11, <2>1, <5>1
      <4>2. g[r[j]].prev = s[j]
        <5>1. j + 1 # 1 /\ (j + 1) - 1 = j
          OBVIOUS
        <5> QED BY <1>3, <1>6, <2>1, <3>1, <4>1, <5>1
      <4>3. j - 1 \in 1 .. n - 1 /\ ~(j - 1 < i) /\ (j - 1) + 1 = j
        BY <1>1, <2>3, <3>5
      <4>4. r[j - 1] = s[j] /\ j # 1
        BY <1>9, <4>3
      <4> QED BY <3>3, <4>2, <4>4
    <3> QED BY <3>4, <3>5
  <2> QED BY <2>2, <2>3
<1>16. LinkedBy(r, u.head, u.tail, g)
  BY <1>9, <1>13, <1>14, <1>15 DEF LinkedBy
<1> QED BY <1>6, <1>7, <1>8, <1>16

\* Null has no links.
LEMMA NullHasNoLinks ==
  ASSUME NEW f \in [Nodes -> ListItems], NEW m
  PROVE  SetNext(f, Null, m) = f /\ SetPrev(f, Null, m) = f
<1>1. Null \notin Nodes
  BY LinkedListAssumption
<1>2. SetNext(f, Null, m) = [x \in Nodes |-> f[x]]
  BY <1>1 DEF SetNext
<1>3. SetPrev(f, Null, m) = [x \in Nodes |-> f[x]]
  BY <1>1 DEF SetPrev
<1> QED BY <1>2, <1>3

\* What it takes for a list that is not empty.
LEMMA NonemptyLinks ==
  ASSUME NEW m \in Nat, m # 0, NEW r \in Seq(Nodes), Len(r) = m, NEW g,
         \A j, k \in 1 .. m : r[j] = r[k] => j = k,
         NEW h, h = r[1], NEW t, t = r[m],
         \A j \in 1 .. m : /\ g[r[j]].prev = IF j = 1 THEN Null ELSE r[j - 1]
                           /\ g[r[j]].next = IF j = m THEN Null ELSE r[j + 1]
  PROVE  LinkedBy(r, h, t, g)
<1>1. r # <<>>
  BY EmptySeq
<1> QED BY <1>1 DEF LinkedBy

\* The memory after push and push_back have written the links of a new node.
PushedLinks(f, h, x, v) == SetPrev([f EXCEPT ![x] = [value |-> v, prev |-> Null, next |-> h]], h, x)
PushedBackLinks(f, t, x, v) == SetNext([f EXCEPT ![x] = [value |-> v, prev |-> t, next |-> Null]], t, x)

\* A new node before the head becomes the head of the longer list.
LEMMA PrependKeepsLinks ==
  ASSUME NEW f \in [Nodes -> ListItems], NEW s, NEW h, NEW t, LinkedBy(s, h, t, f),
         NEW x \in Nodes, x \notin ToSet(s), NEW v \in Values,
         NEW g, g = PushedLinks(f, h, x, v)
  PROVE  /\ g \in [Nodes -> ListItems]
         /\ \A y \in Nodes : g[y].value = IF y = x THEN v ELSE f[y].value
         /\ LinkedBy(<<x>> \o s, x, IF h = Null THEN x ELSE t, g)
<1>1. PICK n \in Nat : n = Len(s)
  BY LenProperties DEF LinkedBy
<1>2. /\ s \in Seq(Nodes) /\ \A j, k \in 1 .. n : s[j] = s[k] => j = k
      /\ (n = 0 => h = Null /\ t = Null) /\ (n # 0 => h = s[1] /\ t = s[n])
      /\ \A j \in 1 .. n : s[j] \in Nodes /\ s[j] # x
  <2>1. \A j \in 1 .. n : s[j] \in ToSet(s)
    BY <1>1 DEF LinkedBy, ToSet
  <2>2. s \in Seq(Nodes) /\ (n = 0 <=> s = <<>>)
    BY <1>1, EmptySeq DEF LinkedBy
  <2> QED BY <1>1, <2>1, <2>2 DEF LinkedBy
<1>3. /\ \A j \in 1 .. n : f[s[j]].prev = IF j = 1 THEN Null ELSE s[j - 1]
      /\ \A j \in 1 .. n : f[s[j]].next = IF j = n THEN Null ELSE s[j + 1]
  BY <1>1 DEF LinkedBy
<1>4. h \in Nodes \cup {Null} /\ Null \notin Nodes /\ h # x
  <2>1. n # 0 => 1 \in 1 .. n
    OBVIOUS
  <2> QED BY <1>2, <2>1, LinkedListAssumption
<1>5. PICK e \in [Nodes -> ListItems] :
        /\ e = [f EXCEPT ![x] = [value |-> v, prev |-> Null, next |-> h]]
        /\ \A y \in Nodes : /\ e[y].value = IF y = x THEN v ELSE f[y].value
                            /\ e[y].prev = IF y = x THEN Null ELSE f[y].prev
                            /\ e[y].next = IF y = x THEN h ELSE f[y].next
  <2>1. PICK w \in ListItems : /\ w = [value |-> v, prev |-> Null, next |-> h]
                              /\ w.value = v /\ w.prev = Null /\ w.next = h
    <3>1. v \in Values /\ h \in Nodes \cup {Null} /\ Null \in Nodes \cup {Null}
      BY <1>4
    <3>2. [value |-> v, prev |-> Null, next |-> h] \in ListItems
      BY <3>1 DEF ListItems
    <3> QED BY <3>2
  <2>2. PICK e \in [Nodes -> ListItems] : e = [f EXCEPT ![x] = w]
    OBVIOUS
  <2>3. \A y \in Nodes : e[y] = IF y = x THEN w ELSE f[y]
    BY <2>2
  <2> QED BY <2>1, <2>2, <2>3
<1>6. /\ g \in [Nodes -> ListItems]
      /\ \A y \in Nodes : /\ g[y].value = IF y = x THEN v ELSE f[y].value
                          /\ g[y].prev = IF y = h THEN x ELSE IF y = x THEN Null ELSE f[y].prev
                          /\ g[y].next = IF y = x THEN h ELSE f[y].next
  <2>1. OnlyPrev(e, h, x, g)
    <3>1. x \in Nodes \cup {Null} /\ g = SetPrev(e, h, x)
      BY <1>5 DEF PushedLinks
    <3> QED BY <1>4, <3>1, SetPrevLinks
  <2> QED BY <1>5, <2>1 DEF OnlyPrev
<1>7. PICK r : r = <<x>> \o s
  OBVIOUS
<1>8. /\ r \in Seq(Nodes) /\ Len(r) = n + 1
      /\ \A j \in 1 .. n + 1 : r[j] = IF j = 1 THEN x ELSE s[j - 1]
  <2>1. <<x>> \in Seq(Nodes) /\ Len(<<x>>) = 1 /\ <<x>>[1] = x
    OBVIOUS
  <2>2. /\ <<x>> \o s \in Seq(Nodes) /\ Len(<<x>> \o s) = 1 + n
        /\ \A j \in 1 .. 1 + n : (<<x>> \o s)[j] = IF j <= 1 THEN <<x>>[j] ELSE s[j - 1]
    BY <1>1, <1>2, <2>1, ConcatProperties
  <2> QED BY <1>7, <2>1, <2>2
<1>9. ASSUME NEW j \in 1 .. n + 1, NEW k \in 1 .. n + 1, r[j] = r[k] PROVE j = k
  <2>1. (j # 1 => j - 1 \in 1 .. n) /\ (k # 1 => k - 1 \in 1 .. n)
    OBVIOUS
  <2>2. (j # 1 => r[j] = s[j - 1]) /\ (k # 1 => r[k] = s[k - 1]) /\ r[1] = x
    BY <1>8, <2>1
  <2>3. j = 1 <=> k = 1
    BY <1>2, <1>9, <2>1, <2>2
  <2>4. j # 1 => j - 1 = k - 1
    BY <1>2, <1>9, <2>1, <2>2, <2>3
  <2> QED BY <2>3, <2>4
<1>10. r[1] = x
  BY <1>8
<1>11. (IF h = Null THEN x ELSE t) = r[n + 1]
  <2>1. CASE n = 0
    BY <1>2, <1>10, <2>1
  <2>2. CASE n # 0
    <3>1. 1 \in 1 .. n /\ n + 1 \in 1 .. n + 1 /\ n + 1 # 1 /\ (n + 1) - 1 = n
      BY <2>2
    <3> QED BY <1>2, <1>4, <1>8, <2>2, <3>1
  <2> QED BY <2>1, <2>2
<1>12. ASSUME NEW j \in 1 .. n + 1
       PROVE  /\ g[r[j]].prev = IF j = 1 THEN Null ELSE r[j - 1]
              /\ g[r[j]].next = IF j = n + 1 THEN Null ELSE r[j + 1]
  <2>1. CASE j = 1
    <3>1. r[j] = x /\ g[x].prev = Null /\ g[x].next = h
      BY <1>4, <1>6, <1>8, <2>1
    <3>2. n # 0 => j + 1 \in 1 .. n + 1 /\ (j + 1) - 1 = 1 /\ j + 1 # 1
      BY <2>1
    <3>3. n # 0 => r[j + 1] = s[1]
      BY <1>8, <3>2
    <3> QED BY <1>2, <2>1, <3>1, <3>3
  <2>2. CASE j # 1
    <3>1. j - 1 \in 1 .. n /\ r[j] = s[j - 1] /\ s[j - 1] \in Nodes /\ s[j - 1] # x
      BY <1>2, <1>8, <2>2
    <3>2. g[r[j]].prev = r[j - 1]
      <4>1. CASE j = 2
        <5>1. s[j - 1] = h /\ r[j - 1] = x
          BY <1>2, <1>8, <3>1, <4>1
        <5> QED BY <1>6, <3>1, <5>1
      <4>2. CASE j # 2
        <5>1. j - 1 # 1 /\ (j - 1) - 1 \in 1 .. n /\ j - 1 \in 1 .. n + 1 /\ 1 \in 1 .. n
          BY <2>2, <4>2
        <5>2. s[j - 1] # h
          BY <1>2, <3>1, <5>1
        <5>3. f[s[j - 1]].prev = s[(j - 1) - 1]
          BY <1>3, <3>1, <5>1
        <5>4. r[j - 1] = s[(j - 1) - 1]
          BY <1>8, <5>1
        <5> QED BY <1>6, <3>1, <5>2, <5>3, <5>4
      <4> QED BY <4>1, <4>2
    <3>3. g[r[j]].next = IF j = n + 1 THEN Null ELSE r[j + 1]
      <4>1. g[r[j]].next = IF j - 1 = n THEN Null ELSE s[(j - 1) + 1]
        <5>1. g[s[j - 1]].next = f[s[j - 1]].next
          BY <1>6, <3>1
        <5>2. f[s[j - 1]].next = IF j - 1 = n THEN Null ELSE s[(j - 1) + 1]
          BY <1>3, <3>1
        <5> QED BY <3>1, <5>1, <5>2
      <4>2. j # n + 1 => j + 1 \in 1 .. n + 1 /\ (j + 1) - 1 = (j - 1) + 1 /\ j + 1 # 1
        BY <2>2
      <4>3. j # n + 1 => r[j + 1] = s[(j - 1) + 1]
        BY <1>8, <4>2
      <4>4. j - 1 = n <=> j = n + 1
        OBVIOUS
      <4> QED BY <4>1, <4>3, <4>4
    <3> QED BY <2>2, <3>2, <3>3
  <2> QED BY <2>1, <2>2
<1>13. LinkedBy(r, x, IF h = Null THEN x ELSE t, g)
  <2> DEFINE y == IF h = Null THEN x ELSE t
  <2>1. y = r[n + 1]
    BY <1>11
  <2>3. n + 1 \in Nat /\ n + 1 # 0
    OBVIOUS
  <2> HIDE DEF y
  <2>2. LinkedBy(r, x, y, g)
    BY <1>8, <1>9, <1>10, <1>12, <2>1, <2>3, NonemptyLinks, SMTT(30)
  <2> QED BY <2>2 DEF y
<1> QED BY <1>6, <1>7, <1>13

\* A new node after the tail becomes the tail of the longer list.
LEMMA AppendKeepsLinks ==
  ASSUME NEW f \in [Nodes -> ListItems], NEW s, NEW h, NEW t, LinkedBy(s, h, t, f),
         NEW x \in Nodes, x \notin ToSet(s), NEW v \in Values,
         NEW g, g = PushedBackLinks(f, t, x, v)
  PROVE  /\ g \in [Nodes -> ListItems]
         /\ \A y \in Nodes : g[y].value = IF y = x THEN v ELSE f[y].value
         /\ LinkedBy(Append(s, x), IF t = Null THEN x ELSE h, x, g)
<1>1. PICK n \in Nat : n = Len(s)
  BY LenProperties DEF LinkedBy
<1>2. /\ s \in Seq(Nodes) /\ \A j, k \in 1 .. n : s[j] = s[k] => j = k
      /\ (n = 0 => h = Null /\ t = Null) /\ (n # 0 => h = s[1] /\ t = s[n])
      /\ \A j \in 1 .. n : s[j] \in Nodes /\ s[j] # x
  <2>1. \A j \in 1 .. n : s[j] \in ToSet(s)
    BY <1>1 DEF LinkedBy, ToSet
  <2>2. s \in Seq(Nodes) /\ (n = 0 <=> s = <<>>)
    BY <1>1, EmptySeq DEF LinkedBy
  <2> QED BY <1>1, <2>1, <2>2 DEF LinkedBy
<1>3. /\ \A j \in 1 .. n : f[s[j]].prev = IF j = 1 THEN Null ELSE s[j - 1]
      /\ \A j \in 1 .. n : f[s[j]].next = IF j = n THEN Null ELSE s[j + 1]
  BY <1>1 DEF LinkedBy
<1>4. t \in Nodes \cup {Null} /\ Null \notin Nodes /\ t # x
  <2>1. n # 0 => n \in 1 .. n
    OBVIOUS
  <2> QED BY <1>2, <2>1, LinkedListAssumption
<1>5. PICK e \in [Nodes -> ListItems] :
        /\ e = [f EXCEPT ![x] = [value |-> v, prev |-> t, next |-> Null]]
        /\ \A y \in Nodes : /\ e[y].value = IF y = x THEN v ELSE f[y].value
                            /\ e[y].prev = IF y = x THEN t ELSE f[y].prev
                            /\ e[y].next = IF y = x THEN Null ELSE f[y].next
  <2>1. PICK w \in ListItems : /\ w = [value |-> v, prev |-> t, next |-> Null]
                              /\ w.value = v /\ w.prev = t /\ w.next = Null
    <3>1. v \in Values /\ t \in Nodes \cup {Null} /\ Null \in Nodes \cup {Null}
      BY <1>4
    <3>2. [value |-> v, prev |-> t, next |-> Null] \in ListItems
      BY <3>1 DEF ListItems
    <3> QED BY <3>2
  <2>2. PICK e \in [Nodes -> ListItems] : e = [f EXCEPT ![x] = w]
    OBVIOUS
  <2>3. \A y \in Nodes : e[y] = IF y = x THEN w ELSE f[y]
    BY <2>2
  <2> QED BY <2>1, <2>2, <2>3
<1>6. /\ g \in [Nodes -> ListItems]
      /\ \A y \in Nodes : /\ g[y].value = IF y = x THEN v ELSE f[y].value
                          /\ g[y].next = IF y = t THEN x ELSE IF y = x THEN Null ELSE f[y].next
                          /\ g[y].prev = IF y = x THEN t ELSE f[y].prev
  <2>1. OnlyNext(e, t, x, g)
    <3>1. x \in Nodes \cup {Null} /\ g = SetNext(e, t, x)
      BY <1>5 DEF PushedBackLinks
    <3> QED BY <1>4, <3>1, SetNextLinks
  <2> QED BY <1>5, <2>1 DEF OnlyNext
<1>7. PICK r : r = Append(s, x)
  OBVIOUS
<1>8. /\ r \in Seq(Nodes) /\ Len(r) = n + 1
      /\ \A j \in 1 .. n : r[j] = s[j]
      /\ r[n + 1] = x
  BY <1>1, <1>2, <1>7, AppendProperties
<1>9. ASSUME NEW j \in 1 .. n + 1, NEW k \in 1 .. n + 1, r[j] = r[k] PROVE j = k
  <2>1. (j # n + 1 => j \in 1 .. n) /\ (k # n + 1 => k \in 1 .. n)
    OBVIOUS
  <2> QED BY <1>2, <1>8, <1>9, <2>1
<1>11. (IF t = Null THEN x ELSE h) = r[1]
  <2>1. CASE n = 0
    BY <1>2, <1>8, <2>1
  <2>2. CASE n # 0
    <3>1. 1 \in 1 .. n /\ n \in 1 .. n
      BY <2>2
    <3> QED BY <1>2, <1>4, <1>8, <2>2, <3>1
  <2> QED BY <2>1, <2>2
<1>12. ASSUME NEW j \in 1 .. n + 1
       PROVE  /\ g[r[j]].prev = IF j = 1 THEN Null ELSE r[j - 1]
              /\ g[r[j]].next = IF j = n + 1 THEN Null ELSE r[j + 1]
  <2>1. CASE j = n + 1
    <3>1. r[j] = x /\ g[x].prev = t /\ g[x].next = Null
      BY <1>4, <1>6, <1>8, <2>1
    <3>2. n # 0 => j - 1 \in 1 .. n /\ j - 1 = n
      BY <2>1
    <3>3. n # 0 => r[j - 1] = s[n]
      BY <1>8, <3>2
    <3> QED BY <1>2, <2>1, <3>1, <3>3
  <2>2. CASE j # n + 1
    <3>1. j \in 1 .. n /\ r[j] = s[j] /\ s[j] \in Nodes /\ s[j] # x
      <4>1. j \in 1 .. n
        BY <2>2
      <4> QED BY <1>2, <1>8, <4>1
    <3>2. g[r[j]].next = r[j + 1]
      <4>1. CASE j = n
        <5>1. s[j] = t /\ r[j + 1] = x
          BY <1>2, <1>8, <3>1, <4>1
        <5> QED BY <1>6, <3>1, <5>1
      <4>2. CASE j # n
        <5>1. j + 1 \in 1 .. n /\ n \in 1 .. n
          BY <3>1, <4>2
        <5>2. s[j] # t
          BY <1>2, <3>1, <4>2, <5>1
        <5>3. g[s[j]].next = f[s[j]].next
          BY <1>6, <3>1, <5>2
        <5>4. f[s[j]].next = s[j + 1]
          BY <1>3, <3>1, <4>2
        <5>5. r[j + 1] = s[j + 1]
          BY <1>8, <5>1
        <5> QED BY <3>1, <5>3, <5>4, <5>5
      <4> QED BY <4>1, <4>2
    <3>3. g[r[j]].prev = IF j = 1 THEN Null ELSE r[j - 1]
      <4>1. j # 1 => j - 1 \in 1 .. n
        BY <3>1
      <4>2. g[s[j]].prev = f[s[j]].prev
        BY <1>6, <3>1
      <4>3. f[s[j]].prev = IF j = 1 THEN Null ELSE s[j - 1]
        BY <1>3, <3>1
      <4>4. j # 1 => r[j - 1] = s[j - 1]
        BY <1>8, <4>1
      <4> QED BY <3>1, <4>2, <4>3, <4>4
    <3> QED BY <2>2, <3>2, <3>3
  <2> QED BY <2>1, <2>2
<1>13. LinkedBy(r, IF t = Null THEN x ELSE h, x, g)
  <2> DEFINE y == IF t = Null THEN x ELSE h
  <2>1. y = r[1]
    BY <1>11
  <2>3. n + 1 \in Nat /\ n + 1 # 0
    OBVIOUS
  <2> HIDE DEF y
  <2>2. LinkedBy(r, y, x, g)
    BY <1>8, <1>9, <1>12, <2>1, <2>3, NonemptyLinks
  <2> QED BY <2>2 DEF y
<1> QED BY <1>6, <1>7, <1>13

-----------------------------------------------------------------------------
(* What the calls do to the list.                                          *)

\* s is the list of this state: linked, counted, and all that is allocated.
Listed(s) ==
  /\ LinkedBy(s, _head, _tail, item)
  /\ _count = Len(s) /\ live = ToSet(s)

ListShape == item \in [Nodes -> ListItems] /\ Listed(ChainOfThis)

SameValues(f, g) == \A x \in Nodes : g[x].value = f[x].value

\* The list is what is linked, whatever sequence that is.
LEMMA ListedIsChain ==
  ASSUME item \in [Nodes -> ListItems], NEW s, Listed(s)
  PROVE  ListShape /\ ChainOfThis = s
<1>1. Chain(item, _head) = s
  BY ChainFollows DEF Listed
<1> QED BY <1>1 DEF ListShape, ChainOfThis

\* The same of the next state.
LEMMA ListedIsChainNext ==
  ASSUME item' \in [Nodes -> ListItems], NEW s,
         LinkedBy(s, _head', _tail', item'), _count' = Len(s), live' = ToSet(s)
  PROVE  ListShape' /\ ChainOfThis' = s
<1>1. Chain(item', _head') = s
  BY ChainFollows
<1> QED BY <1>1 DEF ListShape, Listed, ChainOfThis

\* The links are consistent.
LEMMA ShapeIsConsistent ==
  ASSUME ListShape
  PROVE  LinksAreConsistent
<1>1. PICK s : s = ChainOfThis
  OBVIOUS
<1>2. LinkedBy(s, _head, _tail, item) /\ _count = Len(s) /\ live = ToSet(s)
  BY <1>1 DEF ListShape, Listed
<1>3. Cardinality(live) = _count
  BY <1>2, DistinctCount DEF LinkedBy
<1>4. DOMAIN s = 1 .. Len(s)
  BY <1>2 DEF LinkedBy
<1>5. \A n \in Nodes : item[n].value \in Values
  BY DEF ListShape, ListItems
<1>6. /\ _head = IF s = <<>> THEN Null ELSE s[1]
      /\ _tail = IF s = <<>> THEN Null ELSE s[Len(s)]
      /\ \A i \in DOMAIN s :
           /\ item[s[i]].prev = IF i = 1 THEN Null ELSE s[i - 1]
           /\ item[s[i]].next = IF i = Len(s) THEN Null ELSE s[i + 1]
  BY <1>2, <1>4 DEF LinkedBy
<1> QED BY <1>1, <1>2, <1>3, <1>5, <1>6 DEF LinksAreConsistent

\* What a list says of its places.
LEMMA ListPlaces ==
  ASSUME ListShape, NEW s, s = ChainOfThis
  PROVE  /\ s \in Seq(Nodes) /\ Len(s) \in Nat /\ DOMAIN s = 1 .. Len(s)
         /\ \A i, j \in 1 .. Len(s) : s[i] = s[j] => i = j
         /\ \A i \in 1 .. Len(s) : s[i] \in Nodes /\ s[i] \in live
         /\ \A x \in live : \E i \in 1 .. Len(s) : x = s[i]
         /\ live \subseteq Nodes
         /\ _head = IF Len(s) = 0 THEN Null ELSE s[1]
         /\ _tail = IF Len(s) = 0 THEN Null ELSE s[Len(s)]
         /\ _count = Len(s)
         /\ LinkedBy(s, _head, _tail, item)
         /\ \A i \in 1 .. Len(s) : item[s[i]].value \in Values
<1>1. LinkedBy(s, _head, _tail, item) /\ _count = Len(s) /\ live = ToSet(s)
  BY DEF ListShape, Listed
<1>2. /\ s \in Seq(Nodes) /\ \A i, j \in 1 .. Len(s) : s[i] = s[j] => i = j
  BY <1>1 DEF LinkedBy
<1>3. PICK n \in Nat : n = Len(s) /\ DOMAIN s = 1 .. n
  BY <1>2, LenProperties
<1>4. n = 0 <=> s = <<>>
  BY <1>2, <1>3, EmptySeq
<1>5. \A i \in 1 .. n : s[i] \in Nodes /\ s[i] \in live
  BY <1>1, <1>2, <1>3 DEF ToSet
<1>6. \A x \in live : \E i \in 1 .. n : x = s[i]
  BY <1>1, <1>3 DEF ToSet
<1>7. /\ _head = IF n = 0 THEN Null ELSE s[1]
      /\ _tail = IF n = 0 THEN Null ELSE s[n]
  BY <1>1, <1>3, <1>4 DEF LinkedBy
<1>8. \A i \in 1 .. n : item[s[i]].value \in Values
  BY <1>5 DEF ListShape, ListItems
<1>9. live \subseteq Nodes
  BY <1>5, <1>6
<1> QED BY <1>1, <1>2, <1>3, <1>5, <1>6, <1>7, <1>8, <1>9

\* The values in a well-formed list are those of its nodes, in order.
LEMMA ContentsAre ==
  ASSUME ListShape
  PROVE  Contents = [i \in DOMAIN ChainOfThis |-> item[ChainOfThis[i]].value]
<1>1. ChainOfThis \in Seq(Nodes)
  BY ListPlaces
<1> QED BY <1>1 DEF Contents

\* A pushed value comes first, in a node of its own.
LEMMA PushEffect ==
  ASSUME ListShape, NEW v \in Values, push(v)
  PROVE  /\ ListShape'
         /\ \E x \in Nodes \ live :
              /\ ChainOfThis' = <<x>> \o ChainOfThis
              /\ live' = live \cup {x}
              /\ \A y \in Nodes : item'[y].value = IF y = x THEN v ELSE item[y].value
<1>1. PICK s : s = ChainOfThis
  OBVIOUS
<1>2. PICK x \in Nodes \ live :
        /\ item' = SetPrev([item EXCEPT ![x] = [value |-> v, prev |-> Null, next |-> _head]], _head, x)
        /\ _head' = x
        /\ _tail' = IF _head = Null THEN x ELSE _tail
        /\ _count' = _count + 1
        /\ live' = live \cup {x}
  BY DEF push
<1>3. /\ LinkedBy(s, _head, _tail, item) /\ _count = Len(s) /\ live = ToSet(s)
      /\ item \in [Nodes -> ListItems] /\ s \in Seq(Nodes) /\ Len(s) \in Nat
  BY <1>1 DEF ListShape, Listed, LinkedBy
<1>4. /\ item' \in [Nodes -> ListItems]
      /\ \A y \in Nodes : item'[y].value = IF y = x THEN v ELSE item[y].value
      /\ LinkedBy(<<x>> \o s, x, IF _head = Null THEN x ELSE _tail, item')
  <2>1. x \in Nodes /\ x \notin ToSet(s)
    BY <1>2, <1>3
  <2>2. item' = PushedLinks(item, _head, x, v)
    BY <1>2 DEF PushedLinks
  <2>3. item \in [Nodes -> ListItems] /\ LinkedBy(s, _head, _tail, item)
    BY <1>3
  <2> QED BY <2>1, <2>2, <2>3, PrependKeepsLinks
<1>5. PICK r : r = <<x>> \o s
  OBVIOUS
<1>6. r \in Seq(Nodes) /\ Len(r) = Len(s) + 1 /\ ToSet(r) = ToSet(s) \cup {x}
  <2>1. PICK n \in Nat : n = Len(s)
    BY <1>3
  <2>2. <<x>> \in Seq(Nodes) /\ Len(<<x>>) = 1 /\ <<x>>[1] = x
    OBVIOUS
  <2>3. /\ r \in Seq(Nodes) /\ Len(r) = 1 + n
        /\ \A j \in 1 .. 1 + n : r[j] = IF j <= 1 THEN <<x>>[j] ELSE s[j - 1]
    BY <1>3, <1>5, <2>1, <2>2, ConcatProperties
  <2>4. \A y : y \in ToSet(s) <=> \E j \in 1 .. n : y = s[j]
    BY <1>3, <2>1 DEF ToSet
  <2>5. \A y : y \in ToSet(r) <=> \E j \in 1 .. 1 + n : y = r[j]
    <3>1. DOMAIN r = 1 .. 1 + n
      BY <2>3
    <3> QED BY <3>1 DEF ToSet
  <2>6. x \in ToSet(r)
    <3>1. 1 \in 1 .. 1 + n /\ r[1] = x
      BY <2>2, <2>3
    <3> QED BY <2>5, <3>1
  <2>7. ASSUME NEW j \in 1 .. n PROVE s[j] \in ToSet(r)
    <3>1. j + 1 \in 1 .. 1 + n /\ r[j + 1] = s[j]
      BY <2>3
    <3> QED BY <2>5, <3>1
  <2>8. ASSUME NEW j \in 1 .. 1 + n PROVE r[j] \in ToSet(s) \cup {x}
    <3>1. CASE j = 1
      BY <2>2, <2>3, <3>1
    <3>2. CASE j # 1
      <4>1. j - 1 \in 1 .. n /\ r[j] = s[j - 1]
        BY <2>3, <3>2
      <4> QED BY <2>4, <4>1
    <3> QED BY <3>1, <3>2
  <2> QED BY <2>1, <2>3, <2>4, <2>5, <2>6, <2>7, <2>8
<1>7. ListShape' /\ ChainOfThis' = r
  BY <1>2, <1>3, <1>4, <1>5, <1>6, ListedIsChainNext
<1> QED BY <1>1, <1>2, <1>4, <1>5, <1>7

\* A value pushed back comes last.
LEMMA PushBackEffect ==
  ASSUME ListShape, NEW v \in Values, push_back(v)
  PROVE  /\ ListShape'
         /\ \E x \in Nodes \ live :
              /\ ChainOfThis' = Append(ChainOfThis, x)
              /\ live' = live \cup {x}
              /\ \A y \in Nodes : item'[y].value = IF y = x THEN v ELSE item[y].value
<1>1. PICK s : s = ChainOfThis
  OBVIOUS
<1>2. PICK x \in Nodes \ live :
        /\ item' = SetNext([item EXCEPT ![x] = [value |-> v, prev |-> _tail, next |-> Null]], _tail, x)
        /\ _tail' = x
        /\ _head' = IF _tail = Null THEN x ELSE _head
        /\ _count' = _count + 1
        /\ live' = live \cup {x}
  BY DEF push_back
<1>3. /\ LinkedBy(s, _head, _tail, item) /\ _count = Len(s) /\ live = ToSet(s)
      /\ item \in [Nodes -> ListItems] /\ s \in Seq(Nodes) /\ Len(s) \in Nat
  BY <1>1 DEF ListShape, Listed, LinkedBy
<1>4. /\ item' \in [Nodes -> ListItems]
      /\ \A y \in Nodes : item'[y].value = IF y = x THEN v ELSE item[y].value
      /\ LinkedBy(Append(s, x), IF _tail = Null THEN x ELSE _head, x, item')
  <2>1. x \in Nodes /\ x \notin ToSet(s)
    BY <1>2, <1>3
  <2>2. item' = PushedBackLinks(item, _tail, x, v)
    BY <1>2 DEF PushedBackLinks
  <2>3. item \in [Nodes -> ListItems] /\ LinkedBy(s, _head, _tail, item)
    BY <1>3
  <2> QED BY <2>1, <2>2, <2>3, AppendKeepsLinks
<1>5. PICK r : r = Append(s, x)
  OBVIOUS
<1>6. r \in Seq(Nodes) /\ Len(r) = Len(s) + 1 /\ ToSet(r) = ToSet(s) \cup {x}
  <2>1. PICK n \in Nat : n = Len(s)
    BY <1>3
  <2>2. r \in Seq(Nodes) /\ Len(r) = n + 1 /\ r[n + 1] = x /\ \A j \in 1 .. n : r[j] = s[j]
    BY <1>3, <1>5, <2>1, AppendProperties
  <2>3. \A y : y \in ToSet(s) <=> \E j \in 1 .. n : y = s[j]
    BY <1>3, <2>1 DEF ToSet
  <2>4. \A y : y \in ToSet(r) <=> \E j \in 1 .. n + 1 : y = r[j]
    BY <2>2 DEF ToSet
  <2>5. \A j \in 1 .. n + 1 : j \in 1 .. n \/ j = n + 1
    OBVIOUS
  <2>6. n + 1 \in 1 .. n + 1 /\ \A j \in 1 .. n : j \in 1 .. n + 1
    OBVIOUS
  <2> QED BY <2>1, <2>2, <2>3, <2>4, <2>5, <2>6
<1>7. ListShape' /\ ChainOfThis' = r
  BY <1>2, <1>3, <1>4, <1>5, <1>6, ListedIsChainNext
<1> QED BY <1>1, <1>2, <1>4, <1>5, <1>7

\* What unlinking and deleting the node at i makes of the list.
LEMMA DropEffect ==
  ASSUME ListShape, NEW i \in 1 .. Len(ChainOfThis),
         NEW u, u = Unlink(Fields, ChainOfThis[i]),
         _head' = u.head, _tail' = u.tail, item' = u.item,
         _count' = _count - 1, live' = live \ {ChainOfThis[i]}
  PROVE  ListShape' /\ ChainOfThis' = Dropped(ChainOfThis, i) /\ SameValues(item, item')
<1>1. PICK s : s = ChainOfThis
  OBVIOUS
<1>2. /\ LinkedBy(s, _head, _tail, item) /\ _count = Len(s) /\ live = ToSet(s)
      /\ item \in [Nodes -> ListItems] /\ s \in Seq(Nodes)
      /\ \A j, k \in 1 .. Len(s) : s[j] = s[k] => j = k
  BY <1>1 DEF ListShape, Listed, LinkedBy
<1>3. i \in 1 .. Len(s) /\ u = Unlink(Fields, s[i])
      /\ Fields = [head |-> _head, tail |-> _tail, item |-> item]
  BY <1>1 DEF Fields
<1>4. /\ u.item \in [Nodes -> ListItems]
      /\ \A x \in Nodes : u.item[x].value = item[x].value
      /\ LinkedBy(Dropped(s, i), u.head, u.tail, u.item)
  BY <1>2, <1>3, UnlinkKeeps, SMTT(30)
<1>5. ToSet(Dropped(s, i)) = ToSet(s) \ {s[i]} /\ Len(Dropped(s, i)) = Len(s) - 1
  BY <1>2, <1>3, DroppedNodes, DroppedIsSeq
<1>6. ListShape' /\ ChainOfThis' = Dropped(s, i)
  <2>1. _count' = Len(Dropped(s, i)) /\ live' = ToSet(Dropped(s, i))
    BY <1>1, <1>2, <1>5
  <2> QED BY <1>4, <2>1, ListedIsChainNext
<1> QED BY <1>1, <1>4, <1>6 DEF SameValues

\* pop takes the first node away.
LEMMA PopEffect ==
  ASSUME ListShape, pop
  PROVE  /\ ListShape' /\ SameValues(item, item') /\ 1 \in 1 .. Len(ChainOfThis)
         /\ ChainOfThis' = Dropped(ChainOfThis, 1)
         /\ result' = item[ChainOfThis[1]].value
<1>1. PICK s : s = ChainOfThis
  OBVIOUS
<1>2. PICK n \in Nat : n = Len(s)
  BY <1>1, ListPlaces
<1>3. /\ _head = IF n = 0 THEN Null ELSE s[1]
      /\ _tail = IF n = 0 THEN Null ELSE s[n]
      /\ _count = n /\ LinkedBy(s, _head, _tail, item)
      /\ item \in [Nodes -> ListItems]
      /\ \A j \in 1 .. n : s[j] \in Nodes
  <2>1. item \in [Nodes -> ListItems]
    BY DEF ListShape
  <2> QED BY <1>1, <1>2, <2>1, ListPlaces
<1>4. n # 0 /\ 1 \in 1 .. n /\ _head = s[1]
  BY <1>2, <1>3 DEF pop
<1>5. /\ item[s[1]].prev = Null
      /\ item[s[1]].next = IF n = 1 THEN Null ELSE s[2]
  BY <1>2, <1>3, <1>4 DEF LinkedBy
<1>6. PICK x \in Nodes \cup {Null} : x = item[s[1]].next
  BY <1>3, <1>4 DEF ListItems
<1>7. PICK u : u = Unlink(Fields, s[1])
  OBVIOUS
<1>8. u = [head |-> x, tail |-> IF x = Null THEN Null ELSE _tail,
           item |-> SetPrev(item, x, Null)]
  <2>1. SetNext(item, Null, x) = item
    BY <1>3, NullHasNoLinks
  <2> QED BY <1>5, <1>6, <1>7, <2>1 DEF Unlink, Fields
<1>9. _head' = u.head /\ _tail' = u.tail /\ item' = u.item
  <2>1. CASE n = 1
    <3>1. x = Null /\ SetPrev(item, x, Null) = item
      BY <1>3, <1>5, <1>6, <2>1, NullHasNoLinks
    <3> QED BY <1>3, <1>8, <2>1, <3>1 DEF pop
  <2>2. CASE n # 1
    <3>1. n > 1 /\ x = s[2] /\ 2 \in 1 .. n
      BY <1>4, <1>5, <1>6, <2>2
    <3>2. x # Null
      BY <1>3, <3>1, LinkedListAssumption
    <3>3. _head' = x /\ item' = SetPrev(item, x, Null) /\ _tail' = _tail
      <4>1. _count # 1
        BY <1>3, <3>1
      <4>2. item[_head].next = x
        BY <1>4, <1>6
      <4> QED BY <4>1, <4>2 DEF pop
    <3> QED BY <1>8, <3>2, <3>3
  <2> QED BY <2>1, <2>2
<1>10. _count' = _count - 1 /\ live' = live \ {s[1]} /\ result' = item[s[1]].value
  BY <1>4 DEF pop, Delete, Answers
<1> QED BY <1>1, <1>2, <1>4, <1>7, <1>9, <1>10, DropEffect

\* pop_back takes the last node away.
LEMMA PopBackEffect ==
  ASSUME ListShape, pop_back
  PROVE  /\ ListShape' /\ SameValues(item, item')
         /\ Len(ChainOfThis) \in 1 .. Len(ChainOfThis)
         /\ ChainOfThis' = Dropped(ChainOfThis, Len(ChainOfThis))
         /\ result' = item[ChainOfThis[Len(ChainOfThis)]].value
<1>1. PICK s : s = ChainOfThis
  OBVIOUS
<1>2. PICK n \in Nat : n = Len(s)
  BY <1>1, ListPlaces
<1>3. /\ _head = IF n = 0 THEN Null ELSE s[1]
      /\ _tail = IF n = 0 THEN Null ELSE s[n]
      /\ _count = n /\ LinkedBy(s, _head, _tail, item)
      /\ item \in [Nodes -> ListItems]
      /\ \A j \in 1 .. n : s[j] \in Nodes
  <2>1. item \in [Nodes -> ListItems]
    BY DEF ListShape
  <2> QED BY <1>1, <1>2, <2>1, ListPlaces
<1>4. n # 0 /\ n \in 1 .. n /\ _tail = s[n]
  BY <1>2, <1>3 DEF pop_back
<1>5. /\ item[s[n]].next = Null
      /\ item[s[n]].prev = IF n = 1 THEN Null ELSE s[n - 1]
  BY <1>2, <1>3, <1>4 DEF LinkedBy
<1>6. PICK p \in Nodes \cup {Null} : p = item[s[n]].prev
  BY <1>3, <1>4 DEF ListItems
<1>7. PICK u : u = Unlink(Fields, s[n])
  OBVIOUS
<1>8. u = [head |-> IF p = Null THEN Null ELSE _head, tail |-> p,
           item |-> SetNext(item, p, Null)]
  <2>1. SetPrev(SetNext(item, p, Null), Null, p) = SetNext(item, p, Null)
    <3>1. OnlyNext(item, p, Null, SetNext(item, p, Null))
      BY <1>3, SetNextLinks
    <3> QED BY <3>1, NullHasNoLinks DEF OnlyNext
  <2> QED BY <1>5, <1>6, <1>7, <2>1 DEF Unlink, Fields
<1>9. _head' = u.head /\ _tail' = u.tail /\ item' = u.item
  <2>1. CASE n = 1
    <3>1. p = Null /\ SetNext(item, p, Null) = item
      BY <1>3, <1>5, <1>6, <2>1, NullHasNoLinks
    <3> QED BY <1>3, <1>8, <2>1, <3>1 DEF pop_back
  <2>2. CASE n # 1
    <3>1. n > 1 /\ p = s[n - 1] /\ n - 1 \in 1 .. n
      BY <1>4, <1>5, <1>6, <2>2
    <3>2. p # Null
      BY <1>3, <3>1, LinkedListAssumption
    <3>3. _tail' = p /\ item' = SetNext(item, p, Null) /\ _head' = _head
      <4>1. _count # 1
        BY <1>3, <3>1
      <4>2. item[_tail].prev = p
        BY <1>4, <1>6
      <4> QED BY <4>1, <4>2 DEF pop_back
    <3> QED BY <1>8, <3>2, <3>3
  <2> QED BY <2>1, <2>2
<1>10. _count' = _count - 1 /\ live' = live \ {s[n]} /\ result' = item[s[n]].value
  BY <1>4 DEF pop_back, Delete, Answers
<1> QED BY <1>1, <1>2, <1>4, <1>7, <1>9, <1>10, DropEffect

\* Only the links of the nodes matter to how they are linked.
LEMMA LinksOnly ==
  ASSUME NEW f, NEW g, NEW s, NEW h, NEW t, LinkedBy(s, h, t, f),
         \A y \in Nodes : g[y].prev = f[y].prev /\ g[y].next = f[y].next
  PROVE  LinkedBy(s, h, t, g)
<1>1. \A j \in 1 .. Len(s) : s[j] \in Nodes
  BY DEF LinkedBy
<1> QED BY <1>1 DEF LinkedBy

\* peek_and_pushback moves the first node to the end.
LEMMA RotateEffect ==
  ASSUME ListShape, peek_and_pushback
  PROVE  /\ ListShape' /\ SameValues(item, item') /\ 1 \in 1 .. Len(ChainOfThis)
         /\ live' = live
         /\ ChainOfThis' = Append(Dropped(ChainOfThis, 1), ChainOfThis[1])
         /\ result' = item[ChainOfThis[1]].value
<1>1. PICK s : s = ChainOfThis
  OBVIOUS
<1>2. PICK n \in Nat : n = Len(s)
  BY <1>1, ListPlaces
<1>3. /\ _head = IF n = 0 THEN Null ELSE s[1]
      /\ _tail = IF n = 0 THEN Null ELSE s[n]
      /\ _count = n /\ LinkedBy(s, _head, _tail, item)
      /\ s \in Seq(Nodes) /\ live = ToSet(s)
      /\ item \in [Nodes -> ListItems]
      /\ \A j \in 1 .. n : s[j] \in Nodes
      /\ \A j, k \in 1 .. n : s[j] = s[k] => j = k
  <2>1. item \in [Nodes -> ListItems] /\ live = ToSet(s)
    BY <1>1 DEF ListShape, Listed
  <2> QED BY <1>1, <1>2, <2>1, ListPlaces
<1>4. n # 0 /\ 1 \in 1 .. n /\ n \in 1 .. n /\ _head = s[1] /\ _tail = s[n]
  BY <1>2, <1>3 DEF peek_and_pushback
<1>5. result' = item[s[1]].value
  BY <1>4 DEF peek_and_pushback, Answers
<1>6. PICK d \in Seq(Nodes) : /\ d = Dropped(s, 1) /\ Len(d) = n - 1
                              /\ ToSet(d) = ToSet(s) \ {s[1]}
                              /\ \A j \in 1 .. n - 1 : d[j] = s[j + 1]
  <2>1. /\ Dropped(s, 1) \in Seq(Nodes) /\ Len(Dropped(s, 1)) = n - 1
        /\ \A j \in 1 .. n - 1 : Dropped(s, 1)[j] = IF j < 1 THEN s[j] ELSE s[j + 1]
    BY <1>2, <1>3, <1>4, DroppedIsSeq
  <2>2. ToSet(Dropped(s, 1)) = ToSet(s) \ {s[1]}
    BY <1>2, <1>3, <1>4, DroppedNodes
  <2>3. \A j \in 1 .. n - 1 : ~(j < 1)
    OBVIOUS
  <2> QED BY <2>1, <2>2, <2>3
<1>7. PICK r \in Seq(Nodes) : r = Append(d, s[1]) /\ Len(r) = n /\ ToSet(r) = ToSet(s)
  <2>1. PICK r \in Seq(Nodes) : /\ r = Append(d, s[1]) /\ Len(r) = n /\ r[n] = s[1]
                                /\ \A j \in 1 .. n - 1 : r[j] = d[j]
    <3>1. s[1] \in Nodes /\ (n - 1) + 1 = n
      BY <1>3, <1>4
    <3>2. /\ Append(d, s[1]) \in Seq(Nodes) /\ Len(Append(d, s[1])) = Len(d) + 1
          /\ \A j \in 1 .. Len(d) : Append(d, s[1])[j] = d[j]
          /\ Append(d, s[1])[Len(d) + 1] = s[1]
      BY <1>6, <3>1, AppendProperties
    <3> QED BY <1>6, <3>1, <3>2
  <2>2. \A y : y \in ToSet(d) <=> \E j \in 1 .. n - 1 : y = d[j]
    BY <1>6 DEF ToSet
  <2>3. DOMAIN r = 1 .. n
    BY <2>1
  <2>4. \A y : y \in ToSet(r) <=> \E j \in 1 .. n : y = r[j]
    BY <2>3 DEF ToSet
  <2>5. \A j \in 1 .. n : j \in 1 .. n - 1 \/ j = n
    OBVIOUS
  <2>6. \A j \in 1 .. n - 1 : j \in 1 .. n
    OBVIOUS
  <2>7. ToSet(r) = ToSet(d) \cup {s[1]}
    BY <1>4, <2>1, <2>2, <2>4, <2>5, <2>6
  <2>8. s[1] \in ToSet(s)
    BY <1>2, <1>3, <1>4 DEF ToSet
  <2> QED BY <1>6, <2>1, <2>7, <2>8
<1>8. CASE n = 1
  <2>1. UNCHANGED fields
    BY <1>3, <1>8 DEF peek_and_pushback
  <2>2. r = s
    <3>1. d = <<>>
      BY <1>6, <1>8, EmptySeq
    <3>2. r = <<s[1]>>
      BY <1>7, <3>1
    <3>3. s = <<s[1]>>
      <4>1. \A j \in 1 .. 1 : j = 1
        OBVIOUS
      <4>2. s[1] \in Nodes
        BY <1>3, <1>4
      <4>3. <<s[1]>> \in Seq(Nodes) /\ Len(<<s[1]>>) = 1 /\ <<s[1]>>[1] = s[1]
        BY <4>2
      <4> QED BY <1>2, <1>3, <1>8, <4>1, <4>3, SeqEqual
    <3> QED BY <3>2, <3>3
  <2>3. /\ _head' = _head /\ _tail' = _tail /\ _count' = _count /\ item' = item /\ live' = live
    BY <2>1 DEF fields
  <2>4. ListShape' /\ ChainOfThis' = s
    BY <1>2, <1>3, <2>3, ListedIsChainNext
  <2> QED BY <1>1, <1>4, <1>2, <1>5, <1>6, <1>7, <2>2, <2>3, <2>4 DEF SameValues
<1>9. CASE n # 1
  <2>1. n > 1 /\ 2 \in 1 .. n /\ s[1] # s[n] /\ s[2] \in Nodes
    BY <1>3, <1>4, <1>9
  <2>2. item[s[1]].next = s[2] /\ item[s[1]].prev = Null
    BY <1>2, <1>3, <1>4, <1>9 DEF LinkedBy
  <2>3. PICK g : g = SetPrev(item, s[2], Null) /\ OnlyPrev(item, s[2], Null, g)
    BY <1>3, <2>1, SetPrevLinks
  <2>4. LinkedBy(d, s[2], s[n], g)
    <3>1. PICK u : u = Unlink(Fields, s[1])
      OBVIOUS
    <3>2. Fields = [head |-> _head, tail |-> _tail, item |-> item]
      BY DEF Fields
    <3>3. LinkedBy(Dropped(s, 1), u.head, u.tail, u.item)
      <4>1. 1 \in 1 .. Len(s)
        BY <1>2, <1>4
      <4> QED BY <1>3, <3>1, <3>2, <4>1, UnlinkKeeps
    <3>4. u = [head |-> s[2], tail |-> _tail, item |-> g]
      <4>1. SetNext(item, Null, s[2]) = item
        BY <1>3, NullHasNoLinks
      <4>2. s[2] # Null
        BY <2>1, LinkedListAssumption
      <4> QED BY <2>2, <2>3, <3>1, <3>2, <4>1, <4>2 DEF Unlink
    <3>5. u.head = s[2] /\ u.tail = s[n] /\ u.item = g
      BY <1>4, <3>4
    <3> QED BY <1>6, <3>3, <3>5
  <2>5. PICK v \in Values : v = item[s[1]].value
    BY <1>3, <1>4 DEF ListItems
  <2>6. PICK e : e = PushedBackLinks(g, s[n], s[1], v)
    OBVIOUS
  <2>7. /\ e \in [Nodes -> ListItems]
        /\ \A y \in Nodes : e[y].value = IF y = s[1] THEN v ELSE g[y].value
        /\ LinkedBy(r, s[2], s[1], e)
    <3>1. s[1] \in Nodes /\ s[1] \notin ToSet(d) /\ g \in [Nodes -> ListItems]
      BY <1>3, <1>4, <1>6, <2>3 DEF OnlyPrev
    <3>2. s[n] # Null
      BY <1>3, <1>4, LinkedListAssumption
    <3>3. /\ e \in [Nodes -> ListItems]
          /\ \A y \in Nodes : e[y].value = IF y = s[1] THEN v ELSE g[y].value
          /\ LinkedBy(Append(d, s[1]), IF s[n] = Null THEN s[1] ELSE s[2], s[1], e)
      BY <2>4, <2>6, <3>1, AppendKeepsLinks
    <3> QED BY <1>7, <3>2, <3>3
  <2>8. PICK c : c = SetNext(g, s[1], Null) /\ OnlyNext(g, s[1], Null, c)
    <3>1. g \in [Nodes -> ListItems] /\ s[1] \in Nodes
      BY <1>3, <1>4, <2>3 DEF OnlyPrev
    <3> QED BY <3>1, SetNextLinks
  <2>9. PICK b : b = SetNext(c, s[n], s[1]) /\ OnlyNext(c, s[n], s[1], b)
    <3>1. c \in [Nodes -> ListItems] /\ s[1] \in Nodes /\ s[n] \in Nodes
      BY <1>3, <1>4, <2>8 DEF OnlyNext
    <3> QED BY <3>1, SetNextLinks
  <2>10. PICK a : a = SetPrev(b, s[1], s[n]) /\ OnlyPrev(b, s[1], s[n], a)
    <3>1. b \in [Nodes -> ListItems] /\ s[1] \in Nodes /\ s[n] \in Nodes
      BY <1>3, <1>4, <2>9 DEF OnlyNext
    <3> QED BY <3>1, SetPrevLinks
  <2>11. /\ item' = a /\ _head' = s[2] /\ _tail' = s[1] /\ _count' = _count /\ live' = live
    <3>1. _count # 1 /\ item[_head].next = s[2]
      BY <1>3, <1>4, <1>9, <2>2
    <3> QED BY <1>4, <2>3, <2>8, <2>9, <2>10, <3>1 DEF peek_and_pushback
  <2>12. ASSUME NEW y \in Nodes
         PROVE  a[y].value = item[y].value /\ a[y].prev = e[y].prev /\ a[y].next = e[y].next
    <3>1. /\ a[y].value = b[y].value /\ a[y].next = b[y].next
          /\ a[y].prev = IF y = s[1] THEN s[n] ELSE b[y].prev
      BY <2>10 DEF OnlyPrev
    <3>2. /\ b[y].value = c[y].value /\ b[y].prev = c[y].prev
          /\ b[y].next = IF y = s[n] THEN s[1] ELSE c[y].next
      BY <2>9 DEF OnlyNext
    <3>3. /\ c[y].value = g[y].value /\ c[y].prev = g[y].prev
          /\ c[y].next = IF y = s[1] THEN Null ELSE g[y].next
      BY <2>8 DEF OnlyNext
    <3>4. g[y].value = item[y].value
      BY <2>3 DEF OnlyPrev
    <3>5. PICK q : /\ q = [g EXCEPT ![s[1]] = [value |-> v, prev |-> s[n], next |-> Null]]
                   /\ e = SetNext(q, s[n], s[1])
      BY <2>6 DEF PushedBackLinks
    <3>6. PICK w \in ListItems : /\ w = [value |-> v, prev |-> s[n], next |-> Null]
                                 /\ w.prev = s[n] /\ w.next = Null
      <4>1. v \in Values /\ s[n] \in Nodes \cup {Null} /\ Null \in Nodes \cup {Null}
        BY <1>3, <1>4
      <4>2. [value |-> v, prev |-> s[n], next |-> Null] \in ListItems
        BY <4>1 DEF ListItems
      <4> QED BY <4>2
    <3>7. q \in [Nodes -> ListItems] /\ q[y] = IF y = s[1] THEN w ELSE g[y]
      <4>1. g \in [Nodes -> ListItems] /\ q = [g EXCEPT ![s[1]] = w]
        BY <2>3, <3>5, <3>6 DEF OnlyPrev
      <4> QED BY <4>1
    <3>8. OnlyNext(q, s[n], s[1], e)
      <4>1. s[1] \in Nodes /\ s[n] \in Nodes
        BY <1>3, <1>4
      <4> QED BY <3>5, <3>7, <4>1, SetNextLinks
    <3>9. e[y].prev = q[y].prev /\ e[y].next = IF y = s[n] THEN s[1] ELSE q[y].next
      BY <3>8 DEF OnlyNext
    <3>10. a[y].prev = e[y].prev
      BY <3>1, <3>2, <3>3, <3>6, <3>7, <3>9
    <3>11. a[y].next = e[y].next
      BY <2>1, <3>1, <3>2, <3>3, <3>6, <3>7, <3>9
    <3> QED BY <3>1, <3>2, <3>3, <3>4, <3>10, <3>11
  <2>13. a \in [Nodes -> ListItems]
    BY <2>10 DEF OnlyPrev
  <2>14. LinkedBy(r, s[2], s[1], a)
    <3>1. LinkedBy(r, s[2], s[1], e)
      BY <2>7
    <3>2. \A y \in Nodes : a[y].prev = e[y].prev /\ a[y].next = e[y].next
      BY <2>12
    <3> QED BY <3>1, <3>2, LinksOnly
  <2>15. ListShape' /\ ChainOfThis' = r
    BY <1>3, <1>7, <2>11, <2>13, <2>14, ListedIsChainNext
  <2> QED BY <1>1, <1>2, <1>4, <1>5, <1>6, <1>7, <2>11, <2>12, <2>15 DEF SameValues
<1> QED BY <1>8, <1>9

\* Calls that leave the fields alone leave the list.
LEMMA FieldsKeep ==
  ASSUME ListShape, UNCHANGED fields
  PROVE  ListShape' /\ ChainOfThis' = ChainOfThis /\ SameValues(item, item') /\ live' = live
<1>1. _head' = _head /\ _tail' = _tail /\ _count' = _count /\ item' = item /\ live' = live
  BY DEF fields
<1>2. LinkedBy(ChainOfThis, _head', _tail', item') /\ _count' = Len(ChainOfThis) /\ live' = ToSet(ChainOfThis)
  BY <1>1 DEF ListShape, Listed
<1>3. item' \in [Nodes -> ListItems]
  BY <1>1 DEF ListShape
<1>4. ListShape' /\ ChainOfThis' = ChainOfThis
  BY <1>2, <1>3, ListedIsChainNext
<1> QED BY <1>1, <1>4 DEF SameValues

\* clear leaves nothing.
LEMMA ClearEffect ==
  ASSUME ListShape, clear
  PROVE  ListShape' /\ ChainOfThis' = <<>> /\ live' = {}
<1>1. /\ _head' = Null /\ _tail' = Null /\ _count' = 0 /\ item' = item
      /\ live' = live \ ToSet(ChainOfThis)
  BY DEF clear, Delete
<1>2. live' = {} /\ item' \in [Nodes -> ListItems]
  BY <1>1 DEF ListShape, Listed
<1>3. LinkedBy(<<>>, Null, Null, item)
  <2>1. <<>> \in Seq(Nodes) /\ Len(<<>>) = 0
    BY EmptySeq
  <2> QED BY <2>1 DEF LinkedBy
<1>4. Len(<<>>) = 0 /\ ToSet(<<>>) = {}
  BY DEF ToSet
<1>5. LinkedBy(<<>>, _head', _tail', item') /\ _count' = Len(<<>>) /\ live' = ToSet(<<>>)
  BY <1>1, <1>2, <1>3, <1>4
<1>6. ListShape' /\ ChainOfThis' = <<>>
  BY <1>2, <1>5, ListedIsChainNext
<1> QED BY <1>2, <1>6

\* The least place that holds the value is unlinked.
LEMMA RemoveEffect ==
  ASSUME ListShape, NEW v, remove(v), Matches(v) # {}
  PROVE  \E i \in Matches(v) :
           /\ \A j \in Matches(v) : i <= j
           /\ ListShape' /\ SameValues(item, item')
           /\ ChainOfThis' = Dropped(ChainOfThis, i)
           /\ live' = live \ {ChainOfThis[i]}
           /\ old' = old \ {ChainOfThis[i]} /\ seen' = seen \ {ChainOfThis[i]}
<1>1. PICK s : s = ChainOfThis
  OBVIOUS
<1>2. PICK n \in Nat : n = Len(s) /\ DOMAIN s = 1 .. n
  BY <1>1, ListPlaces
<1>3. Matches(v) \in SUBSET Nat /\ Matches(v) \subseteq 1 .. n
  BY <1>1, <1>2 DEF Matches
<1>4. PICK i \in Matches(v) : i = Min(Matches(v)) /\ \A j \in Matches(v) : i <= j
  BY <1>3, MinIsLeast
<1>5. /\ Becomes(Unlink(Fields, s[i])) /\ Delete({s[i]}) /\ _count' = _count - 1
  BY <1>1, <1>4 DEF remove
<1>6. i \in 1 .. Len(ChainOfThis)
  BY <1>1, <1>2, <1>3, <1>4
<1>7. PICK u : u = Unlink(Fields, s[i])
  OBVIOUS
<1>8. /\ _head' = u.head /\ _tail' = u.tail /\ item' = u.item
      /\ live' = live \ {s[i]} /\ old' = old \ {s[i]} /\ seen' = seen \ {s[i]}
  BY <1>5, <1>7 DEF Becomes, Delete
<1>9. ListShape' /\ ChainOfThis' = Dropped(s, i) /\ SameValues(item, item')
  BY <1>1, <1>5, <1>6, <1>7, <1>8, DropEffect
<1> QED BY <1>1, <1>4, <1>8, <1>9

\* sort leaves the nodes where they are.
LEMMA SortEffect ==
  ASSUME ListShape, sort,
         NEW values, values = Passes([i \in DOMAIN ChainOfThis |-> item[ChainOfThis[i]].value]),
         values \in [1 .. Len(ChainOfThis) -> Values]
  PROVE  /\ ListShape' /\ ChainOfThis' = ChainOfThis /\ live' = live
         /\ \A i \in 1 .. Len(ChainOfThis) : item'[ChainOfThis[i]].value = values[i]
<1>1. PICK s : s = ChainOfThis
  OBVIOUS
<1>2. PICK n \in Nat : n = Len(s) /\ DOMAIN s = 1 .. n
  BY <1>1, ListPlaces
<1>3. /\ \A i \in 1 .. n : s[i] \in Nodes
      /\ \A i, j \in 1 .. n : s[i] = s[j] => i = j
      /\ LinkedBy(s, _head, _tail, item)
  <2>1. /\ \A i \in 1 .. Len(s) : s[i] \in Nodes
        /\ \A i, j \in 1 .. Len(s) : s[i] = s[j] => i = j
        /\ LinkedBy(s, _head, _tail, item)
    BY <1>1, ListPlaces
  <2> QED BY <1>2, <2>1
<1>4. /\ item \in [Nodes -> ListItems] /\ _count = Len(s) /\ live = ToSet(s)
  BY <1>1 DEF ListShape, Listed
<1> DEFINE Place(x) == CHOOSE i \in 1 .. n : s[i] = x
           Held(x) == \E i \in 1 .. n : s[i] = x
<1>5. /\ item' = [x \in Nodes |-> IF Held(x) THEN [item[x] EXCEPT !.value = values[Place(x)]] ELSE item[x]]
      /\ _head' = _head /\ _tail' = _tail /\ _count' = _count /\ live' = live
  BY <1>1, <1>2 DEF sort
<1>6. \A x : Held(x) => Place(x) \in 1 .. n /\ s[Place(x)] = x
  OBVIOUS
<1> HIDE DEF Place, Held
<1>7. ASSUME NEW x \in Nodes
      PROVE  /\ item'[x] \in ListItems
             /\ item'[x].prev = item[x].prev /\ item'[x].next = item[x].next
             /\ Held(x) => item'[x].value = values[Place(x)]
  <2>1. item[x] \in ListItems
    BY <1>4
  <2>2. CASE Held(x)
    <3>1. PICK w \in Values : w = values[Place(x)]
      BY <1>1, <1>2, <1>6, <2>2
    <3>2. item'[x] = [item[x] EXCEPT !.value = w]
      BY <1>5, <2>2, <3>1
    <3> QED BY <2>1, <3>1, <3>2 DEF ListItems
  <2>3. CASE ~Held(x)
    <3>1. item'[x] = item[x]
      BY <1>5, <2>3
    <3> QED BY <2>1, <2>3, <3>1
  <2> QED BY <2>2, <2>3
<1>8. item' \in [Nodes -> ListItems]
  <2>1. DOMAIN item' = Nodes /\ item' = [x \in Nodes |-> item'[x]]
    BY <1>5
  <2> QED BY <1>7, <2>1
<1>9. LinkedBy(s, _head, _tail, item')
  BY <1>3, <1>7, LinksOnly
<1>10. ListShape' /\ ChainOfThis' = s
  BY <1>4, <1>5, <1>8, <1>9, ListedIsChainNext
<1>11. ASSUME NEW i \in 1 .. n PROVE item'[s[i]].value = values[i]
  <2>1. Held(s[i]) /\ s[i] \in Nodes
    BY <1>3 DEF Held
  <2>2. Place(s[i]) = i
    BY <1>3, <1>6, <2>1
  <2> QED BY <1>7, <2>1, <2>2
<1> QED BY <1>1, <1>2, <1>5, <1>10, <1>11

\* The elements of a sequence that are not v, place by place.
LEMMA WithoutSteps ==
  ASSUME NEW c \in Seq(Values), NEW v
  PROVE  \E kept \in [0 .. Len(c) -> Seq(Values)] :
           /\ Abstract!Without(c, v) = kept[Len(c)] /\ kept[0] = <<>>
           /\ \A i \in 1 .. Len(c) :
                kept[i] = IF c[i] # v THEN Append(kept[i - 1], c[i]) ELSE kept[i - 1]
<1> DEFINE N == Len(c)
           Step(i, f) == IF c[i] # v THEN Append(f[i - 1], c[i]) ELSE f[i - 1]
           Filters(f) == f = [i \in 0 .. N |-> IF i = 0 THEN <<>> ELSE Step(i, f)]
           kept == CHOOSE f : Filters(f)
           G == [x \in (1 .. N) \X Seq(Values) |->
                   IF c[x[1]] # v THEN Append(x[2], c[x[1]]) ELSE x[2]]
<1>1. N \in Nat /\ DOMAIN c = 1 .. N /\ \A i \in 1 .. N : c[i] \in Values
  OBVIOUS
<1>2. Abstract!Without(c, v) = kept[N]
  BY DEF Abstract!Without
<1>3. G \in [(1 .. N) \X Seq(Values) -> Seq(Values)]
  BY <1>1
<1>4. PICK g \in [0 .. N -> Seq(Values)] : g[0] = <<>> /\ \A i \in 1 .. N : g[i] = G[<<i, g[i - 1]>>]
  <2>1. <<>> \in Seq(Values)
    OBVIOUS
  <2>2. G \in StepFunctions(N, Seq(Values)) /\ N \in Nat
    BY <1>1, <1>3 DEF StepFunctions
  <2> HIDE DEF G, N
  <2>3. \E f : Recursive(f, N, Seq(Values), <<>>, G)
    BY <2>1, <2>2, RecursionUpTo
  <2> QED BY <2>3 DEF Recursive
<1>5. Filters(g)
  <2>1. \A i \in 1 .. N : i - 1 \in 0 .. N
    BY <1>1
  <2>2. \A i \in 1 .. N : g[i] = Step(i, g)
    BY <1>4, <2>1
  <2>3. \A i \in 0 .. N : i = 0 \/ i \in 1 .. N
    BY <1>1
  <2>4. \A i \in 0 .. N : g[i] = IF i = 0 THEN <<>> ELSE Step(i, g)
    BY <1>4, <2>2, <2>3
  <2> HIDE DEF Step
  <2> QED BY <2>4
<1>6. Filters(kept)
  <2> HIDE DEF Filters
  <2> QED BY <1>5
<1>7. /\ kept[0] = <<>> /\ \A i \in 1 .. N : kept[i] = Step(i, kept)
      /\ DOMAIN kept = 0 .. N
  <2>1. kept = [i \in 0 .. N |-> IF i = 0 THEN <<>> ELSE Step(i, kept)]
    <3> HIDE DEF kept, Step
    <3> QED BY <1>6
  <2>2. 0 \in 0 .. N /\ \A i \in 1 .. N : i \in 0 .. N /\ i # 0
    BY <1>1
  <2> HIDE DEF kept, Step, N
  <2> QED BY <2>1, <2>2
<1> HIDE DEF kept
<1> DEFINE Good == {n \in 0 .. N : kept[n] \in Seq(Values)}
<1>8. 0 \in Good
  <2>1. <<>> \in Seq(Values) /\ 0 \in 0 .. N
    BY <1>1
  <2> QED BY <1>7, <2>1
<1>9. ASSUME NEW n \in 1 .. N, n - 1 \in Good PROVE n \in Good
  <2>1. kept[n - 1] \in Seq(Values) /\ c[n] \in Values /\ n \in 0 .. N
    BY <1>1, <1>9
  <2>2. kept[n] = IF c[n] # v THEN Append(kept[n - 1], c[n]) ELSE kept[n - 1]
    BY <1>7
  <2>3. Append(kept[n - 1], c[n]) \in Seq(Values)
    BY <2>1
  <2> QED BY <2>1, <2>2, <2>3
<1>10. 0 .. N \subseteq Good
  <2> HIDE DEF Good, N
  <2> QED BY <1>1, <1>8, <1>9, InductionUpTo
<1>11. kept \in [0 .. N -> Seq(Values)]
  <2>1. \A n \in 0 .. N : kept[n] \in Seq(Values)
    BY <1>10
  <2>2. kept = [n \in 0 .. N |-> kept[n]]
    <3>1. kept = [i \in 0 .. N |-> IF i = 0 THEN <<>> ELSE Step(i, kept)]
      <4> HIDE DEF Step
      <4> QED BY <1>6 DEF kept
    <3> HIDE DEF Step
    <3> QED BY <3>1
  <2> QED BY <2>1, <2>2
<1> QED BY <1>2, <1>7, <1>11

\* The fields as Unlink takes and returns them.
ListFields == [head : Nodes \cup {Null}, tail : Nodes \cup {Null}, item : [Nodes -> ListItems]]

\* Unlink returns fields of the types it takes.
LEMMA UnlinkTyped ==
  ASSUME NEW l \in ListFields, NEW n \in Nodes
  PROVE  Unlink(l, n) \in ListFields
<1>1. PICK f \in [Nodes -> ListItems] : f = l.item
  BY DEF ListFields
<1>2. PICK p \in Nodes \cup {Null} : p = f[n].prev
  BY DEF ListItems
<1>3. PICK x \in Nodes \cup {Null} : x = f[n].next
  BY DEF ListItems
<1>4. PICK e \in [Nodes -> ListItems] : e = SetNext(f, p, x)
  BY SetNextLinks DEF OnlyNext
<1>5. PICK g \in [Nodes -> ListItems] : g = SetPrev(e, x, p)
  BY SetPrevLinks DEF OnlyPrev
<1>6. Unlink(l, n) = [head |-> IF p = Null THEN x ELSE l.head,
                      tail |-> IF x = Null THEN p ELSE l.tail, item |-> g]
  BY <1>1, <1>2, <1>3, <1>4, <1>5 DEF Unlink
<1>7. l.head \in Nodes \cup {Null} /\ l.tail \in Nodes \cup {Null}
  BY DEF ListFields
<1>8. PICK h \in Nodes \cup {Null} : h = IF p = Null THEN x ELSE l.head
  BY <1>7
<1>9. PICK t \in Nodes \cup {Null} : t = IF x = Null THEN p ELSE l.tail
  BY <1>7
<1>10. [head |-> h, tail |-> t, item |-> g] \in ListFields
  BY DEF ListFields
<1> QED BY <1>6, <1>8, <1>9, <1>10

\* The fields after each turn of the loop of remove_all over s.
Unlinking(s, M, after) ==
  /\ after \in [0 .. Len(s) -> ListFields] /\ after[0] = Fields
  /\ \A i \in 1 .. Len(s) :
       after[i] = IF i \in M THEN Unlink(after[i - 1], s[i]) ELSE after[i - 1]

\* The loop of remove_all goes one node at a time.
LEMMA UnlinkedSteps ==
  ASSUME ListShape, NEW M
  PROVE  \E after : Unlinking(ChainOfThis, M, after) /\ Unlinked(M) = after[Len(ChainOfThis)]
<1> DEFINE s == ChainOfThis
           N == Len(s)
           Step(i, f) == IF i \in M THEN Unlink(f[i - 1], s[i]) ELSE f[i - 1]
           Walk(f) == f = [i \in 0 .. N |-> IF i = 0 THEN Fields ELSE Step(i, f)]
           after == CHOOSE f : Walk(f)
           G == [x \in (1 .. N) \X ListFields |-> IF x[1] \in M THEN Unlink(x[2], s[x[1]]) ELSE x[2]]
<1>1. N \in Nat /\ \A i \in 1 .. N : s[i] \in Nodes
  BY ListPlaces
<1>2. Unlinked(M) = after[N]
  BY DEF Unlinked
<1> HIDE DEF s
<1>3. G \in [(1 .. N) \X ListFields -> ListFields]
  <2>1. ASSUME NEW x \in (1 .. N) \X ListFields
        PROVE  (IF x[1] \in M THEN Unlink(x[2], s[x[1]]) ELSE x[2]) \in ListFields
    <3>1. x[1] \in 1 .. N /\ x[2] \in ListFields
      OBVIOUS
    <3>2. Unlink(x[2], s[x[1]]) \in ListFields
      BY <1>1, <3>1, UnlinkTyped
    <3> QED BY <3>1, <3>2
  <2> QED BY <2>1
<1>31. Fields \in ListFields
  <2>1. _head \in Nodes \cup {Null} /\ _tail \in Nodes \cup {Null}
    <3>1. /\ _head = IF N = 0 THEN Null ELSE s[1]
          /\ _tail = IF N = 0 THEN Null ELSE s[N]
      BY ListPlaces DEF s
    <3>2. N # 0 => 1 \in 1 .. N /\ N \in 1 .. N
      BY <1>1
    <3> QED BY <1>1, <3>1, <3>2
  <2> QED BY <2>1 DEF Fields, ListFields, ListShape
<1>4. PICK g \in [0 .. N -> ListFields] : g[0] = Fields /\ \A i \in 1 .. N : g[i] = G[<<i, g[i - 1]>>]
  <2>2. G \in StepFunctions(N, ListFields) /\ N \in Nat
    BY <1>1, <1>3 DEF StepFunctions
  <2> HIDE DEF G, N
  <2>3. \E f : Recursive(f, N, ListFields, Fields, G)
    BY <1>31, <2>2, RecursionUpTo
  <2> QED BY <2>3 DEF Recursive
<1>5. Walk(g)
  <2>1. \A i \in 1 .. N : i - 1 \in 0 .. N
    BY <1>1
  <2>2. \A i \in 1 .. N : g[i] = Step(i, g)
    <3> SUFFICES ASSUME NEW i \in 1 .. N PROVE g[i] = Step(i, g)
      OBVIOUS
    <3>1. g[i - 1] \in ListFields
      BY <1>4, <2>1
    <3>2. G[<<i, g[i - 1]>>] = Step(i, g)
      BY <3>1
    <3> QED BY <1>4, <3>2
  <2>3. \A i \in 0 .. N : i = 0 \/ i \in 1 .. N
    BY <1>1
  <2>4. \A i \in 0 .. N : g[i] = IF i = 0 THEN Fields ELSE Step(i, g)
    BY <1>4, <2>2, <2>3
  <2> HIDE DEF Step
  <2> QED BY <2>4
<1>6. Walk(after)
  <2> HIDE DEF Walk
  <2> QED BY <1>5
<1>7. /\ after[0] = Fields /\ \A i \in 1 .. N : after[i] = Step(i, after)
      /\ after = [i \in 0 .. N |-> after[i]]
  <2>1. after = [i \in 0 .. N |-> IF i = 0 THEN Fields ELSE Step(i, after)]
    <3> HIDE DEF after, Step
    <3> QED BY <1>6
  <2>2. 0 \in 0 .. N /\ \A i \in 1 .. N : i \in 0 .. N /\ i # 0
    BY <1>1
  <2> HIDE DEF after, Step, N
  <2> QED BY <2>1, <2>2
<1> HIDE DEF after
<1> DEFINE Good == {n \in 0 .. N : after[n] \in ListFields}
<1>8. 0 \in Good
  <2>1. 0 \in 0 .. N
    BY <1>1
  <2> QED BY <1>7, <1>31, <2>1
<1>9. ASSUME NEW n \in 1 .. N, n - 1 \in Good PROVE n \in Good
  <2>1. after[n - 1] \in ListFields /\ s[n] \in Nodes /\ n \in 0 .. N
    BY <1>1, <1>9
  <2>2. after[n] = IF n \in M THEN Unlink(after[n - 1], s[n]) ELSE after[n - 1]
    BY <1>7
  <2>3. Unlink(after[n - 1], s[n]) \in ListFields
    BY <2>1, UnlinkTyped
  <2> QED BY <2>1, <2>2, <2>3
<1>10. 0 .. N \subseteq Good
  <2> HIDE DEF Good, N
  <2> QED BY <1>1, <1>8, <1>9, InductionUpTo
<1>11. after \in [0 .. N -> ListFields]
  <2>1. \A n \in 0 .. N : after[n] \in ListFields
    BY <1>10
  <2> HIDE DEF N
  <2> QED BY <1>7, <2>1
<1>12. Unlinking(s, M, after)
  BY <1>7, <1>11 DEF Unlinking
<1> QED BY <1>2, <1>12 DEF s

\* r is what remove_all has made of s when it has looked at k of its nodes:
\* kept are the values it passed by, l the fields.
PartWay(s, r, k, l, kept, gone) ==
  /\ LinkedBy(r, l.head, l.tail, l.item)
  /\ SameValues(item, l.item)
  /\ Len(r) = Len(kept) + Len(s) - k
  /\ \A j \in 1 .. Len(kept) : item[r[j]].value = kept[j]
  /\ \A j \in Len(kept) + 1 .. Len(r) : r[j] = s[j - Len(kept) + k]
  /\ ToSet(r) = ToSet(s) \ gone

\* One turn of its loop, at a node with the value.
LEMMA PartWayDrops ==
  ASSUME ListShape, NEW s, s = ChainOfThis, NEW k \in 1 .. Len(s), NEW l \in ListFields,
         NEW kept \in Seq(Values), NEW gone, NEW r, PartWay(s, r, k - 1, l, kept, gone)
  PROVE  \E q : PartWay(s, q, k, Unlink(l, s[k]), kept, gone \cup {s[k]})
<1>1. PICK n \in Nat : n = Len(s) /\ k \in 1 .. n
  BY ListPlaces
<1>2. PICK m \in Nat : m = Len(kept)
  BY LenProperties
<1>3. /\ LinkedBy(r, l.head, l.tail, l.item)
      /\ SameValues(item, l.item)
      /\ r \in Seq(Nodes) /\ \A i, j \in 1 .. Len(r) : r[i] = r[j] => i = j
      /\ ToSet(r) = ToSet(s) \ gone
  BY DEF PartWay, LinkedBy
<1>4. PICK e \in Nat : e = Len(r) /\ e = m + n - k + 1
  <2>1. Len(r) = m + n - (k - 1) /\ Len(r) \in Nat
    BY <1>1, <1>2, <1>3, LenProperties DEF PartWay
  <2> QED BY <1>1, <2>1
<1>5. m + 1 \in 1 .. e /\ r[m + 1] = s[k]
  <2>1. m + 1 \in 1 .. e /\ m + 1 \in m + 1 .. e
    BY <1>1, <1>4
  <2>2. r[m + 1] = s[(m + 1) - m + (k - 1)]
    BY <1>2, <1>4, <2>1 DEF PartWay
  <2>3. (m + 1) - m + (k - 1) = k
    BY <1>1
  <2> QED BY <2>1, <2>2, <2>3
<1>6. PICK u : u = Unlink(l, r[m + 1])
  OBVIOUS
<1>7. PICK q : q = Dropped(r, m + 1)
  OBVIOUS
<1>8. /\ LinkedBy(q, u.head, u.tail, u.item)
      /\ \A x \in Nodes : u.item[x].value = l.item[x].value
  <2>1. l = [head |-> l.head, tail |-> l.tail, item |-> l.item] /\ l.item \in [Nodes -> ListItems]
    BY DEF ListFields
  <2>2. m + 1 \in 1 .. Len(r)
    BY <1>4, <1>5
  <2> QED BY <1>3, <1>6, <1>7, <2>1, <2>2, UnlinkKeeps
<1>9. SameValues(item, u.item)
  BY <1>3, <1>8 DEF SameValues
<1>10. /\ q \in Seq(Nodes) /\ Len(q) = e - 1
       /\ \A j \in 1 .. e - 1 : q[j] = IF j < m + 1 THEN r[j] ELSE r[j + 1]
  <2>1. m + 1 \in 1 .. Len(r)
    BY <1>4, <1>5
  <2>2. /\ Dropped(r, m + 1) \in Seq(Nodes) /\ Len(Dropped(r, m + 1)) = Len(r) - 1
        /\ \A j \in 1 .. Len(r) - 1 : Dropped(r, m + 1)[j] = IF j < m + 1 THEN r[j] ELSE r[j + 1]
    BY <1>3, <2>1, DroppedIsSeq
  <2> QED BY <1>4, <1>7, <2>2
<1>11. ToSet(q) = ToSet(s) \ (gone \cup {s[k]})
  <2>1. ToSet(q) = ToSet(r) \ {r[m + 1]}
    <3>1. m + 1 \in 1 .. Len(r)
      BY <1>4, <1>5
    <3> QED BY <1>3, <1>7, <3>1, DroppedNodes
  <2> QED BY <1>3, <1>5, <2>1
<1>12. ASSUME NEW j \in 1 .. m PROVE item[q[j]].value = kept[j]
  <2>1. j \in 1 .. e - 1 /\ j < m + 1
    BY <1>1, <1>4
  <2>2. q[j] = r[j]
    BY <1>10, <2>1
  <2> QED BY <1>2, <2>2 DEF PartWay
<1>13. ASSUME NEW j \in m + 1 .. e - 1 PROVE q[j] = s[j - m + k]
  <2>1. j \in 1 .. e - 1 /\ ~(j < m + 1) /\ j + 1 \in m + 1 .. e
    BY <1>4
  <2>2. q[j] = r[j + 1]
    BY <1>10, <2>1
  <2>3. r[j + 1] = s[(j + 1) - m + (k - 1)]
    BY <1>2, <1>4, <2>1 DEF PartWay
  <2>4. (j + 1) - m + (k - 1) = j - m + k
    BY <1>1
  <2> QED BY <2>2, <2>3, <2>4
<1>14. Len(q) = Len(kept) + Len(s) - k
  BY <1>1, <1>2, <1>4, <1>10
<1>15. PartWay(s, q, k, u, kept, gone \cup {s[k]})
  BY <1>2, <1>8, <1>9, <1>10, <1>11, <1>12, <1>13, <1>14 DEF PartWay
<1> QED BY <1>5, <1>6, <1>15

\* One turn at a node without it.
LEMMA PartWayKeeps ==
  ASSUME ListShape, NEW s, s = ChainOfThis, NEW k \in 1 .. Len(s), NEW l,
         NEW kept \in Seq(Values), NEW gone, NEW r, PartWay(s, r, k - 1, l, kept, gone)
  PROVE  PartWay(s, r, k, l, Append(kept, item[s[k]].value), gone)
<1>1. PICK n \in Nat : n = Len(s) /\ k \in 1 .. n
  BY ListPlaces
<1>2. PICK m \in Nat : m = Len(kept)
  BY LenProperties
<1>3. /\ LinkedBy(r, l.head, l.tail, l.item)
      /\ SameValues(item, l.item)
      /\ r \in Seq(Nodes)
      /\ ToSet(r) = ToSet(s) \ gone
  BY DEF PartWay, LinkedBy
<1>4. PICK e \in Nat : e = Len(r) /\ e = m + n - k + 1
  <2>1. Len(r) = m + n - (k - 1) /\ Len(r) \in Nat
    BY <1>1, <1>2, <1>3, LenProperties DEF PartWay
  <2> QED BY <1>1, <2>1
<1>5. r[m + 1] = s[k]
  <2>1. m + 1 \in m + 1 .. e
    BY <1>1, <1>4
  <2>2. r[m + 1] = s[(m + 1) - m + (k - 1)]
    BY <1>2, <1>4, <2>1 DEF PartWay
  <2>3. (m + 1) - m + (k - 1) = k
    BY <1>1
  <2> QED BY <2>2, <2>3
<1>6. PICK v \in Values : v = item[s[k]].value
  BY <1>1, ListPlaces
<1>7. PICK w \in Seq(Values) : /\ w = Append(kept, v) /\ Len(w) = m + 1
                               /\ w[m + 1] = v /\ \A j \in 1 .. m : w[j] = kept[j]
  <2>1. /\ Append(kept, v) \in Seq(Values) /\ Len(Append(kept, v)) = Len(kept) + 1
        /\ \A j \in 1 .. Len(kept) : Append(kept, v)[j] = kept[j]
        /\ Append(kept, v)[Len(kept) + 1] = v
    BY AppendProperties
  <2> QED BY <1>2, <2>1
<1>8. ASSUME NEW j \in 1 .. m + 1 PROVE item[r[j]].value = w[j]
  <2>1. CASE j = m + 1
    BY <1>5, <1>6, <1>7, <2>1
  <2>2. CASE j # m + 1
    <3>1. j \in 1 .. m
      BY <2>2
    <3> QED BY <1>2, <1>7, <3>1 DEF PartWay
  <2> QED BY <2>1, <2>2
<1>9. ASSUME NEW j \in (m + 1) + 1 .. e PROVE r[j] = s[j - (m + 1) + k]
  <2>1. j \in m + 1 .. e
    OBVIOUS
  <2>2. r[j] = s[j - m + (k - 1)]
    BY <1>2, <1>4, <2>1 DEF PartWay
  <2>3. j - m + (k - 1) = j - (m + 1) + k
    BY <1>1
  <2> QED BY <2>2, <2>3
<1>10. Len(r) = Len(w) + Len(s) - k
  BY <1>1, <1>4, <1>7
<1>11. PartWay(s, r, k, l, w, gone)
  BY <1>3, <1>4, <1>7, <1>8, <1>9, <1>10 DEF PartWay
<1> QED BY <1>6, <1>7, <1>11

\* remove_all leaves the nodes, in their order, that do not hold the value.
LEMMA RemoveAllEffect ==
  ASSUME ListShape, NEW v, RemoveAll(Matches(v)),
         NEW w, w = Abstract!Without(Contents, v)
  PROVE  /\ ListShape' /\ SameValues(item, item')
         /\ w \in Seq(Values) /\ Len(ChainOfThis') = Len(w)
         /\ \A j \in 1 .. Len(w) : item[ChainOfThis'[j]].value = w[j]
<1>1. PICK s : s = ChainOfThis
  OBVIOUS
<1>2. PICK M : M = Matches(v)
  OBVIOUS
<1>3. PICK n \in Nat : n = Len(s)
  BY <1>1, ListPlaces
<1>4. /\ s \in Seq(Nodes) /\ DOMAIN s = 1 .. n
      /\ \A i, j \in 1 .. n : s[i] = s[j] => i = j
      /\ \A i \in 1 .. n : s[i] \in Nodes /\ item[s[i]].value \in Values
      /\ LinkedBy(s, _head, _tail, item) /\ _count = n /\ live = ToSet(s)
      /\ item \in [Nodes -> ListItems]
  <2>1. live = ToSet(s) /\ item \in [Nodes -> ListItems]
    BY <1>1 DEF ListShape, Listed
  <2> QED BY <1>1, <1>3, <2>1, ListPlaces
<1>5. PICK c \in Seq(Values) : /\ c = Contents /\ Len(c) = n
                               /\ \A i \in 1 .. n : c[i] = item[s[i]].value
  <2>1. Contents = [i \in 1 .. n |-> item[s[i]].value]
    BY <1>1, <1>4, ContentsAre
  <2>2. Contents \in [1 .. n -> Values]
    BY <1>4, <2>1
  <2>3. Contents \in Seq(Values) /\ Len(Contents) = n
    BY <2>2, FunctionIsSeq
  <2> QED BY <2>1, <2>3
<1>6. \A i \in 1 .. n : i \in M <=> c[i] = v
  BY <1>1, <1>2, <1>4, <1>5 DEF Matches
<1>7. M \subseteq 1 .. n
  BY <1>1, <1>2, <1>4 DEF Matches
<1>8. PICK kept \in [0 .. n -> Seq(Values)] :
        /\ w = kept[n] /\ kept[0] = <<>>
        /\ \A i \in 1 .. n : kept[i] = IF c[i] # v THEN Append(kept[i - 1], c[i]) ELSE kept[i - 1]
  <2>1. \E kept \in [0 .. Len(c) -> Seq(Values)] :
          /\ Abstract!Without(c, v) = kept[Len(c)] /\ kept[0] = <<>>
          /\ \A i \in 1 .. Len(c) :
               kept[i] = IF c[i] # v THEN Append(kept[i - 1], c[i]) ELSE kept[i - 1]
    BY WithoutSteps
  <2>2. w = Abstract!Without(c, v) /\ Len(c) = n
    BY <1>5
  <2> QED BY <2>1, <2>2
<1>9. PICK after \in [0 .. n -> ListFields] :
        /\ Unlinked(M) = after[n] /\ after[0] = Fields
        /\ \A i \in 1 .. n : after[i] = IF i \in M THEN Unlink(after[i - 1], s[i]) ELSE after[i - 1]
  <2>1. PICK after : Unlinking(ChainOfThis, M, after) /\ Unlinked(M) = after[Len(ChainOfThis)]
    BY UnlinkedSteps
  <2>2. Unlinking(s, M, after) /\ Unlinked(M) = after[n]
    BY <1>1, <1>3, <2>1
  <2> QED BY <1>3, <2>2 DEF Unlinking
<1> DEFINE Gone(k) == {s[i] : i \in {j \in M : j <= k}}
           Good == {k \in 0 .. n : \E r : PartWay(s, r, k, after[k], kept[k], Gone(k))}
<1>10. 0 \in Good
  <2>1. Gone(0) = {}
    BY <1>7
  <2>2. Len(<<>>) = 0
    OBVIOUS
  <2>3. /\ Fields.head = _head /\ Fields.tail = _tail /\ Fields.item = item
    BY DEF Fields
  <2>4. \A j \in 0 + 1 .. Len(s) : s[j] = s[j - 0 + 0]
    BY <1>3
  <2>5. PartWay(s, s, 0, Fields, <<>>, {})
    <3>1. Len(s) = 0 + Len(s) - 0
      BY <1>3
    <3>2. SameValues(item, item)
      BY DEF SameValues
    <3>3. LinkedBy(s, Fields.head, Fields.tail, Fields.item)
      BY <1>4, <2>3
    <3>4. SameValues(item, Fields.item)
      BY <2>3, <3>2
    <3> QED BY <2>2, <2>4, <3>1, <3>3, <3>4 DEF PartWay
  <2>6. PartWay(s, s, 0, after[0], kept[0], Gone(0)) /\ 0 \in 0 .. n
    <3>1. after[0] = Fields /\ kept[0] = <<>> /\ 0 \in 0 .. n
      BY <1>8, <1>9
    <3> HIDE DEF Gone
    <3> QED BY <2>1, <2>5, <3>1
  <2> HIDE DEF Gone
  <2> QED BY <2>6
<1>11. ASSUME NEW k \in 1 .. n, k - 1 \in Good PROVE k \in Good
  <2>1. PICK r : PartWay(s, r, k - 1, after[k - 1], kept[k - 1], Gone(k - 1))
    <3> HIDE DEF Gone
    <3> QED BY <1>11
  <2>2. k - 1 \in 0 .. n /\ k \in 0 .. n
    OBVIOUS
  <2>3. after[k - 1] \in ListFields /\ kept[k - 1] \in Seq(Values)
    BY <1>8, <1>9, <2>2
  <2>4. k \in 1 .. Len(s)
    BY <1>3
  <2>5. CASE k \in M
    <3>1. Gone(k) = Gone(k - 1) \cup {s[k]}
      <4>1. \A j \in M : j <= k <=> (j <= k - 1 \/ j = k)
        BY <1>7
      <4> QED BY <2>5, <4>1
    <3>2. after[k] = Unlink(after[k - 1], s[k]) /\ kept[k] = kept[k - 1]
      BY <1>6, <1>8, <1>9, <2>5
    <3> HIDE DEF Gone
    <3>3. \E q : PartWay(s, q, k, Unlink(after[k - 1], s[k]), kept[k - 1], Gone(k - 1) \cup {s[k]})
      BY <1>1, <2>1, <2>3, <2>4, PartWayDrops
    <3> QED BY <2>2, <3>1, <3>2, <3>3
  <2>6. CASE k \notin M
    <3>1. Gone(k) = Gone(k - 1)
      <4>1. \A j \in M : j <= k <=> j <= k - 1
        BY <1>7, <2>6
      <4> QED BY <4>1
    <3>2. after[k] = after[k - 1] /\ kept[k] = Append(kept[k - 1], item[s[k]].value)
      BY <1>5, <1>6, <1>8, <1>9, <2>6
    <3> HIDE DEF Gone
    <3>3. PartWay(s, r, k, after[k - 1], Append(kept[k - 1], item[s[k]].value), Gone(k - 1))
      BY <1>1, <2>1, <2>3, <2>4, PartWayKeeps
    <3> QED BY <2>2, <3>1, <3>2, <3>3
  <2> QED BY <2>5, <2>6
<1>12. PICK r : PartWay(s, r, n, after[n], w, Gone(n))
  <2> HIDE DEF Good
  <2>1. 0 .. n \subseteq Good
    BY <1>10, <1>11, InductionUpTo
  <2>2. n \in Good
    BY <2>1
  <2> HIDE DEF Gone
  <2> QED BY <1>8, <2>2 DEF Good
<1>13. Gone(n) = {s[i] : i \in M}
  <2>1. \A j \in M : j <= n
    BY <1>7
  <2> QED BY <2>1
<1>14. PICK g : g = {s[i] : i \in M}
  OBVIOUS
<1> HIDE DEF Gone, Good
<1>15. n \in 0 .. n /\ w \in Seq(Values) /\ after[n] \in ListFields
  <2>1. n \in 0 .. n
    OBVIOUS
  <2> QED BY <1>8, <1>9, <2>1
<1>16. Len(w) \in Nat /\ Len(r) = Len(w) /\ r \in Seq(Nodes)
  BY <1>3, <1>12, <1>15, LenProperties DEF PartWay, LinkedBy
<1>17. _head' = after[n].head /\ _tail' = after[n].tail /\ item' = after[n].item
  BY <1>2, <1>9 DEF RemoveAll, Becomes
<1>18. _count' = _count - Cardinality(M) /\ live' = live \ g
  BY <1>1, <1>2, <1>14 DEF RemoveAll, Delete
<1>19. item' \in [Nodes -> ListItems] /\ SameValues(item, item') /\ LinkedBy(r, _head', _tail', item')
  BY <1>12, <1>15, <1>17 DEF PartWay, ListFields
<1>20. live' = ToSet(r)
  BY <1>4, <1>12, <1>13, <1>14, <1>18 DEF PartWay
<1>21. _count' = Len(r)
  <2>1. IsFiniteSet(live) /\ Cardinality(live) = n /\ n \in Nat
    BY <1>3, <1>4, DistinctCount
  <2>2. IsFiniteSet(live') /\ Cardinality(live') = Len(r)
    BY <1>16, <1>19, <1>20, DistinctCount DEF LinkedBy
  <2>3. IsFiniteSet(M)
    <3>1. IsFiniteSet(1 .. n)
      BY FS_Interval
    <3> QED BY <1>7, <3>1, FS_Subset
  <2>4. IsFiniteSet(g) /\ Cardinality(g) = Cardinality(M)
    <3>1. PICK b : b = [i \in M |-> s[i]]
      OBVIOUS
    <3>2. b \in Bijection(M, g)
      <4>1. b \in [M -> g] /\ \A i \in M : b[i] = s[i]
        BY <1>14, <3>1
      <4>2. \A y \in g : \E i \in M : b[i] = y
        BY <1>14, <4>1
      <4>3. \A i, j \in M : b[i] = b[j] => i = j
        BY <1>4, <1>7, <4>1
      <4> QED BY <4>1, <4>2, <4>3, Fun_IsBij
    <3>3. ExistsBijection(M, g)
      BY <3>2 DEF ExistsBijection
    <3> QED BY <2>3, <3>3, FS_Bijection
  <2>5. g \subseteq live /\ live' = live \ g /\ live \cap g = g
    <3>1. g \subseteq live
      BY <1>4, <1>7, <1>14 DEF ToSet
    <3> QED BY <1>18, <3>1
  <2>6. Cardinality(live') = Cardinality(live) - Cardinality(live \cap g)
    BY <2>1, <2>4, <2>5, FS_Difference
  <2> QED BY <1>4, <1>18, <2>1, <2>2, <2>4, <2>5, <2>6
<1>22. ListShape' /\ ChainOfThis' = r
  BY <1>19, <1>20, <1>21, ListedIsChainNext
<1> QED BY <1>12, <1>15, <1>16, <1>19, <1>22 DEF PartWay

\* t has the values of s, each as often.
Rearranged(s, t, n) ==
  \E p \in [1 .. n -> 1 .. n] :
    /\ \A i, j \in 1 .. n : p[i] = p[j] => i = j
    /\ \A i \in 1 .. n : t[i] = s[p[i]]

\* The first i places of s are in order, and nothing after them is less.
OrderedUpTo(s, i, n) == \A a \in 1 .. i : \A b \in 1 .. n : a < b => s[a] <= s[b]

\* No place after i and up to j holds less than place i.
LeastUpTo(s, i, j) == \A k \in i + 1 .. j : s[i] <= s[k]

\* Every sequence is a rearrangement of itself.
LEMMA RearrangedSelf ==
  ASSUME NEW n \in Nat, NEW s
  PROVE  Rearranged(s, s, n)
<1> DEFINE p == [i \in 1 .. n |-> i]
<1>1. p \in [1 .. n -> 1 .. n]
  OBVIOUS
<1>2. \A i \in 1 .. n : p[i] = i
  OBVIOUS
<1> QED BY <1>1, <1>2 DEF Rearranged

\* Rearranging twice is rearranging.
LEMMA RearrangedTwice ==
  ASSUME NEW n \in Nat, NEW s, NEW t, NEW u, Rearranged(s, t, n), Rearranged(t, u, n)
  PROVE  Rearranged(s, u, n)
<1>1. PICK p \in [1 .. n -> 1 .. n] : /\ \A i, j \in 1 .. n : p[i] = p[j] => i = j
                                      /\ \A i \in 1 .. n : t[i] = s[p[i]]
  BY DEF Rearranged
<1>2. PICK q \in [1 .. n -> 1 .. n] : /\ \A i, j \in 1 .. n : q[i] = q[j] => i = j
                                      /\ \A i \in 1 .. n : u[i] = t[q[i]]
  BY DEF Rearranged
<1> DEFINE r == [i \in 1 .. n |-> p[q[i]]]
<1>3. \A i \in 1 .. n : q[i] \in 1 .. n
  BY <1>2
<1>4. r \in [1 .. n -> 1 .. n]
  BY <1>1, <1>3
<1>5. \A i \in 1 .. n : r[i] = p[q[i]]
  OBVIOUS
<1> HIDE DEF r
<1>6. ASSUME NEW i \in 1 .. n, NEW j \in 1 .. n, r[i] = r[j] PROVE i = j
  <2>1. p[q[i]] = p[q[j]] /\ q[i] \in 1 .. n /\ q[j] \in 1 .. n
    BY <1>3, <1>5, <1>6
  <2>2. q[i] = q[j]
    BY <1>1, <2>1
  <2> QED BY <1>2, <2>2
<1>7. ASSUME NEW i \in 1 .. n PROVE u[i] = s[r[i]]
  <2>1. u[i] = t[q[i]] /\ t[q[i]] = s[p[q[i]]]
    BY <1>1, <1>2, <1>3
  <2> QED BY <1>5, <2>1
<1> QED BY <1>4, <1>6, <1>7 DEF Rearranged

\* r is s but for places i and j, which hold the two values in order.
Exchanged(s, r, i, j, n) ==
  /\ r \in [1 .. n -> Values] /\ Rearranged(s, r, n)
  /\ r[i] <= s[i] /\ r[i] <= r[j]
  /\ \A k \in 1 .. n : k # i /\ k # j => r[k] = s[k]
  /\ \A k \in 1 .. n : \E m \in 1 .. n :
       r[k] = s[m] /\ (k = m \/ (k = i /\ m = j) \/ (k = j /\ m = i))

\* What one comparison of sort leaves at the two places and elsewhere.
LEMMA ExchangeEffect ==
  ASSUME NEW n \in Nat, NEW s \in [1 .. n -> Values], NEW i \in 1 .. n, NEW j \in 1 .. n, i < j,
         NEW r, r = Exchange(s, <<i, j>>)
  PROVE  Exchanged(s, r, i, j, n)
<1>1. r = IF s[i] > s[j] THEN [s EXCEPT ![i] = s[j], ![j] = s[i]] ELSE s
  BY DEF Exchange
<1>2. s[i] \in Int /\ s[j] \in Int /\ s[i] \in Values /\ s[j] \in Values
  BY LinkedListAssumption
<1>3. CASE ~(s[i] > s[j])
  <2>1. r = s
    BY <1>1, <1>3
  <2>2. Rearranged(s, r, n)
    BY <2>1, RearrangedSelf
  <2>3. \A k \in 1 .. n : \E m \in 1 .. n :
          r[k] = s[m] /\ (k = m \/ (k = i /\ m = j) \/ (k = j /\ m = i))
    BY <2>1
  <2>4. s[i] <= s[i] /\ s[i] <= s[j]
    BY <1>2, <1>3
  <2>5. r \in [1 .. n -> Values] /\ r[i] <= s[i] /\ r[i] <= r[j]
    BY <2>1, <2>4
  <2> QED BY <2>1, <2>2, <2>3, <2>5 DEF Exchanged
<1>4. CASE s[i] > s[j]
  <2>1. r = [k \in 1 .. n |-> IF k = j THEN s[i] ELSE IF k = i THEN s[j] ELSE s[k]]
    BY <1>1, <1>4
  <2>2. r \in [1 .. n -> Values]
    BY <1>2, <2>1
  <2>3. /\ r[i] = s[j] /\ r[j] = s[i]
        /\ \A k \in 1 .. n : k # i /\ k # j => r[k] = s[k]
    BY <2>1
  <2> DEFINE p == [k \in 1 .. n |-> IF k = j THEN i ELSE IF k = i THEN j ELSE k]
  <2>4. p \in [1 .. n -> 1 .. n]
    OBVIOUS
  <2>5. \A k \in 1 .. n : p[k] = IF k = j THEN i ELSE IF k = i THEN j ELSE k
    OBVIOUS
  <2> HIDE DEF p
  <2>6. \A k, m \in 1 .. n : p[k] = p[m] => k = m
    BY <2>5
  <2>7. \A k \in 1 .. n : r[k] = s[p[k]]
    BY <2>3, <2>5
  <2>8. Rearranged(s, r, n)
    BY <2>4, <2>6, <2>7 DEF Rearranged
  <2>9. \A k \in 1 .. n : \E m \in 1 .. n : r[k] = s[m] /\ (k = m \/ (k = i /\ m = j) \/ (k = j /\ m = i))
    BY <2>3
  <2>10. r[i] <= s[i] /\ r[i] <= r[j]
    BY <1>2, <1>4, <2>3
  <2> QED BY <2>2, <2>3, <2>8, <2>9, <2>10 DEF Exchanged
<1> QED BY <1>3, <1>4

\* The values after each comparison of the inner loop.
Passing(s, i, after, n) ==
  /\ after \in [0 .. n -> [1 .. n -> Values]]
  /\ Pass(s, i) = after[n] /\ after[0] = s
  /\ \A j \in 1 .. n :
       after[j] = IF i < j THEN Exchange(after[j - 1], <<i, j>>) ELSE after[j - 1]

\* The inner loop of sort, one comparison at a time.
LEMMA PassSteps ==
  ASSUME NEW n \in Nat, NEW s \in [1 .. n -> Values], NEW i \in 1 .. n
  PROVE  \E after : Passing(s, i, after, n)
<1> DEFINE V == [1 .. n -> Values]
           Step(j, f) == IF i < j THEN Exchange(f[j - 1], <<i, j>>) ELSE f[j - 1]
           Runs(f) == f = [j \in 0 .. n |-> IF j = 0 THEN s ELSE Step(j, f)]
           after == CHOOSE f : Runs(f)
           G == [x \in (1 .. n) \X V |->
                   IF i < x[1] THEN Exchange(x[2], <<i, x[1]>>) ELSE x[2]]
<1>1. Len(s) = n
  BY FunctionIsSeq
<1>2. Pass(s, i) = after[n]
  BY <1>1 DEF Pass
<1>3. G \in [(1 .. n) \X V -> V]
  <2>1. ASSUME NEW x \in (1 .. n) \X V
        PROVE  (IF i < x[1] THEN Exchange(x[2], <<i, x[1]>>) ELSE x[2]) \in V
    <3>1. PICK j \in 1 .. n : j = x[1]
      OBVIOUS
    <3>2. PICK u \in V : u = x[2]
      OBVIOUS
    <3>3. i < j => Exchange(u, <<i, j>>) \in V
      BY ExchangeEffect DEF Exchanged
    <3> QED BY <3>1, <3>2, <3>3
  <2> HIDE DEF V
  <2> QED BY <2>1
<1>4. PICK g \in [0 .. n -> V] : g[0] = s /\ \A j \in 1 .. n : g[j] = G[<<j, g[j - 1]>>]
  <2>1. G \in StepFunctions(n, V) /\ s \in V
    BY <1>3 DEF StepFunctions
  <2> HIDE DEF G, V
  <2>2. \E f : Recursive(f, n, V, s, G)
    BY <2>1, RecursionUpTo
  <2> QED BY <2>2 DEF Recursive
<1>5. Runs(g)
  <2>1. \A j \in 1 .. n : j - 1 \in 0 .. n /\ g[j - 1] \in V
    BY <1>4
  <2>2. \A j \in 1 .. n : g[j] = Step(j, g)
    <3> HIDE DEF V
    <3> QED BY <1>4, <2>1
  <2>3. \A j \in 0 .. n : g[j] = IF j = 0 THEN s ELSE Step(j, g)
    <3>1. \A j \in 0 .. n : j = 0 \/ j \in 1 .. n
      OBVIOUS
    <3> HIDE DEF Step, V, G
    <3> QED BY <1>4, <2>2, <3>1
  <2> HIDE DEF Step, V, G
  <2> QED BY <1>4, <2>3
<1>6. Runs(after)
  <2> HIDE DEF Runs
  <2> QED BY <1>5
<1>7. after = [j \in 0 .. n |-> IF j = 0 THEN s ELSE Step(j, after)]
  <2> HIDE DEF after, Step
  <2> QED BY <1>6
<1>8. after[0] = s /\ \A j \in 1 .. n : after[j] = Step(j, after)
  <2>1. 0 \in 0 .. n /\ \A j \in 1 .. n : j \in 0 .. n /\ j # 0
    OBVIOUS
  <2> HIDE DEF after, Step
  <2> QED BY <1>7, <2>1
<1> DEFINE Good == {j \in 0 .. n : after[j] \in V}
<1>9. 0 \in Good
  <2> HIDE DEF after
  <2>1. 0 \in 0 .. n /\ s \in V
    OBVIOUS
  <2> HIDE DEF V
  <2> QED BY <1>8, <2>1
<1>10. ASSUME NEW j \in 1 .. n, j - 1 \in Good PROVE j \in Good
  <2> HIDE DEF after
  <2>1. PICK u \in V : u = after[j - 1]
    BY <1>10
  <2>2. after[j] = IF i < j THEN Exchange(u, <<i, j>>) ELSE u
    BY <1>8, <2>1
  <2>3. i < j => Exchange(u, <<i, j>>) \in V
    BY ExchangeEffect DEF Exchanged
  <2>4. after[j] \in V
    BY <2>2, <2>3
  <2> QED BY <2>4
<1>11. 0 .. n \subseteq Good
  <2> HIDE DEF Good
  <2> QED BY <1>9, <1>10, InductionUpTo
<1>12. after \in [0 .. n -> V]
  <2> HIDE DEF after, V, Step
  <2>1. \A j \in 0 .. n : after[j] \in V
    BY <1>11
  <2> QED BY <1>7, <2>1
<1> HIDE DEF after
<1> QED BY <1>2, <1>8, <1>12 DEF Passing

\* The inner loop brings the least of what follows to its place.
LEMMA PassEffect ==
  ASSUME NEW n \in Nat, NEW s \in [1 .. n -> Values], NEW i \in 1 .. n
  PROVE  /\ Pass(s, i) \in [1 .. n -> Values] /\ Rearranged(s, Pass(s, i), n)
         /\ OrderedUpTo(s, i - 1, n) => OrderedUpTo(Pass(s, i), i, n)
<1>0. PICK after : Passing(s, i, after, n)
  BY PassSteps
<1>1. /\ after \in [0 .. n -> [1 .. n -> Values]]
      /\ Pass(s, i) = after[n] /\ after[0] = s
      /\ \A j \in 1 .. n :
           after[j] = IF i < j THEN Exchange(after[j - 1], <<i, j>>) ELSE after[j - 1]
  BY <1>0 DEF Passing
<1>2. \A r \in [1 .. n -> Values] : \A k \in 1 .. n : r[k] \in Int
  BY LinkedListAssumption
<1> DEFINE Kept(r, j) == /\ Rearranged(s, r, n)
                         /\ OrderedUpTo(s, i - 1, n) =>
                              OrderedUpTo(r, i - 1, n) /\ LeastUpTo(r, i, j)
           Good == {j \in 0 .. n : Kept(after[j], j)}
<1>3. 0 \in Good
  <2>1. LeastUpTo(s, i, 0)
    BY DEF LeastUpTo
  <2>2. Kept(s, 0)
    BY <2>1, RearrangedSelf
  <2> HIDE DEF Kept
  <2> QED BY <1>1, <2>2
<1>4. ASSUME NEW j \in 1 .. n, j - 1 \in Good PROVE j \in Good
  <2>0. PICK u \in [1 .. n -> Values] : u = after[j - 1]
    BY <1>1
  <2>1. Kept(u, j - 1)
    <3> HIDE DEF Kept
    <3> QED BY <1>4, <2>0
  <2>2. CASE ~(i < j)
    <3>1. after[j] = u
      BY <1>1, <2>0, <2>2
    <3>2. LeastUpTo(u, i, j)
      BY <2>2 DEF LeastUpTo
    <3>3. Kept(u, j)
      BY <2>1, <3>2
    <3> HIDE DEF Kept
    <3> QED BY <3>1, <3>3
  <2>3. CASE i < j
    <3>1. PICK r : r = Exchange(u, <<i, j>>)
      OBVIOUS
    <3>2. after[j] = r
      BY <1>1, <2>0, <2>3, <3>1
    <3>3. /\ r \in [1 .. n -> Values] /\ Rearranged(u, r, n)
          /\ r[i] <= u[i] /\ r[i] <= r[j]
          /\ \A k \in 1 .. n : k # i /\ k # j => r[k] = u[k]
          /\ \A k \in 1 .. n : \E m \in 1 .. n :
               r[k] = u[m] /\ (k = m \/ (k = i /\ m = j) \/ (k = j /\ m = i))
      <4>1. Exchanged(u, r, i, j, n)
        BY <2>3, <3>1, ExchangeEffect
      <4> QED BY <4>1 DEF Exchanged
    <3>4. Rearranged(s, r, n)
      BY <2>1, <3>3, RearrangedTwice
    <3>5. ASSUME OrderedUpTo(u, i - 1, n), NEW a \in 1 .. i - 1, NEW b \in 1 .. n, a < b
          PROVE  r[a] <= r[b]
      <4>1. a \in 1 .. n /\ a # i /\ a # j
        BY <2>3
      <4>2. r[a] = u[a]
        BY <3>3, <4>1
      <4>3. PICK m \in 1 .. n : r[b] = u[m] /\ (b = m \/ (b = i /\ m = j) \/ (b = j /\ m = i))
        BY <3>3
      <4>4. a < m
        <5>1. CASE b = m
          BY <3>5, <5>1
        <5>2. CASE (b = i /\ m = j) \/ (b = j /\ m = i)
          BY <2>3, <5>2
        <5> QED BY <4>3, <5>1, <5>2
      <4>5. u[a] <= u[m]
        BY <3>5, <4>4 DEF OrderedUpTo
      <4> QED BY <4>2, <4>3, <4>5
    <3>6. ASSUME LeastUpTo(u, i, j - 1), NEW k \in i + 1 .. j
          PROVE  r[i] <= r[k]
      <4>1. CASE k = j
        BY <3>3, <4>1
      <4>2. CASE k # j
        <5>1. k \in 1 .. n /\ k # i /\ k \in i + 1 .. j - 1
          BY <4>2
        <5>2. r[k] = u[k] /\ u[i] <= u[k]
          BY <3>3, <3>6, <4>2, <5>1 DEF LeastUpTo
        <5>3. r[i] \in Int /\ u[i] \in Int /\ u[k] \in Int
          BY <1>2, <3>3, <5>1
        <5> QED BY <3>3, <5>2, <5>3
      <4> QED BY <4>1, <4>2
    <3>7. Kept(r, j)
      <4>1. OrderedUpTo(s, i - 1, n) => OrderedUpTo(r, i - 1, n)
        BY <2>1, <3>5 DEF OrderedUpTo
      <4>2. OrderedUpTo(s, i - 1, n) => LeastUpTo(r, i, j)
        BY <2>1, <3>6 DEF LeastUpTo
      <4> QED BY <3>4, <4>1, <4>2
    <3> HIDE DEF Kept
    <3> QED BY <3>2, <3>7
  <2> QED BY <2>2, <2>3
<1>5. 0 .. n \subseteq Good
  <2> HIDE DEF Good
  <2> QED BY <1>3, <1>4, InductionUpTo
<1>6. PICK r \in [1 .. n -> Values] : r = Pass(s, i)
  BY <1>1
<1>7. Kept(r, n)
  <2> HIDE DEF Kept
  <2>1. n \in Good
    <3> HIDE DEF Good
    <3> QED BY <1>5
  <2> QED BY <1>1, <1>6, <2>1
<1>8. ASSUME OrderedUpTo(s, i - 1, n), NEW a \in 1 .. i, NEW b \in 1 .. n, a < b
      PROVE  r[a] <= r[b]
  <2>1. CASE a = i
    BY <1>7, <1>8, <2>1 DEF LeastUpTo
  <2>2. CASE a # i
    <3>1. a \in 1 .. i - 1
      BY <2>2
    <3> QED BY <1>7, <1>8, <3>1 DEF OrderedUpTo
  <2> QED BY <2>1, <2>2
<1> QED BY <1>6, <1>7, <1>8 DEF OrderedUpTo

\* sort leaves the values in ascending order, each as often as before.
LEMMA PassesEffect ==
  ASSUME NEW n \in Nat, NEW s \in [1 .. n -> Values]
  PROVE  /\ Passes(s) \in [1 .. n -> Values] /\ Rearranged(s, Passes(s), n)
         /\ \A a, b \in 1 .. n : a < b => Passes(s)[a] <= Passes(s)[b]
<1> DEFINE V == [1 .. n -> Values]
           Step(i, f) == Pass(f[i - 1], i)
           Runs(f) == f = [i \in 0 .. n |-> IF i = 0 THEN s ELSE Step(i, f)]
           after == CHOOSE f : Runs(f)
           G == [x \in (1 .. n) \X V |-> Pass(x[2], x[1])]
<1>1. Len(s) = n
  BY FunctionIsSeq
<1>2. Passes(s) = after[n]
  BY <1>1 DEF Passes
<1>3. G \in [(1 .. n) \X V -> V]
  <2>1. ASSUME NEW x \in (1 .. n) \X V PROVE Pass(x[2], x[1]) \in V
    <3>1. PICK i \in 1 .. n : i = x[1]
      OBVIOUS
    <3>2. PICK u \in V : u = x[2]
      OBVIOUS
    <3>3. Pass(u, i) \in V
      BY PassEffect
    <3> QED BY <3>1, <3>2, <3>3
  <2> HIDE DEF V
  <2> QED BY <2>1
<1>4. PICK g \in [0 .. n -> V] : g[0] = s /\ \A i \in 1 .. n : g[i] = G[<<i, g[i - 1]>>]
  <2>1. G \in StepFunctions(n, V) /\ s \in V
    BY <1>3 DEF StepFunctions
  <2> HIDE DEF G, V
  <2>2. \E f : Recursive(f, n, V, s, G)
    BY <2>1, RecursionUpTo
  <2> QED BY <2>2 DEF Recursive
<1>5. Runs(g)
  <2>1. \A i \in 1 .. n : i - 1 \in 0 .. n /\ g[i - 1] \in V
    BY <1>4
  <2>2. \A i \in 1 .. n : g[i] = Step(i, g)
    <3> HIDE DEF V
    <3> QED BY <1>4, <2>1
  <2>3. \A i \in 0 .. n : g[i] = IF i = 0 THEN s ELSE Step(i, g)
    <3>1. \A i \in 0 .. n : i = 0 \/ i \in 1 .. n
      OBVIOUS
    <3> HIDE DEF Step, V, G
    <3> QED BY <1>4, <2>2, <3>1
  <2> HIDE DEF Step, V, G
  <2> QED BY <1>4, <2>3
<1>6. Runs(after)
  <2> HIDE DEF Runs
  <2> QED BY <1>5
<1>7. after = [i \in 0 .. n |-> IF i = 0 THEN s ELSE Step(i, after)]
  <2> HIDE DEF after, Step
  <2> QED BY <1>6
<1>8. after[0] = s /\ \A i \in 1 .. n : after[i] = Pass(after[i - 1], i)
  <2>1. 0 \in 0 .. n /\ \A i \in 1 .. n : i \in 0 .. n /\ i # 0
    OBVIOUS
  <2>2. after[0] = s /\ \A i \in 1 .. n : after[i] = Step(i, after)
    <3> HIDE DEF after, Step
    <3> QED BY <1>7, <2>1
  <2> HIDE DEF after
  <2> QED BY <2>2
<1> HIDE DEF after
<1> DEFINE Good == {i \in 0 .. n : /\ after[i] \in V /\ Rearranged(s, after[i], n)
                                   /\ OrderedUpTo(after[i], i, n)}
<1>9. 0 \in Good
  <2>1. OrderedUpTo(s, 0, n)
    BY DEF OrderedUpTo
  <2> QED BY <1>8, <2>1, RearrangedSelf
<1>10. ASSUME NEW i \in 1 .. n, i - 1 \in Good PROVE i \in Good
  <2>1. PICK u \in V : u = after[i - 1]
    BY <1>10
  <2>2. Rearranged(s, u, n) /\ OrderedUpTo(u, i - 1, n)
    BY <1>10, <2>1
  <2>3. after[i] = Pass(u, i)
    BY <1>8, <2>1
  <2>4. /\ Pass(u, i) \in V /\ Rearranged(u, Pass(u, i), n)
        /\ OrderedUpTo(Pass(u, i), i, n)
    BY <2>2, PassEffect
  <2>5. Rearranged(s, Pass(u, i), n)
    BY <2>2, <2>4, RearrangedTwice
  <2> HIDE DEF V
  <2> QED BY <2>3, <2>4, <2>5
<1>11. 0 .. n \subseteq Good
  <2> HIDE DEF Good
  <2> QED BY <1>9, <1>10, InductionUpTo
<1>12. n \in Good
  <2> HIDE DEF Good
  <2> QED BY <1>11
<1>13. \A a, b \in 1 .. n : a < b => after[n][a] <= after[n][b]
  <2>1. OrderedUpTo(after[n], n, n)
    BY <1>12
  <2> QED BY <2>1 DEF OrderedUpTo
<1> QED BY <1>2, <1>12, <1>13

-----------------------------------------------------------------------------
(* foreach, and what its callback does to the list it walks.               *)

\* nxt is at place k; what foreach has visited lies before it, and so does
\* the node whose value the callback has.
Ahead(s, k, cur, nxt, was, visited) ==
  /\ s[k] = nxt
  /\ \A j \in 1 .. k - 1 : s[j] \in was => s[j] \in visited
  /\ \A j \in k .. Len(s) : s[j] \notin visited
  /\ cur # Null => \E c \in 1 .. k - 1 : s[c] = cur

\* foreach is between two visits of the nodes s.
Walks(s, cur, nxt, was, visited) ==
  /\ was \subseteq ToSet(s) /\ visited \subseteq ToSet(s)
  /\ cur # Null => cur \in ToSet(s)
  /\ nxt = Null => was \subseteq visited
  /\ nxt # Null => \E k \in 1 .. Len(s) : Ahead(s, k, cur, nxt, was, visited)

ListInv ==
  /\ ListShape
  /\ walking \in BOOLEAN
  /\ walking => Walks(ChainOfThis, current, next, old, seen)

\* The places of a sequence give its set of elements.
LEMMA ElementPlaces ==
  ASSUME NEW S, NEW s \in Seq(S)
  PROVE  /\ \A i \in 1 .. Len(s) : s[i] \in ToSet(s)
         /\ \A x \in ToSet(s) : \E i \in 1 .. Len(s) : s[i] = x
<1>1. DOMAIN s = 1 .. Len(s)
  BY LenProperties
<1> QED BY <1>1 DEF ToSet

\* What a sequence holds with an element more, before or after the others.
LEMMA PrependPlaces ==
  ASSUME NEW S, NEW s \in Seq(S), NEW x \in S
  PROVE  /\ <<x>> \o s \in Seq(S) /\ Len(<<x>> \o s) = Len(s) + 1
         /\ (<<x>> \o s)[1] = x /\ \A j \in 1 .. Len(s) : (<<x>> \o s)[j + 1] = s[j]
<1>1. PICK n \in Nat : n = Len(s)
  OBVIOUS
<1>2. <<x>> \in Seq(S) /\ Len(<<x>>) = 1 /\ <<x>>[1] = x
  OBVIOUS
<1>3. /\ <<x>> \o s \in Seq(S) /\ Len(<<x>> \o s) = 1 + n
      /\ \A j \in 1 .. 1 + n : (<<x>> \o s)[j] = IF j <= 1 THEN <<x>>[j] ELSE s[j - 1]
  BY <1>1, <1>2, ConcatProperties
<1>4. 1 \in 1 .. 1 + n /\ \A j \in 1 .. n : j + 1 \in 1 .. 1 + n /\ ~(j + 1 <= 1) /\ j + 1 - 1 = j
  OBVIOUS
<1>5. (<<x>> \o s)[1] = x /\ \A j \in 1 .. n : (<<x>> \o s)[j + 1] = s[j]
  BY <1>2, <1>3, <1>4
<1> QED BY <1>1, <1>3, <1>5

\* The same with the element at the end.
LEMMA AppendPlaces ==
  ASSUME NEW S, NEW s \in Seq(S), NEW x \in S
  PROVE  /\ Append(s, x) \in Seq(S) /\ Len(Append(s, x)) = Len(s) + 1
         /\ Append(s, x)[Len(s) + 1] = x /\ \A j \in 1 .. Len(s) : Append(s, x)[j] = s[j]
BY AppendProperties

\* A visit to the next node.
LEMMA WalkVisits ==
  ASSUME NEW s \in Seq(Nodes), \A i, j \in 1 .. Len(s) : s[i] = s[j] => i = j,
         NEW k \in 1 .. Len(s), NEW was, NEW visited,
         was \subseteq ToSet(s), visited \subseteq ToSet(s),
         \A j \in 1 .. k - 1 : s[j] \in was => s[j] \in visited,
         \A j \in k .. Len(s) : s[j] \notin visited,
         NEW nxt, nxt = IF k = Len(s) THEN Null ELSE s[k + 1]
  PROVE  Walks(s, s[k], nxt, was, visited \cup {s[k]})
<1>1. PICK n \in Nat : n = Len(s)
  OBVIOUS
<1>2. /\ \A i \in 1 .. n : s[i] \in ToSet(s) /\ s[i] \in Nodes
      /\ \A x \in ToSet(s) : \E i \in 1 .. n : s[i] = x
  BY <1>1, ElementPlaces
<1>3. /\ was \subseteq ToSet(s) /\ visited \cup {s[k]} \subseteq ToSet(s)
      /\ s[k] \in ToSet(s)
  BY <1>1, <1>2
<1>4. CASE k = n
  <2>1. nxt = Null
    BY <1>1, <1>4
  <2>2. was \subseteq visited \cup {s[k]}
    <3>1. ASSUME NEW x \in was PROVE x \in visited \cup {s[k]}
      <4>1. PICK j \in 1 .. n : s[j] = x
        BY <1>2
      <4>2. j = k \/ j \in 1 .. k - 1
        BY <1>4
      <4> QED BY <4>1, <4>2
    <3> QED BY <3>1
  <2> QED BY <1>3, <2>1, <2>2 DEF Walks
<1>5. CASE k # n
  <2>1. k + 1 \in 1 .. n /\ nxt = s[k + 1] /\ nxt # Null
    BY <1>1, <1>2, <1>5, LinkedListAssumption
  <2>2. ASSUME NEW j \in 1 .. k + 1 - 1, s[j] \in was PROVE s[j] \in visited \cup {s[k]}
    <3>1. j = k \/ j \in 1 .. k - 1
      OBVIOUS
    <3> QED BY <2>2, <3>1
  <2>3. ASSUME NEW j \in k + 1 .. n PROVE s[j] \notin visited \cup {s[k]}
    <3>1. j \in k .. n /\ j \in 1 .. n /\ j # k
      OBVIOUS
    <3> QED BY <1>1, <3>1
  <2>4. k \in 1 .. k + 1 - 1
    OBVIOUS
  <2>5. Ahead(s, k + 1, s[k], nxt, was, visited \cup {s[k]})
    BY <1>1, <2>1, <2>2, <2>3, <2>4 DEF Ahead
  <2> QED BY <1>1, <1>3, <2>1, <2>5 DEF Walks
<1> QED BY <1>4, <1>5

\* A node pushed at the head lies behind.
LEMMA WalkPush ==
  ASSUME NEW s \in Seq(Nodes), NEW cur, NEW nxt, NEW was, NEW visited,
         Walks(s, cur, nxt, was, visited),
         NEW x \in Nodes, x \notin ToSet(s)
  PROVE  Walks(<<x>> \o s, cur, nxt, was, visited)
<1>1. PICK n \in Nat : n = Len(s)
  OBVIOUS
<1>0. PICK r : r = <<x>> \o s
  OBVIOUS
<1>2. /\ r \in Seq(Nodes) /\ r = <<x>> \o s /\ Len(r) = n + 1
      /\ r[1] = x /\ \A j \in 1 .. n : r[j + 1] = s[j]
  BY <1>0, <1>1, PrependPlaces
<1>3. \A i \in 1 .. n + 1 : r[i] \in ToSet(r)
  BY <1>2, ElementPlaces
<1>4. ToSet(s) \subseteq ToSet(r)
  <2>1. ASSUME NEW y \in ToSet(s) PROVE y \in ToSet(r)
    <3>1. PICK j \in 1 .. n : s[j] = y
      BY <1>1, ElementPlaces
    <3>2. j + 1 \in 1 .. n + 1 /\ r[j + 1] = y
      BY <1>2, <3>1
    <3> QED BY <1>3, <3>2
  <2> QED BY <2>1
<1>5. was \subseteq ToSet(r) /\ visited \subseteq ToSet(r) /\ (cur # Null => cur \in ToSet(r))
  BY <1>4 DEF Walks
<1>6. ASSUME nxt # Null PROVE \E k \in 1 .. Len(r) : Ahead(r, k, cur, nxt, was, visited)
  <2>1. PICK k \in 1 .. n : Ahead(s, k, cur, nxt, was, visited)
    BY <1>1, <1>6 DEF Walks
  <2>2. k + 1 \in 1 .. n + 1 /\ r[k + 1] = nxt
    BY <1>2, <2>1 DEF Ahead
  <2>3. ASSUME NEW j \in 1 .. k + 1 - 1, r[j] \in was PROVE r[j] \in visited
    <3>1. CASE j = 1
      BY <1>2, <2>3, <3>1 DEF Walks
    <3>2. CASE j # 1
      <4>1. PICK i \in 1 .. k - 1 : j = i + 1
        <5>1. j - 1 \in 1 .. k - 1 /\ j = (j - 1) + 1
          BY <3>2
        <5> QED BY <5>1
      <4>2. r[j] = s[i]
        BY <1>2, <4>1
      <4> QED BY <2>1, <2>3, <4>2 DEF Ahead
    <3> QED BY <3>1, <3>2
  <2>4. ASSUME NEW j \in k + 1 .. n + 1 PROVE r[j] \notin visited
    <3>1. PICK i \in k .. n : j = i + 1
      <4>1. j - 1 \in k .. n /\ j = (j - 1) + 1
        OBVIOUS
      <4> QED BY <4>1
    <3>2. r[j] = s[i]
      BY <1>2, <3>1
    <3> QED BY <1>1, <2>1, <3>2 DEF Ahead
  <2>5. ASSUME cur # Null PROVE \E c \in 1 .. k + 1 - 1 : r[c] = cur
    <3>1. PICK c \in 1 .. k - 1 : s[c] = cur
      BY <2>1, <2>5 DEF Ahead
    <3>2. c + 1 \in 1 .. k + 1 - 1 /\ r[c + 1] = s[c]
      BY <1>2
    <3> QED BY <3>1, <3>2
  <2>6. Ahead(r, k + 1, cur, nxt, was, visited)
    BY <1>2, <2>2, <2>3, <2>4, <2>5 DEF Ahead
  <2> QED BY <1>2, <2>2, <2>6
<1>7. nxt = Null => was \subseteq visited
  BY DEF Walks
<1> QED BY <1>2, <1>5, <1>6, <1>7 DEF Walks

\* A node pushed at the tail lies ahead, and was not there at the start.
LEMMA WalkPushBack ==
  ASSUME NEW s \in Seq(Nodes), NEW cur, NEW nxt, NEW was, NEW visited,
         Walks(s, cur, nxt, was, visited),
         NEW x \in Nodes, x \notin ToSet(s)
  PROVE  Walks(Append(s, x), cur, nxt, was, visited)
<1>1. PICK n \in Nat : n = Len(s)
  OBVIOUS
<1>0. PICK r : r = Append(s, x)
  OBVIOUS
<1>2. /\ r \in Seq(Nodes) /\ r = Append(s, x) /\ Len(r) = n + 1
      /\ r[n + 1] = x /\ \A j \in 1 .. n : r[j] = s[j]
  BY <1>0, <1>1, AppendPlaces
<1>3. \A i \in 1 .. n + 1 : r[i] \in ToSet(r)
  BY <1>2, ElementPlaces
<1>4. ToSet(s) \subseteq ToSet(r)
  <2>1. ASSUME NEW y \in ToSet(s) PROVE y \in ToSet(r)
    <3>1. PICK j \in 1 .. n : s[j] = y
      BY <1>1, ElementPlaces
    <3>2. j \in 1 .. n + 1 /\ r[j] = y
      BY <1>2, <3>1
    <3> QED BY <1>3, <3>2
  <2> QED BY <2>1
<1>5. was \subseteq ToSet(r) /\ visited \subseteq ToSet(r) /\ (cur # Null => cur \in ToSet(r))
  BY <1>4 DEF Walks
<1>6. ASSUME nxt # Null PROVE \E k \in 1 .. Len(r) : Ahead(r, k, cur, nxt, was, visited)
  <2>1. PICK k \in 1 .. n : Ahead(s, k, cur, nxt, was, visited)
    BY <1>1, <1>6 DEF Walks
  <2>2. k \in 1 .. n + 1 /\ \A j \in 1 .. k : r[j] = s[j]
    BY <1>2
  <2>3. ASSUME NEW j \in k .. n + 1 PROVE r[j] \notin visited
    <3>1. CASE j = n + 1
      BY <1>2, <3>1 DEF Walks
    <3>2. CASE j # n + 1
      <4>1. j \in k .. n /\ j \in 1 .. n
        BY <3>2
      <4> QED BY <1>1, <1>2, <2>1, <4>1 DEF Ahead
    <3> QED BY <3>1, <3>2
  <2>4. /\ \A j \in 1 .. k - 1 : r[j] \in was => r[j] \in visited
        /\ r[k] = nxt /\ (cur # Null => \E c \in 1 .. k - 1 : r[c] = cur)
    <3>1. k \in 1 .. k /\ \A j \in 1 .. k - 1 : j \in 1 .. k
      OBVIOUS
    <3>2. r[k] = s[k] /\ \A j \in 1 .. k - 1 : r[j] = s[j]
      BY <2>2, <3>1
    <3> QED BY <2>1, <3>2 DEF Ahead
  <2>5. Ahead(r, k, cur, nxt, was, visited)
    BY <1>2, <2>3, <2>4 DEF Ahead
  <2> QED BY <1>2, <2>2, <2>5
<1>7. nxt = Null => was \subseteq visited
  BY DEF Walks
<1> QED BY <1>2, <1>5, <1>6, <1>7 DEF Walks

\* The callback removes a node no further on than its own.
LEMMA WalkDrops ==
  ASSUME NEW s \in Seq(Nodes), \A i, j \in 1 .. Len(s) : s[i] = s[j] => i = j,
         NEW cur, cur # Null, NEW nxt, NEW was, NEW visited,
         Walks(s, cur, nxt, was, visited),
         NEW i \in 1 .. Len(s), \A c \in 1 .. Len(s) : s[c] = cur => i <= c
  PROVE  Walks(Dropped(s, i), Null, nxt, was \ {s[i]}, visited \ {s[i]})
<1>1. PICK n \in Nat : n = Len(s)
  OBVIOUS
<1>2. PICK r \in Seq(Nodes) : /\ r = Dropped(s, i) /\ Len(r) = n - 1
                              /\ \A j \in 1 .. n - 1 : r[j] = IF j < i THEN s[j] ELSE s[j + 1]
                              /\ ToSet(r) = ToSet(s) \ {s[i]}
  <2>1. /\ Dropped(s, i) \in Seq(Nodes) /\ Len(Dropped(s, i)) = Len(s) - 1
        /\ \A j \in 1 .. Len(s) - 1 : Dropped(s, i)[j] = IF j < i THEN s[j] ELSE s[j + 1]
    BY DroppedIsSeq
  <2>2. ToSet(Dropped(s, i)) = ToSet(s) \ {s[i]}
    BY DroppedNodes
  <2> QED BY <1>1, <2>1, <2>2
<1>3. was \ {s[i]} \subseteq ToSet(r) /\ visited \ {s[i]} \subseteq ToSet(r)
  BY <1>2 DEF Walks
<1>4. nxt = Null => was \ {s[i]} \subseteq visited \ {s[i]}
  BY DEF Walks
<1>5. ASSUME nxt # Null
      PROVE  \E k \in 1 .. Len(r) : Ahead(r, k, Null, nxt, was \ {s[i]}, visited \ {s[i]})
  <2>1. PICK k \in 1 .. n : Ahead(s, k, cur, nxt, was, visited)
    BY <1>1, <1>5 DEF Walks
  <2>2. i < k
    <3>1. PICK c \in 1 .. k - 1 : s[c] = cur
      BY <2>1 DEF Ahead
    <3>2. i <= c
      BY <1>1, <3>1
    <3> QED BY <1>1, <3>2
  <2>3. PICK m \in 1 .. n - 1 : k = m + 1 /\ i <= m
    <3>1. k - 1 \in 1 .. n - 1 /\ k = (k - 1) + 1 /\ i <= k - 1
      BY <1>1, <2>2
    <3> QED BY <3>1
  <2>4. r[m] = nxt
    BY <1>2, <2>1, <2>3 DEF Ahead
  <2>5. ASSUME NEW j \in 1 .. m - 1, r[j] \in was \ {s[i]} PROVE r[j] \in visited \ {s[i]}
    <3>1. PICK q \in 1 .. k - 1 : r[j] = s[q]
      <4>1. j \in 1 .. n - 1 /\ j \in 1 .. k - 1 /\ j + 1 \in 1 .. k - 1
        BY <2>3
      <4>2. CASE j < i
        BY <1>2, <4>1, <4>2
      <4>3. CASE ~(j < i)
        BY <1>2, <4>1, <4>3
      <4> QED BY <4>2, <4>3
    <3> QED BY <2>1, <2>5, <3>1 DEF Ahead
  <2>6. ASSUME NEW j \in m .. n - 1 PROVE r[j] \notin visited \ {s[i]}
    <3>1. j \in 1 .. n - 1 /\ ~(j < i) /\ j + 1 \in k .. n
      BY <2>3
    <3>2. r[j] = s[j + 1]
      BY <1>2, <3>1
    <3> QED BY <1>1, <2>1, <3>1, <3>2 DEF Ahead
  <2>7. Ahead(r, m, Null, nxt, was \ {s[i]}, visited \ {s[i]})
    BY <1>2, <2>4, <2>5, <2>6 DEF Ahead
  <2> QED BY <1>2, <2>7
<1> QED BY <1>2, <1>3, <1>4, <1>5 DEF Walks

-----------------------------------------------------------------------------
(* The sequence of values the list stands for.                             *)

\* c has the values of the nodes s, place by place.
ValuesAre(c, s, f) ==
  /\ c \in Seq(Values) /\ Len(c) = Len(s) /\ DOMAIN c = 1 .. Len(s)
  /\ \A i \in 1 .. Len(s) : c[i] = f[s[i]].value

\* The contents of a well-formed list are the values of its nodes, each met once.
LEMMA ContentsHold ==
  ListShape => /\ ValuesAre(Contents, ChainOfThis, item)
               /\ ChainOfThis \in Seq(Nodes)
               /\ \A i, j \in 1 .. Len(ChainOfThis) : ChainOfThis[i] = ChainOfThis[j] => i = j
<1> SUFFICES ASSUME ListShape
             PROVE  /\ ValuesAre(Contents, ChainOfThis, item)
                    /\ ChainOfThis \in Seq(Nodes)
                    /\ \A i, j \in 1 .. Len(ChainOfThis) :
                         ChainOfThis[i] = ChainOfThis[j] => i = j
  OBVIOUS
<1>1. PICK s \in Seq(Nodes) : s = ChainOfThis /\ \A i, j \in 1 .. Len(s) : s[i] = s[j] => i = j
  BY ListPlaces
<1>2. PICK n \in Nat : n = Len(s) /\ DOMAIN s = 1 .. n
  BY LenProperties
<1>3. Contents = [i \in 1 .. n |-> item[s[i]].value]
  BY <1>1, <1>2, ContentsAre
<1>4. \A i \in 1 .. n : item[s[i]].value \in Values
  BY <1>1, <1>2, ListPlaces
<1>5. Contents \in [1 .. n -> Values]
  BY <1>3, <1>4
<1>6. Contents \in Seq(Values) /\ Len(Contents) = n
  BY <1>5, FunctionIsSeq
<1>7. ValuesAre(Contents, s, item)
  BY <1>2, <1>3, <1>6 DEF ValuesAre
<1> QED BY <1>1, <1>7

\* The same of the next state.
LEMMA ContentsHoldNext ==
  ASSUME ListShape'
  PROVE  /\ ValuesAre(Contents', ChainOfThis', item')
         /\ ChainOfThis' \in Seq(Nodes)
         /\ \A i, j \in 1 .. Len(ChainOfThis') : ChainOfThis'[i] = ChainOfThis'[j] => i = j
<1>1. (ListShape => /\ ValuesAre(Contents, ChainOfThis, item)
               /\ ChainOfThis \in Seq(Nodes)
               /\ \A i, j \in 1 .. Len(ChainOfThis) : ChainOfThis[i] = ChainOfThis[j] => i = j)'
  BY ContentsHold, PTL
<1>2. ValuesAre(Contents, ChainOfThis, item)' <=> ValuesAre(Contents', ChainOfThis', item')
  BY DEF ValuesAre
<1> QED BY <1>1, <1>2

\* Sequences that agree on their length and at each place are the same.
LEMMA SamePlaces ==
  ASSUME NEW S, NEW c \in Seq(S), NEW e \in Seq(S), Len(c) = Len(e),
         \A i \in 1 .. Len(c) : c[i] = e[i]
  PROVE  c = e
<1>1. DOMAIN c = 1 .. Len(c) /\ DOMAIN e = 1 .. Len(c)
  BY LenProperties
<1> QED BY <1>1, SeqEqual

\* The library's RemoveAt leaves out one place.
LEMMA RemoveAtDrops ==
  ASSUME NEW S, NEW c \in Seq(S), NEW i \in 1 .. Len(c)
  PROVE  Abstract!RemoveAt(c, i) = Dropped(c, i)
<1>1. PICK n \in Nat : n = Len(c)
  OBVIOUS
<1>2. PICK a : a = SubSeq(c, 1, i - 1)
  OBVIOUS
<1>3. a \in Seq(S) /\ Len(a) = i - 1 /\ \A j \in 1 .. i - 1 : a[j] = c[j]
  BY <1>1, <1>2
<1>4. PICK b : b = SubSeq(c, i + 1, n)
  OBVIOUS
<1>5. b \in Seq(S) /\ Len(b) = n - i /\ \A j \in 1 .. n - i : b[j] = c[i + j]
  BY <1>1, <1>4
<1>6. Abstract!RemoveAt(c, i) = a \o b
  BY <1>1, <1>2, <1>4 DEF Abstract!RemoveAt
<1>7. /\ a \o b \in Seq(S) /\ Len(a \o b) = (i - 1) + (n - i)
      /\ \A j \in 1 .. (i - 1) + (n - i) : (a \o b)[j] = IF j <= i - 1 THEN a[j] ELSE b[j - (i - 1)]
  <2>1. PICK p \in Nat : p = i - 1 /\ Len(a) = p
    BY <1>3
  <2>2. PICK q : q = n - i
    OBVIOUS
  <2>4. q \in Nat /\ Len(b) = q
    BY <1>1, <1>5, <2>2
  <2>5. /\ a \o b \in Seq(S) /\ Len(a \o b) = Len(a) + Len(b)
        /\ \A j \in 1 .. Len(a) + Len(b) :
             (a \o b)[j] = IF j <= Len(a) THEN a[j] ELSE b[j - Len(a)]
    BY <1>3, <1>5, ConcatProperties
  <2>3. /\ a \o b \in Seq(S) /\ Len(a \o b) = p + q
        /\ \A j \in 1 .. p + q : (a \o b)[j] = IF j <= p THEN a[j] ELSE b[j - p]
    BY <2>1, <2>4, <2>5
  <2> QED BY <2>1, <2>2, <2>3, <2>4
<1>8. PICK r : r = a \o b
  OBVIOUS
<1>9. r \in Seq(S) /\ Len(r) = n - 1
  BY <1>1, <1>7, <1>8
<1>10. ASSUME NEW j \in 1 .. n - 1 PROVE r[j] = IF j < i THEN c[j] ELSE c[j + 1]
  <2>0. r[j] = IF j <= i - 1 THEN a[j] ELSE b[j - (i - 1)]
    BY <1>7, <1>8
  <2>1. CASE j < i
    BY <1>3, <2>0, <2>1
  <2>2. CASE ~(j < i)
    <3>1. j - (i - 1) \in 1 .. n - i /\ i + (j - (i - 1)) = j + 1 /\ ~(j <= i - 1)
      BY <1>1, <2>2
    <3> QED BY <1>5, <2>0, <2>2, <3>1
  <2> QED BY <2>1, <2>2
<1>11. /\ Dropped(c, i) \in Seq(S) /\ Len(Dropped(c, i)) = n - 1
       /\ \A j \in 1 .. n - 1 : Dropped(c, i)[j] = IF j < i THEN c[j] ELSE c[j + 1]
  BY <1>1, DroppedIsSeq
<1>12. r = Dropped(c, i)
  BY <1>9, <1>10, <1>11, SamePlaces
<1> QED BY <1>6, <1>8, <1>12

\* Without its first place a sequence is its tail, without its last its front.
LEMMA DroppedEnds ==
  ASSUME NEW S, NEW c \in Seq(S), NEW n \in Nat, n = Len(c), n # 0
  PROVE  /\ Tail(c) = Dropped(c, 1) /\ Head(c) = c[1]
         /\ Abstract!Front(c) = Dropped(c, n) /\ Abstract!Last(c) = c[n]
<1>1. 1 \in 1 .. n /\ n \in 1 .. n
  OBVIOUS
<1>2. /\ Dropped(c, 1) \in Seq(S) /\ Len(Dropped(c, 1)) = n - 1
      /\ \A j \in 1 .. n - 1 : Dropped(c, 1)[j] = IF j < 1 THEN c[j] ELSE c[j + 1]
  BY <1>1, DroppedIsSeq
<1>3. /\ Dropped(c, n) \in Seq(S) /\ Len(Dropped(c, n)) = n - 1
      /\ \A j \in 1 .. n - 1 : Dropped(c, n)[j] = IF j < n THEN c[j] ELSE c[j + 1]
  BY <1>1, DroppedIsSeq
<1>4. Tail(c) \in Seq(S) /\ Len(Tail(c)) = n - 1 /\ \A j \in 1 .. n - 1 : Tail(c)[j] = c[j + 1]
  BY HeadTailProperties
<1>5. Tail(c) = Dropped(c, 1)
  <2>1. \A j \in 1 .. n - 1 : Tail(c)[j] = Dropped(c, 1)[j]
    BY <1>2, <1>4
  <2> QED BY <1>2, <1>4, <2>1, SamePlaces
<1>6. PICK b : b = SubSeq(c, 1, n - 1)
  OBVIOUS
<1>7. b \in Seq(S) /\ Len(b) = n - 1 /\ \A j \in 1 .. n - 1 : b[j] = c[j]
  BY <1>6
<1>8. b = Dropped(c, n)
  <2>1. \A j \in 1 .. n - 1 : b[j] = Dropped(c, n)[j]
    BY <1>3, <1>7
  <2> QED BY <1>3, <1>7, <2>1, SamePlaces
<1>9. Abstract!Front(c) = b /\ Abstract!Last(c) = c[n]
  BY <1>6 DEF Abstract!Front, Abstract!Last
<1> QED BY <1>5, <1>8, <1>9

\* What a list with a node less or more holds.
LEMMA DropsContents ==
  ASSUME ListShape, ListShape', SameValues(item, item'),
         NEW i \in 1 .. Len(ChainOfThis), ChainOfThis' = Dropped(ChainOfThis, i)
  PROVE  Contents' = Dropped(Contents, i)
<1>1. PICK s \in Seq(Nodes) : s = ChainOfThis /\ ValuesAre(Contents, s, item)
  BY ContentsHold
<1>2. PICK n \in Nat : n = Len(s)
  OBVIOUS
<1>3. PICK c \in Seq(Values) : c = Contents /\ Len(c) = n /\ \A j \in 1 .. n : c[j] = item[s[j]].value
  BY <1>1, <1>2 DEF ValuesAre
<1>4. PICK r \in Seq(Nodes) : r = ChainOfThis' /\ ValuesAre(Contents', r, item')
  BY ContentsHoldNext
<1>5. i \in 1 .. n /\ r = Dropped(s, i)
  BY <1>1, <1>2, <1>4
<1>6. Len(r) = n - 1 /\ \A j \in 1 .. n - 1 : r[j] = IF j < i THEN s[j] ELSE s[j + 1]
  BY <1>2, <1>5, DroppedIsSeq
<1>7. PICK e \in Seq(Values) : /\ e = Contents' /\ Len(e) = n - 1
                               /\ \A j \in 1 .. n - 1 : e[j] = item'[r[j]].value
  <2>1. /\ Contents' \in Seq(Values) /\ Len(Contents') = n - 1
        /\ \A j \in 1 .. n - 1 : Contents'[j] = item'[r[j]].value
    BY <1>4, <1>6 DEF ValuesAre
  <2> QED BY <2>1
<1>8. /\ Dropped(c, i) \in Seq(Values) /\ Len(Dropped(c, i)) = n - 1
      /\ \A j \in 1 .. n - 1 : Dropped(c, i)[j] = IF j < i THEN c[j] ELSE c[j + 1]
  BY <1>3, <1>5, DroppedIsSeq
<1>9. ASSUME NEW j \in 1 .. n - 1 PROVE e[j] = Dropped(c, i)[j]
  <2>1. PICK k \in 1 .. n : k = IF j < i THEN j ELSE j + 1
    BY <1>5
  <2>2. r[j] = s[k] /\ Dropped(c, i)[j] = c[k] /\ s[k] \in Nodes
    BY <1>2, <1>6, <1>8, <2>1, SMTT(30)
  <2>3. item'[s[k]].value = item[s[k]].value
    BY <2>2 DEF SameValues
  <2> QED BY <1>3, <1>7, <2>2, <2>3
<1>10. e = Dropped(c, i)
  BY <1>7, <1>8, <1>9, SamePlaces
<1> QED BY <1>3, <1>7, <1>10

\* push puts the value before the others.
LEMMA PushesContents ==
  ASSUME ListShape, ListShape', NEW v \in Values, NEW x \in Nodes \ live,
         ChainOfThis' = <<x>> \o ChainOfThis,
         \A y \in Nodes : item'[y].value = IF y = x THEN v ELSE item[y].value
  PROVE  Contents' = <<v>> \o Contents
<1>1. PICK s \in Seq(Nodes) : s = ChainOfThis /\ ValuesAre(Contents, s, item)
  BY ContentsHold
<1>2. PICK n \in Nat : n = Len(s)
  OBVIOUS
<1>3. PICK c \in Seq(Values) : c = Contents /\ Len(c) = n /\ \A j \in 1 .. n : c[j] = item[s[j]].value
  BY <1>1, <1>2 DEF ValuesAre
<1>4. PICK r \in Seq(Nodes) : r = ChainOfThis' /\ ValuesAre(Contents', r, item')
  BY ContentsHoldNext
<1>5. r = <<x>> \o s
  BY <1>1, <1>4
<1>6. Len(r) = n + 1 /\ r[1] = x /\ \A j \in 1 .. n : r[j + 1] = s[j]
  BY <1>2, <1>5, PrependPlaces
<1>7. PICK e \in Seq(Values) : /\ e = Contents' /\ Len(e) = n + 1
                               /\ \A j \in 1 .. n + 1 : e[j] = item'[r[j]].value
  <2>1. /\ Contents' \in Seq(Values) /\ Len(Contents') = n + 1
        /\ \A j \in 1 .. n + 1 : Contents'[j] = item'[r[j]].value
    BY <1>4, <1>6 DEF ValuesAre
  <2> QED BY <2>1
<1>8. PICK d : d = <<v>> \o c
  OBVIOUS
<1>9. d \in Seq(Values) /\ Len(d) = n + 1 /\ d[1] = v /\ \A j \in 1 .. n : d[j + 1] = c[j]
  BY <1>3, <1>8, PrependPlaces
<1>10. \A j \in 1 .. n : s[j] \in Nodes /\ s[j] # x
  <2>1. \A j \in 1 .. Len(s) : s[j] \in Nodes /\ s[j] \in live
    BY <1>1, ListPlaces
  <2> QED BY <1>2, <2>1
<1>11. ASSUME NEW j \in 1 .. n + 1 PROVE e[j] = d[j]
  <2>1. CASE j = 1
    BY <1>6, <1>7, <1>9, <2>1
  <2>2. CASE j # 1
    <3>1. PICK k \in 1 .. n : j = k + 1
      <4>1. j - 1 \in 1 .. n /\ j = (j - 1) + 1
        BY <2>2
      <4> QED BY <4>1
    <3>2. e[j] = item'[s[k]].value /\ d[j] = c[k]
      BY <1>6, <1>7, <1>9, <3>1
    <3> QED BY <1>3, <1>10, <3>2
  <2> QED BY <2>1, <2>2
<1>12. e = d
  BY <1>7, <1>9, <1>11, SamePlaces
<1> QED BY <1>3, <1>7, <1>8, <1>12

\* push_back puts the value after the others.
LEMMA AppendsContents ==
  ASSUME ListShape, ListShape', NEW v \in Values, NEW x \in Nodes \ live,
         ChainOfThis' = Append(ChainOfThis, x),
         \A y \in Nodes : item'[y].value = IF y = x THEN v ELSE item[y].value
  PROVE  Contents' = Append(Contents, v)
<1>1. PICK s \in Seq(Nodes) : s = ChainOfThis /\ ValuesAre(Contents, s, item)
  BY ContentsHold
<1>2. PICK n \in Nat : n = Len(s)
  OBVIOUS
<1>3. PICK c \in Seq(Values) : c = Contents /\ Len(c) = n /\ \A j \in 1 .. n : c[j] = item[s[j]].value
  BY <1>1, <1>2 DEF ValuesAre
<1>4. PICK r \in Seq(Nodes) : r = ChainOfThis' /\ ValuesAre(Contents', r, item')
  BY ContentsHoldNext
<1>5. r = Append(s, x)
  BY <1>1, <1>4
<1>6. Len(r) = n + 1 /\ r[n + 1] = x /\ \A j \in 1 .. n : r[j] = s[j]
  BY <1>2, <1>5, AppendPlaces
<1>7. PICK e \in Seq(Values) : /\ e = Contents' /\ Len(e) = n + 1
                               /\ \A j \in 1 .. n + 1 : e[j] = item'[r[j]].value
  <2>1. /\ Contents' \in Seq(Values) /\ Len(Contents') = n + 1
        /\ \A j \in 1 .. n + 1 : Contents'[j] = item'[r[j]].value
    BY <1>4, <1>6 DEF ValuesAre
  <2> QED BY <2>1
<1>8. PICK d : d = Append(c, v)
  OBVIOUS
<1>9. d \in Seq(Values) /\ Len(d) = n + 1 /\ d[n + 1] = v /\ \A j \in 1 .. n : d[j] = c[j]
  BY <1>3, <1>8, AppendPlaces
<1>10. \A j \in 1 .. n : s[j] \in Nodes /\ s[j] # x
  <2>1. \A j \in 1 .. Len(s) : s[j] \in Nodes /\ s[j] \in live
    BY <1>1, ListPlaces
  <2> QED BY <1>2, <2>1
<1>11. ASSUME NEW j \in 1 .. n + 1 PROVE e[j] = d[j]
  <2>1. CASE j = n + 1
    BY <1>6, <1>7, <1>9, <2>1
  <2>2. CASE j # n + 1
    <3>1. j \in 1 .. n
      BY <2>2
    <3>2. e[j] = item'[s[j]].value /\ d[j] = c[j]
      BY <1>6, <1>7, <1>9, <3>1
    <3> QED BY <1>3, <1>10, <3>1, <3>2
  <2> QED BY <2>1, <2>2
<1>12. e = d
  BY <1>7, <1>9, <1>11, SamePlaces
<1> QED BY <1>3, <1>7, <1>8, <1>12

\* What a list whose first node went to its end holds.
LEMMA RotatesContents ==
  ASSUME ListShape, ListShape', SameValues(item, item'), 1 \in 1 .. Len(ChainOfThis),
         ChainOfThis' = Append(Dropped(ChainOfThis, 1), ChainOfThis[1])
  PROVE  Contents' = Append(Dropped(Contents, 1), Contents[1])
<1>1. PICK s \in Seq(Nodes) : s = ChainOfThis /\ ValuesAre(Contents, s, item)
  BY ContentsHold
<1>2. PICK n \in Nat : n = Len(s) /\ 1 \in 1 .. n
  BY <1>1
<1>3. PICK c \in Seq(Values) : c = Contents /\ Len(c) = n /\ \A j \in 1 .. n : c[j] = item[s[j]].value
  BY <1>1, <1>2 DEF ValuesAre
<1>4. PICK r \in Seq(Nodes) : r = ChainOfThis' /\ ValuesAre(Contents', r, item')
  BY ContentsHoldNext
<1>5. PICK m \in Nat : n = m + 1
  <2>1. n - 1 \in Nat /\ n = (n - 1) + 1
    BY <1>2
  <2> QED BY <2>1
<1>6. PICK q \in Seq(Nodes) : q = Dropped(s, 1) /\ Len(q) = m /\ \A j \in 1 .. m : q[j] = s[j + 1]
  <2>1. /\ Dropped(s, 1) \in Seq(Nodes) /\ Len(Dropped(s, 1)) = n - 1
        /\ \A j \in 1 .. n - 1 : Dropped(s, 1)[j] = IF j < 1 THEN s[j] ELSE s[j + 1]
    BY <1>2, DroppedIsSeq
  <2>2. n - 1 = m /\ \A j \in 1 .. m : ~(j < 1)
    BY <1>5
  <2> QED BY <2>1, <2>2
<1>7. PICK d \in Seq(Values) : d = Dropped(c, 1) /\ Len(d) = m /\ \A j \in 1 .. m : d[j] = c[j + 1]
  <2>1. /\ Dropped(c, 1) \in Seq(Values) /\ Len(Dropped(c, 1)) = n - 1
        /\ \A j \in 1 .. n - 1 : Dropped(c, 1)[j] = IF j < 1 THEN c[j] ELSE c[j + 1]
    BY <1>2, <1>3, DroppedIsSeq
  <2>2. n - 1 = m /\ \A j \in 1 .. m : ~(j < 1)
    BY <1>5
  <2> QED BY <2>1, <2>2
<1>8. s[1] \in Nodes /\ c[1] \in Values /\ \A j \in 1 .. m : s[j + 1] \in Nodes
  <2>1. \A j \in 1 .. m : j + 1 \in 1 .. n
    BY <1>5
  <2>2. \A j \in 1 .. n : s[j] \in Nodes /\ c[j] \in Values
    BY <1>2, <1>3
  <2> QED BY <1>2, <2>1, <2>2
<1>9. Len(r) = m + 1 /\ r[m + 1] = s[1] /\ \A j \in 1 .. m : r[j] = q[j]
  <2>1. r = Append(q, s[1])
    BY <1>1, <1>4, <1>6
  <2>2. PICK x \in Nodes : x = s[1]
    BY <1>8
  <2>3. /\ Len(Append(q, x)) = Len(q) + 1 /\ Append(q, x)[Len(q) + 1] = x
        /\ \A j \in 1 .. Len(q) : Append(q, x)[j] = q[j]
    BY AppendPlaces
  <2> QED BY <1>6, <2>1, <2>2, <2>3
<1>10. PICK e \in Seq(Values) : /\ e = Contents' /\ Len(e) = m + 1
                                /\ \A j \in 1 .. m + 1 : e[j] = item'[r[j]].value
  <2>1. /\ Contents' \in Seq(Values) /\ Len(Contents') = m + 1
        /\ \A j \in 1 .. m + 1 : Contents'[j] = item'[r[j]].value
    BY <1>4, <1>9 DEF ValuesAre
  <2> QED BY <2>1
<1>11. PICK b : b = Append(d, c[1])
  OBVIOUS
<1>12. b \in Seq(Values) /\ Len(b) = m + 1 /\ b[m + 1] = c[1] /\ \A j \in 1 .. m : b[j] = d[j]
  <2>1. PICK y \in Values : y = c[1]
    BY <1>8
  <2>2. /\ Append(d, y) \in Seq(Values) /\ Len(Append(d, y)) = Len(d) + 1
        /\ Append(d, y)[Len(d) + 1] = y /\ \A j \in 1 .. Len(d) : Append(d, y)[j] = d[j]
    BY <1>7, <2>1, AppendPlaces
  <2> QED BY <1>7, <1>11, <2>1, <2>2
<1>13. ASSUME NEW j \in 1 .. m + 1 PROVE e[j] = b[j]
  <2>1. CASE j = m + 1
    <3>1. e[j] = item'[s[1]].value /\ b[j] = item[s[1]].value
      BY <1>2, <1>3, <1>9, <1>10, <1>12, <2>1
    <3> QED BY <1>8, <3>1 DEF SameValues
  <2>2. CASE j # m + 1
    <3>1. j \in 1 .. m /\ j + 1 \in 1 .. n
      BY <1>5, <2>2
    <3>2. e[j] = item'[s[j + 1]].value /\ b[j] = item[s[j + 1]].value
      BY <1>3, <1>6, <1>7, <1>9, <1>10, <1>12, <3>1
    <3> QED BY <1>8, <3>1, <3>2 DEF SameValues
  <2> QED BY <2>1, <2>2
<1>14. e = b
  BY <1>10, <1>12, <1>13, SamePlaces
<1> QED BY <1>3, <1>7, <1>10, <1>11, <1>14

\* A list that keeps its nodes and values keeps what it holds.
LEMMA KeepsContents ==
  ASSUME ListShape, ListShape', SameValues(item, item'), ChainOfThis' = ChainOfThis
  PROVE  Contents' = Contents
<1>1. PICK s \in Seq(Nodes) : s = ChainOfThis /\ ValuesAre(Contents, s, item)
  BY ContentsHold
<1>2. ValuesAre(Contents', s, item')
  BY <1>1, ContentsHoldNext
<1>3. PICK n \in Nat : n = Len(s)
  OBVIOUS
<1>4. \A i \in 1 .. n : item'[s[i]].value = item[s[i]].value
  BY <1>1, <1>3 DEF SameValues
<1>5. /\ Contents \in Seq(Values) /\ Contents' \in Seq(Values)
      /\ Len(Contents) = n /\ Len(Contents') = n
      /\ \A i \in 1 .. n : Contents'[i] = Contents[i]
  BY <1>1, <1>2, <1>3, <1>4 DEF ValuesAre
<1> QED BY <1>5, SamePlaces

\* sort, as the sequence of values sees it.
LEMMA SortSorts ==
  ASSUME ListShape, sort
  PROVE  /\ ListShape' /\ live' = live
         /\ Contents' \in [DOMAIN Contents -> Values]
         /\ Abstract!SortOf(Contents, Contents')
<1>1. PICK s \in Seq(Nodes) : s = ChainOfThis /\ ValuesAre(Contents, s, item)
  BY ContentsHold
<1>2. PICK n \in Nat : n = Len(s) /\ DOMAIN s = 1 .. n
  BY LenProperties
<1>3. PICK c \in [1 .. n -> Values] : /\ c = Contents /\ DOMAIN c = 1 .. n
                                      /\ c = [i \in DOMAIN ChainOfThis |-> item[ChainOfThis[i]].value]
  <2>1. Contents = [i \in 1 .. n |-> item[s[i]].value]
    BY <1>1, <1>2, ContentsAre
  <2>2. \A i \in 1 .. n : item[s[i]].value \in Values
    BY <1>1, <1>2 DEF ValuesAre
  <2>3. Contents \in [1 .. n -> Values]
    BY <2>1, <2>2
  <2> QED BY <1>1, <1>2, <2>1, <2>3
<1>4. PICK t : t = Passes(c)
  OBVIOUS
<1>5. /\ t \in [1 .. n -> Values] /\ Rearranged(c, t, n)
      /\ \A a, b \in 1 .. n : a < b => t[a] <= t[b]
  BY <1>4, PassesEffect
<1>6. /\ ListShape' /\ ChainOfThis' = ChainOfThis /\ live' = live
      /\ \A i \in 1 .. Len(ChainOfThis) : item'[ChainOfThis[i]].value = t[i]
  <2>1. t = Passes([i \in DOMAIN ChainOfThis |-> item[ChainOfThis[i]].value])
    BY <1>3, <1>4
  <2>2. t \in [1 .. Len(ChainOfThis) -> Values]
    BY <1>1, <1>2, <1>5
  <2> QED BY <2>1, <2>2, SortEffect
<1>7. ValuesAre(Contents', s, item')
  BY <1>1, <1>6, ContentsHoldNext
<1>8. Contents' = t
  <2>1. /\ Contents' \in Seq(Values) /\ Len(Contents') = n
        /\ \A i \in 1 .. n : Contents'[i] = item'[s[i]].value
    BY <1>2, <1>7 DEF ValuesAre
  <2>2. \A i \in 1 .. n : item'[s[i]].value = t[i]
    BY <1>1, <1>2, <1>6
  <2>3. t \in Seq(Values) /\ Len(t) = n
    BY <1>5, FunctionIsSeq
  <2> QED BY <2>1, <2>2, <2>3, SamePlaces
<1>9. Abstract!SortOf(c, t)
  <2>1. PICK p \in [1 .. n -> 1 .. n] : /\ \A i, j \in 1 .. n : p[i] = p[j] => i = j
                                        /\ \A i \in 1 .. n : t[i] = c[p[i]]
    BY <1>5 DEF Rearranged
  <2>2. p \in [DOMAIN c -> DOMAIN c]
    BY <1>3
  <2>3. Abstract!SortOf(c, t) <=>
          /\ \E q \in [1 .. n -> 1 .. n] :
               /\ \A i, j \in 1 .. n : q[i] = q[j] => i = j
               /\ \A i \in 1 .. n : t[i] = c[q[i]]
          /\ \A i, j \in 1 .. n : i < j => t[i] <= t[j]
    BY <1>3 DEF Abstract!SortOf
  <2> QED BY <1>5, <2>1, <2>3
<1> QED BY <1>3, <1>5, <1>6, <1>8, <1>9

-----------------------------------------------------------------------------
(* Every call keeps the invariant, and is a call of the sequence.          *)

Steps == Abstract!DequeNext \/ UNCHANGED Abstract!dequeVars

\* push, also from the callback of a foreach.
LEMMA PushSteps ==
  ASSUME ListInv, NEW v \in Values, push(v)
  PROVE  ListInv' /\ Steps
<1>0. ListShape /\ walking \in BOOLEAN
  BY DEF ListInv
<1>1. /\ ListShape'
      /\ \E x \in Nodes \ live :
           /\ ChainOfThis' = <<x>> \o ChainOfThis
           /\ live' = live \cup {x}
           /\ \A y \in Nodes : item'[y].value = IF y = x THEN v ELSE item[y].value
  BY <1>0, PushEffect
<1>2. PICK x \in Nodes \ live :
           /\ ChainOfThis' = <<x>> \o ChainOfThis
           /\ \A y \in Nodes : item'[y].value = IF y = x THEN v ELSE item[y].value
  BY <1>1
<1>3. /\ walking' = walking /\ current' = current /\ next' = next
      /\ old' = old /\ seen' = seen
      /\ ~halted /\ call' = "push" /\ result' = v /\ halted' = halted
  BY DEF push, Answers, walkVars
<1>4. ASSUME walking PROVE Walks(ChainOfThis', current', next', old', seen')
  <2>1. PICK s \in Seq(Nodes) : s = ChainOfThis
    BY <1>0, ContentsHold
  <2>2. x \in Nodes /\ x \notin ToSet(s)
    BY <1>0, <2>1 DEF ListShape, Listed
  <2>3. Walks(s, current, next, old, seen)
    BY <1>4, <2>1 DEF ListInv
  <2>4. Walks(<<x>> \o s, current, next, old, seen)
    BY <2>2, <2>3, WalkPush
  <2> QED BY <1>2, <1>3, <2>1, <2>4
<1>5. Contents' = <<v>> \o Contents
  BY <1>0, <1>1, <1>2, PushesContents
<1>6. Steps
  BY <1>3, <1>5 DEF Steps, Abstract!DequeNext, Abstract!PushOne, Abstract!Call
<1> QED BY <1>0, <1>1, <1>3, <1>4, <1>6 DEF ListInv

\* push_back, also from the callback of a foreach.
LEMMA PushBackSteps ==
  ASSUME ListInv, NEW v \in Values, push_back(v)
  PROVE  ListInv' /\ Steps
<1>0. ListShape /\ walking \in BOOLEAN
  BY DEF ListInv
<1>1. /\ ListShape'
      /\ \E x \in Nodes \ live :
           /\ ChainOfThis' = Append(ChainOfThis, x)
           /\ live' = live \cup {x}
           /\ \A y \in Nodes : item'[y].value = IF y = x THEN v ELSE item[y].value
  BY <1>0, PushBackEffect
<1>2. PICK x \in Nodes \ live :
           /\ ChainOfThis' = Append(ChainOfThis, x)
           /\ \A y \in Nodes : item'[y].value = IF y = x THEN v ELSE item[y].value
  BY <1>1
<1>3. /\ walking' = walking /\ current' = current /\ next' = next
      /\ old' = old /\ seen' = seen
      /\ ~halted /\ call' = "push_back" /\ result' = v /\ halted' = halted
  BY DEF push_back, Answers, walkVars
<1>4. ASSUME walking PROVE Walks(ChainOfThis', current', next', old', seen')
  <2>1. PICK s \in Seq(Nodes) : s = ChainOfThis
    BY <1>0, ContentsHold
  <2>2. x \in Nodes /\ x \notin ToSet(s)
    BY <1>0, <2>1 DEF ListShape, Listed
  <2>3. Walks(s, current, next, old, seen)
    BY <1>4, <2>1 DEF ListInv
  <2>4. Walks(Append(s, x), current, next, old, seen)
    BY <2>2, <2>3, WalkPushBack
  <2> QED BY <1>2, <1>3, <2>1, <2>4
<1>5. Contents' = Append(Contents, v)
  BY <1>0, <1>1, <1>2, AppendsContents
<1>6. Steps
  BY <1>3, <1>5 DEF Steps, Abstract!DequeNext, Abstract!PushOne, Abstract!Call
<1> QED BY <1>0, <1>1, <1>3, <1>4, <1>6 DEF ListInv

\* The ends of the sequence are those of the list.
LEMMA ContentsEnds ==
  ASSUME ListShape, NEW n \in Nat, n = Len(ChainOfThis), n # 0
  PROVE  /\ 1 \in 1 .. n /\ n \in 1 .. n
         /\ Contents \in Seq(Values) /\ Len(Contents) = n /\ Abstract!Nonempty
         /\ Head(Contents) = item[ChainOfThis[1]].value
         /\ Tail(Contents) = Dropped(Contents, 1)
         /\ Abstract!Front(Contents) = Dropped(Contents, n)
         /\ Abstract!Last(Contents) = item[ChainOfThis[n]].value
         /\ Contents[1] = item[ChainOfThis[1]].value
<1>1. 1 \in 1 .. n /\ n \in 1 .. n
  OBVIOUS
<1>2. PICK c \in Seq(Values) : /\ c = Contents /\ Len(c) = n
                               /\ \A i \in 1 .. n : c[i] = item[ChainOfThis[i]].value
  BY ContentsHold DEF ValuesAre
<1>3. /\ Tail(c) = Dropped(c, 1) /\ Head(c) = c[1]
      /\ Abstract!Front(c) = Dropped(c, n) /\ Abstract!Last(c) = c[n]
  BY <1>2, DroppedEnds
<1>4. c # <<>>
  BY <1>2
<1> QED BY <1>1, <1>2, <1>3, <1>4 DEF Abstract!Nonempty

\* pop takes the first value and answers it.
LEMMA PopSteps ==
  ASSUME ListShape, pop
  PROVE  ListShape' /\ walking' = walking /\ Steps
<1>1. /\ ListShape' /\ SameValues(item, item') /\ 1 \in 1 .. Len(ChainOfThis)
      /\ ChainOfThis' = Dropped(ChainOfThis, 1)
      /\ result' = item[ChainOfThis[1]].value
  BY PopEffect
<1>2. walking' = walking /\ ~halted /\ call' = "pop" /\ halted' = halted
  BY DEF pop, Answers
<1>3. Contents' = Dropped(Contents, 1)
  BY <1>1, DropsContents
<1>4. PICK n \in Nat : n = Len(ChainOfThis) /\ n # 0
  BY <1>1, ListPlaces
<1>5. /\ Abstract!Nonempty /\ Head(Contents) = item[ChainOfThis[1]].value
      /\ Tail(Contents) = Dropped(Contents, 1)
  BY <1>4, ContentsEnds
<1>6. Abstract!Call("pop", Tail(Contents), Head(Contents))
  BY <1>1, <1>2, <1>3, <1>5 DEF Abstract!Call
<1>7. Steps
  BY <1>5, <1>6 DEF Steps, Abstract!DequeNext, Abstract!TakeOne
<1> QED BY <1>1, <1>2, <1>7

\* pop_back takes the last value and answers it.
LEMMA PopBackSteps ==
  ASSUME ListShape, pop_back
  PROVE  ListShape' /\ walking' = walking /\ Steps
<1>1. /\ ListShape' /\ SameValues(item, item')
      /\ Len(ChainOfThis) \in 1 .. Len(ChainOfThis)
      /\ ChainOfThis' = Dropped(ChainOfThis, Len(ChainOfThis))
      /\ result' = item[ChainOfThis[Len(ChainOfThis)]].value
  BY PopBackEffect
<1>2. walking' = walking /\ ~halted /\ call' = "pop_back" /\ halted' = halted
  BY DEF pop_back, Answers
<1>3. Contents' = Dropped(Contents, Len(ChainOfThis))
  BY <1>1, DropsContents
<1>4. PICK n \in Nat : n = Len(ChainOfThis) /\ n # 0
  BY <1>1, ListPlaces
<1>5. /\ Abstract!Nonempty /\ Abstract!Last(Contents) = item[ChainOfThis[n]].value
      /\ Abstract!Front(Contents) = Dropped(Contents, n)
  BY <1>4, ContentsEnds
<1>6. Abstract!Call("pop_back", Abstract!Front(Contents), Abstract!Last(Contents))
  BY <1>1, <1>2, <1>3, <1>4, <1>5 DEF Abstract!Call
<1>7. Steps
  BY <1>5, <1>6 DEF Steps, Abstract!DequeNext, Abstract!TakeOne
<1> QED BY <1>1, <1>2, <1>7

\* peek answers the first value.
LEMMA PeekSteps ==
  ASSUME ListShape, peek
  PROVE  ListShape' /\ walking' = walking /\ Steps
<1>1. ListShape' /\ ChainOfThis' = ChainOfThis /\ SameValues(item, item')
  BY FieldsKeep DEF peek
<1>2. /\ walking' = walking /\ ~halted /\ call' = "peek" /\ halted' = halted
      /\ result' = item[_head].value /\ _head # Null
  BY DEF peek, Answers, walkVars
<1>3. Contents' = Contents
  BY <1>1, KeepsContents
<1>4. PICK n \in Nat : n = Len(ChainOfThis) /\ _head = IF n = 0 THEN Null ELSE ChainOfThis[1]
  BY ListPlaces
<1>5. /\ Abstract!Nonempty /\ Head(Contents) = item[ChainOfThis[1]].value
  BY <1>2, <1>4, ContentsEnds
<1>6. Abstract!Call("peek", Contents, Head(Contents))
  BY <1>2, <1>3, <1>4, <1>5 DEF Abstract!Call
<1>7. Steps
  BY <1>5, <1>6 DEF Steps, Abstract!DequeNext, Abstract!TakeOne
<1> QED BY <1>1, <1>2, <1>7

\* peek_back answers the last value.
LEMMA PeekBackSteps ==
  ASSUME ListShape, peek_back
  PROVE  ListShape' /\ walking' = walking /\ Steps
<1>1. ListShape' /\ ChainOfThis' = ChainOfThis /\ SameValues(item, item')
  BY FieldsKeep DEF peek_back
<1>2. /\ walking' = walking /\ ~halted /\ call' = "peek_back" /\ halted' = halted
      /\ result' = item[_tail].value /\ _tail # Null
  BY DEF peek_back, Answers, walkVars
<1>3. Contents' = Contents
  BY <1>1, KeepsContents
<1>4. PICK n \in Nat : n = Len(ChainOfThis) /\ _tail = IF n = 0 THEN Null ELSE ChainOfThis[n]
  BY ListPlaces
<1>5. /\ Abstract!Nonempty /\ Abstract!Last(Contents) = item[ChainOfThis[n]].value
  BY <1>2, <1>4, ContentsEnds
<1>6. Abstract!Call("peek_back", Contents, Abstract!Last(Contents))
  BY <1>2, <1>3, <1>4, <1>5 DEF Abstract!Call
<1>7. Steps
  BY <1>5, <1>6 DEF Steps, Abstract!DequeNext, Abstract!TakeOne
<1> QED BY <1>1, <1>2, <1>7

\* peek_and_pushback moves the first value to the end and answers it.
LEMMA RotateSteps ==
  ASSUME ListShape, peek_and_pushback
  PROVE  ListShape' /\ walking' = walking /\ Steps
<1>1. /\ ListShape' /\ SameValues(item, item') /\ 1 \in 1 .. Len(ChainOfThis)
      /\ ChainOfThis' = Append(Dropped(ChainOfThis, 1), ChainOfThis[1])
      /\ result' = item[ChainOfThis[1]].value
  BY RotateEffect
<1>2. walking' = walking /\ ~halted /\ call' = "peek_and_pushback" /\ halted' = halted
  BY DEF peek_and_pushback, Answers, walkVars
<1>3. Contents' = Append(Dropped(Contents, 1), Contents[1])
  BY <1>1, RotatesContents
<1>4. PICK n \in Nat : n = Len(ChainOfThis) /\ n # 0
  BY <1>1, ListPlaces
<1>5. /\ Abstract!Nonempty /\ Head(Contents) = item[ChainOfThis[1]].value
      /\ Tail(Contents) = Dropped(Contents, 1) /\ Contents[1] = item[ChainOfThis[1]].value
  BY <1>4, ContentsEnds
<1>6. Abstract!Call("peek_and_pushback", Append(Tail(Contents), Head(Contents)), Head(Contents))
  BY <1>1, <1>2, <1>3, <1>5 DEF Abstract!Call
<1>7. Steps
  BY <1>5, <1>6 DEF Steps, Abstract!DequeNext, Abstract!TakeOne
<1> QED BY <1>1, <1>2, <1>7

\* sort orders the values.
LEMMA SortSteps ==
  ASSUME ListShape, sort
  PROVE  ListShape' /\ walking' = walking /\ Steps
<1>1. /\ ListShape' /\ Contents' \in [DOMAIN Contents -> Values]
      /\ Abstract!SortOf(Contents, Contents')
  BY SortSorts
<1>2. /\ walking' = walking /\ ~halted /\ call' = "sort" /\ halted' = halted
      /\ result' = Null /\ _head # Null
  BY DEF sort, Answers, walkVars
<1>3. PICK n \in Nat : n = Len(ChainOfThis) /\ _head = IF n = 0 THEN Null ELSE ChainOfThis[1]
  BY ListPlaces
<1>4. Abstract!Nonempty
  BY <1>2, <1>3, ContentsEnds
<1>5. Abstract!Call("sort", Contents', Null)
  BY <1>2 DEF Abstract!Call
<1>6. Steps
  BY <1>1, <1>4, <1>5 DEF Steps, Abstract!DequeNext, Abstract!TakeOne
<1> QED BY <1>1, <1>2, <1>6

\* clear leaves none.
LEMMA ClearSteps ==
  ASSUME ListShape, clear
  PROVE  ListShape' /\ walking' = walking /\ Steps
<1>1. ListShape' /\ ChainOfThis' = <<>>
  BY ClearEffect
<1>2. walking' = walking /\ ~halted /\ call' = "clear" /\ halted' = halted /\ result' = Null
  BY DEF clear, Answers
<1>3. Contents' = <<>>
  <2>1. Contents' \in Seq(Values) /\ Len(Contents') = Len(<<>>)
    BY <1>1, ContentsHoldNext DEF ValuesAre
  <2> QED BY <2>1
<1>4. Steps
  BY <1>2, <1>3 DEF Steps, Abstract!DequeNext, Abstract!Call
<1> QED BY <1>1, <1>2, <1>4

\* remove_all leaves the values that differ.
LEMMA RemoveAllSteps ==
  ASSUME ListShape, NEW v \in Values, remove_all(v)
  PROVE  ListShape' /\ walking' = walking /\ Steps
<1>1. /\ walking' = walking /\ ~halted /\ call' = "remove_all" /\ halted' = halted
      /\ result' = Null /\ RemoveAll(Matches(v))
  BY DEF remove_all, Answers
<1>2. PICK w : w = Abstract!Without(Contents, v)
  OBVIOUS
<1>3. /\ ListShape' /\ SameValues(item, item')
      /\ w \in Seq(Values) /\ Len(ChainOfThis') = Len(w)
      /\ \A j \in 1 .. Len(w) : item[ChainOfThis'[j]].value = w[j]
  BY <1>1, <1>2, RemoveAllEffect
<1>4. ValuesAre(Contents', ChainOfThis', item') /\ ChainOfThis' \in Seq(Nodes)
  BY <1>3, ContentsHoldNext
<1>5. PICK r \in Seq(Nodes) : r = ChainOfThis'
  BY <1>4
<1>6. PICK n \in Nat : n = Len(w) /\ Len(r) = n
  BY <1>3, <1>5
<1>7. \A j \in 1 .. n : item'[r[j]].value = w[j]
  BY <1>3, <1>5, <1>6 DEF SameValues
<1>8. /\ Contents' \in Seq(Values) /\ Len(Contents') = n
      /\ \A j \in 1 .. n : Contents'[j] = item'[r[j]].value
  BY <1>4, <1>5, <1>6 DEF ValuesAre
<1>9. Contents' = w
  BY <1>3, <1>6, <1>7, <1>8, SamePlaces
<1>10. Abstract!Call("remove_all", Abstract!Without(Contents, v), Null)
  BY <1>1, <1>2, <1>9 DEF Abstract!Call
<1>11. Steps
  BY <1>10 DEF Steps, Abstract!DequeNext, Abstract!ByValue
<1> QED BY <1>1, <1>3, <1>11

\* remove takes the first value that equals its argument, if one does.
LEMMA RemoveSteps ==
  ASSUME ListShape, NEW v \in Values, remove(v)
  PROVE  ListShape' /\ Steps
<1>1. ~halted /\ call' = "remove" /\ halted' = halted /\ result' = Null
  BY DEF remove, Answers
<1>2. PICK s \in Seq(Nodes) : s = ChainOfThis /\ ValuesAre(Contents, s, item)
  BY ContentsHold
<1>3. PICK n \in Nat : n = Len(s) /\ DOMAIN s = 1 .. n
  BY LenProperties
<1>4. /\ Contents \in Seq(Values) /\ Len(Contents) = n /\ DOMAIN Contents = 1 .. n
      /\ \A i \in 1 .. n : Contents[i] = item[s[i]].value
  BY <1>2, <1>3 DEF ValuesAre
<1>5. \A i : i \in Matches(v) <=> i \in 1 .. n /\ Contents[i] = v
  BY <1>2, <1>3, <1>4 DEF Matches
<1>6. CASE Matches(v) # {}
  <2>1. PICK i \in Matches(v) :
           /\ \A j \in Matches(v) : i <= j
           /\ ListShape' /\ SameValues(item, item')
           /\ ChainOfThis' = Dropped(ChainOfThis, i)
    BY <1>6, RemoveEffect
  <2>2. i \in 1 .. n /\ Contents[i] = v
    BY <1>5
  <2>3. i \in 1 .. Len(ChainOfThis)
    BY <1>2, <1>3, <2>2
  <2>4. Contents' = Dropped(Contents, i)
    BY <2>1, <2>3, DropsContents
  <2>5. Abstract!RemoveAt(Contents, i) = Dropped(Contents, i)
    BY <1>4, <2>2, RemoveAtDrops
  <2>6. \A j \in 1 .. i - 1 : Contents[j] # v
    <3>1. ASSUME NEW j \in 1 .. i - 1, Contents[j] = v PROVE FALSE
      <4>1. j \in 1 .. n /\ ~(i <= j)
        BY <2>2
      <4> QED BY <1>5, <2>1, <3>1, <4>1
    <3> QED BY <3>1
  <2>7. Abstract!Call("remove", Abstract!RemoveAt(Contents, i), Null)
    BY <1>1, <2>4, <2>5 DEF Abstract!Call
  <2>8. i \in DOMAIN Contents
    BY <1>4, <2>2
  <2>9. Abstract!ByValue(v)
    BY <2>2, <2>6, <2>7, <2>8 DEF Abstract!ByValue
  <2> QED BY <2>1, <2>9 DEF Steps, Abstract!DequeNext
<1>7. CASE Matches(v) = {}
  <2>1. UNCHANGED fields
    BY <1>7 DEF remove
  <2>2. ListShape' /\ ChainOfThis' = ChainOfThis /\ SameValues(item, item')
    BY <2>1, FieldsKeep
  <2>3. Contents' = Contents
    BY <2>2, KeepsContents
  <2>4. v \notin ToSet(Contents)
    <3>1. ASSUME v \in ToSet(Contents) PROVE FALSE
      <4>1. PICK i \in 1 .. n : Contents[i] = v
        BY <1>4, <3>1, ElementPlaces
      <4> QED BY <1>5, <1>7, <4>1
    <3> QED BY <3>1
  <2>5. Abstract!Call("remove", Contents, Null) /\ v \notin Abstract!ToSet(Contents)
    BY <1>1, <2>3, <2>4 DEF Abstract!Call, Abstract!ToSet, ToSet
  <2>6. Abstract!ByValue(v)
    BY <2>5 DEF Abstract!ByValue
  <2> QED BY <2>2, <2>6 DEF Steps, Abstract!DequeNext
<1> QED BY <1>6, <1>7

\* The calls that are made outside of a foreach.
LEMMA OutsideSteps ==
  ASSUME ListInv, Outside
  PROVE  ListInv' /\ Steps
<1>0. ListShape /\ ~walking
  BY DEF ListInv, Outside
<1>1. CASE pop
  BY <1>0, <1>1, PopSteps DEF ListInv
<1>2. CASE pop_back
  BY <1>0, <1>2, PopBackSteps DEF ListInv
<1>3. CASE peek
  BY <1>0, <1>3, PeekSteps DEF ListInv
<1>4. CASE peek_back
  BY <1>0, <1>4, PeekBackSteps DEF ListInv
<1>5. CASE peek_and_pushback
  BY <1>0, <1>5, RotateSteps DEF ListInv
<1>6. CASE sort
  BY <1>0, <1>6, SortSteps DEF ListInv
<1>7. CASE clear
  BY <1>0, <1>7, ClearSteps DEF ListInv
<1>8. ASSUME NEW v \in Values, remove_all(v) PROVE ListInv' /\ Steps
  BY <1>0, <1>8, RemoveAllSteps DEF ListInv
<1>9. ASSUME NEW v \in Values, remove(v), UNCHANGED <<walking, current, next>>
      PROVE  ListInv' /\ Steps
  <2>1. ListShape' /\ Steps
    BY <1>0, <1>9, RemoveSteps
  <2> QED BY <1>0, <1>9, <2>1 DEF ListInv
<1> QED BY <1>1, <1>2, <1>3, <1>4, <1>5, <1>6, <1>7, <1>8, <1>9 DEF Outside

\* A step that leaves the list and its last call alone is none of the sequence's.
LEMMA FieldsStep ==
  ASSUME ListInv, UNCHANGED <<fields, callVars>>
  PROVE  ListShape' /\ ChainOfThis' = ChainOfThis /\ item' = item /\ Steps
<1>0. ListShape
  BY DEF ListInv
<1>1. ListShape' /\ ChainOfThis' = ChainOfThis /\ SameValues(item, item')
  BY <1>0, FieldsKeep
<1>2. Contents' = Contents
  BY <1>0, <1>1, KeepsContents
<1>3. call' = call /\ result' = result /\ halted' = halted /\ item' = item
  BY DEF callVars, fields
<1> QED BY <1>1, <1>2, <1>3 DEF Steps, Abstract!dequeVars

\* A call that needs an element and finds none halts the machine.
LEMMA EmptySteps ==
  ASSUME ListInv, CallOnEmpty
  PROVE  ListInv' /\ Steps
<1>0. ListShape
  BY DEF ListInv
<1>1. ListShape' /\ ChainOfThis' = ChainOfThis /\ SameValues(item, item')
  BY <1>0, FieldsKeep DEF CallOnEmpty
<1>2. Contents' = Contents
  BY <1>0, <1>1, KeepsContents
<1>3. /\ ~halted /\ halted' = TRUE /\ result' = result /\ ~walking /\ walking' = walking
      /\ call' \in {"pop", "pop_back", "peek", "peek_back", "peek_and_pushback", "sort"}
      /\ _head = Null \/ _tail = Null
  BY DEF CallOnEmpty, walkVars
<1>4. PICK s \in Seq(Nodes) : s = ChainOfThis /\ ValuesAre(Contents, s, item)
  BY <1>0, ContentsHold
<1>5. PICK n \in Nat : n = Len(s)
  OBVIOUS
<1>6. n = 0
  <2>1. /\ _head = IF n = 0 THEN Null ELSE s[1]
        /\ _tail = IF n = 0 THEN Null ELSE s[n]
    BY <1>0, <1>4, <1>5, ListPlaces
  <2>2. n # 0 => s[1] \in Nodes /\ s[n] \in Nodes
    BY <1>5
  <2> QED BY <1>3, <2>1, <2>2, LinkedListAssumption
<1>7. ~Abstract!Nonempty
  <2>1. Contents \in Seq(Values) /\ Len(Contents) = 0
    BY <1>4, <1>5, <1>6 DEF ValuesAre
  <2> QED BY <2>1 DEF Abstract!Nonempty
<1>8. Steps
  BY <1>2, <1>3, <1>7 DEF Steps, Abstract!DequeNext, Abstract!NoneToTake
<1> QED BY <1>1, <1>3, <1>8 DEF ListInv

\* foreach begins with the head, and all that is allocated lies ahead.
LEMMA ForeachSteps ==
  ASSUME ListInv, foreach
  PROVE  ListInv' /\ Steps
<1>0. ListShape
  BY DEF ListInv
<1>1. ListShape' /\ ChainOfThis' = ChainOfThis /\ Steps
  BY FieldsStep DEF foreach
<1>2. PICK s \in Seq(Nodes) : s = ChainOfThis /\ \A i, j \in 1 .. Len(s) : s[i] = s[j] => i = j
  BY <1>0, ContentsHold
<1>3. PICK n \in Nat : n = Len(s)
  OBVIOUS
<1>4. /\ _head = IF n = 0 THEN Null ELSE s[1]
      /\ LinkedBy(s, _head, _tail, item)
  BY <1>0, <1>2, <1>3, ListPlaces
<1>5. /\ walking' = TRUE /\ current' = _head /\ next' = item[_head].next
      /\ old' = live /\ seen' = {_head} /\ _head # Null
  BY DEF foreach, Visit
<1>6. 1 \in 1 .. n /\ s[1] = _head
  BY <1>4, <1>5
<1>7. item[s[1]].next = IF 1 = n THEN Null ELSE s[1 + 1]
  BY <1>3, <1>4, <1>6 DEF LinkedBy
<1>8. live = ToSet(s)
  BY <1>0, <1>2 DEF ListShape, Listed
<1>9. PICK nxt : nxt = item[s[1]].next
  OBVIOUS
<1>10. Walks(s, s[1], nxt, live, {} \cup {s[1]})
  <2>1. nxt = IF 1 = Len(s) THEN Null ELSE s[1 + 1]
    BY <1>3, <1>7, <1>9
  <2>2. 1 \in 1 .. Len(s)
    BY <1>3, <1>6
  <2>3. \A j \in 1 .. 1 - 1 : s[j] \in live => s[j] \in {}
    OBVIOUS
  <2> QED BY <1>2, <1>8, <2>1, <2>2, <2>3, WalkVisits
<1>11. {} \cup {s[1]} = seen'
  BY <1>5, <1>6
<1>12. Walks(ChainOfThis', current', next', old', seen')
  BY <1>1, <1>2, <1>5, <1>6, <1>9, <1>10, <1>11
<1> QED BY <1>1, <1>5, <1>12 DEF ListInv

\* foreach goes on with the node it noted before the callback ran.
LEMMA ForeachNextSteps ==
  ASSUME ListInv, foreach_next
  PROVE  ListInv' /\ Steps
<1>0. ListShape
  BY DEF ListInv
<1>1. ListShape' /\ ChainOfThis' = ChainOfThis /\ Steps
  BY FieldsStep DEF foreach_next
<1>2. PICK s \in Seq(Nodes) : s = ChainOfThis /\ \A i, j \in 1 .. Len(s) : s[i] = s[j] => i = j
  BY <1>0, ContentsHold
<1>3. PICK n \in Nat : n = Len(s)
  OBVIOUS
<1>4. LinkedBy(s, _head, _tail, item)
  BY <1>0, <1>2, ListPlaces
<1>5. /\ walking' = walking /\ walking /\ current' = next /\ next' = item[next].next
      /\ old' = old /\ seen' = seen \cup {next} /\ next # Null
  BY DEF foreach_next, Visit
<1>6. Walks(s, current, next, old, seen)
  BY <1>2, <1>5 DEF ListInv
<1>7. PICK k \in 1 .. n : Ahead(s, k, current, next, old, seen)
  BY <1>3, <1>5, <1>6 DEF Walks
<1>8. PICK nxt : nxt = item[s[k]].next
  OBVIOUS
<1>9. nxt = IF k = n THEN Null ELSE s[k + 1]
  BY <1>3, <1>4, <1>8 DEF LinkedBy
<1>10. /\ s[k] = next /\ \A j \in 1 .. k - 1 : s[j] \in old => s[j] \in seen
       /\ \A j \in k .. n : s[j] \notin seen
  BY <1>3, <1>7 DEF Ahead
<1>11. old \subseteq ToSet(s) /\ seen \subseteq ToSet(s)
  BY <1>6 DEF Walks
<1>12. Walks(s, s[k], nxt, old, seen \cup {s[k]})
  BY <1>2, <1>3, <1>9, <1>10, <1>11, WalkVisits
<1>13. Walks(ChainOfThis', current', next', old', seen')
  BY <1>1, <1>2, <1>5, <1>8, <1>10, <1>12
<1> QED BY <1>1, <1>5, <1>13 DEF ListInv

\* foreach ends.
LEMMA ForeachReturnSteps ==
  ASSUME ListInv, foreach_return
  PROVE  ListInv' /\ Steps
<1>1. ListShape' /\ Steps
  BY FieldsStep DEF foreach_return
<1>2. walking' = FALSE
  BY DEF foreach_return
<1> QED BY <1>1, <1>2 DEF ListInv

\* The callback removes the first node with its value, its own or one before it.
LEMMA CallbackSteps ==
  ASSUME ListInv, CallbackRemoves
  PROVE  ListInv' /\ Steps
<1>0. ListShape
  BY DEF ListInv
<1>1. PICK v : v = item[current].value
  OBVIOUS
<1>2. /\ remove(v) /\ walking /\ current # Null /\ current' = Null
      /\ walking' = walking /\ next' = next
  BY <1>1 DEF CallbackRemoves
<1>3. PICK s \in Seq(Nodes) : s = ChainOfThis /\ \A i, j \in 1 .. Len(s) : s[i] = s[j] => i = j
  BY <1>0, ContentsHold
<1>4. PICK n \in Nat : n = Len(s) /\ DOMAIN s = 1 .. n
  BY LenProperties
<1>5. Walks(s, current, next, old, seen)
  BY <1>2, <1>3 DEF ListInv
<1>6. PICK c \in 1 .. n : s[c] = current
  BY <1>2, <1>4, <1>5, ElementPlaces DEF Walks
<1>7. v \in Values
  <2>1. \A i \in 1 .. Len(s) : item[s[i]].value \in Values
    BY <1>0, <1>3, ListPlaces
  <2> QED BY <1>1, <1>4, <1>6, <2>1
<1>8. ListShape' /\ Steps
  BY <1>0, <1>2, <1>7, RemoveSteps
<1>9. Matches(v) = {i \in 1 .. n : item[s[i]].value = v}
  BY <1>3, <1>4 DEF Matches
<1>10. c \in Matches(v)
  BY <1>1, <1>6, <1>9
<1>11. PICK i \in Matches(v) :
           /\ \A j \in Matches(v) : i <= j
           /\ ChainOfThis' = Dropped(ChainOfThis, i)
           /\ old' = old \ {ChainOfThis[i]} /\ seen' = seen \ {ChainOfThis[i]}
  BY <1>0, <1>2, <1>10, RemoveEffect
<1>12. i \in 1 .. n /\ i <= c
  BY <1>9, <1>10, <1>11
<1>13. \A d \in 1 .. Len(s) : s[d] = current => i <= d
  BY <1>3, <1>4, <1>6, <1>12
<1>14. Walks(Dropped(s, i), Null, next, old \ {s[i]}, seen \ {s[i]})
  BY <1>2, <1>3, <1>4, <1>5, <1>12, <1>13, WalkDrops
<1>15. Walks(ChainOfThis', current', next', old', seen')
  BY <1>2, <1>3, <1>11, <1>14
<1> QED BY <1>2, <1>8, <1>15 DEF ListInv

-----------------------------------------------------------------------------
(* The theorems of the list.                                               *)

\* An empty list is one.
LEMMA InitIsListed ==
  ASSUME ListInit
  PROVE  ListInv /\ Contents = <<>>
<1>1. PICK v \in Values : v = CHOOSE w \in Values : TRUE
  BY LinkedListAssumption
<1>2. item = [n \in Nodes |-> [value |-> v, prev |-> Null, next |-> Null]]
  BY <1>1 DEF ListInit
<1>3. [value |-> v, prev |-> Null, next |-> Null] \in ListItems
  BY DEF ListItems
<1>4. item \in [Nodes -> ListItems]
  BY <1>2, <1>3
<1>5. Listed(<<>>)
  <2>1. ToSet(<<>>) = {}
    BY DEF ToSet
  <2>2. LinkedBy(<<>>, Null, Null, item)
    BY DEF LinkedBy
  <2> QED BY <2>1, <2>2 DEF Listed, ListInit
<1>6. ListShape /\ ChainOfThis = <<>>
  BY <1>4, <1>5, ListedIsChain
<1>7. Contents = <<>>
  <2>1. Contents \in Seq(Values) /\ Len(Contents) = Len(<<>>)
    BY <1>6, ContentsHold DEF ValuesAre
  <2> QED BY <2>1
<1> QED BY <1>6, <1>7 DEF ListInv, ListInit

\* A step of the list keeps its invariant and is one of the sequence, or none.
LEMMA ListSteps ==
  ASSUME ListInv, [ListNext]_listVars
  PROVE  ListInv' /\ Steps
<1>1. ASSUME NEW v \in Values, push(v) PROVE ListInv' /\ Steps
  BY <1>1, PushSteps
<1>2. ASSUME NEW v \in Values, push_back(v) PROVE ListInv' /\ Steps
  BY <1>2, PushBackSteps
<1>3. CASE Outside
  BY <1>3, OutsideSteps
<1>4. CASE CallOnEmpty
  BY <1>4, EmptySteps
<1>5. CASE foreach
  BY <1>5, ForeachSteps
<1>6. CASE foreach_next
  BY <1>6, ForeachNextSteps
<1>7. CASE foreach_return
  BY <1>7, ForeachReturnSteps
<1>8. CASE CallbackRemoves
  BY <1>8, CallbackSteps
<1>9. CASE UNCHANGED listVars
  <2>1. UNCHANGED <<fields, callVars>> /\ UNCHANGED walkVars
    BY <1>9 DEF listVars
  <2>2. ListShape' /\ ChainOfThis' = ChainOfThis /\ item' = item /\ Steps
    BY <2>1, FieldsStep
  <2>3. /\ walking' = walking /\ current' = current /\ next' = next
        /\ old' = old /\ seen' = seen
    BY <2>1 DEF walkVars
  <2>4. Walks(ChainOfThis', current', next', old', seen')
          <=> Walks(ChainOfThis, current, next, old, seen)
    BY <2>2, <2>3
  <2> QED BY <2>2, <2>3, <2>4 DEF ListInv
<1> QED BY <1>1, <1>2, <1>3, <1>4, <1>5, <1>6, <1>7, <1>8, <1>9 DEF ListNext

\* The invariant says of foreach what it should.
LEMMA InvVisitsEach ==
  ASSUME ListInv
  PROVE  ForeachVisitsEach
<1>0. ListShape /\ LinksAreConsistent
  BY ShapeIsConsistent DEF ListInv
<1>1. PICK s \in Seq(Nodes) : s = ChainOfThis
  BY <1>0, ContentsHold
<1>2. PICK n \in Nat : n = Len(s) /\ DOMAIN s = 1 .. n
  BY LenProperties
<1>3. /\ LinkedBy(s, _head, _tail, item) /\ live = ToSet(s)
      /\ item \in [Nodes -> ListItems]
  BY <1>0, <1>1 DEF ListShape, Listed
<1>4. ASSUME walking
      PROVE  /\ next \in live \cup {Null}
             /\ old \ seen \subseteq ToSet(Chain(item, next))
             /\ ToSet(Chain(item, next)) \cap seen = {}
  <2>1. Walks(s, current, next, old, seen)
    BY <1>1, <1>4 DEF ListInv
  <2>2. CASE next = Null
    <3>1. Chain(item, next) = <<>>
      BY <1>3, <2>2, ChainFollows
    <3>2. ToSet(<<>>) = {}
      BY DEF ToSet
    <3> QED BY <2>1, <2>2, <3>1, <3>2 DEF Walks
  <2>3. CASE next # Null
    <3>1. PICK k \in 1 .. n : Ahead(s, k, current, next, old, seen)
      BY <1>2, <2>1, <2>3 DEF Walks
    <3>2. /\ s[k] = next /\ \A j \in 1 .. k - 1 : s[j] \in old => s[j] \in seen
          /\ \A j \in k .. n : s[j] \notin seen
      BY <1>2, <3>1 DEF Ahead
    <3>3. Chain(item, next) = SubSeq(s, k, n)
      <4>1. \A i \in 1 .. Len(s) : Chain(item, s[i]) = SubSeq(s, i, Len(s))
        BY <1>3, ChainFollows
      <4> QED BY <1>2, <3>2, <4>1
    <3>4. PICK r : r = SubSeq(s, k, n)
      OBVIOUS
    <3>5. PICK m \in Nat : m = n - k
      OBVIOUS
    <3>6. r \in Seq(Nodes) /\ Len(r) = m + 1 /\ \A j \in 1 .. m + 1 : r[j] = s[k + j - 1]
      BY <1>2, <3>4, <3>5
    <3>7. \A x \in ToSet(r) : \E j \in k .. n : x = s[j]
      <4>1. ASSUME NEW x \in ToSet(r) PROVE \E j \in k .. n : x = s[j]
        <5>1. PICK j \in 1 .. m + 1 : r[j] = x
          BY <3>6, ElementPlaces
        <5>2. k + j - 1 \in k .. n
          BY <3>5
        <5> QED BY <3>6, <5>1, <5>2
      <4> QED BY <4>1
    <3>8. \A j \in k .. n : s[j] \in ToSet(r)
      <4>1. ASSUME NEW j \in k .. n PROVE s[j] \in ToSet(r)
        <5>1. PICK i \in 1 .. m + 1 : j = k + i - 1
          <6>1. j - k + 1 \in 1 .. m + 1 /\ j = k + (j - k + 1) - 1
            BY <3>5
          <6> QED BY <6>1
        <5>2. r[i] \in ToSet(r)
          BY <3>6, ElementPlaces
        <5> QED BY <3>6, <5>1, <5>2
      <4> QED BY <4>1
    <3>9. next \in live
      BY <1>2, <1>3, <3>2, ElementPlaces
    <3>10. old \ seen \subseteq ToSet(r)
      <4>1. ASSUME NEW x \in old, x \notin seen PROVE x \in ToSet(r)
        <5>1. PICK j \in 1 .. n : s[j] = x
          BY <1>2, <2>1, ElementPlaces DEF Walks
        <5>2. ~(j \in 1 .. k - 1)
          BY <3>2, <4>1, <5>1
        <5>3. j \in k .. n
          BY <5>2
        <5> QED BY <3>8, <5>1, <5>3
      <4> QED BY <4>1
    <3>11. ToSet(r) \cap seen = {}
      BY <3>2, <3>7
    <3> QED BY <3>3, <3>4, <3>9, <3>10, <3>11
  <2> QED BY <2>2, <2>3
<1> QED BY <1>0, <1>4 DEF ForeachVisitsEach

\* The nodes met from the head are those allocated, as many as counted, and the
\* links back retrace them; and foreach, whatever its callback pushes or
\* removes, reads only allocated nodes, meets each one that stays, and none twice.
THEOREM ForeachSafe == ListSpec => []ForeachVisitsEach
<1>1. ListInit => ListInv
  BY InitIsListed
<1>2. ListInv /\ [ListNext]_listVars => ListInv'
  BY ListSteps
<1>3. ListInv => ForeachVisitsEach
  BY InvVisitsEach
<1> QED BY <1>1, <1>2, <1>3, PTL DEF ListSpec

\* The list of nodes implements a sequence of values: every call of it, sort and
\* the removals from its middle included, is that call of the sequence.
THEOREM ListIsSequence == ListSpec => ImplementsSequence
<1>1. ListInit => ListInv /\ Abstract!DequeInit
  BY InitIsListed DEF Abstract!DequeInit, ListInit
<1>2. ListInv /\ [ListNext]_listVars => ListInv' /\ [Abstract!DequeNext]_(Abstract!dequeVars)
  BY ListSteps DEF Steps
<1> QED BY <1>1, <1>2, PTL DEF ListSpec, ImplementsSequence, Abstract!DequeSpec
==============================================================================
