----------------------------- MODULE Induction -----------------------------
(***************************************************************************)
(* What the proofs of this project need of the numbers: induction, where a *)
(* property is given as the set of the numbers that have it and a          *)
(* recursive definition as the function that makes one step, and           *)
(* remainders by an unknown divisor.                                       *)
(***************************************************************************)
EXTENDS Integers, FiniteSets, FiniteSetsExt, FiniteSetTheorems, WellFoundedInduction, TLAPS

\* A non-empty set of naturals has a least element, and Min returns it.
\* The initial segments 0..m of its elements are finite sets, which strict
\* inclusion orders well.
LEMMA MinIsLeast ==
  ASSUME NEW S \in SUBSET Nat, S # {}
  PROVE  Min(S) \in S /\ \A x \in S : Min(S) <= x
<1> DEFINE T == {0 .. m : m \in S}
<1>1. T # {} /\ T \subseteq FiniteSubsetsOf(Nat)
  <2>1. \A m \in S : 0 .. m \in FiniteSubsetsOf(Nat)
    BY FS_Interval DEF FiniteSubsetsOf
  <2> QED BY <2>1
<1> HIDE DEF T
<1>2. PICK I \in T : \A J \in T : ~ (<<J, I>> \in StrictSubsetOrdering(Nat))
  BY <1>1, FS_StrictSubsetOrderingWellFounded, WFMin
<1>3. PICK m \in S : I = 0 .. m
  BY DEF T
<1>4. ASSUME NEW y \in S, y < m PROVE FALSE
  <2>1. 0 .. y \in T
    BY DEF T
  <2>2. m \in 0 .. m /\ m \notin 0 .. y
    BY <1>4
  <2>3. <<0 .. y, 0 .. m>> \in StrictSubsetOrdering(Nat)
    BY <1>4, <2>2 DEF StrictSubsetOrdering
  <2> QED BY <1>2, <1>3, <2>1, <2>3
<1>5. \A y \in S : m <= y
  BY <1>4
<1> QED BY <1>5 DEF Min

\* What holds of 0, and of each number up to N after the one before it, holds
\* of all of them.
LEMMA InductionUpTo ==
  ASSUME NEW N \in Nat, NEW S, 0 \in S, \A i \in 1 .. N : i - 1 \in S => i \in S
  PROVE  0 .. N \subseteq S
<1> SUFFICES ASSUME NEW n \in 0 .. N, n \notin S PROVE FALSE
  OBVIOUS
<1> DEFINE Bad == {i \in 0 .. N : i \notin S}
<1>1. Bad \in SUBSET Nat /\ n \in Bad
  OBVIOUS
<1>2. PICK m \in Bad : \A x \in Bad : m <= x
  <2>1. Min(Bad) \in Bad /\ \A x \in Bad : Min(Bad) <= x
    BY <1>1, MinIsLeast
  <2> QED BY <2>1
<1>3. m # 0 /\ m \in 1 .. N /\ m \notin S
  OBVIOUS
<1>4. m - 1 \in 0 .. N /\ ~(m <= m - 1)
  BY <1>3
<1>5. m - 1 \in S
  BY <1>2, <1>4
<1> QED BY <1>3, <1>5

\* The functions that compute the value at i from i and the value at i - 1.
StepFunctions(N, V) == [(1 .. N) \X V -> V]

\* f is defined over 0..N by its first value and the step G.
Recursive(f, N, V, first, G) ==
  /\ f \in [0 .. N -> V]
  /\ f[0] = first
  /\ \A i \in 1 .. N : f[i] = G[<<i, f[i - 1]>>]

\* A recursive definition over 0..N has a solution.
LEMMA RecursionUpTo ==
  ASSUME NEW N \in Nat, NEW V, NEW first \in V, NEW G \in StepFunctions(N, V)
  PROVE  \E f : Recursive(f, N, V, first, G)
<1> DEFINE S == {n \in 0 .. N : \E f : Recursive(f, n, V, first, G)}
<1>0. G \in [(1 .. N) \X V -> V]
  BY DEF StepFunctions
<1>1. 0 \in S
  <2> DEFINE g == [i \in 0 .. 0 |-> first]
  <2>1. Recursive(g, 0, V, first, G)
    BY DEF Recursive
  <2> QED BY <2>1
<1>2. ASSUME NEW n \in 1 .. N, n - 1 \in S PROVE n \in S
  <2>1. PICK f : Recursive(f, n - 1, V, first, G)
    BY <1>2
  <2>2. f \in [0 .. n - 1 -> V] /\ f[0] = first /\ \A i \in 1 .. n - 1 : f[i] = G[<<i, f[i - 1]>>]
    BY <2>1 DEF Recursive
  <2>3. f[n - 1] \in V /\ G[<<n, f[n - 1]>>] \in V
    <3>1. f[n - 1] \in V
      BY <2>2
    <3> QED BY <1>0, <3>1
  <2> DEFINE g == [i \in 0 .. n |-> IF i = n THEN G[<<n, f[n - 1]>>] ELSE f[i]]
  <2>4. g \in [0 .. n -> V]
    BY <2>2, <2>3
  <2>5. g[0] = first
    BY <2>2
  <2>6. ASSUME NEW i \in 1 .. n PROVE g[i] = G[<<i, g[i - 1]>>]
    <3>1. CASE i = n
      <4>1. g[i] = G[<<n, f[n - 1]>>] /\ g[i - 1] = f[n - 1]
        BY <3>1
      <4> QED BY <3>1, <4>1
    <3>2. CASE i # n
      <4>1. i \in 1 .. n - 1 /\ i - 1 \in 0 .. n - 1 /\ i - 1 # n
        BY <3>2
      <4> QED BY <2>2, <4>1
    <3> QED BY <3>1, <3>2
  <2> HIDE DEF g
  <2>7. Recursive(g, n, V, first, G)
    BY <2>4, <2>5, <2>6 DEF Recursive
  <2> QED BY <2>7
<1> HIDE DEF S
<1>3. 0 .. N \subseteq S
  BY <1>1, <1>2, InductionUpTo
<1>4. N \in S
  BY <1>3
<1> QED BY <1>4 DEF S

\* Every place of 2..N has an earlier one above it.
IsUp(up, N) == \A j \in 2 .. N : up[j] \in 1 .. j - 1

\* f is defined over 1..N by its first value and the step G from the place above.
RecursiveUp(f, N, V, first, up, G) ==
  /\ f \in [1 .. N -> V]
  /\ f[1] = first
  /\ \A j \in 2 .. N : f[j] = G[<<j, f[up[j]]>>]

\* A function over 1..N each of whose values is computed from the one at an
\* earlier place has a solution.
LEMMA RecursionOnParents ==
  ASSUME NEW N \in Nat \ {0}, NEW V, NEW first \in V, NEW up, IsUp(up, N),
         NEW G \in StepFunctions(N, V)
  PROVE  \E f : RecursiveUp(f, N, V, first, up, G)
<1> DEFINE W == [1 .. N -> V]
           Value(j, w) == IF j = 1 THEN first ELSE G[<<j, w[up[j]]>>]
           H == [p \in (1 .. N) \X W |-> [p[2] EXCEPT ![p[1]] = Value(p[1], p[2])]]
           start == [j \in 1 .. N |-> first]
<1>0. G \in [(1 .. N) \X V -> V]
  BY DEF StepFunctions
<1>1. ASSUME NEW j \in 1 .. N, NEW w \in W
      PROVE  /\ H[<<j, w>>] \in W /\ H[<<j, w>>][j] = Value(j, w)
             /\ \A k \in 1 .. N : k # j => H[<<j, w>>][k] = w[k]
  <2>1. Value(j, w) \in V
    <3>1. CASE j = 1
      BY <3>1
    <3>2. CASE j # 1
      <4>1. j \in 2 .. N /\ up[j] \in 1 .. N
        BY <3>2 DEF IsUp
      <4>2. w[up[j]] \in V
        BY <4>1
      <4>3. G[<<j, w[up[j]]>>] \in V
        BY <1>0, <4>2
      <4> QED BY <3>2, <4>3
    <3> QED BY <3>1, <3>2
  <2>2. H[<<j, w>>] = [w EXCEPT ![j] = Value(j, w)]
    OBVIOUS
  <2> HIDE DEF H, Value
  <2> QED BY <2>1, <2>2
<1>2. start \in W /\ H \in StepFunctions(N, W)
  <2>1. start \in W
    OBVIOUS
  <2>2. H = [p \in (1 .. N) \X W |-> H[p]]
    OBVIOUS
  <2>3. \A p \in (1 .. N) \X W : H[p] \in W
    <3>1. ASSUME NEW p \in (1 .. N) \X W PROVE H[p] \in W
      <4>1. PICK j \in 1 .. N, w \in W : p = <<j, w>>
        OBVIOUS
      <4> HIDE DEF H, Value, W
      <4> QED BY <1>1, <4>1
    <3> QED BY <3>1
  <2> HIDE DEF H, W
  <2> QED BY <2>1, <2>2, <2>3 DEF StepFunctions
<1> HIDE DEF H
<1>3. PICK h : Recursive(h, N, W, start, H)
  <2> HIDE DEF W, start
  <2> QED BY <1>2, RecursionUpTo
<1>4. h \in [0 .. N -> W] /\ \A j \in 1 .. N : h[j] = H[<<j, h[j - 1]>>]
  <2> HIDE DEF W, start
  <2> QED BY <1>3 DEF Recursive
<1>5. ASSUME NEW j \in 1 .. N
      PROVE  /\ h[j] \in W /\ h[j - 1] \in W /\ h[j][j] = Value(j, h[j - 1])
             /\ \A k \in 1 .. N : k # j => h[j][k] = h[j - 1][k]
  <2>1. h[j] \in W /\ h[j - 1] \in W /\ h[j] = H[<<j, h[j - 1]>>]
    <3> HIDE DEF W
    <3> QED BY <1>4
  <2> HIDE DEF W, Value
  <2> QED BY <1>1, <2>1
\* A value, once it is there, stays.
<1>6. ASSUME NEW k \in 1 .. N, NEW n \in k .. N PROVE h[n][k] = h[k][k]
  <2> DEFINE S == {j \in 0 .. N : j >= k => h[j][k] = h[k][k]}
  <2>1. 0 \in S
    OBVIOUS
  <2>2. ASSUME NEW j \in 1 .. N, j - 1 \in S PROVE j \in S
    <3> HIDE DEF Value, W
    <3> QED BY <1>5, <2>2
  <2>3. 0 .. N \subseteq S
    <3> HIDE DEF S
    <3> QED BY <2>1, <2>2, InductionUpTo
  <2>4. n \in S
    <3> HIDE DEF S
    <3> QED BY <2>3
  <2> QED BY <2>4
<1>7. PICK f : f = h[N]
  OBVIOUS
<1>8. f \in [1 .. N -> V] /\ \A k \in 1 .. N : f[k] = h[k][k]
  <2>1. f \in W
    <3> HIDE DEF W
    <3> QED BY <1>4, <1>7
  <2>2. \A k \in 1 .. N : N \in k .. N
    OBVIOUS
  <2> QED BY <1>6, <1>7, <2>1, <2>2
<1>9. f[1] = first
  <2>1. 1 \in 1 .. N
    OBVIOUS
  <2>2. h[1][1] = Value(1, h[1 - 1])
    <3> HIDE DEF Value, W
    <3> QED BY <1>5, <2>1
  <2> QED BY <1>8, <2>1, <2>2
<1>10. ASSUME NEW j \in 2 .. N PROVE f[j] = G[<<j, f[up[j]]>>]
  <2>1. j \in 1 .. N /\ up[j] \in 1 .. N /\ j - 1 \in 1 .. N /\ j - 1 \in up[j] .. N
    BY DEF IsUp
  <2>2. h[j][j] = G[<<j, h[j - 1][up[j]]>>]
    BY <1>5, <2>1
  <2>3. h[j - 1][up[j]] = h[up[j]][up[j]]
    BY <1>6, <2>1
  <2> QED BY <1>8, <2>1, <2>2, <2>3
<1> QED BY <1>8, <1>9, <1>10 DEF RecursiveUp

-----------------------------------------------------------------------------
(* Remainders, which the provers cannot compute for an unknown divisor.    *)

\* A quotient and a remainder that fit are the ones.
LEMMA RemainderIsUnique ==
  ASSUME NEW x \in Int, NEW M \in Nat \ {0}, NEW q \in Int, NEW r \in 0 .. M - 1, x = M * q + r
  PROVE  x % M = r
<1>1. PICK e \in Int : e = x \div M
  OBVIOUS
<1>2. PICK s \in 0 .. M - 1 : s = x % M
  OBVIOUS
<1>3. x = M * e + s
  BY <1>1, <1>2
<1>4. PICK d \in Int : d = e - q
  OBVIOUS
<1>5. M * e = M * q + M * d
  BY <1>4
<1>6. M * d = r - s
  BY <1>3, <1>5
<1>7. d >= 1 => M * d >= M
  OBVIOUS
<1>8. d <= -1 => M * d <= -M
  OBVIOUS
<1>9. d = 0
  BY <1>6, <1>7, <1>8
<1>10. M * d = 0
  BY <1>9
<1> QED BY <1>2, <1>6, <1>10

\* Counting on after a remainder is taken counts on round the same circle.
LEMMA RemainderOfSuccessor ==
  ASSUME NEW x \in Int, NEW M \in Nat \ {0}
  PROVE  (x + 1) % M = ((x % M) + 1) % M
<1>1. PICK q \in Int : q = x \div M
  OBVIOUS
<1>2. PICK r \in 0 .. M - 1 : r = x % M
  OBVIOUS
<1>3. x = M * q + r
  BY <1>1, <1>2
<1>4. CASE r + 1 < M
  <2>1. (x + 1) % M = r + 1
    BY <1>3, <1>4, RemainderIsUnique
  <2>2. r + 1 = M * 0 + (r + 1)
    OBVIOUS
  <2>3. (r + 1) % M = r + 1
    BY <1>4, <2>2, RemainderIsUnique
  <2> QED BY <1>2, <2>1, <2>3
<1>5. CASE r + 1 = M
  <2>1. PICK e \in Int : e = q + 1
    OBVIOUS
  <2>2. (x + 1) % M = 0
    <3>1. x + 1 = M * e + 0 /\ x + 1 \in Int /\ 0 \in 0 .. M - 1
      BY <1>3, <1>5, <2>1
    <3> HIDE <2>1
    <3> QED BY <3>1, RemainderIsUnique
  <2>3. r + 1 = M * 1 + 0
    BY <1>5
  <2>4. (r + 1) % M = 0
    BY <2>3, RemainderIsUnique
  <2> QED BY <1>2, <2>2, <2>4
<1> QED BY <1>4, <1>5
=============================================================================
