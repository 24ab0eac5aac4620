-------------------------- MODULE SchedulerProofs --------------------------
(***************************************************************************)
(* Theorems about the scheduler, for every number of threads and every     *)
(* length of sleep, with the proofs TLAPS checks.                          *)
(*                                                                         *)
(* A thread is on a list by its state, except for the one its state is     *)
(* being changed of; what a thread is doing is told by its place in the    *)
(* code and by the call of update_thread_state it is in, together.         *)
(***************************************************************************)
EXTENDS Scheduler, Induction
-----------------------------------------------------------------------------
(* The inductive invariant.                                                *)

Blockers == {NoBlocker} \cup ({"sleep"} \X (0 .. MaxSleep)) \cup ({"join"} \X Users)

Updates == (Threads \cup {NONE}) \X {NONE, "READY", "BLOCKED", "STOPPED"}

\* Where the scheduler's lock is held, where a thread changes a state, and
\* where it goes from there if it does not run on.
Holding == {"remove", "insert", "release", "unlock"}
Updating == {"acquire", "remove", "insert", "release"}
Leaving == {"yield", "schedule", "unlock", "switch", "yielded"}

Own(t) == {<<t, "BLOCKED">>, <<t, "STOPPED">>}

Types ==
  /\ SchedulerTypeOK
  /\ update \in [Threads -> Updates]
  /\ blocker \in [Threads -> Blockers]

Calls ==
  /\ pc[Idle] = "user"
  /\ \A t \in Threads :
       /\ pc[t] # "not_reached"
       /\ pc[t] = "boot" => t = Kernel
       /\ pc[t] \in {"user", "list_release", "memory_release", "boot"} => update[t] = NoUpdate
       /\ pc[t] = "join" => update[t] \in (Users \ {t}) \X {"BLOCKED"}
       /\ pc[t] \in Updating => update[t] \in Own(t) \cup (Threads \X {"READY"})
       /\ pc[t] \in Leaving => update[t] \in Own(t)
       /\ update[t][2] = "STOPPED" => t \in Users

\* A thread is started once, and does nothing before; the kernel's is the
\* exception, which starts itself.
Starts ==
  /\ \A t \in Threads : update[t][2] = "READY" =>
       /\ pc[t] \in {"acquire", "remove"} => tstate[update[t][1]] = "EMBRYO"
       /\ \A other \in Threads : update[other] = update[t] => other = t
  /\ \A t \in Threads : tstate[t] \in {NONE, "EMBRYO"} =>
       /\ t # running
       /\ (pc[t] = "user" /\ update[t] = NoUpdate) \/ (t = Kernel /\ tstate[Idle] = "EMBRYO")

Locks ==
  /\ \A t \in Threads : sched_lock = t <=> pc[t] \in Holding
  /\ \A t \in Threads : memory_lock = t <=> pc[t] = "memory_release"
  /\ LockHolderExecutes
  /\ \A t \in Threads : t # cpu => pc[t] \notin {"unlock", "switch"}
  /\ pc[cpu] \notin {"unlock", "switch"} /\ running # NONE => cpu = running
  /\ pc[cpu] \in {"unlock", "switch"} => running # NONE /\ tstate[running] = "RUNNING"

\* While the kernel boots, its own thread is the only one.
Booting == tstate[Idle] = "EMBRYO"

Boot ==
  /\ Booting =>
       /\ cpu = Kernel
       /\ pc[Kernel] \in Updating \cup {"boot"}
       /\ pc[Kernel] \in {"insert", "release"} => update[Kernel] = <<Kernel, "READY">>
       /\ update[Kernel] \in {NoUpdate, <<Kernel, "READY">>, <<Idle, "READY">>}
       /\ running = IF tstate[Kernel] = "EMBRYO" THEN NONE ELSE Kernel
       /\ tstate[Kernel] \in {"EMBRYO", "READY", "RUNNING"}
       /\ tstate[Kernel] = "EMBRYO" =>
            pc[Kernel] \in {"acquire", "remove"} /\ update[Kernel] = <<Kernel, "READY">>
       /\ \A u \in Users : tstate[u] = NONE
  /\ ~Booting =>
       tstate[Idle] \in {"READY", "RUNNING"} /\ running # NONE /\ pc[Kernel] # "boot"
  /\ \A t \in Threads : update[t] = <<Kernel, "READY">> => t = Kernel /\ Booting

\* The thread that is off its old list and not yet on its new one.
Moving(t) == \E h \in Threads : pc[h] = "insert" /\ update[h][1] = t

NoRepeat(list) == \A i, j \in DOMAIN list : list[i] = list[j] => i = j

Lists ==
  /\ NoRepeat(ready) /\ NoRepeat(blocked)
  /\ ToSet(ready) = {t \in Threads : tstate[t] = "READY" /\ ~Moving(t)}
  /\ ToSet(blocked) = {t \in Threads : tstate[t] = "BLOCKED" /\ ~Moving(t)}
  /\ \A t \in Threads : tstate[t] = "RUNNING" => t = running
  /\ \A h \in Threads : pc[h] = "insert" => tstate[update[h][1]] = update[h][2]
  /\ stuck # "pop"

\* What a thread waits for, and what it cannot come back from.
Waits ==
  \A t \in Threads :
    /\ blocker[t] # NoBlocker /\ ~should_unblock(t) =>
         update[t] = <<t, "BLOCKED">> /\ (pc[t] \in {"acquire", "remove"} \/ tstate[t] = "BLOCKED")
    /\ tstate[t] = "STOPPED" => update[t] = <<t, "STOPPED">> /\ pc[t] \notin {"acquire", "remove"}
    /\ update[t][2] = "STOPPED" /\ pc[t] \notin {"acquire", "remove"} => tstate[t] = "STOPPED"
    /\ pc[t] = "yielded" /\ cpu = t => tstate[t] = "RUNNING"

SchedulerInv ==
  Types /\ Calls /\ Starts /\ Locks /\ Boot /\ Lists /\ Waits
-----------------------------------------------------------------------------
(* Lists of threads.                                                       *)

\* A thread added at the end.
LEMMA AppendedList ==
  ASSUME NEW list \in Seq(Threads), NEW t \in Threads
  PROVE  /\ Append(list, t) \in Seq(Threads)
         /\ ToSet(Append(list, t)) = ToSet(list) \cup {t}
         /\ NoRepeat(list) /\ t \notin ToSet(list) => NoRepeat(Append(list, t))
<1> DEFINE new == Append(list, t)
           n == Len(list)
<1>1. /\ n \in Nat /\ new \in Seq(Threads) /\ DOMAIN list = 1 .. n /\ DOMAIN new = 1 .. n + 1
      /\ new[n + 1] = t /\ \A i \in 1 .. n : new[i] = list[i]
  OBVIOUS
<1> HIDE DEF new, n
<1>2. ToSet(new) = ToSet(list) \cup {t}
  <2>1. 1 .. n + 1 = (1 .. n) \cup {n + 1}
    BY <1>1
  <2> QED BY <1>1, <2>1 DEF ToSet
<1>3. NoRepeat(list) /\ t \notin ToSet(list) => NoRepeat(new)
  <2>1. 1 .. n + 1 = (1 .. n) \cup {n + 1}
    BY <1>1
  <2> QED BY <1>1, <2>1 DEF ToSet, NoRepeat
<1> QED BY <1>1, <1>2, <1>3 DEF new

\* Two lists without a thread in common, one after the other.
LEMMA JoinedLists ==
  ASSUME NEW a \in Seq(Threads), NEW b \in Seq(Threads)
  PROVE  /\ a \o b \in Seq(Threads)
         /\ ToSet(a \o b) = ToSet(a) \cup ToSet(b)
         /\ NoRepeat(a) /\ NoRepeat(b) /\ ToSet(a) \cap ToSet(b) = {} => NoRepeat(a \o b)
<1> DEFINE new == a \o b
           n == Len(a)
           m == Len(b)
<1>1. /\ n \in Nat /\ m \in Nat /\ new \in Seq(Threads)
      /\ DOMAIN a = 1 .. n /\ DOMAIN b = 1 .. m /\ DOMAIN new = 1 .. n + m
      /\ \A i \in 1 .. n : new[i] = a[i]
      /\ \A i \in 1 .. n + m : i > n => i - n \in 1 .. m /\ new[i] = b[i - n]
      /\ \A j \in 1 .. m : new[n + j] = b[j]
  OBVIOUS
<1> HIDE DEF new, n, m
<1>2. \A i \in 1 .. n + m : i \in 1 .. n \/ (i > n /\ i - n \in 1 .. m)
  BY <1>1
<1>3. ToSet(new) = ToSet(a) \cup ToSet(b)
  <2>1. \A i \in 1 .. n + m : new[i] \in ToSet(a) \cup ToSet(b)
    BY <1>1, <1>2 DEF ToSet
  <2>2. \A i \in 1 .. n : i \in 1 .. n + m
    BY <1>1
  <2>3. \A j \in 1 .. m : n + j \in 1 .. n + m
    BY <1>1
  <2>4. ASSUME NEW x \in ToSet(a) PROVE x \in ToSet(new)
    <3>1. PICK i \in 1 .. n : x = a[i]
      BY <1>1 DEF ToSet
    <3> QED BY <1>1, <2>2, <3>1 DEF ToSet
  <2>5. ASSUME NEW x \in ToSet(b) PROVE x \in ToSet(new)
    <3>1. PICK j \in 1 .. m : x = b[j]
      BY <1>1 DEF ToSet
    <3>2. x = new[n + j] /\ n + j \in DOMAIN new
      BY <1>1, <2>3, <3>1
    <3> QED BY <3>2 DEF ToSet
  <2>6. \A x \in ToSet(new) : x \in ToSet(a) \cup ToSet(b)
    BY <1>1, <2>1 DEF ToSet
  <2> QED BY <2>4, <2>5, <2>6
<1>4. ASSUME NoRepeat(a), NoRepeat(b), ToSet(a) \cap ToSet(b) = {} PROVE NoRepeat(new)
  <2>1. ASSUME NEW i \in 1 .. n + m, NEW j \in 1 .. n + m, new[i] = new[j] PROVE i = j
    <3>1. CASE i \in 1 .. n /\ j \in 1 .. n
      BY <1>1, <1>4, <2>1, <3>1 DEF NoRepeat
    <3>2. CASE i > n /\ j > n
      <4>1. i - n \in DOMAIN b /\ j - n \in DOMAIN b /\ b[i - n] = b[j - n]
        BY <1>1, <2>1, <3>2
      <4>2. i - n = j - n
        BY <1>4, <4>1 DEF NoRepeat
      <4> QED BY <1>1, <4>2
    <3>3. CASE (i \in 1 .. n /\ j > n) \/ (i > n /\ j \in 1 .. n)
      <4>1. \A k \in 1 .. n : new[k] \in ToSet(a)
        BY <1>1 DEF ToSet
      <4>2. \A k \in 1 .. n + m : k > n => new[k] \in ToSet(b)
        BY <1>1 DEF ToSet
      <4>3. \A x : x \in ToSet(a) => x \notin ToSet(b)
        BY <1>4
      <4> QED BY <2>1, <3>3, <4>1, <4>2, <4>3
    <3> QED BY <1>2, <3>1, <3>2, <3>3
  <2> QED BY <1>1, <2>1 DEF NoRepeat
<1> QED BY <1>1, <1>3, <1>4 DEF new

\* The first thread taken off.
LEMMA PoppedList ==
  ASSUME NEW list \in Seq(Threads), list # <<>>, NoRepeat(list)
  PROVE  /\ Head(list) \in ToSet(list) /\ Head(list) \in Threads
         /\ Tail(list) \in Seq(Threads) /\ NoRepeat(Tail(list))
         /\ ToSet(Tail(list)) = ToSet(list) \ {Head(list)}
<1> DEFINE new == Tail(list)
           n == Len(list)
<1>1. /\ n \in Nat /\ n > 0 /\ new \in Seq(Threads) /\ DOMAIN list = 1 .. n
      /\ DOMAIN new = 1 .. n - 1 /\ Head(list) = list[1] /\ list[1] \in Threads
      /\ \A i \in 1 .. n - 1 : new[i] = list[i + 1]
  OBVIOUS
<1> HIDE DEF new, n
<1>2. \A i \in 1 .. n - 1 : i + 1 \in 1 .. n /\ i + 1 # 1
  BY <1>1
<1>3. NoRepeat(new)
  <2>1. ASSUME NEW i \in 1 .. n - 1, NEW j \in 1 .. n - 1, new[i] = new[j] PROVE i = j
    <3>1. i + 1 = j + 1
      BY <1>1, <1>2, <2>1, ZenonT(30) DEF NoRepeat
    <3> QED BY <1>1, <3>1
  <2> QED BY <1>1, <2>1 DEF NoRepeat
<1>4. ToSet(new) \subseteq ToSet(list) \ {list[1]}
  <2>1. \A i \in 1 .. n - 1 : list[i + 1] # list[1]
    BY <1>1, <1>2, SMTT(30) DEF NoRepeat
  <2> QED BY <1>1, <1>2, <2>1, SMTT(30) DEF ToSet
<1>5. ASSUME NEW i \in 1 .. n, list[i] # list[1] PROVE list[i] \in ToSet(new)
  <2>1. i - 1 \in 1 .. n - 1 /\ (i - 1) + 1 = i
    BY <1>1, <1>5
  <2> QED BY <1>1, <2>1 DEF ToSet
<1>6. ToSet(new) = ToSet(list) \ {list[1]}
  <2>1. ASSUME NEW x \in ToSet(list) \ {list[1]} PROVE x \in ToSet(new)
    <3>1. PICK i \in 1 .. n : x = list[i]
      BY <1>1 DEF ToSet
    <3> QED BY <1>5, <3>1
  <2> QED BY <1>4, <2>1
<1>7. list[1] \in ToSet(list)
  BY <1>1 DEF ToSet
<1> QED BY <1>1, <1>3, <1>6, <1>7 DEF new

\* The threads picked out of a list.
LEMMA KeptList ==
  ASSUME NEW list \in Seq(Threads), NEW S
  PROVE  /\ Keep(list, S) \in Seq(Threads)
         /\ ToSet(Keep(list, S)) = ToSet(list) \cap S
         /\ NoRepeat(list) => NoRepeat(Keep(list, S))
<1> DEFINE N == Len(list)
           Step(i, f) == IF list[i] \in S THEN Append(f[i - 1], list[i]) ELSE f[i - 1]
           Filters(f) == f = [i \in 0 .. N |-> IF i = 0 THEN <<>> ELSE Step(i, f)]
           kept == CHOOSE f : Filters(f)
           G == [x \in (1 .. N) \X Seq(Threads) |->
                   IF list[x[1]] \in S THEN Append(x[2], list[x[1]]) ELSE x[2]]
<1>1. N \in Nat /\ DOMAIN list = 1 .. N /\ \A i \in 1 .. N : list[i] \in Threads
  OBVIOUS
<1>2. Keep(list, S) = kept[N]
  BY DEF Keep
<1>3. G \in [(1 .. N) \X Seq(Threads) -> Seq(Threads)]
  BY <1>1
<1>4. PICK g \in [0 .. N -> Seq(Threads)] : g[0] = <<>> /\ \A i \in 1 .. N : g[i] = G[<<i, g[i - 1]>>]
  <2>1. <<>> \in Seq(Threads)
    OBVIOUS
  <2>2. G \in StepFunctions(N, Seq(Threads)) /\ N \in Nat
    BY <1>1, <1>3 DEF StepFunctions
  <2> HIDE DEF G, N
  <2>3. \E f : Recursive(f, N, Seq(Threads), <<>>, G)
    BY <2>1, <2>2, RecursionUpTo
  <2> QED BY <2>3 DEF Recursive
<1>5. Filters(g)
  <2>1. \A i \in 1 .. N : i - 1 \in 0 .. N
    BY <1>1
  <2>2. \A i \in 1 .. N : g[i] = Step(i, g)
    BY <1>4, <2>1
  <2>3. \A i \in 0 .. N : i = 0 \/ i \in 1 .. N
    BY <1>1
  <2>4. \A i \in 0 .. N : g[i] = IF i = 0 THEN <<>> ELSE Step(i, g)
    BY <1>4, <2>2, <2>3
  <2> HIDE DEF Step
  <2> QED BY <2>4
<1>6. Filters(kept)
  <2> HIDE DEF Filters
  <2> QED BY <1>5
<1> DEFINE Good == {n \in 0 .. N :
                      /\ kept[n] \in Seq(Threads)
                      /\ ToSet(kept[n]) = {list[i] : i \in 1 .. n} \cap S
                      /\ NoRepeat(list) => NoRepeat(kept[n])}
<1>7. kept[0] = <<>> /\ \A i \in 1 .. N : kept[i] = Step(i, kept)
  <2>1. kept = [i \in 0 .. N |-> IF i = 0 THEN <<>> ELSE Step(i, kept)]
    <3> HIDE DEF kept, Step
    <3> QED BY <1>6
  <2>2. 0 \in 0 .. N /\ \A i \in 1 .. N : i \in 0 .. N /\ i # 0
    BY <1>1
  <2> HIDE DEF kept, Step, N
  <2> QED BY <2>1, <2>2
<1> HIDE DEF kept
<1>8. 0 \in Good
  <2>1. ToSet(<<>>) = {} /\ NoRepeat(<<>>) /\ <<>> \in Seq(Threads)
    BY DEF ToSet, NoRepeat
  <2>2. {list[i] : i \in 1 .. 0} = {}
    OBVIOUS
  <2>3. kept[0] = <<>> /\ 0 \in 0 .. N
    BY <1>1, <1>7
  <2> HIDE DEF N
  <2> QED BY <2>1, <2>2, <2>3
<1>9. ASSUME NEW n \in 1 .. N, n - 1 \in Good PROVE n \in Good
  <2>1. /\ kept[n - 1] \in Seq(Threads)
        /\ ToSet(kept[n - 1]) = {list[i] : i \in 1 .. n - 1} \cap S
        /\ NoRepeat(list) => NoRepeat(kept[n - 1])
        /\ list[n] \in Threads
    BY <1>1, <1>9
  <2>2. {list[i] : i \in 1 .. n} = {list[i] : i \in 1 .. n - 1} \cup {list[n]}
    <3>1. 1 .. n = (1 .. n - 1) \cup {n}
      BY <1>1
    <3> QED BY <3>1
  <2>3. NoRepeat(list) => list[n] \notin {list[i] : i \in 1 .. n - 1}
    <3>1. \A i \in 1 .. n - 1 : i \in 1 .. N /\ i # n
      BY <1>1
    <3> QED BY <1>1, <3>1 DEF NoRepeat
  <2>4. CASE list[n] \in S
    <3>1. kept[n] = Append(kept[n - 1], list[n])
      BY <1>7, <2>4
    <3>2. /\ kept[n] \in Seq(Threads) /\ ToSet(kept[n]) = ToSet(kept[n - 1]) \cup {list[n]}
          /\ NoRepeat(kept[n - 1]) /\ list[n] \notin ToSet(kept[n - 1]) => NoRepeat(kept[n])
      BY <2>1, <3>1, AppendedList, SMTT(30)
    <3> QED BY <1>1, <2>1, <2>2, <2>3, <2>4, <3>2
  <2>5. CASE list[n] \notin S
    <3>1. kept[n] = kept[n - 1]
      BY <1>7, <2>5
    <3> QED BY <1>1, <2>1, <2>2, <2>5, <3>1, SMTT(30)
  <2> QED BY <2>4, <2>5
<1>10. N \in Good
  <2> HIDE DEF Good, N
  <2>1. 0 .. N \subseteq Good
    BY <1>1, <1>8, <1>9, InductionUpTo
  <2> QED BY <1>1, <2>1
<1> QED BY <1>1, <1>2, <1>10 DEF ToSet

\* A list without repetition counts each of its threads once.
LEMMA CountedList ==
  ASSUME NEW list, NoRepeat(list), NEW t
  PROVE  Count(list, t) = IF t \in ToSet(list) THEN 1 ELSE 0
<1>1. CASE t \in ToSet(list)
  <2>1. PICK i \in DOMAIN list : list[i] = t
    BY <1>1 DEF ToSet
  <2>2. {j \in DOMAIN list : list[j] = t} = {i}
    BY <2>1 DEF NoRepeat
  <2> QED BY <1>1, <2>2, FS_Singleton DEF Count
<1>2. CASE t \notin ToSet(list)
  <2>1. {j \in DOMAIN list : list[j] = t} = {}
    BY <1>2 DEF ToSet
  <2> QED BY <1>2, <2>1, FS_EmptySet DEF Count
<1> QED BY <1>1, <1>2
-----------------------------------------------------------------------------
(* The steps of update_thread_state.                                       *)

\* Who is a thread.
LEMMA ThreadNames ==
  /\ Kernel \in Threads /\ Idle \in Threads /\ Kernel # Idle /\ NONE \notin Threads
  /\ Users \subseteq Threads /\ Kernel \notin Users /\ Idle \notin Users
  /\ MaxSleep \in Nat \ {0} /\ NONE \notin States
  BY SchedulerAssumption DEF Threads

\* Taking the lock.
LEMMA AcquireKeepsInv ==
  ASSUME SchedulerInv, NEW t \in Threads, cpu = t, Acquire(t)
  PROVE  SchedulerInv'
<1>1. /\ pc[t] = "acquire" /\ sched_lock = NONE /\ sched_lock' = t
      /\ pc' = [pc EXCEPT ![t] = "remove"]
      /\ UNCHANGED <<running, ready, blocked, tstate, blocker, members, cpu, update,
                     list_lock, memory_lock, stuck>>
  BY DEF Acquire, GoTo, threadVars, listVars
<1>2. pc \in [Threads -> Places]
  BY DEF SchedulerInv, Types, SchedulerTypeOK
<1>3. Types'
  BY <1>1, <1>2 DEF SchedulerInv, Types, SchedulerTypeOK, Places
<1>4. Calls'
  BY <1>1, <1>2, ThreadNames DEF SchedulerInv, Calls, Updating, Leaving
<1>5. Starts'
  BY <1>1, <1>2 DEF SchedulerInv, Starts
<1>6. Locks'
  BY <1>1, <1>2, ThreadNames DEF SchedulerInv, Locks, LockHolderExecutes, Holding
<1>7. Boot'
  BY <1>1, <1>2, ThreadNames DEF SchedulerInv, Boot, Booting, Updating
<1>8. Lists'
  BY <1>1, <1>2 DEF SchedulerInv, Lists, Moving
<1>9. Waits'
  BY <1>1, <1>2 DEF SchedulerInv, Waits, should_unblock
<1> QED BY <1>3, <1>4, <1>5, <1>6, <1>7, <1>8, <1>9 DEF SchedulerInv

\* A thread's state changes: it leaves the list of its old state.
LEMMA RemoveOldKeepsInv ==
  ASSUME SchedulerInv, NEW t \in Threads, cpu = t, RemoveOld(t)
  PROVE  SchedulerInv'
<1>0. PICK thread, state : update[t] = <<thread, state>> /\ thread = update[t][1] /\ state = update[t][2]
  BY DEF SchedulerInv, Types, Updates
<1>1. /\ pc[t] = "remove"
      /\ running' = IF tstate[thread] = "EMBRYO" /\ running = NONE THEN thread ELSE running
      /\ blocked' = IF tstate[thread] = "BLOCKED" THEN Without(blocked, thread) ELSE blocked
      /\ ready' = IF tstate[thread] = "READY" THEN Without(ready, thread) ELSE ready
      /\ tstate' = [tstate EXCEPT ![thread] = state]
      /\ pc' = [pc EXCEPT ![t] = "insert"]
      /\ UNCHANGED <<blocker, members, cpu, update, sched_lock, list_lock, memory_lock, stuck>>
  BY <1>0 DEF RemoveOld, GoTo, lockVars
<1>2. /\ pc \in [Threads -> Places] /\ ready \in Seq(Threads) /\ blocked \in Seq(Threads)
      /\ tstate \in [Threads -> States \cup {NONE}]
  BY DEF SchedulerInv, Types, SchedulerTypeOK
\* What is being done, and to whom.
<1>3. /\ thread \in Threads /\ state \in {"READY", "BLOCKED", "STOPPED"}
      /\ state = "READY" => tstate[thread] = "EMBRYO"
      /\ state # "READY" => thread = t
      /\ t # Idle /\ tstate[t] # "STOPPED"
  <2>1. update[t] \in Own(t) \cup (Threads \X {"READY"}) /\ t # Idle
    BY <1>1 DEF SchedulerInv, Calls, Updating
  <2>2. thread \in Threads /\ state \in {"READY", "BLOCKED", "STOPPED"} /\ (state # "READY" => thread = t)
    BY <1>0, <2>1 DEF Own
  <2>3. state = "READY" => tstate[thread] = "EMBRYO"
    BY <1>0, <1>1 DEF SchedulerInv, Starts
  <2>4. tstate[t] # "STOPPED"
    BY <1>1 DEF SchedulerInv, Waits
  <2> QED BY <2>1, <2>2, <2>3, <2>4
<1>4. /\ \A list \in {ready, blocked} :
           /\ Without(list, thread) \in Seq(Threads)
           /\ ToSet(Without(list, thread)) = ToSet(list) \ {thread}
           /\ NoRepeat(list) => NoRepeat(Without(list, thread))
      /\ ToSet(ready) \subseteq Threads /\ ToSet(blocked) \subseteq Threads
  <2>1. ToSet(ready) \subseteq Threads /\ ToSet(blocked) \subseteq Threads
    BY DEF SchedulerInv, Lists
  <2> QED BY <1>2, <2>1, KeptList DEF Without
<1>5. Types'
  <2>1. ready' \in Seq(Threads) /\ blocked' \in Seq(Threads)
    BY <1>1, <1>2, <1>4
  <2>2. running' \in Threads \cup {NONE} /\ tstate' \in [Threads -> States \cup {NONE}]
    BY <1>1, <1>2, <1>3 DEF SchedulerInv, Types, SchedulerTypeOK, States
  <2>3. pc' \in [Threads -> Places]
    BY <1>1, <1>2 DEF Places
  <2> QED BY <1>1, <2>1, <2>2, <2>3 DEF SchedulerInv, Types, SchedulerTypeOK
<1>6. Calls'
  BY <1>1, <1>2, <1>3, ThreadNames DEF SchedulerInv, Calls, Updating, Leaving
<1>7. Starts'
  <2>1. ASSUME NEW x \in Threads, update[x][2] = "READY", pc'[x] \in {"acquire", "remove"}
        PROVE  tstate'[update[x][1]] = "EMBRYO"
    <3>1. x # t /\ pc[x] \in {"acquire", "remove"} /\ tstate[update[x][1]] = "EMBRYO"
      BY <1>1, <1>2, <2>1 DEF SchedulerInv, Starts
    <3>2. update[x][1] # thread
      <4>1. CASE state = "READY"
        <5>1. update[x] # update[t] /\ update[x] \in Updates
          BY <1>0, <1>1, <2>1, <3>1, <4>1 DEF SchedulerInv, Starts, Types
        <5> QED BY <1>0, <2>1, <4>1, <5>1 DEF Updates
      <4>2. CASE state # "READY"
        <5>1. thread = t /\ cpu = t
          BY <1>3, <4>2
        <5>2. tstate[t] # "EMBRYO"
          <6>1. tstate[t] = "EMBRYO" => t = Kernel /\ tstate[Idle] = "EMBRYO"
            BY <1>1 DEF SchedulerInv, Starts
          <6>2. t = Kernel /\ tstate[Idle] = "EMBRYO" => state = "READY"
            BY <1>0, <1>3, ThreadNames DEF SchedulerInv, Boot, Booting, NoUpdate
          <6> QED BY <4>2, <6>1, <6>2
        <5> QED BY <3>1, <5>1, <5>2
      <4> QED BY <4>1, <4>2
    <3> QED BY <1>1, <1>2, <3>1, <3>2
  <2>2. ASSUME NEW x \in Threads, tstate'[x] \in {NONE, "EMBRYO"}
        PROVE  /\ x # running'
               /\ (pc'[x] = "user" /\ update[x] = NoUpdate) \/ (x = Kernel /\ tstate'[Idle] = "EMBRYO")
    <3>1. x # thread /\ tstate[x] \in {NONE, "EMBRYO"}
      BY <1>1, <1>2, <1>3, <2>2, ThreadNames DEF States
    <3>2. x # running /\ ((pc[x] = "user" /\ update[x] = NoUpdate) \/ (x = Kernel /\ tstate[Idle] = "EMBRYO"))
      BY <3>1 DEF SchedulerInv, Starts
    <3>3. x = Kernel /\ tstate[Idle] = "EMBRYO" => thread = Kernel
      BY <1>0, <3>1, ThreadNames DEF SchedulerInv, Boot, Booting, States
    <3>4. pc[x] = "user" => pc'[x] = "user"
      BY <1>1, <1>2
    <3> QED BY <1>1, <3>1, <3>2, <3>3, <3>4
  <2> QED BY <1>1, <2>1, <2>2 DEF SchedulerInv, Starts
<1>8. Locks'
  BY <1>0, <1>1, <1>2, <1>3, ThreadNames DEF SchedulerInv, Locks, LockHolderExecutes, Holding, Boot
<1>9. Boot'
  <2>1. CASE Booting /\ thread = Kernel
    <3>1. t = Kernel /\ update[Kernel] = <<Kernel, "READY">> /\ state = "READY"
      BY <1>0, <1>3, <2>1, ThreadNames DEF SchedulerInv, Boot, Booting, NoUpdate
    <3>2. tstate[Kernel] = "EMBRYO" /\ running = NONE
      BY <1>3, <2>1, <3>1 DEF SchedulerInv, Boot
    <3>3. /\ Booting' /\ running' = Kernel /\ tstate'[Kernel] = "READY" /\ pc'[Kernel] = "insert"
          /\ \A u \in Users : tstate'[u] = tstate[u]
      BY <1>1, <1>2, <2>1, <3>1, <3>2, ThreadNames DEF Booting
    <3> QED BY <1>1, <2>1, <3>1, <3>3, ThreadNames DEF SchedulerInv, Boot, Updating
  <2>2. CASE Booting /\ thread = Idle
    BY <1>0, <1>1, <1>2, <1>3, <2>2, ThreadNames DEF SchedulerInv, Boot, Booting, Updating
  <2>3. CASE Booting /\ thread \notin {Kernel, Idle}
    BY <1>0, <1>1, <1>3, <2>3, ThreadNames DEF SchedulerInv, Boot, Booting, Updating, NoUpdate
  <2>4. CASE ~Booting
    <3>1. thread # Idle /\ running # NONE
      BY <1>3, <2>4, ThreadNames DEF SchedulerInv, Boot, Booting
    <3>2. ~Booting' /\ tstate'[Idle] = tstate[Idle] /\ running' = running
      BY <1>1, <1>2, <2>4, <3>1, ThreadNames DEF Booting
    <3> QED BY <1>1, <1>2, <2>4, <3>2, ThreadNames DEF SchedulerInv, Boot
  <2> QED BY <2>1, <2>2, <2>3, <2>4
<1>10. Lists'
  <2>1. \A h \in Threads : pc[h] # "insert"
    BY <1>1 DEF SchedulerInv, Locks, Holding
  <2>2. \A x \in Threads : Moving(x)' <=> x = thread
    BY <1>0, <1>1, <1>2, <1>3, <2>1 DEF Moving
  <2>3. \A x \in Threads : ~Moving(x)
    BY <2>1 DEF Moving
  <2>4. ToSet(ready)' = {x \in Threads : tstate'[x] = "READY" /\ ~Moving(x)'}
    BY <1>1, <1>2, <1>3, <1>4, <2>2, <2>3 DEF SchedulerInv, Lists
  <2>5. ToSet(blocked)' = {x \in Threads : tstate'[x] = "BLOCKED" /\ ~Moving(x)'}
    BY <1>1, <1>2, <1>3, <1>4, <2>2, <2>3 DEF SchedulerInv, Lists
  <2>6. NoRepeat(ready)' /\ NoRepeat(blocked)'
    BY <1>1, <1>4 DEF SchedulerInv, Lists
  <2>7. \A x \in Threads : tstate'[x] = "RUNNING" => x = running'
    <3>1. \A x \in Threads : tstate'[x] = "RUNNING" => tstate[x] = "RUNNING" /\ x = running /\ x \in Threads
      BY <1>1, <1>2, <1>3 DEF SchedulerInv, Lists
    <3> QED BY <1>1, <3>1, ThreadNames
  <2>8. \A h \in Threads : pc'[h] = "insert" => tstate'[update'[h][1]] = update'[h][2]
    BY <1>0, <1>1, <1>2, <1>3, <2>1
  <2> QED BY <1>1, <2>4, <2>5, <2>6, <2>7, <2>8 DEF SchedulerInv, Lists
<1>11. Waits'
  BY <1>0, <1>1, <1>2, <1>3 DEF SchedulerInv, Waits, should_unblock, Calls, Updating, Types, Blockers
<1> QED BY <1>5, <1>6, <1>7, <1>8, <1>9, <1>10, <1>11 DEF SchedulerInv

\* It joins the list of its new state.
LEMMA InsertNewKeepsInv ==
  ASSUME SchedulerInv, NEW t \in Threads, cpu = t, InsertNew(t)
  PROVE  SchedulerInv'
<1>0. PICK thread, state : update[t] = <<thread, state>> /\ thread = update[t][1] /\ state = update[t][2]
  BY DEF SchedulerInv, Types, Updates
<1>1. /\ pc[t] = "insert"
      /\ blocked' = IF state = "BLOCKED" THEN Append(blocked, thread) ELSE blocked
      /\ ready' = IF state = "READY" THEN Append(ready, thread) ELSE ready
      /\ pc' = [pc EXCEPT ![t] = "release"]
      /\ UNCHANGED <<running, tstate, blocker, members, cpu, update, sched_lock, list_lock,
                     memory_lock, stuck>>
  BY <1>0 DEF InsertNew, GoTo, lockVars
<1>2. /\ pc \in [Threads -> Places] /\ ready \in Seq(Threads) /\ blocked \in Seq(Threads)
  BY DEF SchedulerInv, Types, SchedulerTypeOK
<1>3. thread \in Threads /\ tstate[thread] = state
  BY <1>0, <1>1 DEF SchedulerInv, Calls, Updating, Own, Lists
<1>4. /\ \A list \in {ready, blocked} :
           /\ Append(list, thread) \in Seq(Threads)
           /\ ToSet(Append(list, thread)) = ToSet(list) \cup {thread}
           /\ NoRepeat(list) /\ thread \notin ToSet(list) => NoRepeat(Append(list, thread))
  BY <1>2, <1>3, AppendedList
<1>5. Types'
  BY <1>1, <1>2, <1>3, <1>4 DEF SchedulerInv, Types, SchedulerTypeOK, Places
<1>6. Calls'
  BY <1>1, <1>2, ThreadNames DEF SchedulerInv, Calls, Updating, Leaving
<1>7. Starts'
  BY <1>1, <1>2 DEF SchedulerInv, Starts
<1>8. Locks'
  BY <1>1, <1>2, ThreadNames DEF SchedulerInv, Locks, LockHolderExecutes, Holding
<1>9. Boot'
  BY <1>1, <1>2, ThreadNames DEF SchedulerInv, Boot, Booting, Updating
<1>10. Lists'
  <2>1. \A h \in Threads : pc[h] = "insert" => h = t
    BY <1>1 DEF SchedulerInv, Locks, Holding
  <2>2. \A x \in Threads : ~Moving(x)'
    BY <1>1, <1>2, <2>1 DEF Moving
  <2>3. \A x \in Threads : Moving(x) <=> x = thread
    BY <1>0, <1>1, <2>1 DEF Moving
  <2>4. thread \notin ToSet(ready) /\ thread \notin ToSet(blocked)
    BY <1>3, <2>3 DEF SchedulerInv, Lists
  <2>5. ToSet(ready)' = {x \in Threads : tstate'[x] = "READY" /\ ~Moving(x)'}
    BY <1>1, <1>3, <1>4, <2>2, <2>3 DEF SchedulerInv, Lists
  <2>6. ToSet(blocked)' = {x \in Threads : tstate'[x] = "BLOCKED" /\ ~Moving(x)'}
    BY <1>1, <1>3, <1>4, <2>2, <2>3 DEF SchedulerInv, Lists
  <2>7. NoRepeat(ready)' /\ NoRepeat(blocked)'
    BY <1>1, <1>4, <2>4 DEF SchedulerInv, Lists
  <2>8. \A h \in Threads : pc'[h] # "insert"
    BY <1>1, <1>2, <2>1
  <2> QED BY <1>1, <2>5, <2>6, <2>7, <2>8 DEF SchedulerInv, Lists
<1>11. Waits'
  BY <1>1, <1>2 DEF SchedulerInv, Waits, should_unblock
<1> QED BY <1>5, <1>6, <1>7, <1>8, <1>9, <1>10, <1>11 DEF SchedulerInv

\* The lock is given up.
LEMMA ReleaseLockKeepsInv ==
  ASSUME SchedulerInv, NEW t \in Threads, cpu = t, ReleaseLock(t)
  PROVE  SchedulerInv'
<1>1. /\ pc[t] = "release" /\ sched_lock' = NONE
      /\ UNCHANGED <<running, ready, blocked, tstate, blocker, members, cpu, list_lock,
                     memory_lock, stuck>>
      /\ update' = IF update[t][2] = "READY" THEN [update EXCEPT ![t] = NoUpdate] ELSE update
  BY DEF ReleaseLock, threadVars, listVars
<1>2. /\ pc \in [Threads -> Places] /\ update \in [Threads -> Updates]
  BY DEF SchedulerInv, Types, SchedulerTypeOK
<1>3. PICK place \in {"yield", "boot", "user"} :
        /\ pc' = [pc EXCEPT ![t] = place]
        /\ place = "yield" <=> update[t][2] # "READY"
        /\ place = "boot" <=> update[t] = <<Kernel, "READY">>
  <2> DEFINE place == CASE update[t][2] # "READY" -> "yield"
                        [] update[t] = <<Kernel, "READY">> -> "boot"
                        [] OTHER -> "user"
  <2>1. /\ place \in {"yield", "boot", "user"}
        /\ place = "yield" <=> update[t][2] # "READY"
        /\ place = "boot" <=> update[t] = <<Kernel, "READY">>
    OBVIOUS
  <2>2. pc' = [pc EXCEPT ![t] = place]
    BY DEF ReleaseLock, GoTo
  <2> HIDE DEF place
  <2> QED BY <2>1, <2>2
<1>4. update[t] \in Own(t) \cup (Threads \X {"READY"}) /\ update'[t] \in Updates
  BY <1>1, <1>2 DEF SchedulerInv, Calls, Updating, NoUpdate, Updates
<1>5. Types'
  BY <1>1, <1>2, <1>3 DEF SchedulerInv, Types, SchedulerTypeOK, Places, NoUpdate, Updates
<1>6. Calls'
  BY <1>1, <1>2, <1>3, <1>4, ThreadNames DEF SchedulerInv, Calls, Updating, Leaving, NoUpdate, Own, Boot
<1>7. Starts'
  <2>1. \A x \in Threads : x # t => pc'[x] = pc[x] /\ update'[x] = update[x]
    BY <1>1, <1>2, <1>3
  <2>2. update'[t][2] # "READY" /\ pc'[t] \notin {"acquire", "remove"}
    BY <1>1, <1>2, <1>3, ThreadNames DEF NoUpdate, States
  <2>3. tstate[t] \in {NONE, "EMBRYO"} => t # running /\ t = Kernel /\ tstate[Idle] = "EMBRYO"
    BY <1>1 DEF SchedulerInv, Starts
  <2> QED BY <1>1, <2>1, <2>2, <2>3 DEF SchedulerInv, Starts
<1>8. Locks'
  BY <1>1, <1>2, <1>3, ThreadNames DEF SchedulerInv, Locks, LockHolderExecutes, Holding
<1>9. Boot'
  BY <1>1, <1>2, <1>3, ThreadNames DEF SchedulerInv, Boot, Booting, Updating, NoUpdate
<1>10. Lists'
  BY <1>1, <1>2, <1>3 DEF SchedulerInv, Lists, Moving, Locks, Holding
<1>11. Waits'
  <2>1. \A x \in Threads : x # t => pc'[x] = pc[x] /\ update'[x] = update[x]
    BY <1>1, <1>2, <1>3
  <2>2. \A x \in Threads : should_unblock(x)' <=> should_unblock(x)
    BY <1>1 DEF should_unblock
  <2>3. pc'[t] \notin {"acquire", "remove", "yielded"}
    BY <1>1, <1>2, <1>3
  <2>4. CASE update[t][2] = "READY"
    <3>1. update'[t][2] # "STOPPED" /\ update[t] # <<t, "BLOCKED">> /\ update[t] # <<t, "STOPPED">>
      BY <1>1, <1>2, <2>4, ThreadNames DEF NoUpdate, States
    <3> QED BY <1>1, <2>1, <2>2, <2>3, <3>1 DEF SchedulerInv, Waits
  <2>5. CASE update[t][2] # "READY"
    BY <1>1, <2>1, <2>2, <2>3, <2>5 DEF SchedulerInv, Waits
  <2> QED BY <2>4, <2>5
<1> QED BY <1>5, <1>6, <1>7, <1>8, <1>9, <1>10, <1>11 DEF SchedulerInv

-----------------------------------------------------------------------------
(* The steps of yield, and the timer.                                      *)

\* A tick shortens the sleeps that are not over, and nothing else.
LEMMA TickShortens ==
  ASSUME Types
  PROVE  /\ Tick(blocker) \in [Threads -> Blockers]
         /\ \A t \in Threads :
              /\ Tick(blocker)[t] = NoBlocker <=> blocker[t] = NoBlocker
              /\ blocker[t][1] = "sleep" /\ blocker[t][2] = 0 => Tick(blocker)[t] = blocker[t]
              /\ blocker[t][1] = "join" => Tick(blocker)[t] = blocker[t]
<1> DEFINE shorter(b) == IF b[1] = "sleep" /\ b[2] > 0 THEN <<"sleep", b[2] - 1>> ELSE b
<1>1. Tick(blocker) = [t \in Threads |-> shorter(blocker[t])]
  BY DEF Tick
<1>2. ASSUME NEW b \in Blockers
      PROVE  /\ shorter(b) \in Blockers /\ (shorter(b) = NoBlocker <=> b = NoBlocker)
             /\ b[1] = "sleep" /\ b[2] = 0 => shorter(b) = b
             /\ b[1] = "join" => shorter(b) = b
  BY <1>2, ThreadNames DEF Blockers, NoBlocker
<1>3. \A t \in Threads : blocker[t] \in Blockers
  BY DEF Types
<1> HIDE DEF shorter
<1> QED BY <1>1, <1>2, <1>3

\* An interrupt that only ticks, whatever else it does to the kernel.
LEMMA TickKeepsInv ==
  ASSUME SchedulerInv, blocker' \in {blocker, Tick(blocker)}, stuck' \in {"none", "spin", "clobber"},
         UNCHANGED <<running, ready, blocked, tstate, members, cpu, pc, update, sched_lock,
                     list_lock, memory_lock>>
  PROVE  SchedulerInv'
<1>1. /\ blocker' \in [Threads -> Blockers]
      /\ \A t \in Threads :
              /\ blocker'[t] = NoBlocker <=> blocker[t] = NoBlocker
              /\ should_unblock(t) => should_unblock(t)'
  BY TickShortens DEF SchedulerInv, Types, should_unblock
<1>2. Types'
  BY <1>1 DEF SchedulerInv, Types, SchedulerTypeOK, Blockers
<1>3. Calls' /\ Starts' /\ Boot'
  BY DEF SchedulerInv, Calls, Starts, Boot, Booting
<1>4. Locks' /\ Lists'
  BY DEF SchedulerInv, Locks, LockHolderExecutes, Lists, Moving
<1>5. Waits'
  BY <1>1 DEF SchedulerInv, Waits
<1> QED BY <1>2, <1>3, <1>4, <1>5 DEF SchedulerInv

\* What schedule finds: every thread that can go on is on the list it pops.
LEMMA RunnableThreads ==
  ASSUME SchedulerInv, sched_lock = NONE, running # NONE, NEW blk
  PROVE  /\ Runnable(blk) \in Seq(Threads) /\ NoRepeat(Runnable(blk)) /\ Runnable(blk) # <<>>
         /\ StillBlocked(blk) \in Seq(Threads) /\ NoRepeat(StillBlocked(blk))
         /\ \A t \in Threads :
              /\ t \in ToSet(Awake(blk)) =>
                   /\ tstate[t] = "BLOCKED"
                   /\ \/ blk[t][1] = "sleep" /\ blk[t][2] = 0
                      \/ blk[t][1] = "join" /\ tstate[blk[t][2]] = "STOPPED"
              /\ t \in ToSet(Runnable(blk)) <=>
                   tstate[t] \in {"READY", "RUNNING"} \/ t \in ToSet(Awake(blk))
              /\ t \in ToSet(StillBlocked(blk)) <=>
                   tstate[t] = "BLOCKED" /\ t \notin ToSet(Awake(blk))
         /\ ToSet(Runnable(blk)) \subseteq Threads /\ ToSet(StillBlocked(blk)) \subseteq Threads
<1> DEFINE due == {t \in Threads :
                     \/ blk[t][1] = "sleep" /\ blk[t][2] = 0
                     \/ blk[t][1] = "join" /\ tstate[blk[t][2]] = "STOPPED"}
           awake == Awake(blk)
           last == IF tstate[running] = "RUNNING" THEN <<running>> ELSE <<>>
<1>1. /\ ready \in Seq(Threads) /\ blocked \in Seq(Threads) /\ running \in Threads
      /\ tstate \in [Threads -> States \cup {NONE}]
  BY DEF SchedulerInv, Types, SchedulerTypeOK
<1>2. \A t \in Threads : ~Moving(t)
  BY ThreadNames DEF SchedulerInv, Locks, Holding, Moving
<1>3. /\ ToSet(ready) = {t \in Threads : tstate[t] = "READY"} /\ NoRepeat(ready)
      /\ ToSet(blocked) = {t \in Threads : tstate[t] = "BLOCKED"} /\ NoRepeat(blocked)
      /\ \A t \in Threads : tstate[t] = "RUNNING" => t = running
  BY <1>2 DEF SchedulerInv, Lists
<1>4. awake \in Seq(Threads) /\ ToSet(awake) = ToSet(blocked) \cap due /\ NoRepeat(awake)
  <2>1. awake = Keep(blocked, due)
    BY DEF Awake
  <2> HIDE DEF due, awake
  <2> QED BY <1>1, <1>3, <2>1, KeptList
<1>5. /\ StillBlocked(blk) \in Seq(Threads) /\ NoRepeat(StillBlocked(blk))
      /\ ToSet(StillBlocked(blk)) = ToSet(blocked) \cap (Threads \ ToSet(awake))
  BY <1>1, <1>3, KeptList DEF StillBlocked
<1>6. /\ last \in Seq(Threads) /\ NoRepeat(last)
      /\ ToSet(last) = {t \in Threads : tstate[t] = "RUNNING"}
  <2>1. CASE tstate[running] = "RUNNING"
    <3>1. last = <<running>> /\ DOMAIN <<running>> = {1} /\ <<running>>[1] = running
      BY <2>1
    <3> QED BY <1>1, <1>3, <2>1, <3>1 DEF NoRepeat, ToSet
  <2>2. CASE tstate[running] # "RUNNING"
    <3>1. last = <<>> /\ DOMAIN <<>> = {}
      BY <2>2
    <3> QED BY <1>1, <1>3, <2>2, <3>1 DEF NoRepeat, ToSet
  <2> QED BY <2>1, <2>2
<1>7. Runnable(blk) = (ready \o awake) \o last
  BY DEF Runnable
<1> HIDE DEF awake, last
<1>8. /\ ready \o awake \in Seq(Threads) /\ NoRepeat(ready \o awake)
      /\ ToSet(ready \o awake) = ToSet(ready) \cup ToSet(awake)
  BY <1>1, <1>3, <1>4, JoinedLists
<1>9. /\ Runnable(blk) \in Seq(Threads) /\ NoRepeat(Runnable(blk))
      /\ ToSet(Runnable(blk)) = ToSet(ready) \cup ToSet(awake) \cup ToSet(last)
  <2>1. ToSet(ready \o awake) \cap ToSet(last) = {}
    BY <1>3, <1>4, <1>6, <1>8
  <2>2. PICK front : front = ready \o awake
    OBVIOUS
  <2>3. front \in Seq(Threads) /\ NoRepeat(front) /\ ToSet(front) \cap ToSet(last) = {}
    BY <1>8, <2>1, <2>2
  <2>4. /\ front \o last \in Seq(Threads) /\ NoRepeat(front \o last)
        /\ ToSet(front \o last) = ToSet(front) \cup ToSet(last)
    BY <1>6, <2>3, JoinedLists
  <2> QED BY <1>7, <1>8, <2>2, <2>4
<1>10. Runnable(blk) # <<>>
  <2>1. tstate[Idle] \in {"READY", "RUNNING"} \/ tstate[Kernel] \in {"READY", "RUNNING"}
    BY ThreadNames DEF SchedulerInv, Boot, Booting
  <2>2. ToSet(Runnable(blk)) # {}
    BY <1>3, <1>6, <1>9, <2>1, ThreadNames
  <2> QED BY <2>2 DEF ToSet
<1> QED BY <1>3, <1>4, <1>5, <1>6, <1>9, <1>10 DEF awake

\* What schedule does to the threads: the first that can go on is RUNNING, the
\* others are READY, and the rest stay as they are.
LEMMA ChosenThread ==
  ASSUME SchedulerInv, sched_lock = NONE, running # NONE, NEW blk, Choose(blk)
  PROVE  /\ running' \in Threads /\ tstate'[running'] = "RUNNING"
         /\ tstate' \in [Threads -> States \cup {NONE}] /\ members' \subseteq Threads
         /\ tstate[running'] \in {"READY", "RUNNING", "BLOCKED"}
         /\ ready' \in Seq(Threads) /\ NoRepeat(ready') /\ ToSet(ready') \subseteq Threads
         /\ blocked' \in Seq(Threads) /\ NoRepeat(blocked') /\ ToSet(blocked') \subseteq Threads
         /\ \A t \in Threads :
              /\ t \in ToSet(ready') <=> tstate'[t] = "READY"
              /\ t \in ToSet(blocked') <=> tstate'[t] = "BLOCKED"
              /\ tstate'[t] = "RUNNING" => t = running'
              /\ tstate[t] \in {NONE, "EMBRYO", "STOPPED"} \/ tstate'[t] \in {NONE, "EMBRYO", "STOPPED"}
                   => tstate'[t] = tstate[t]
              /\ tstate[t] \in {"READY", "RUNNING"} => tstate'[t] \in {"READY", "RUNNING"}
              /\ tstate[t] = "BLOCKED" /\ tstate'[t] # "BLOCKED" =>
                   \/ blk[t][1] = "sleep" /\ blk[t][2] = 0
                   \/ blk[t][1] = "join" /\ tstate[blk[t][2]] = "STOPPED"
<1>1. PICK queue : queue = Runnable(blk)
  OBVIOUS
<1>2. /\ queue \in Seq(Threads) /\ NoRepeat(queue) /\ queue # <<>> /\ ToSet(queue) \subseteq Threads
      /\ StillBlocked(blk) \in Seq(Threads) /\ NoRepeat(StillBlocked(blk))
      /\ ToSet(StillBlocked(blk)) \subseteq Threads
      /\ \A t \in Threads :
              /\ t \in ToSet(Awake(blk)) =>
                   /\ tstate[t] = "BLOCKED"
                   /\ \/ blk[t][1] = "sleep" /\ blk[t][2] = 0
                      \/ blk[t][1] = "join" /\ tstate[blk[t][2]] = "STOPPED"
              /\ t \in ToSet(queue) <=>
                   tstate[t] \in {"READY", "RUNNING"} \/ t \in ToSet(Awake(blk))
              /\ t \in ToSet(StillBlocked(blk)) <=>
                   tstate[t] = "BLOCKED" /\ t \notin ToSet(Awake(blk))
  BY <1>1, RunnableThreads, ZenonT(60)
<1>3. /\ running' = Head(queue) /\ ready' = Tail(queue) /\ blocked' = StillBlocked(blk)
      /\ tstate' = [t \in Threads |->
           IF t = running' THEN "RUNNING"
           ELSE IF t \in ToSet(queue) THEN "READY" ELSE tstate[t]]
      /\ members' \subseteq members
  BY <1>1 DEF Choose
<1>4. /\ running' \in ToSet(queue) /\ running' \in Threads
      /\ ready' \in Seq(Threads) /\ NoRepeat(ready')
      /\ ToSet(ready') = ToSet(queue) \ {running'}
  BY <1>2, <1>3, PoppedList
<1>5. /\ tstate \in [Threads -> States \cup {NONE}] /\ members \subseteq Threads
  BY DEF SchedulerInv, Types, SchedulerTypeOK
<1>6. \A t \in Threads :
        /\ t = running' => tstate'[t] = "RUNNING"
        /\ t # running' /\ t \in ToSet(queue) => tstate'[t] = "READY"
        /\ t \notin ToSet(queue) => tstate'[t] = tstate[t]
        /\ tstate[t] = "RUNNING" \/ tstate[t] = "READY" => t \in ToSet(queue)
        /\ t \in ToSet(queue) => tstate[t] \in {"READY", "RUNNING", "BLOCKED"}
  BY <1>2, <1>3, <1>4
<1>7. tstate' \in [Threads -> States \cup {NONE}]
  BY <1>3, <1>5 DEF States
<1> HIDE DEF NoRepeat
<1> QED BY <1>2, <1>3, <1>4, <1>5, <1>6, <1>7, ThreadNames DEF States

\* A tick alone, and the tick that ruins what schedule was about to do.
LEMMA TimerTickKeepsInv ==
  ASSUME SchedulerInv, TimerTick \/ TimerClobbers
  PROVE  SchedulerInv'
<1>1. /\ blocker' = Tick(blocker) /\ stuck' \in {"none", "clobber"}
      /\ UNCHANGED <<running, ready, blocked, tstate, members, cpu, pc, update, sched_lock,
                     list_lock, memory_lock>>
  BY DEF TimerTick, TimerClobbers, listVars, lockVars
<1> QED BY <1>1, TickKeepsInv

\* While the kernel boots, nothing but its own thread can be chosen.
LEMMA ChosenAtBoot ==
  ASSUME SchedulerInv, sched_lock = NONE, running # NONE, NEW blk, Choose(blk)
  PROVE  /\ Booting' <=> Booting
         /\ Booting => running' = Kernel
         /\ tstate'[Kernel] = "EMBRYO" <=> tstate[Kernel] = "EMBRYO"
         /\ \A u \in Users : tstate[u] = NONE => tstate'[u] = NONE
         /\ tstate[Idle] \in {"READY", "RUNNING"} => tstate'[Idle] \in {"READY", "RUNNING"}
<1>1. /\ running' \in Threads /\ tstate[running'] \in {"READY", "RUNNING", "BLOCKED"}
      /\ \A t \in Threads :
           /\ tstate[t] \in {NONE, "EMBRYO", "STOPPED"} \/ tstate'[t] \in {NONE, "EMBRYO", "STOPPED"}
                   => tstate'[t] = tstate[t]
           /\ tstate[t] \in {"READY", "RUNNING"} => tstate'[t] \in {"READY", "RUNNING"}
  BY ChosenThread
<1>2. Booting => running' = Kernel
  <2>1. Booting => \A u \in Users : tstate[u] = NONE
    BY DEF SchedulerInv, Boot
  <2>2. running' = Kernel \/ running' = Idle \/ running' \in Users
    BY <1>1 DEF Threads
  <2> QED BY <1>1, <2>1, <2>2, ThreadNames DEF Booting, States
<1> QED BY <1>1, <1>2, ThreadNames DEF Booting

\* The timer makes schedule choose.
LEMMA TimerSwitchKeepsInv ==
  ASSUME SchedulerInv, TimerSwitch
  PROVE  SchedulerInv'
<1>1. PICK blk : blk = blocker'
  OBVIOUS
<1>2. /\ stuck = "none" /\ running # NONE /\ memory_lock = NONE /\ sched_lock = NONE
      /\ pc[cpu] # "switch" /\ blocker' = Tick(blocker)
      /\ UNCHANGED <<pc, update, sched_lock, list_lock, memory_lock>>
  BY DEF TimerSwitch, can_schedule, Switching, lockVars
<1>3. \/ Choose(blk) /\ cpu' = running' /\ stuck' = stuck
      \/ ScheduleFails(blk) /\ cpu' = cpu
  BY <1>1 DEF TimerSwitch
<1>4. CASE ScheduleFails(blk) /\ cpu' = cpu
  <2>1. Runnable(blk) # <<>>
    BY <1>2, RunnableThreads
  <2>2. stuck' = "spin" /\ UNCHANGED <<running, ready, blocked, tstate, members>>
    BY <1>4, <2>1 DEF ScheduleFails, PopsNothing, listVars
  <2> QED BY <1>2, <1>4, <2>2, TickKeepsInv
<1>5. CASE Choose(blk) /\ cpu' = running' /\ stuck' = stuck
  <2>1. /\ running' \in Threads /\ tstate'[running'] = "RUNNING"
        /\ tstate' \in [Threads -> States \cup {NONE}] /\ members' \subseteq Threads
        /\ tstate[running'] \in {"READY", "RUNNING", "BLOCKED"}
        /\ ready' \in Seq(Threads) /\ NoRepeat(ready') /\ ToSet(ready') \subseteq Threads
        /\ blocked' \in Seq(Threads) /\ NoRepeat(blocked') /\ ToSet(blocked') \subseteq Threads
        /\ \A t \in Threads :
              /\ t \in ToSet(ready') <=> tstate'[t] = "READY"
              /\ t \in ToSet(blocked') <=> tstate'[t] = "BLOCKED"
              /\ tstate'[t] = "RUNNING" => t = running'
              /\ tstate[t] \in {NONE, "EMBRYO", "STOPPED"} \/ tstate'[t] \in {NONE, "EMBRYO", "STOPPED"}
                   => tstate'[t] = tstate[t]
              /\ tstate[t] \in {"READY", "RUNNING"} => tstate'[t] \in {"READY", "RUNNING"}
              /\ tstate[t] = "BLOCKED" /\ tstate'[t] # "BLOCKED" =>
                   \/ blk[t][1] = "sleep" /\ blk[t][2] = 0
                   \/ blk[t][1] = "join" /\ tstate[blk[t][2]] = "STOPPED"
    BY <1>2, <1>5, ChosenThread
  <2>2. /\ Booting' <=> Booting
        /\ Booting => running' = Kernel
        /\ tstate'[Kernel] = "EMBRYO" <=> tstate[Kernel] = "EMBRYO"
        /\ \A u \in Users : tstate[u] = NONE => tstate'[u] = NONE
        /\ tstate[Idle] \in {"READY", "RUNNING"} => tstate'[Idle] \in {"READY", "RUNNING"}
    BY <1>2, <1>5, ChosenAtBoot
  <2>3. /\ blocker' \in [Threads -> Blockers]
        /\ \A t \in Threads :
              /\ blocker'[t] = NoBlocker <=> blocker[t] = NoBlocker
              /\ should_unblock(t) => should_unblock(t)'
    <3>1. /\ blocker' \in [Threads -> Blockers]
          /\ \A t \in Threads :
              /\ blocker'[t] = NoBlocker <=> blocker[t] = NoBlocker
              /\ blocker[t][1] = "sleep" /\ blocker[t][2] = 0 => blocker'[t] = blocker[t]
              /\ blocker[t][1] = "join" => blocker'[t] = blocker[t]
      BY <1>2, TickShortens DEF SchedulerInv
    <3>2. \A t \in Threads : blocker[t][1] = "join" => blocker[t][2] \in Threads
      BY ThreadNames DEF SchedulerInv, Types, Blockers, NoBlocker
    <3> QED BY <2>1, <3>1, <3>2 DEF should_unblock
  <2>4. Types'
    BY <1>2, <1>5, <2>1, <2>3 DEF SchedulerInv, Types, SchedulerTypeOK, Blockers
  <2>5. Calls'
    BY <1>2 DEF SchedulerInv, Calls
  <2>6. Starts'
    <3>1. ASSUME NEW t \in Threads
          PROVE  /\ tstate[t] = "EMBRYO" => tstate'[t] = "EMBRYO"
                 /\ tstate'[t] \in {NONE, "EMBRYO"} => tstate[t] \in {NONE, "EMBRYO"} /\ t # running'
      BY <2>1, ThreadNames DEF States
    <3>2. \A t \in Threads : update[t][2] = "READY" /\ pc[t] \in {"acquire", "remove"} =>
            tstate[update[t][1]] = "EMBRYO" /\ update[t][1] \in Threads
      BY DEF SchedulerInv, Starts, Calls, Updating, Own
    <3> QED BY <1>2, <2>2, <3>1, <3>2 DEF SchedulerInv, Starts, Booting
  <2>7. Locks'
    BY <1>2, <1>5, <2>1, ThreadNames DEF SchedulerInv, Locks, LockHolderExecutes, Holding
  <2>8. Boot'
    BY <1>2, <1>5, <2>1, <2>2, ThreadNames DEF SchedulerInv, Boot
  <2>9. Lists'
    BY <1>2, <1>5, <2>1, ThreadNames DEF SchedulerInv, Lists, Moving, Locks, Holding
  <2>10. Waits'
    <3>1. ASSUME NEW t \in Threads, tstate[t] = "BLOCKED", tstate'[t] # "BLOCKED" PROVE should_unblock(t)'
      <4>1. blocker'[t][1] = "join" => blocker'[t][2] \in Threads
        BY <2>3, ThreadNames DEF Blockers, NoBlocker
      <4> QED BY <1>1, <2>1, <3>1, <4>1 DEF should_unblock
    <3>2. \A t \in Threads : tstate'[t] = "STOPPED" <=> tstate[t] = "STOPPED"
      BY <2>1
    <3> QED BY <1>2, <1>5, <2>1, <2>3, <3>1, <3>2 DEF SchedulerInv, Waits
  <2> QED BY <2>4, <2>5, <2>6, <2>7, <2>8, <2>9, <2>10 DEF SchedulerInv
<1> QED BY <1>3, <1>4, <1>5

\* A thread that gives the processor up always gets as far as schedule: nobody
\* holds a lock that its own interrupt would find taken.
LEMMA YieldKeepsInv ==
  ASSUME SchedulerInv, stuck = "none", NEW t \in Threads, cpu = t, Yield(t)
  PROVE  SchedulerInv'
<1>1. /\ pc[t] = "yield" /\ blocker' = Tick(blocker)
      /\ UNCHANGED <<running, ready, blocked, tstate, members, cpu, update, sched_lock,
                     list_lock, memory_lock, stuck>>
  BY DEF Yield, listVars, lockVars
<1>2. can_schedule
  <2>1. running # NONE
    BY <1>1, ThreadNames DEF SchedulerInv, Boot, Updating
  <2>2. sched_lock = NONE /\ memory_lock = NONE
    BY <1>1, ThreadNames DEF SchedulerInv, Locks, LockHolderExecutes, Holding
  <2> QED BY <2>1, <2>2 DEF can_schedule
<1>3. pc' = [pc EXCEPT ![t] = "schedule"] /\ pc \in [Threads -> Places]
  BY <1>2 DEF Yield, GoTo, SchedulerInv, Types, SchedulerTypeOK
<1>4. /\ blocker' \in [Threads -> Blockers]
      /\ \A x \in Threads :
              /\ blocker'[x] = NoBlocker <=> blocker[x] = NoBlocker
              /\ should_unblock(x) => should_unblock(x)'
  BY <1>1, TickShortens DEF SchedulerInv, Types, should_unblock
<1>5. Types'
  BY <1>1, <1>3, <1>4 DEF SchedulerInv, Types, SchedulerTypeOK, Blockers, Places
<1>6. Calls'
  BY <1>1, <1>3, ThreadNames DEF SchedulerInv, Calls, Updating, Leaving
<1>7. Starts'
  BY <1>1, <1>3 DEF SchedulerInv, Starts
<1>8. Locks'
  BY <1>1, <1>3, ThreadNames DEF SchedulerInv, Locks, LockHolderExecutes, Holding
<1>9. Boot'
  BY <1>1, <1>3, ThreadNames DEF SchedulerInv, Boot, Booting, Updating
<1>10. Lists'
  BY <1>1, <1>3 DEF SchedulerInv, Lists, Moving
<1>11. Waits'
  BY <1>1, <1>3, <1>4 DEF SchedulerInv, Waits
<1> QED BY <1>5, <1>6, <1>7, <1>8, <1>9, <1>10, <1>11 DEF SchedulerInv

\* schedule chooses, under its lock.
LEMMA YieldScheduleKeepsInv ==
  ASSUME SchedulerInv, stuck = "none", NEW t \in Threads, cpu = t, YieldSchedule(t)
  PROVE  SchedulerInv'
<1>1. /\ pc[t] = "schedule" /\ sched_lock = NONE
      /\ UNCHANGED <<blocker, cpu, update, list_lock, memory_lock>>
  BY DEF YieldSchedule
<1>2. \/ Choose(blocker) /\ sched_lock' = t /\ stuck' = stuck /\ pc' = [pc EXCEPT ![t] = "unlock"]
      \/ ScheduleFails(blocker) /\ UNCHANGED <<sched_lock, pc>>
  BY DEF YieldSchedule, GoTo
<1>3. running # NONE /\ ~Booting /\ pc \in [Threads -> Places]
  BY <1>1, ThreadNames DEF SchedulerInv, Boot, Updating, Types, SchedulerTypeOK
<1>4. CASE ScheduleFails(blocker) /\ UNCHANGED <<sched_lock, pc>>
  <2>1. Runnable(blocker) # <<>>
    BY <1>1, <1>3, RunnableThreads
  <2>2. stuck' = "spin" /\ UNCHANGED <<running, ready, blocked, tstate, members>>
    BY <1>4, <2>1 DEF ScheduleFails, PopsNothing, listVars
  <2> QED BY <1>1, <1>4, <2>2, TickKeepsInv
<1>5. CASE Choose(blocker) /\ sched_lock' = t /\ stuck' = stuck /\ pc' = [pc EXCEPT ![t] = "unlock"]
  <2>1. /\ running' \in Threads /\ tstate'[running'] = "RUNNING"
        /\ tstate' \in [Threads -> States \cup {NONE}] /\ members' \subseteq Threads
        /\ tstate[running'] \in {"READY", "RUNNING", "BLOCKED"}
        /\ ready' \in Seq(Threads) /\ NoRepeat(ready') /\ ToSet(ready') \subseteq Threads
        /\ blocked' \in Seq(Threads) /\ NoRepeat(blocked') /\ ToSet(blocked') \subseteq Threads
        /\ \A x \in Threads :
              /\ x \in ToSet(ready') <=> tstate'[x] = "READY"
              /\ x \in ToSet(blocked') <=> tstate'[x] = "BLOCKED"
              /\ tstate'[x] = "RUNNING" => x = running'
              /\ tstate[x] \in {NONE, "EMBRYO", "STOPPED"} \/ tstate'[x] \in {NONE, "EMBRYO", "STOPPED"}
                   => tstate'[x] = tstate[x]
              /\ tstate[x] \in {"READY", "RUNNING"} => tstate'[x] \in {"READY", "RUNNING"}
              /\ tstate[x] = "BLOCKED" /\ tstate'[x] # "BLOCKED" =>
                   \/ blocker[x][1] = "sleep" /\ blocker[x][2] = 0
                   \/ blocker[x][1] = "join" /\ tstate[blocker[x][2]] = "STOPPED"
    BY <1>1, <1>3, <1>5, ChosenThread
  <2>2. ~Booting' /\ (tstate[Idle] \in {"READY", "RUNNING"} => tstate'[Idle] \in {"READY", "RUNNING"})
    BY <1>1, <1>3, <1>5, ChosenAtBoot
  <2>3. /\ pc'[t] = "unlock" /\ \A x \in Threads : x # t => pc'[x] = pc[x]
        /\ \A x \in Threads : pc[x] \notin Holding
    BY <1>1, <1>3, <1>5, ThreadNames DEF SchedulerInv, Locks
  <2>4. Types'
    <3>1. pc' \in [Threads -> Places]
      BY <1>3, <1>5 DEF Places
    <3> QED BY <1>1, <1>5, <2>1, <3>1 DEF SchedulerInv, Types, SchedulerTypeOK
  <2>5. Calls'
    BY <1>1, <2>3, ThreadNames DEF SchedulerInv, Calls, Updating, Leaving
  <2>6. Starts'
    <3>1. ASSUME NEW x \in Threads
          PROVE  /\ tstate[x] = "EMBRYO" => tstate'[x] = "EMBRYO"
                 /\ tstate'[x] \in {NONE, "EMBRYO"} => tstate[x] \in {NONE, "EMBRYO"} /\ x # running'
      BY <2>1, ThreadNames DEF States
    <3>2. \A x \in Threads : update[x][2] = "READY" /\ pc[x] \in {"acquire", "remove"} =>
            tstate[update[x][1]] = "EMBRYO" /\ update[x][1] \in Threads
      BY DEF SchedulerInv, Starts, Calls, Updating, Own
    <3>3. tstate[t] \notin {NONE, "EMBRYO"}
      BY <1>1, <1>3 DEF SchedulerInv, Starts, Booting
    <3> QED BY <1>1, <1>3, <2>3, <3>1, <3>2, <3>3 DEF SchedulerInv, Starts, Booting
  <2>7. Locks'
    BY <1>1, <1>5, <2>1, <2>3, ThreadNames DEF SchedulerInv, Locks, LockHolderExecutes, Holding
  <2>8. Boot'
    BY <1>1, <1>3, <2>1, <2>2, <2>3, ThreadNames DEF SchedulerInv, Boot
  <2>9. Lists'
    BY <1>1, <1>5, <2>1, <2>3, ThreadNames DEF SchedulerInv, Lists, Moving, Holding
  <2>10. Waits'
    <3>1. ASSUME NEW x \in Threads, tstate[x] = "BLOCKED", tstate'[x] # "BLOCKED" PROVE should_unblock(x)
      BY <2>1, <3>1 DEF should_unblock
    <3>2. \A x \in Threads : blocker[x][1] = "join" => blocker[x][2] \in Threads
      BY ThreadNames DEF SchedulerInv, Types, Blockers, NoBlocker
    <3>3. \A x \in Threads : tstate'[x] = "STOPPED" <=> tstate[x] = "STOPPED"
      BY <2>1
    <3>4. \A x \in Threads : should_unblock(x)' <=> should_unblock(x)
      BY <1>1, <3>2, <3>3 DEF should_unblock
    <3> QED BY <1>1, <1>5, <2>1, <2>3, <3>1, <3>3, <3>4 DEF SchedulerInv, Waits
  <2> QED BY <2>4, <2>5, <2>6, <2>7, <2>8, <2>9, <2>10 DEF SchedulerInv
<1> QED BY <1>2, <1>4, <1>5

\* It gives its lock up.
LEMMA YieldUnlockKeepsInv ==
  ASSUME SchedulerInv, NEW t \in Threads, cpu = t, YieldUnlock(t)
  PROVE  SchedulerInv'
<1>1. /\ pc[t] = "unlock" /\ sched_lock' = NONE /\ pc' = [pc EXCEPT ![t] = "switch"]
      /\ UNCHANGED <<running, ready, blocked, tstate, blocker, members, cpu, update,
                     list_lock, memory_lock, stuck>>
  BY DEF YieldUnlock, GoTo, threadVars, listVars
<1>2. pc \in [Threads -> Places]
  BY DEF SchedulerInv, Types, SchedulerTypeOK
<1>3. Types'
  BY <1>1, <1>2 DEF SchedulerInv, Types, SchedulerTypeOK, Places
<1>4. Calls'
  BY <1>1, <1>2, ThreadNames DEF SchedulerInv, Calls, Updating, Leaving
<1>5. Starts'
  BY <1>1, <1>2 DEF SchedulerInv, Starts
<1>6. Locks'
  BY <1>1, <1>2, ThreadNames DEF SchedulerInv, Locks, LockHolderExecutes, Holding
<1>7. Boot'
  BY <1>1, <1>2, ThreadNames DEF SchedulerInv, Boot, Booting, Updating
<1>8. Lists'
  BY <1>1, <1>2 DEF SchedulerInv, Lists, Moving
<1>9. Waits'
  BY <1>1, <1>2 DEF SchedulerInv, Waits, should_unblock
<1> QED BY <1>3, <1>4, <1>5, <1>6, <1>7, <1>8, <1>9 DEF SchedulerInv

\* The processor goes over to the thread that was chosen.
LEMMA YieldSwitchKeepsInv ==
  ASSUME SchedulerInv, NEW t \in Threads, cpu = t, YieldSwitch(t)
  PROVE  SchedulerInv'
<1>1. /\ pc[t] = "switch" /\ cpu' = running /\ pc' = [pc EXCEPT ![t] = "yielded"]
      /\ UNCHANGED <<running, ready, blocked, tstate, blocker, members, update,
                     sched_lock, list_lock, memory_lock, stuck>>
  BY DEF YieldSwitch, GoTo, threadVars, listVars, lockVars
<1>2. pc \in [Threads -> Places] /\ running \in Threads \cup {NONE}
  BY DEF SchedulerInv, Types, SchedulerTypeOK
<1>3. running \in Threads /\ tstate[running] = "RUNNING" /\ sched_lock = NONE /\ memory_lock = NONE
  BY <1>1, <1>2, ThreadNames DEF SchedulerInv, Locks, LockHolderExecutes, Holding
<1>4. Types'
  BY <1>1, <1>2, <1>3 DEF SchedulerInv, Types, SchedulerTypeOK, Places
<1>5. Calls'
  BY <1>1, <1>2, ThreadNames DEF SchedulerInv, Calls, Updating, Leaving
<1>6. Starts'
  BY <1>1, <1>2 DEF SchedulerInv, Starts
<1>7. Locks'
  BY <1>1, <1>2, <1>3, ThreadNames DEF SchedulerInv, Locks, LockHolderExecutes, Holding
<1>8. Boot'
  BY <1>1, <1>2, ThreadNames DEF SchedulerInv, Boot, Booting, Updating
<1>9. Lists'
  BY <1>1, <1>2 DEF SchedulerInv, Lists, Moving
<1>10. Waits'
  BY <1>1, <1>2, <1>3 DEF SchedulerInv, Waits, should_unblock
<1> QED BY <1>4, <1>5, <1>6, <1>7, <1>8, <1>9, <1>10 DEF SchedulerInv

\* yield returns to a thread that is RUNNING again, so not to one that stopped.
LEMMA YieldedKeepsInv ==
  ASSUME SchedulerInv, NEW t \in Threads, cpu = t, Yielded(t)
  PROVE  SchedulerInv'
<1>1. /\ pc[t] = "yielded" /\ update' = [update EXCEPT ![t] = NoUpdate]
      /\ UNCHANGED <<running, ready, blocked, tstate, blocker, members, cpu,
                     sched_lock, list_lock, memory_lock, stuck>>
  BY DEF Yielded, threadVars, listVars, lockVars
<1>2. pc \in [Threads -> Places] /\ update \in [Threads -> Updates]
  BY DEF SchedulerInv, Types, SchedulerTypeOK
<1>3. /\ update[t] = <<t, "BLOCKED">> /\ tstate[t] = "RUNNING"
      /\ pc' = [pc EXCEPT ![t] = "user"]
  <2>1. update[t] \in Own(t) /\ tstate[t] = "RUNNING" /\ update[t][2] # "STOPPED"
    BY <1>1 DEF SchedulerInv, Calls, Leaving, Waits
  <2> QED BY <2>1 DEF Own, Yielded, GoTo
<1>4. /\ pc'[t] = "user" /\ update'[t] = NoUpdate
      /\ \A x \in Threads : x # t => pc'[x] = pc[x] /\ update'[x] = update[x]
  BY <1>1, <1>2, <1>3
<1>5. Types'
  BY <1>1, <1>2, <1>3 DEF SchedulerInv, Types, SchedulerTypeOK, Places, NoUpdate, Updates
<1>6. Calls'
  BY <1>1, <1>4, ThreadNames DEF SchedulerInv, Calls, Updating, Leaving, NoUpdate, States
<1>7. Starts'
  BY <1>1, <1>3, <1>4, ThreadNames DEF SchedulerInv, Starts, NoUpdate, States
<1>8. Locks'
  BY <1>1, <1>4, ThreadNames DEF SchedulerInv, Locks, LockHolderExecutes, Holding
<1>9. Boot'
  BY <1>1, <1>3, <1>4, ThreadNames DEF SchedulerInv, Boot, Booting, Updating, NoUpdate
<1>10. Lists'
  BY <1>1, <1>2, <1>3, <1>4 DEF SchedulerInv, Lists, Moving
<1>11. Waits'
  <2>1. \A x \in Threads : should_unblock(x)' <=> should_unblock(x)
    BY <1>1 DEF should_unblock
  <2> QED BY <1>1, <1>3, <1>4, <2>1, ThreadNames DEF SchedulerInv, Waits, NoUpdate, States
<1> QED BY <1>5, <1>6, <1>7, <1>8, <1>9, <1>10, <1>11 DEF SchedulerInv

-----------------------------------------------------------------------------
(* The calls of Thread.cpp.                                                *)

\* The locks of the list of all threads and of the heap are given back.
LEMMA OtherReleaseKeepsInv ==
  ASSUME SchedulerInv, NEW t \in Threads, cpu = t, ListRelease(t) \/ MemoryRelease(t)
  PROVE  SchedulerInv'
<1>1. /\ pc[t] \in {"list_release", "memory_release"} /\ pc' = [pc EXCEPT ![t] = "user"]
      /\ list_lock' \in {NONE, list_lock}
      /\ memory_lock' = IF pc[t] = "memory_release" THEN NONE ELSE memory_lock
      /\ UNCHANGED <<running, ready, blocked, tstate, blocker, members, cpu, update,
                     sched_lock, stuck>>
  BY DEF ListRelease, MemoryRelease, GoTo, threadVars, listVars
<1>2. pc \in [Threads -> Places]
  BY DEF SchedulerInv, Types, SchedulerTypeOK
<1>3. Types'
  BY <1>1, <1>2 DEF SchedulerInv, Types, SchedulerTypeOK, Places
<1>4. Calls'
  BY <1>1, <1>2, ThreadNames DEF SchedulerInv, Calls, Updating, Leaving
<1>5. Starts'
  BY <1>1, <1>2 DEF SchedulerInv, Starts
<1>6. Locks'
  BY <1>1, <1>2, ThreadNames DEF SchedulerInv, Locks, LockHolderExecutes, Holding
<1>7. Boot'
  BY <1>1, <1>2, ThreadNames DEF SchedulerInv, Boot, Booting, Updating
<1>8. Lists'
  BY <1>1, <1>2 DEF SchedulerInv, Lists, Moving
<1>9. Waits'
  BY <1>1, <1>2 DEF SchedulerInv, Waits, should_unblock
<1> QED BY <1>3, <1>4, <1>5, <1>6, <1>7, <1>8, <1>9 DEF SchedulerInv

\* They are taken.
LEMMA OtherAcquireKeepsInv ==
  ASSUME SchedulerInv, NEW t \in Threads, cpu = t, ById(t) \/ Malloc(t)
  PROVE  SchedulerInv'
<1>1. PICK place \in {"list_release", "memory_release"} :
      /\ pc[t] = "user" /\ t # Idle /\ pc' = [pc EXCEPT ![t] = place]
      /\ list_lock' \in {t, list_lock}
      /\ memory_lock' = IF place = "memory_release" THEN t ELSE memory_lock
      /\ UNCHANGED <<running, ready, blocked, tstate, blocker, members, cpu, update,
                     sched_lock, stuck>>
  <2>1. CASE ById(t)
    BY <2>1 DEF ById, GoTo, threadVars, listVars
  <2>2. CASE Malloc(t)
    BY <2>2 DEF Malloc, GoTo, threadVars, listVars
  <2> QED BY <2>1, <2>2
<1>2. /\ pc \in [Threads -> Places]
      /\ pc'[t] = place /\ \A x \in Threads : x # t => pc'[x] = pc[x]
  BY <1>1 DEF SchedulerInv, Types, SchedulerTypeOK
<1>3. Types'
  BY <1>1, <1>2 DEF SchedulerInv, Types, SchedulerTypeOK, Places
<1>4. Calls'
  BY <1>1, <1>2, ThreadNames DEF SchedulerInv, Calls, Updating, Leaving
<1>5. tstate[t] \notin {NONE, "EMBRYO"}
  <2>1. ~Booting
    BY <1>1, ThreadNames DEF SchedulerInv, Boot, Updating
  <2>2. t = running
    BY <1>1, <2>1 DEF SchedulerInv, Locks, Boot
  <2> QED BY <2>2 DEF SchedulerInv, Starts
<1>6. Starts'
  BY <1>1, <1>2, <1>5 DEF SchedulerInv, Starts
<1>7. Locks'
  BY <1>1, <1>2, ThreadNames DEF SchedulerInv, Locks, LockHolderExecutes, Holding
<1>8. Boot'
  BY <1>1, <1>2, ThreadNames DEF SchedulerInv, Boot, Booting, Updating
<1>9. Lists'
  BY <1>1, <1>2 DEF SchedulerInv, Lists, Moving
<1>10. Waits'
  BY <1>1, <1>2 DEF SchedulerInv, Waits, should_unblock
<1> QED BY <1>3, <1>4, <1>6, <1>7, <1>8, <1>9, <1>10 DEF SchedulerInv

\* The thread that makes a call is the running one, and was started.
LEMMA CallerRuns ==
  ASSUME SchedulerInv, NEW t \in Threads, cpu = t, pc[t] \in {"user", "join"}
  PROVE  /\ ~Booting /\ running = t /\ tstate[t] \in {"READY", "RUNNING", "BLOCKED"}
         /\ \A x \in Threads : pc[x] \notin Holding
         /\ pc \in [Threads -> Places] /\ update \in [Threads -> Updates]
<1>1. pc \in [Threads -> Places] /\ update \in [Threads -> Updates] /\ tstate[t] \in States \cup {NONE}
  BY DEF SchedulerInv, Types, SchedulerTypeOK
<1>2. ~Booting
  BY ThreadNames DEF SchedulerInv, Boot, Updating
<1>3. t = running
  BY <1>2 DEF SchedulerInv, Locks, Boot
<1>4. tstate[t] \notin {NONE, "EMBRYO"}
  BY <1>3 DEF SchedulerInv, Starts
<1>5. tstate[t] # "STOPPED"
  <2>1. tstate[t] = "STOPPED" => update[t] = <<t, "STOPPED">>
    BY DEF SchedulerInv, Waits
  <2>2. update[t][2] # "STOPPED"
    BY ThreadNames DEF SchedulerInv, Calls, NoUpdate, States
  <2> QED BY <2>1, <2>2
<1>6. \A x \in Threads : pc[x] \notin Holding
  BY ThreadNames DEF SchedulerInv, Locks, LockHolderExecutes, Holding
<1> QED BY <1>1, <1>2, <1>3, <1>4, <1>5, <1>6 DEF States

\* Thread::create.
LEMMA CreateKeepsInv ==
  ASSUME SchedulerInv, NEW t \in Threads, cpu = t, Create(t)
  PROVE  SchedulerInv'
<1>1. PICK u \in Users :
      /\ pc[t] = "user" /\ t # Idle /\ tstate[u] = NONE
      /\ tstate' = [tstate EXCEPT ![u] = "EMBRYO"]
      /\ members' = members \cup {u}
      /\ list_lock' = t /\ pc' = [pc EXCEPT ![t] = "list_release"]
      /\ UNCHANGED <<running, ready, blocked, blocker, cpu, update, sched_lock, memory_lock, stuck>>
  BY DEF Create, GoTo, listVars
<1>2. /\ ~Booting /\ running = t /\ tstate[t] \in {"READY", "RUNNING", "BLOCKED"}
      /\ \A x \in Threads : pc[x] \notin Holding
      /\ pc \in [Threads -> Places]
  BY <1>1, CallerRuns
<1>3. /\ tstate \in [Threads -> States \cup {NONE}] /\ u \in Threads /\ u # t
      /\ u # Kernel /\ u # Idle
  BY <1>1, <1>2, ThreadNames DEF SchedulerInv, Types, SchedulerTypeOK, States
<1>4. /\ pc'[t] = "list_release" /\ \A x \in Threads : x # t => pc'[x] = pc[x]
      /\ tstate'[u] = "EMBRYO" /\ \A x \in Threads : x # u => tstate'[x] = tstate[x]
  BY <1>1, <1>2, <1>3
<1>5. Types'
  <2>1. pc' \in [Threads -> Places] /\ tstate' \in [Threads -> States \cup {NONE}]
    BY <1>1, <1>2, <1>3 DEF Places, States
  <2> QED BY <1>1, <1>3, <2>1 DEF SchedulerInv, Types, SchedulerTypeOK
<1>6. Calls'
  BY <1>1, <1>4, ThreadNames DEF SchedulerInv, Calls, Updating, Leaving
<1>7. Starts'
  BY <1>1, <1>2, <1>3, <1>4, ThreadNames DEF SchedulerInv, Starts, States, NoUpdate
<1>8. Locks'
  BY <1>1, <1>2, <1>3, <1>4, ThreadNames DEF SchedulerInv, Locks, LockHolderExecutes, Holding
<1>9. Boot'
  BY <1>1, <1>2, <1>3, <1>4, ThreadNames DEF SchedulerInv, Boot, Booting, Updating
<1>10. Lists'
  <2>1. \A x \in Threads : Moving(x)' <=> Moving(x)
    BY <1>1, <1>4 DEF Moving
  <2>2. \A x \in Threads : tstate'[x] \in {"READY", "BLOCKED", "RUNNING"} \/ tstate[x] \in {"READY", "BLOCKED", "RUNNING"}
          => tstate'[x] = tstate[x]
    BY <1>1, <1>3, <1>4, ThreadNames DEF States
  <2>3. \A h \in Threads : pc'[h] # "insert"
    BY <1>2, <1>4 DEF Holding
  <2> QED BY <1>1, <2>1, <2>2, <2>3 DEF SchedulerInv, Lists
<1>11. Waits'
  <2>1. \A x \in Threads : tstate'[x] \in {"STOPPED", "BLOCKED", "RUNNING"} \/ tstate[x] \in {"STOPPED", "BLOCKED", "RUNNING"}
          => tstate'[x] = tstate[x]
    BY <1>1, <1>3, <1>4, ThreadNames DEF States
  <2>2. \A x \in Threads : should_unblock(x) => should_unblock(x)'
    <3>1. \A x \in Threads : blocker[x][1] = "join" => blocker[x][2] \in Threads
      BY ThreadNames DEF SchedulerInv, Types, Blockers, NoBlocker
    <3> QED BY <1>1, <2>1, <3>1 DEF should_unblock
  <2> QED BY <1>1, <1>2, <1>4, <2>1, <2>2 DEF SchedulerInv, Waits
<1> QED BY <1>5, <1>6, <1>7, <1>8, <1>9, <1>10, <1>11 DEF SchedulerInv

\* A thread begins to block or to stop: it is the only one its call is about.
LEMMA OwnCallKeepsInv ==
  ASSUME SchedulerInv, NEW t \in Threads, cpu = t,
         Sleep(t) \/ Join(t) \/ JoinBlock(t) \/ Exit(t)
  PROVE  SchedulerInv'
<1>1. PICK place, new, b :
        /\ place \in {"acquire", "join"} /\ pc[t] \in {"user", "join"} /\ t # Idle
        /\ pc' = [pc EXCEPT ![t] = place] /\ update' = [update EXCEPT ![t] = new]
        /\ blocker' = [blocker EXCEPT ![t] = b] /\ b \in Blockers
        /\ place = "acquire" => new \in Own(t)
        /\ place = "join" => new \in (Users \ {t}) \X {"BLOCKED"}
        /\ b # blocker[t] => new = <<t, "BLOCKED">> /\ place = "acquire"
        /\ new[2] = "STOPPED" => t \in Users
        /\ UNCHANGED <<running, ready, blocked, tstate, members, cpu, sched_lock, list_lock,
                       memory_lock, stuck>>
  <2>1. blocker[t] \in Blockers /\ blocker = [blocker EXCEPT ![t] = blocker[t]]
    BY DEF SchedulerInv, Types
  <2>2. CASE Sleep(t)
    <3>1. PICK n \in 1 .. MaxSleep : Block(t, <<"sleep", n>>)
      BY <2>2 DEF Sleep
    <3>2. <<"sleep", n>> \in Blockers
      BY ThreadNames DEF Blockers
    <3>3. pc[t] = "user" /\ t # Idle
      BY <2>2 DEF Sleep
    <3> QED BY <3>1, <3>2, <3>3 DEF Block, BeginUpdate, GoTo, listVars, lockVars, Own
  <2>3. CASE JoinBlock(t)
    <3>1. pc[t] = "join" /\ Block(t, <<"join", update[t][1]>>)
      BY <2>3 DEF JoinBlock
    <3>2. update[t] \in (Users \ {t}) \X {"BLOCKED"} /\ t # Idle
      BY <3>1, ThreadNames DEF SchedulerInv, Calls
    <3>3. <<"join", update[t][1]>> \in Blockers
      BY <3>2 DEF Blockers
    <3> QED BY <3>1, <3>2, <3>3 DEF Block, BeginUpdate, GoTo, listVars, lockVars, Own
  <2>4. CASE Join(t)
    <3>1. PICK u \in Users \ {t} : update' = [update EXCEPT ![t] = <<u, "BLOCKED">>]
      BY <2>4 DEF Join
    <3> QED BY <2>1, <2>4, <3>1 DEF Join, GoTo, threadVars, listVars, lockVars
  <2>5. CASE Exit(t)
    <3>1. running = t
      BY <2>5, CallerRuns DEF Exit
    <3> QED BY <2>1, <2>5, <3>1, ThreadNames DEF Exit, BeginUpdate, GoTo, threadVars, listVars, lockVars, Own
  <2> QED BY <2>2, <2>3, <2>4, <2>5
<1>2. /\ ~Booting /\ running = t /\ tstate[t] \in {"READY", "RUNNING", "BLOCKED"}
      /\ \A x \in Threads : pc[x] \notin Holding
      /\ pc \in [Threads -> Places] /\ update \in [Threads -> Updates] /\ blocker \in [Threads -> Blockers]
  BY <1>1, CallerRuns DEF SchedulerInv, Types
<1>3. /\ pc'[t] = place /\ update'[t] = new /\ blocker'[t] = b
      /\ \A x \in Threads : x # t => pc'[x] = pc[x] /\ update'[x] = update[x] /\ blocker'[x] = blocker[x]
  BY <1>1, <1>2
<1>4. new \in Threads \X {"BLOCKED", "STOPPED"}
  BY <1>1, ThreadNames DEF Own
<1>5. Types'
  <2>1. /\ pc' \in [Threads -> Places] /\ update' \in [Threads -> Updates]
        /\ blocker' \in [Threads -> Blockers]
    BY <1>1, <1>2, <1>4 DEF Places, Updates
  <2> QED BY <1>1, <2>1 DEF SchedulerInv, Types, SchedulerTypeOK, Blockers
<1>6. Calls'
  BY <1>1, <1>3, ThreadNames DEF SchedulerInv, Calls, Updating, Leaving
<1>7. Starts'
  <2>1. new[2] # "READY"
    BY <1>4
  <2> QED BY <1>1, <1>2, <1>3, <2>1, ThreadNames DEF SchedulerInv, Starts, States, Booting
<1>8. Locks'
  BY <1>1, <1>2, <1>3, ThreadNames DEF SchedulerInv, Locks, LockHolderExecutes, Holding
<1>9. Boot'
  BY <1>1, <1>2, <1>3, <1>4, ThreadNames DEF SchedulerInv, Boot, Booting, Updating
<1>10. Lists'
  <2>1. \A h \in Threads : pc[h] # "insert" /\ pc'[h] # "insert"
    BY <1>1, <1>2, <1>3 DEF Holding
  <2> QED BY <1>1, <2>1 DEF SchedulerInv, Lists, Moving
<1>11. Waits'
  <2>1. \A x \in Threads : x # t => (should_unblock(x)' <=> should_unblock(x))
    BY <1>1, <1>3 DEF should_unblock
  <2>2. b = blocker[t] => (blocker[t] # NoBlocker => should_unblock(t)) /\ (should_unblock(t)' <=> should_unblock(t))
    <3>1. update[t] # <<t, "BLOCKED">>
      BY <1>1, ThreadNames DEF SchedulerInv, Calls, NoUpdate
    <3>2. blocker[t] # NoBlocker => should_unblock(t)
      BY <3>1 DEF SchedulerInv, Waits
    <3> QED BY <1>1, <1>3, <3>2 DEF should_unblock
  <2> QED BY <1>1, <1>2, <1>3, <2>1, <2>2 DEF SchedulerInv, Waits, Own
<1> QED BY <1>5, <1>6, <1>7, <1>8, <1>9, <1>10, <1>11 DEF SchedulerInv

\* A thread starts another one, which nobody else is starting.
LEMMA StartKeepsInv ==
  ASSUME SchedulerInv, NEW t \in Threads, cpu = t, Start(t) \/ BootIdle(t)
  PROVE  SchedulerInv'
<1>1. PICK u \in Threads :
        /\ tstate[u] = "EMBRYO" /\ u # Kernel /\ t # Idle /\ pc[t] \in {"user", "boot"}
        /\ \A other \in Threads : update[other] # <<u, "READY">>
        /\ pc[t] = "boot" <=> Booting
        /\ Booting => u = Idle /\ t = Kernel
        /\ pc' = [pc EXCEPT ![t] = "acquire"] /\ update' = [update EXCEPT ![t] = <<u, "READY">>]
        /\ UNCHANGED <<running, ready, blocked, tstate, blocker, members, cpu, sched_lock,
                       list_lock, memory_lock, stuck>>
  <2>1. CASE Start(t)
    <3>1. PICK u \in Users :
            /\ tstate[u] = "EMBRYO"
            /\ \A other \in Threads : update[other] # <<u, "READY">>
            /\ BeginUpdate(t, u, "READY")
      BY <2>1 DEF Start
    <3>2. pc[t] = "user" /\ t # Idle /\ ~Booting
      BY <2>1, CallerRuns DEF Start
    <3> QED BY <2>1, <3>1, <3>2, ThreadNames DEF Start, BeginUpdate, GoTo, threadVars, listVars, lockVars
  <2>2. CASE BootIdle(t)
    <3>1. pc[t] = "boot" /\ t = Kernel /\ Booting
      BY <2>2 DEF BootIdle, SchedulerInv, Calls, Boot
    <3>2. \A other \in Threads : update[other] # <<Idle, "READY">>
      <4>1. update[Kernel] = NoUpdate
        BY <3>1, ThreadNames DEF SchedulerInv, Calls
      <4>2. \A other \in Threads : other # Kernel => update[other] = NoUpdate
        BY <3>1, ThreadNames DEF SchedulerInv, Starts, Boot, Booting, Threads
      <4> QED BY <4>1, <4>2, ThreadNames DEF NoUpdate
    <3> QED BY <2>2, <3>1, <3>2, ThreadNames DEF BootIdle, BeginUpdate, GoTo, Booting, threadVars, listVars, lockVars
  <2> QED BY <2>1, <2>2
<1>2. /\ pc \in [Threads -> Places] /\ update \in [Threads -> Updates]
      /\ \A x \in Threads : pc[x] \notin Holding
  BY <1>1, ThreadNames DEF SchedulerInv, Types, SchedulerTypeOK, Locks, LockHolderExecutes, Holding
<1>3. /\ pc'[t] = "acquire" /\ update'[t] = <<u, "READY">> /\ <<u, "READY">> \in Updates
      /\ \A x \in Threads : x # t => pc'[x] = pc[x] /\ update'[x] = update[x]
  BY <1>1, <1>2 DEF Updates
<1>4. tstate[t] \in {NONE, "EMBRYO"} => t = Kernel /\ Booting
  <2>1. CASE Booting
    BY <1>1, <2>1
  <2>2. CASE ~Booting
    BY <1>1, <2>2, CallerRuns, ThreadNames DEF States
  <2> QED BY <2>1, <2>2
<1>5. Types'
  <2>1. /\ pc' \in [Threads -> Places] /\ update' \in [Threads -> Updates]
    BY <1>1, <1>2, <1>3 DEF Places
  <2> QED BY <1>1, <2>1 DEF SchedulerInv, Types, SchedulerTypeOK
<1>6. Calls'
  BY <1>1, <1>3, ThreadNames DEF SchedulerInv, Calls, Updating, Leaving
<1>7. Starts'
  BY <1>1, <1>3, <1>4, ThreadNames DEF SchedulerInv, Starts, Booting
<1>8. Locks'
  BY <1>1, <1>2, <1>3, ThreadNames DEF SchedulerInv, Locks, LockHolderExecutes, Holding
<1>9. Boot'
  BY <1>1, <1>2, <1>3, ThreadNames DEF SchedulerInv, Boot, Booting, Updating
<1>10. Lists'
  <2>1. \A h \in Threads : pc[h] # "insert" /\ pc'[h] # "insert"
    BY <1>1, <1>2, <1>3 DEF Holding
  <2> QED BY <1>1, <2>1 DEF SchedulerInv, Lists, Moving
<1>11. Waits'
  <2>1. \A x \in Threads : should_unblock(x)' <=> should_unblock(x)
    BY <1>1 DEF should_unblock
  <2>2. update[t] = NoUpdate /\ update[t] # <<t, "BLOCKED">> /\ update[t] # <<t, "STOPPED">>
    BY <1>1, ThreadNames DEF SchedulerInv, Calls, NoUpdate
  <2> QED BY <1>1, <1>3, <2>1, <2>2 DEF SchedulerInv, Waits
<1> QED BY <1>5, <1>6, <1>7, <1>8, <1>9, <1>10, <1>11 DEF SchedulerInv
-----------------------------------------------------------------------------
(* The theorems.                                                           *)

\* The kernel boots into the invariant.
LEMMA InitSchedulerInv == SchedulerInit => SchedulerInv
<1> SUFFICES ASSUME SchedulerInit PROVE SchedulerInv
  OBVIOUS
<1>1. /\ running = NONE /\ ready = <<>> /\ blocked = <<>> /\ cpu = Kernel /\ stuck = "none"
      /\ members = {Kernel, Idle}
      /\ sched_lock = NONE /\ list_lock = NONE /\ memory_lock = NONE
      /\ tstate \in [Threads -> States \cup {NONE}]
      /\ tstate[Kernel] = "EMBRYO" /\ tstate[Idle] = "EMBRYO" /\ \A u \in Users : tstate[u] = NONE
      /\ update \in [Threads -> Updates]
      /\ update[Kernel] = <<Kernel, "READY">>
      /\ \A t \in Threads : t # Kernel => update[t] = NoUpdate
      /\ pc \in [Threads -> Places]
      /\ pc[Kernel] = "acquire" /\ \A t \in Threads : t # Kernel => pc[t] = "user"
      /\ blocker \in [Threads -> Blockers] /\ \A t \in Threads : blocker[t] = NoBlocker
  BY ThreadNames DEF SchedulerInit, States, Updates, NoUpdate, Places, Blockers
<1>2. \A t \in Threads : tstate[t] \in {NONE, "EMBRYO"}
  BY <1>1 DEF Threads
<1>3. Types
  BY <1>1, ThreadNames DEF Types, SchedulerTypeOK, Blockers
<1>4. Calls
  <2>1. \A t \in Threads : update[t][2] # "STOPPED" /\ pc[t] \in {"user", "acquire"}
    BY <1>1, ThreadNames DEF NoUpdate, States
  <2>2. update[Kernel] \in Threads \X {"READY"}
    BY <1>1, ThreadNames
  <2> QED BY <1>1, <2>1, <2>2, ThreadNames DEF Calls, Updating, Leaving
<1>5. Starts
  BY <1>1, ThreadNames DEF Starts, NoUpdate, States
<1>6. Locks
  BY <1>1, ThreadNames DEF Locks, LockHolderExecutes, Holding
<1>7. Boot
  BY <1>1, ThreadNames DEF Boot, Booting, Updating, NoUpdate
<1>8. Lists
  <2>1. ToSet(<<>>) = {} /\ NoRepeat(<<>>)
    BY DEF ToSet, NoRepeat
  <2>2. \A t \in Threads : tstate[t] \notin {"READY", "BLOCKED", "RUNNING"} /\ pc[t] # "insert"
    BY <1>1, <1>2, ThreadNames DEF States
  <2> QED BY <1>1, <2>1, <2>2 DEF Lists
<1>9. Waits
  BY <1>1, <1>2, ThreadNames DEF Waits, NoUpdate, States
<1> QED BY <1>3, <1>4, <1>5, <1>6, <1>7, <1>8, <1>9 DEF SchedulerInv

\* Every step keeps it.
LEMMA NextKeepsInv ==
  ASSUME SchedulerInv, [SchedulerNext]_schedulerVars
  PROVE  SchedulerInv'
<1>1. CASE TimerTick \/ TimerClobbers
  BY <1>1, TimerTickKeepsInv
<1>2. CASE TimerSwitch
  BY <1>2, TimerSwitchKeepsInv
<1>3. CASE ThreadStep
  <2>1. PICK t \in Threads : stuck = "none" /\ cpu = t /\ (CallStep(t) \/ UserStep(t))
    BY <1>3 DEF ThreadStep
  <2>2. CASE Acquire(t) \/ RemoveOld(t) \/ InsertNew(t) \/ ReleaseLock(t)
    BY <2>1, <2>2, AcquireKeepsInv, RemoveOldKeepsInv, InsertNewKeepsInv, ReleaseLockKeepsInv
  <2>3. CASE Yield(t) \/ YieldSchedule(t) \/ YieldUnlock(t) \/ YieldSwitch(t) \/ Yielded(t)
    BY <2>1, <2>3, YieldKeepsInv, YieldScheduleKeepsInv, YieldUnlockKeepsInv,
       YieldSwitchKeepsInv, YieldedKeepsInv
  <2>4. CASE ListRelease(t) \/ MemoryRelease(t) \/ ById(t) \/ Malloc(t) \/ Create(t)
    BY <2>1, <2>4, OtherReleaseKeepsInv, OtherAcquireKeepsInv, CreateKeepsInv
  <2>5. CASE JoinBlock(t) \/ Sleep(t) \/ Join(t) \/ Exit(t)
    BY <2>1, <2>5, OwnCallKeepsInv
  <2>6. CASE BootIdle(t) \/ Start(t)
    BY <2>1, <2>6, StartKeepsInv
  <2> QED BY <2>1, <2>2, <2>3, <2>4, <2>5, <2>6 DEF CallStep, UserStep
<1>4. CASE UNCHANGED schedulerVars
  <2>1. UNCHANGED <<running, ready, blocked, tstate, blocker, members, cpu, pc, update,
                    sched_lock, list_lock, memory_lock, stuck>>
    BY <1>4 DEF schedulerVars, threadVars, listVars, lockVars
  <2>2. stuck' \in {"none", "spin", "clobber"}
    BY <2>1 DEF SchedulerInv, Types, SchedulerTypeOK, Lists
  <2> QED BY <2>1, <2>2, TickKeepsInv
<1> QED BY <1>1, <1>2, <1>3, <1>4 DEF SchedulerNext

\* The scheduler's invariant holds in every state, whatever the timer
\* interrupts, for any threads and any lengths of sleep.
THEOREM SchedulerSafety == SchedulerSpec => []SchedulerInv
<1>1. SchedulerInit => SchedulerInv
  BY InitSchedulerInv
<1>2. SchedulerInv /\ [SchedulerNext]_schedulerVars => SchedulerInv'
  BY NextKeepsInv
<1> QED BY <1>1, <1>2, PTL DEF SchedulerSpec

\* Whenever the scheduler's lock is free each thread is on the list of its
\* state, once, and schedule always finds one to run.
THEOREM ThreadsStayOnTheirLists == SchedulerSpec => []ThreadsAreOnTheirLists
<1>1. SchedulerInv => ThreadsAreOnTheirLists
  <2> SUFFICES ASSUME SchedulerInv PROVE ThreadsAreOnTheirLists
    OBVIOUS
  <2>1. SchedulerTypeOK /\ stuck # "pop"
    BY DEF SchedulerInv, Types, Lists
  <2>2. ASSUME sched_lock = NONE, NEW t \in Threads
        PROVE  /\ Count(ready, t) = IF tstate[t] = "READY" THEN 1 ELSE 0
               /\ Count(blocked, t) = IF tstate[t] = "BLOCKED" THEN 1 ELSE 0
               /\ tstate[t] = "RUNNING" => t = running
    <3>1. ~Moving(t)
      BY <2>2, ThreadNames DEF SchedulerInv, Locks, Holding, Moving
    <3>2. /\ NoRepeat(ready) /\ (t \in ToSet(ready) <=> tstate[t] = "READY")
          /\ NoRepeat(blocked) /\ (t \in ToSet(blocked) <=> tstate[t] = "BLOCKED")
      BY <3>1 DEF SchedulerInv, Lists
    <3>3. /\ Count(ready, t) = IF t \in ToSet(ready) THEN 1 ELSE 0
          /\ Count(blocked, t) = IF t \in ToSet(blocked) THEN 1 ELSE 0
      BY <3>2, CountedList
    <3> QED BY <3>2, <3>3 DEF SchedulerInv, Lists
  <2> QED BY <2>1, <2>2 DEF ThreadsAreOnTheirLists
<1> QED BY <1>1, SchedulerSafety, PTL

\* The code that executes is the running thread's, and a thread is never
\* switched away with a lock that spins.
THEOREM RunningThreadExecutes == SchedulerSpec => []ExecutingThreadIsRunning
<1>1. SchedulerInv => ExecutingThreadIsRunning
  BY DEF SchedulerInv, Locks, ExecutingThreadIsRunning
<1> QED BY <1>1, SchedulerSafety, PTL

\* A sleep or a join ends when it is due and not before, and exit never ends.
THEOREM BlocksEndWhenDue == SchedulerSpec => []BlockEndsWhenDue
<1>1. SchedulerInv => BlockEndsWhenDue
  <2> SUFFICES ASSUME SchedulerInv, NEW t \in Threads
               PROVE  /\ pc[t] = "user" /\ blocker[t] # NoBlocker => should_unblock(t)
                      /\ pc[t] # "not_reached"
                      /\ tstate[t] = "STOPPED" => pc[t] \notin {"user", "join"}
    BY DEF BlockEndsWhenDue, StoppedNeverResumes
  <2>1. /\ pc[t] \in {"user", "join"} => update[t] # <<t, "BLOCKED">> /\ update[t] # <<t, "STOPPED">>
        /\ pc[t] # "not_reached"
    BY ThreadNames DEF SchedulerInv, Calls, NoUpdate
  <2> QED BY <2>1 DEF SchedulerInv, Waits
<1> QED BY <1>1, SchedulerSafety, PTL
-----------------------------------------------------------------------------
(* Who is due stays due until it runs.                                     *)

\* A change of state is of a thread that is not due, or of the one that runs.
LEMMA UpdatedThread ==
  ASSUME SchedulerInv, NEW t \in Threads, cpu = t, RemoveOld(t)
  PROVE  \E thread \in Threads :
           /\ tstate[thread] # "STOPPED"
           /\ tstate[thread] = "EMBRYO" \/ running' = thread
           /\ \A x \in Threads : x # thread => tstate'[x] = tstate[x]
<1>0. PICK thread, state : update[t] = <<thread, state>> /\ thread = update[t][1] /\ state = update[t][2]
  BY DEF SchedulerInv, Types, Updates
<1>1. /\ pc[t] = "remove"
      /\ running' = IF tstate[thread] = "EMBRYO" /\ running = NONE THEN thread ELSE running
      /\ tstate' = [tstate EXCEPT ![thread] = state]
  BY <1>0 DEF RemoveOld
<1>2. update[t] \in Own(t) \cup (Threads \X {"READY"})
  BY <1>1 DEF SchedulerInv, Calls, Updating
<1>3. tstate \in [Threads -> States \cup {NONE}]
  BY DEF SchedulerInv, Types, SchedulerTypeOK
<1>4. CASE state = "READY"
  <2>1. thread \in Threads
    BY <1>0, <1>2 DEF Own
  <2>2. tstate[thread] = "EMBRYO"
    BY <1>0, <1>1, <1>4 DEF SchedulerInv, Starts
  <2> QED BY <1>1, <1>3, <2>1, <2>2
<1>5. CASE state # "READY"
  <2>1. thread = t
    BY <1>0, <1>2, <1>5 DEF Own
  <2>2. tstate[t] # "STOPPED"
    BY <1>1 DEF SchedulerInv, Waits
  <2>3. running # NONE
    <3>1. Booting /\ running = NONE => update[Kernel] = <<Kernel, "READY">> /\ t = Kernel
      BY ThreadNames DEF SchedulerInv, Boot
    <3>2. running = NONE => Booting
      BY DEF SchedulerInv, Boot
    <3> QED BY <1>0, <1>5, <3>1, <3>2
  <2>4. running = t
    BY <1>1, <2>3 DEF SchedulerInv, Locks
  <2> QED BY <1>1, <1>3, <2>1, <2>2, <2>3, <2>4
<1> QED BY <1>4, <1>5

\* schedule leaves who is due, and is not chosen, due.
LEMMA NotChosenStaysDue ==
  ASSUME SchedulerInv, sched_lock = NONE, running # NONE,
         NEW blk, blk \in {blocker, Tick(blocker)}, blocker' = blk, Choose(blk),
         NEW x \in Threads, Due(x), running' # x
  PROVE  Due(x)'
<1>1. /\ tstate' \in [Threads -> States \cup {NONE}]
      /\ \A t \in Threads :
           /\ tstate'[t] = "RUNNING" => t = running'
           /\ tstate[t] \in {NONE, "EMBRYO", "STOPPED"} \/ tstate'[t] \in {NONE, "EMBRYO", "STOPPED"}
                => tstate'[t] = tstate[t]
           /\ tstate[t] \in {"READY", "RUNNING"} => tstate'[t] \in {"READY", "RUNNING"}
  BY ChosenThread
<1>2. CASE tstate[x] = "READY"
  BY <1>1, <1>2 DEF Due
<1>3. CASE tstate[x] = "BLOCKED" /\ should_unblock(x)
  <2>1. tstate'[x] \in {"READY", "BLOCKED"}
    BY <1>1, <1>3, ThreadNames DEF States
  <2>2. blocker[x][1] = "join" => blocker[x][2] \in Threads
    BY ThreadNames DEF SchedulerInv, Types, Blockers, NoBlocker
  <2>3. blocker'[x] = blocker[x]
    BY <1>3, TickShortens DEF SchedulerInv, should_unblock
  <2>4. should_unblock(x)'
    BY <1>1, <1>3, <2>2, <2>3 DEF should_unblock
  <2> QED BY <2>1, <2>4 DEF Due
<1> QED BY <1>2, <1>3 DEF Due

\* No step makes a thread that is due not due, unless it makes it run.
LEMMA DueStaysDue ==
  ASSUME SchedulerInv, [SchedulerNext]_schedulerVars, NEW x \in Threads, Due(x), running' # x
  PROVE  Due(x)'
<1>1. blocker[x][1] = "join" => blocker[x][2] \in Threads
  BY ThreadNames DEF SchedulerInv, Types, Blockers, NoBlocker
<1>2. ASSUME tstate' = tstate, blocker' \in {blocker, Tick(blocker)} PROVE Due(x)'
  BY <1>2, TickShortens DEF SchedulerInv, Due, should_unblock
<1>3. CASE TimerTick \/ TimerClobbers
  BY <1>2, <1>3 DEF TimerTick, TimerClobbers
<1>4. CASE TimerSwitch
  <2>1. blocker' = Tick(blocker) /\ sched_lock = NONE /\ running # NONE
    BY <1>4 DEF TimerSwitch, can_schedule
  <2>2. CASE Choose(blocker')
    BY <2>1, <2>2, NotChosenStaysDue
  <2>3. CASE ScheduleFails(blocker')
    BY <1>2, <2>1, <2>3 DEF ScheduleFails
  <2> QED BY <1>4, <2>2, <2>3 DEF TimerSwitch
<1>5. CASE ThreadStep
  <2>1. PICK t \in Threads : cpu = t /\ (CallStep(t) \/ UserStep(t))
    BY <1>5 DEF ThreadStep
  <2>2. CASE RemoveOld(t)
    <3>1. PICK thread \in Threads :
            /\ tstate[thread] # "STOPPED"
            /\ tstate[thread] = "EMBRYO" \/ running' = thread
            /\ \A u \in Threads : u # thread => tstate'[u] = tstate[u]
      BY <2>1, <2>2, UpdatedThread
    <3>2. x # thread
      BY <3>1 DEF Due
    <3>3. blocker' = blocker
      BY <2>2 DEF RemoveOld
    <3> QED BY <1>1, <3>1, <3>2, <3>3 DEF Due, should_unblock
  <2>3. CASE YieldSchedule(t)
    <3>1. blocker' = blocker /\ sched_lock = NONE /\ pc[t] = "schedule"
      BY <2>3 DEF YieldSchedule
    <3>2. running # NONE
      BY <2>1, <3>1, ThreadNames DEF SchedulerInv, Boot, Updating
    <3>3. CASE Choose(blocker)
      BY <3>1, <3>2, <3>3, NotChosenStaysDue
    <3>4. CASE ScheduleFails(blocker)
      BY <1>2, <3>1, <3>4 DEF ScheduleFails
    <3> QED BY <2>3, <3>3, <3>4 DEF YieldSchedule
  <2>4. CASE Create(t)
    <3>1. PICK u \in Users : tstate[u] = NONE /\ tstate' = [tstate EXCEPT ![u] = "EMBRYO"]
      BY <2>4 DEF Create
    <3>2. \A y \in Threads : tstate[y] # NONE => tstate'[y] = tstate[y]
      BY <3>1 DEF SchedulerInv, Types, SchedulerTypeOK
    <3>3. blocker' = blocker
      BY <2>4 DEF Create
    <3> QED BY <1>1, <3>2, <3>3, ThreadNames DEF Due, should_unblock, States
  <2>5. CASE Sleep(t) \/ JoinBlock(t)
    <3>1. pc[t] \in {"user", "join"} /\ running' = running /\ tstate' = tstate
          /\ \E b : blocker' = [blocker EXCEPT ![t] = b]
      BY <2>5 DEF Sleep, JoinBlock, Block
    <3>2. x # t
      BY <2>1, <3>1, CallerRuns
    <3>3. blocker'[x] = blocker[x]
      BY <3>1, <3>2 DEF SchedulerInv, Types
    <3> QED BY <3>1, <3>3 DEF Due, should_unblock
  <2>6. CASE \/ Acquire(t) \/ InsertNew(t) \/ ReleaseLock(t) \/ Yield(t) \/ YieldUnlock(t)
             \/ YieldSwitch(t) \/ Yielded(t)
    BY <1>2, <2>6 DEF Acquire, InsertNew, ReleaseLock, Yield, YieldUnlock, YieldSwitch, Yielded,
       threadVars
  <2>7. CASE \/ ListRelease(t) \/ MemoryRelease(t) \/ BootIdle(t) \/ ById(t) \/ Malloc(t)
             \/ Start(t) \/ Join(t) \/ Exit(t)
    BY <1>2, <2>7 DEF ListRelease, MemoryRelease, BootIdle, ById, Malloc, Start, Join, Exit, threadVars
  <2> QED BY <2>1, <2>2, <2>3, <2>4, <2>5, <2>6, <2>7 DEF CallStep, UserStep
<1>6. CASE UNCHANGED schedulerVars
  BY <1>2, <1>6 DEF schedulerVars, threadVars
<1> QED BY <1>3, <1>4, <1>5, <1>6 DEF SchedulerNext

\* A thread whose turn has come, or whose sleep is over or joined thread has
\* stopped, stays so until it runs: no wake-up is lost or taken back, whatever
\* the timer interrupts.
THEOREM DueUntilItRuns ==
  SchedulerSpec => [][\A t \in Threads : Due(t) => Due(t)' \/ running' = t]_schedulerVars
<1>1. SchedulerInv /\ [SchedulerNext]_schedulerVars =>
        [\A t \in Threads : Due(t) => Due(t)' \/ running' = t]_schedulerVars
  BY DueStaysDue
<1> QED BY <1>1, SchedulerSafety, PTL DEF SchedulerSpec

\* So what DueThreadsRun says of a thread, that it is not due for ever, means that
\* it runs each time its turn has come, unless the timer ruins the kernel.
THEOREM DueThreadsAreServed ==
  ASSUME NEW t \in Threads
  PROVE  SchedulerSpec /\ []<>(~Due(t) \/ running = t \/ Ruined) => (Due(t) ~> running = t \/ Ruined)
<1>1. SchedulerInv /\ [SchedulerNext]_schedulerVars => (Due(t) => Due(t)' \/ (running = t)')
  BY DueStaysDue
<1> QED BY <1>1, SchedulerSafety, PTL DEF SchedulerSpec
=============================================================================
