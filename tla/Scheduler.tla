----------------------------- MODULE Scheduler -----------------------------
(***************************************************************************)
(* Threads under a preempting timer: ignore/scheduling/Scheduling.cpp,     *)
(* ignore/tasking/Thread.cpp and the two blockers.                         *)
(*                                                                         *)
(* One processor executes the code of one thread at a time.  The timer may *)
(* interrupt it between any two of its steps; the handler counts a tick    *)
(* and calls schedule, which may resume another thread (that call is not   *)
(* in the source, see the README).  yield() raises the timer's interrupt   *)
(* from software.  The interrupt goes through a trap gate, so a handler    *)
(* entered by yield can itself be interrupted by the timer; one entered by *)
(* the timer cannot, because the PIC holds the next tick back until it is  *)
(* acknowledged.                                                           *)
(***************************************************************************)
EXTENDS Integers, Sequences, FiniteSets, SequencesExt

CONSTANTS
  Kernel, Idle,    \* the threads Tasking.cpp starts
  Users,           \* the threads they may start
  MaxSleep,        \* bound: the longest sleep, in ticks
  NONE

\* Thread.h, ThreadState.
States == {"EMBRYO", "RUNNING", "READY", "BLOCKED", "STOPPED"}

ASSUME SchedulerAssumption ==
  /\ Kernel # Idle /\ {Kernel, Idle} \cap Users = {}
  /\ NONE \notin {Kernel, Idle} \cup Users \cup States
  /\ MaxSleep \in Nat \ {0}

Threads == {Kernel, Idle} \cup Users

VARIABLES
  running,        \* _running_thread
  ready, blocked, \* _ready_threads, _blocked_threads
  tstate,         \* _state of each thread, NONE before it is created
  blocker,        \* _blocker of each thread
  members,        \* _threads: the list by_id and cleanup use
  cpu,            \* the thread whose code the processor executes
  pc,             \* where each thread is in its code
  update,         \* the call of update_thread_state each thread is in
  sched_lock,     \* _threads_lock of Scheduling.cpp: its holder
  list_lock,      \* _threads_lock of Thread.cpp: its holder
  memory_lock,    \* the lock of the heap: its holder
  stuck           \* how the kernel stopped working

listVars == <<ready, blocked>>
lockVars == <<sched_lock, list_lock, memory_lock>>
threadVars == <<running, listVars, tstate, blocker, members>>
schedulerVars == <<threadVars, cpu, pc, update, lockVars, stuck>>

NoBlocker == <<"none", NONE>>
NoUpdate == <<NONE, NONE>>

\* A sleep is represented by the ticks that are left of it.
should_unblock(t) ==
  \/ blocker[t][1] = "sleep" /\ blocker[t][2] = 0
  \/ blocker[t][1] = "join" /\ tstate[blocker[t][2]] = "STOPPED"

GoTo(t, place) == pc' = [pc EXCEPT ![t] = place]

\* The threads of list that are in S, in their order.
Keep(list, S) ==
  LET kept[i \in 0 .. Len(list)] ==
        IF i = 0 THEN <<>>
        ELSE IF list[i] \in S THEN Append(kept[i - 1], list[i])
        ELSE kept[i - 1]
  IN  kept[Len(list)]

\* LinkedList::remove, of a thread that is on the list once at most.
Without(list, t) == Keep(list, Threads \ {t})

-----------------------------------------------------------------------------
(***************************************************************************)
(* Interrupts.                                                             *)
(***************************************************************************)
\* system_tick: every sleep gets shorter.
Tick(blk) ==
  [t \in Threads |->
     IF blk[t][1] = "sleep" /\ blk[t][2] > 0 THEN <<"sleep", blk[t][2] - 1>> ELSE blk[t]]

\* Bug: only the lock of the heap is looked at.
can_schedule_MemoryOnly == running # NONE /\ memory_lock = NONE

can_schedule == running # NONE /\ memory_lock = NONE /\ sched_lock = NONE

\* Bug: whoever is blocked is woken.
Awake_Everyone(blk) == blocked

\* Bug: only sleepers are woken.
Awake_SleepersOnly(blk) ==
  Keep(blocked, {t \in Threads : blk[t][1] = "sleep" /\ blk[t][2] = 0})

\* The threads unblock_blocked_thread wakes, given the blockers after the tick.
Awake(blk) ==
  Keep(blocked, {t \in Threads :
    \/ blk[t][1] = "sleep" /\ blk[t][2] = 0
    \/ blk[t][1] = "join" /\ tstate[blk[t][2]] = "STOPPED"})

\* Threads whose joined thread cleanup is to take off the list.
Joined(blk) == {blk[t][2] : t \in {u \in ToSet(Awake(blk)) : blk[u][1] = "join"}}

\* Bug: the interrupted thread is put back whatever its state.
Runnable_Always(blk) == ready \o Awake(blk) \o <<running>>

\* Bug: the interrupted thread is put back at the front.
Runnable_Front(blk) ==
  (IF tstate[running] = "RUNNING" THEN <<running>> ELSE <<>>) \o ready \o Awake(blk)

\* The ready list once the blocked threads are woken and the interrupted one
\* is put back, if it had not blocked itself.
Runnable(blk) ==
  ready \o Awake(blk) \o (IF tstate[running] = "RUNNING" THEN <<running>> ELSE <<>>)

\* Bug: the woken threads are not taken off the list of the blocked ones.
StillBlocked_KeepsWoken(blk) == blocked

StillBlocked(blk) == Keep(blocked, Threads \ ToSet(Awake(blk)))

\* schedule(): choose the next thread.  cleanup, called on the way, takes the
\* lock of Thread.cpp; an empty ready list is an assertion.
Choose(blk) ==
  LET queue == Runnable(blk)
  IN  /\ Joined(blk) # {} => list_lock = NONE
      /\ queue # <<>>
      /\ running' = Head(queue)
      /\ ready' = Tail(queue)
      /\ blocked' = StillBlocked(blk)
      /\ tstate' = [t \in Threads |->
           IF t = running' THEN "RUNNING"
           ELSE IF t \in ToSet(queue) THEN "READY" ELSE tstate[t]]
      /\ members' = members \ Joined(blk)

\* cleanup spins for a lock that its holder, interrupted, cannot release.
Spins(blk) == Joined(blk) # {} /\ list_lock # NONE

\* pop() asserts that the list has a head.
PopsNothing(blk) == ~Spins(blk) /\ Runnable(blk) = <<>>

ScheduleFails(blk) ==
  /\ \/ Spins(blk) /\ stuck' = "spin"
     \/ PopsNothing(blk) /\ stuck' = "pop"
  /\ UNCHANGED <<running, listVars, tstate, members>>

\* A timer interrupt that finds a lock taken, or no thread yet: only a tick.
TimerTick ==
  /\ stuck = "none" /\ ~can_schedule
  /\ blocker' = Tick(blocker)
  /\ UNCHANGED <<running, listVars, tstate, members, cpu, pc, update, lockVars, stuck>>

\* Where schedule was called by yield and has chosen a thread, but has not yet
\* read its stack pointer, the processor is still on the old stack.
Switching == pc[cpu] = "switch"

TimerSwitch ==
  /\ stuck = "none" /\ can_schedule /\ ~Switching
  /\ blocker' = Tick(blocker)
  /\ \/ Choose(blocker') /\ cpu' = running' /\ UNCHANGED stuck
     \/ ScheduleFails(blocker') /\ UNCHANGED cpu
  /\ UNCHANGED <<pc, update, lockVars>>

\* An interrupt just there saves the old thread's stack pointer as that of the
\* new one.  What follows is not modelled.
TimerClobbers ==
  /\ stuck = "none" /\ can_schedule /\ Switching
  /\ blocker' = Tick(blocker)
  /\ stuck' = "clobber"
  /\ UNCHANGED <<running, listVars, tstate, members, cpu, pc, update, lockVars>>

-----------------------------------------------------------------------------
(***************************************************************************)
(* yield: the same interrupt, a step at a time.                            *)
(***************************************************************************)
Yield(t) ==
  /\ pc[t] = "yield"
  /\ blocker' = Tick(blocker)
  /\ GoTo(t, IF can_schedule THEN "schedule" ELSE "yielded")
  /\ UNCHANGED <<running, listVars, tstate, members, cpu, update, lockVars, stuck>>

\* Lines 94 to 106, under the lock.
YieldSchedule(t) ==
  /\ pc[t] = "schedule" /\ sched_lock = NONE
  /\ \/ Choose(blocker) /\ sched_lock' = t /\ UNCHANGED stuck /\ GoTo(t, "unlock")
     \/ ScheduleFails(blocker) /\ UNCHANGED <<sched_lock, pc>>
  /\ UNCHANGED <<blocker, cpu, update, list_lock, memory_lock>>

YieldUnlock(t) ==
  /\ pc[t] = "unlock"
  /\ sched_lock' = NONE
  /\ GoTo(t, "switch")
  /\ UNCHANGED <<threadVars, cpu, update, list_lock, memory_lock, stuck>>

\* The new thread's stack is loaded; the old one will go on after its yield.
YieldSwitch(t) ==
  /\ pc[t] = "switch"
  /\ cpu' = running
  /\ GoTo(t, "yielded")
  /\ UNCHANGED <<threadVars, update, lockVars, stuck>>

\* yield returns: in block() to the caller, in exit() to an assertion.
Yielded(t) ==
  /\ pc[t] = "yielded"
  /\ GoTo(t, IF update[t][2] = "STOPPED" THEN "not_reached" ELSE "user")
  /\ update' = [update EXCEPT ![t] = NoUpdate]
  /\ UNCHANGED <<threadVars, cpu, lockVars, stuck>>

-----------------------------------------------------------------------------
(***************************************************************************)
(* update_thread_state(thread, state).                                     *)
(***************************************************************************)
BeginUpdate(t, thread, state) ==
  /\ update' = [update EXCEPT ![t] = <<thread, state>>]
  /\ GoTo(t, "acquire")

Acquire(t) ==
  /\ pc[t] = "acquire" /\ sched_lock = NONE
  /\ sched_lock' = t
  /\ GoTo(t, "remove")
  /\ UNCHANGED <<threadVars, cpu, update, list_lock, memory_lock, stuck>>

\* Bug: a thread that blocks before its first switch stays on the ready list.
RemoveOld_ReadyKept(t) ==
  LET thread == update[t][1]
  IN  /\ pc[t] = "remove"
      /\ running' = IF tstate[thread] = "EMBRYO" /\ running = NONE THEN thread ELSE running
      /\ blocked' = IF tstate[thread] = "BLOCKED" THEN Without(blocked, thread) ELSE blocked
      /\ tstate' = [tstate EXCEPT ![thread] = update[t][2]]
      /\ GoTo(t, "insert")
      /\ UNCHANGED <<ready, blocker, members, cpu, update, lockVars, stuck>>

\* Bug: every new thread becomes the running thread.
RemoveOld_AlwaysRunning(t) ==
  LET thread == update[t][1]
  IN  /\ pc[t] = "remove"
      /\ running' = IF tstate[thread] = "EMBRYO" THEN thread ELSE running
      /\ blocked' = IF tstate[thread] = "BLOCKED" THEN Without(blocked, thread) ELSE blocked
      /\ ready' = IF tstate[thread] = "READY" THEN Without(ready, thread) ELSE ready
      /\ tstate' = [tstate EXCEPT ![thread] = update[t][2]]
      /\ GoTo(t, "insert")
      /\ UNCHANGED <<blocker, members, cpu, update, lockVars, stuck>>

\* Lines 33 to 44: off the list of the old state.
RemoveOld(t) ==
  LET thread == update[t][1]
  IN  /\ pc[t] = "remove"
      /\ running' = IF tstate[thread] = "EMBRYO" /\ running = NONE THEN thread ELSE running
      /\ blocked' = IF tstate[thread] = "BLOCKED" THEN Without(blocked, thread) ELSE blocked
      /\ ready' = IF tstate[thread] = "READY" THEN Without(ready, thread) ELSE ready
      /\ tstate' = [tstate EXCEPT ![thread] = update[t][2]]
      /\ GoTo(t, "insert")
      /\ UNCHANGED <<blocker, members, cpu, update, lockVars, stuck>>

\* Lines 46 to 50: onto the list of the new state.
InsertNew(t) ==
  LET thread == update[t][1]
      state == update[t][2]
  IN  /\ pc[t] = "insert"
      /\ blocked' = IF state = "BLOCKED" THEN Append(blocked, thread) ELSE blocked
      /\ ready' = IF state = "READY" THEN Append(ready, thread) ELSE ready
      /\ GoTo(t, "release")
      /\ UNCHANGED <<running, tstate, blocker, members, cpu, update, lockVars, stuck>>

\* start() returns, block() and exit() go on to yield.  While the kernel boots,
\* the idle thread is started next.
ReleaseLock(t) ==
  /\ pc[t] = "release"
  /\ sched_lock' = NONE
  /\ GoTo(t, CASE update[t][2] # "READY" -> "yield"
               [] update[t] = <<Kernel, "READY">> -> "boot"
               [] OTHER -> "user")
  /\ update' = IF update[t][2] = "READY" THEN [update EXCEPT ![t] = NoUpdate] ELSE update
  /\ UNCHANGED <<threadVars, cpu, list_lock, memory_lock, stuck>>

-----------------------------------------------------------------------------
(***************************************************************************)
(* The calls of Thread.cpp.                                                *)
(***************************************************************************)
\* Thread::create, under the lock of the list.  Tasking.cpp creates Idle.
Create(t) ==
  /\ pc[t] = "user" /\ t # Idle /\ list_lock = NONE
  /\ \E u \in Users :
       /\ tstate[u] = NONE
       /\ tstate' = [tstate EXCEPT ![u] = "EMBRYO"]
       /\ members' = members \cup {u}
  /\ list_lock' = t
  /\ GoTo(t, "list_release")
  /\ UNCHANGED <<running, listVars, blocker, cpu, update, sched_lock, memory_lock, stuck>>

\* Thread::by_id walks the list under the same lock.
ById(t) ==
  /\ pc[t] = "user" /\ t # Idle /\ list_lock = NONE
  /\ list_lock' = t
  /\ GoTo(t, "list_release")
  /\ UNCHANGED <<threadVars, cpu, update, sched_lock, memory_lock, stuck>>

ListRelease(t) ==
  /\ pc[t] = "list_release"
  /\ list_lock' = NONE
  /\ GoTo(t, "user")
  /\ UNCHANGED <<threadVars, cpu, update, sched_lock, memory_lock, stuck>>

\* A thread allocates memory.
Malloc(t) ==
  /\ pc[t] = "user" /\ t # Idle /\ memory_lock = NONE
  /\ memory_lock' = t
  /\ GoTo(t, "memory_release")
  /\ UNCHANGED <<threadVars, cpu, update, sched_lock, list_lock, stuck>>

MemoryRelease(t) ==
  /\ pc[t] = "memory_release"
  /\ memory_lock' = NONE
  /\ GoTo(t, "user")
  /\ UNCHANGED <<threadVars, cpu, update, sched_lock, list_lock, stuck>>

\* start asserts that the thread is new; nobody starts one that is being started.
Start(t) ==
  /\ pc[t] = "user" /\ t # Idle
  /\ \E u \in Users :
       /\ tstate[u] = "EMBRYO"
       /\ \A other \in Threads : update[other] # <<u, "READY">>
       /\ BeginUpdate(t, u, "READY")
  /\ UNCHANGED <<threadVars, cpu, lockVars, stuck>>

Block(t, b) ==
  /\ blocker' = [blocker EXCEPT ![t] = b]
  /\ BeginUpdate(t, t, "BLOCKED")
  /\ UNCHANGED <<running, listVars, tstate, members, cpu, lockVars, stuck>>

Sleep(t) ==
  /\ pc[t] = "user" /\ t # Idle
  /\ \E n \in 1 .. MaxSleep : Block(t, <<"sleep", n>>)

\* join reads the state of the thread before it blocks.
Join(t) ==
  /\ pc[t] = "user" /\ t # Idle
  /\ \E u \in Users \ {t} :
       /\ tstate[u] \notin {NONE, "STOPPED"}
       /\ GoTo(t, "join")
       /\ update' = [update EXCEPT ![t] = <<u, "BLOCKED">>]
  /\ UNCHANGED <<threadVars, cpu, lockVars, stuck>>

JoinBlock(t) ==
  /\ pc[t] = "join"
  /\ Block(t, <<"join", update[t][1]>>)

Exit(t) ==
  /\ pc[t] = "user" /\ t \in Users
  /\ BeginUpdate(t, running, "STOPPED")
  /\ UNCHANGED <<threadVars, cpu, lockVars, stuck>>

-----------------------------------------------------------------------------
\* Tasking.cpp, initialize: the thread that boots becomes the kernel thread.
SchedulerInit ==
  /\ running = NONE /\ ready = <<>> /\ blocked = <<>>
  /\ tstate = [t \in Threads |-> IF t \in {Kernel, Idle} THEN "EMBRYO" ELSE NONE]
  /\ blocker = [t \in Threads |-> NoBlocker]
  /\ members = {Kernel, Idle}
  /\ cpu = Kernel
  /\ update = [t \in Threads |-> IF t = Kernel THEN <<Kernel, "READY">> ELSE NoUpdate]
  /\ pc = [t \in Threads |-> IF t = Kernel THEN "acquire" ELSE "user"]
  /\ sched_lock = NONE /\ list_lock = NONE /\ memory_lock = NONE
  /\ stuck = "none"

BootIdle(t) ==
  /\ pc[t] = "boot"
  /\ BeginUpdate(t, Idle, "READY")
  /\ UNCHANGED <<threadVars, cpu, lockVars, stuck>>

\* A step that a thread, once in a call, will take.
CallStep(t) ==
  \/ Acquire(t) \/ RemoveOld(t) \/ InsertNew(t) \/ ReleaseLock(t)
  \/ Yield(t) \/ YieldSchedule(t) \/ YieldUnlock(t) \/ YieldSwitch(t) \/ Yielded(t)
  \/ ListRelease(t) \/ MemoryRelease(t) \/ JoinBlock(t) \/ BootIdle(t)

\* A call that a thread may make.
UserStep(t) ==
  \/ Create(t) \/ ById(t) \/ Malloc(t) \/ Start(t) \/ Sleep(t) \/ Join(t) \/ Exit(t)

ThreadStep == stuck = "none" /\ \E t \in Threads : cpu = t /\ (CallStep(t) \/ UserStep(t))

SchedulerNext == TimerTick \/ TimerSwitch \/ TimerClobbers \/ ThreadStep

\* The processor executes; the timer keeps interrupting, and does not find a
\* lock taken every time.
SchedulerSpec ==
  /\ SchedulerInit /\ [][SchedulerNext]_schedulerVars
  /\ WF_schedulerVars(stuck = "none" /\ \E t \in Threads : cpu = t /\ CallStep(t))
  /\ SF_schedulerVars(TimerSwitch)

-----------------------------------------------------------------------------
(***************************************************************************)
(* Properties                                                              *)
(***************************************************************************)
Places == {"user", "acquire", "remove", "insert", "release", "yield", "schedule",
           "unlock", "switch", "yielded", "not_reached", "list_release",
           "memory_release", "join", "boot"}

\* The types of the scheduler's variables.
SchedulerTypeOK ==
  /\ running \in Threads \cup {NONE} /\ cpu \in Threads
  /\ ready \in Seq(Threads) /\ blocked \in Seq(Threads)
  /\ tstate \in [Threads -> States \cup {NONE}]
  /\ pc \in [Threads -> Places]
  /\ \A t \in Threads : blocker[t] \in {NoBlocker} \cup ({"sleep"} \X (0 .. MaxSleep))
                                       \cup ({"join"} \X Users)
  /\ members \subseteq Threads
  /\ {sched_lock, list_lock, memory_lock} \subseteq Threads \cup {NONE}
  /\ stuck \in {"none", "spin", "pop", "clobber"}

Count(list, t) == Cardinality({i \in DOMAIN list : list[i] = t})

\* Whenever the lock is free, each thread is on the list its state names, once,
\* and on no other; at most one is RUNNING, the running thread.  The list that
\* schedule pops is never empty.
ThreadsAreOnTheirLists ==
  /\ SchedulerTypeOK
  /\ sched_lock = NONE =>
       \A t \in Threads :
         /\ Count(ready, t) = IF tstate[t] = "READY" THEN 1 ELSE 0
         /\ Count(blocked, t) = IF tstate[t] = "BLOCKED" THEN 1 ELSE 0
         /\ tstate[t] = "RUNNING" => t = running
  /\ stuck # "pop"

\* A thread is never switched away while it holds the scheduler's lock or the
\* heap's: the locks spin, so whoever runs next could wait for ever.
LockHolderExecutes ==
  /\ sched_lock \in {NONE, cpu}
  /\ memory_lock \in {NONE, cpu}

\* The code that executes is that of the running thread, except between the
\* choice of the next thread and the switch to its stack, and whoever holds a
\* lock is the one that executes.
ExecutingThreadIsRunning ==
  /\ running # NONE /\ pc[cpu] \notin {"unlock", "switch"} => cpu = running
  /\ LockHolderExecutes

\* A stopped thread never goes on: the assert_not_reached() at the end of exit.
StoppedNeverResumes ==
  \A t \in Threads :
    /\ pc[t] # "not_reached"
    /\ tstate[t] = "STOPPED" => pc[t] \notin {"user", "join"}

\* A thread returns from sleep or join only when the time is over or the other
\* thread has stopped, however timer and yield interleave with its blocking,
\* and never from exit.
BlockEndsWhenDue ==
  /\ \A t \in Threads :
       pc[t] = "user" /\ blocker[t] # NoBlocker => should_unblock(t)
  /\ StoppedNeverResumes

\* The two ways the timer may leave the kernel in ruins.
Ruined == stuck \in {"spin", "clobber"}

\* What a thread that could go on waits for: a turn, or to be woken.
Due(t) == tstate[t] = "READY" \/ (tstate[t] = "BLOCKED" /\ should_unblock(t))

\* No thread is left behind: a ready one runs, since the ready list is a queue,
\* and so does a blocked one whose time is over or whose joined thread has
\* stopped, whether that stop came before, while or after it blocked.  Who is due
\* stays so until it runs (DueUntilItRuns), so it is not due for ever.
DueThreadsRun == \A t \in Threads : []<>(~Due(t) \/ running = t \/ Ruined)
=============================================================================
