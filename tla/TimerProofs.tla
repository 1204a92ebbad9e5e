----------------------------- MODULE TimerProofs -----------------------------
(* Proofs about TimerQueue.tla, for any set of tasks, any threads that add   *)
(* them, any accuracy and any length of time, and about Scheduler.tla, for   *)
(* any Timers, delays, intervals and parts of a second.                      *)
EXTENDS TimerQueue, Scheduler, FiniteSetTheorems, TLAPS

(* A thread has a task in hand exactly while it is inside addTask(). *)
TaskInHand == \A a \in Thread : adding[a] = "no" <=> task[a] = NoTask

(* expire() collects only what is due, and due it stays. *)
CollectedIsDue == \A t \in due : expired[t] - now < Accuracy

IInv ==
    /\ TypeOK
    /\ OnePlace
    /\ TaskInHand
    /\ CollectedIsDue
    /\ WaitingIsArmed

USE TimeAssumption, NameAssumption DEF Time, Never

(* A new timer queue satisfies the inductive invariant. *)
LEMMA InitIInv == Init => IInv
<1> SUFFICES ASSUME Init PROVE IInv
  OBVIOUS
<1>1. TypeOK
  <2>1. expired \in [Task -> Time] /\ now \in Time /\ armed \in Time \cup {Never}
    BY DEF Init
  <2>2. adding \in [Thread -> {"no", "insert", "clock", "arm"}]
        /\ task \in [Thread -> Task \cup {NoTask}]
    BY DEF Init
  <2> QED
    BY <2>1, <2>2 DEF Init, TypeOK
<1>2. OnePlace /\ TaskInHand /\ CollectedIsDue /\ WaitingIsArmed
  BY DEF Init, OnePlace, TaskInHand, CollectedIsDue, WaitingIsArmed
<1> QED
  BY <1>1, <1>2 DEF IInv

(* addTask() up to its critical section. *)
LEMMA LookStep ==
    ASSUME IInv, NEW a \in Thread, NEW t \in Task, NEW e \in Time, Look(a, t, e)
    PROVE  IInv'
<1> USE DEF IInv, TypeOK, Look
<1>1. TypeOK'
  OBVIOUS
<1>2. OnePlace'
  BY DEF OnePlace, Fresh
<1>3. TaskInHand'
  BY DEF TaskInHand
<1>4. CollectedIsDue'
  BY DEF CollectedIsDue, Fresh
<1>5. WaitingIsArmed'
  BY DEF WaitingIsArmed, Collecting
<1> QED
  BY <1>1, <1>2, <1>3, <1>4, <1>5

(* addTask() from there on: a task inserted without arming the timer relies  *)
(* on a first task, which is armed for.                                      *)
LEMMA AddIInv ==
    ASSUME IInv, NEW a \in Thread, AddStep(a) PROVE IInv'
<1> USE DEF IInv, TypeOK
<1>1. CASE Insert(a)
  <2>1. task[a] \in Task
    BY <1>1 DEF Insert, TaskInHand
  <2>2. TypeOK' /\ TaskInHand' /\ CollectedIsDue'
    BY <1>1, <2>1 DEF Insert, TaskInHand, CollectedIsDue
  <2>3. OnePlace'
    BY <1>1, <2>1 DEF Insert, OnePlace
  <2>4. WaitingIsArmed'
    BY <1>1 DEF Insert, WaitingIsArmed, CoveredByFirst, First, Collecting
  <2> QED
    BY <2>2, <2>3, <2>4
<1>2. CASE InsertAndArm(a)
  <2>1. task[a] \in Task
    BY <1>2 DEF InsertAndArm, TaskInHand
  <2>2. armed' \in Time
    BY <1>2, <2>1 DEF InsertAndArm
  <2>3. TypeOK' /\ TaskInHand' /\ CollectedIsDue'
    BY <1>2, <2>1, <2>2 DEF InsertAndArm, TaskInHand, CollectedIsDue
  <2>4. OnePlace'
    BY <1>2, <2>1 DEF InsertAndArm, OnePlace
  <2>5. WaitingIsArmed'
    BY <2>2 DEF WaitingIsArmed
  <2> QED
    BY <2>3, <2>4, <2>5
<1>3. CASE CallNow(a)
  <2>1. task[a] \in Task
    BY <1>3 DEF CallNow, TaskInHand
  <2> QED
    BY <1>3, <2>1 DEF CallNow, OnePlace, TaskInHand, CollectedIsDue, WaitingIsArmed,
                      Collecting
<1>4. CASE NotYet(a)
  BY <1>4 DEF NotYet, OnePlace, TaskInHand, CollectedIsDue, WaitingIsArmed, Collecting
<1> QED
  BY <1>1, <1>2, <1>3, <1>4 DEF AddStep

(* The scheduler thread: expire() leaves no task without a timer. *)
LEMMA SchedulerIInv ==
    ASSUME IInv, SchedulerStep PROVE IInv'
<1> USE DEF IInv, TypeOK
<1>1. CASE Expire \/ Lock \/ Drained \/ Return \/ Expired
  BY <1>1 DEF Expire, Lock, Drained, Return, Expired, OnePlace, TaskInHand,
              CollectedIsDue, WaitingIsArmed, Collecting
<1>2. ASSUME NEW t \in Task, Collect(t) PROVE IInv'
  BY <1>2 DEF Collect, First, IsDue, OnePlace, TaskInHand, CollectedIsDue,
              WaitingIsArmed, Collecting
<1>3. ASSUME NEW t \in Task, Rearm(t) PROVE IInv'
  <2>1. armed' \in Time
    BY <1>3 DEF Rearm
  <2> QED
    BY <1>3, <2>1 DEF Rearm, OnePlace, TaskInHand, CollectedIsDue, WaitingIsArmed
<1>4. ASSUME NEW t \in Task, Call(t) PROVE IInv'
  BY <1>4 DEF Call, OnePlace, TaskInHand, CollectedIsDue, WaitingIsArmed, Collecting
<1> QED
  BY <1>1, <1>2, <1>3, <1>4 DEF SchedulerStep

(* The type invariant, and where each task is. *)
THEOREM Invariance == Spec => []IInv
<1>1. ASSUME IInv, [Next]_vars PROVE IInv'
  <2>1. ASSUME Tick \/ UNCHANGED vars PROVE IInv'
    BY <1>1, <2>1 DEF Tick, vars, IInv, TypeOK, OnePlace, TaskInHand, CollectedIsDue,
                      WaitingIsArmed, Collecting
  <2> QED
    BY <1>1, <2>1, LookStep, AddIInv, SchedulerIInv DEF Next
<1> QED
  BY <1>1, InitIInv, PTL DEF Spec

(* The state stays within its types. *)
THEOREM TypeOKHolds == Spec => []TypeOK
<1>1. IInv => TypeOK
  BY DEF IInv
<1> QED
  BY <1>1, Invariance, PTL

(* A task is in the map, collected, called, or in the hands of one addTask(): *)
(* it is never called twice.                                                  *)
THEOREM OnePlaceHolds == Spec => []OnePlace
<1>1. IInv => OnePlace
  BY DEF IInv
<1> QED
  BY <1>1, Invariance, PTL

(* Unless addTask() acted on a stale look at the map, tasks that wait have a *)
(* timer set.                                                                *)
THEOREM WaitingIsArmedHolds == Spec => []WaitingIsArmed
<1>1. IInv => WaitingIsArmed
  BY DEF IInv
<1> QED
  BY <1>1, Invariance, PTL

(* No task is called an Accuracy or more before its deadline, stale look or  *)
(* not, whichever thread calls it.                                           *)
THEOREM NeverEarlyHolds == Spec => NeverEarly
<1>1. ASSUME IInv, [Next]_vars
      PROVE  [\A t \in done' \ done : expired[t] - now < Accuracy]_vars
  <2> USE <1>1 DEF IInv
  <2>1. ASSUME NEW a \in Thread, CallNow(a)
        PROVE  \A t \in done' \ done : expired[t] - now < Accuracy
    BY <2>1 DEF CallNow, IsDue
  <2>2. ASSUME NEW u \in Task, Call(u)
        PROVE  \A t \in done' \ done : expired[t] - now < Accuracy
    BY <2>2 DEF Call, CollectedIsDue
  <2>3. ASSUME \/ \E a \in Thread, t \in Task, e \in Time : Look(a, t, e)
               \/ \E a \in Thread : Insert(a) \/ NotYet(a) \/ InsertAndArm(a)
               \/ Expire \/ Lock \/ Drained \/ Return \/ Expired \/ Tick
               \/ \E t \in Task : Collect(t) \/ Rearm(t)
               \/ UNCHANGED vars
        PROVE  done' = done
    BY <2>3 DEF Look, Insert, NotYet, InsertAndArm, Expire, Lock, Drained, Return,
                Expired, Tick, Collect, Rearm, vars
  <2> QED
    BY <2>1, <2>2, <2>3 DEF Next, AddStep, SchedulerStep
<1> QED
  BY <1>1, Invariance, PTL DEF Spec, NeverEarly
-----------------------------------------------------------------------------
(* How late a task may be.                                                   *)

Lateness(n) == (Accuracy - 1) * (n - 1)

(* One more task in the map allows for one more Accuracy - 1. *)
LEMMA LatenessStep ==
    ASSUME NEW n \in Nat
    PROVE  /\ Lateness(n + 1) \in Int /\ Lateness(n + 1) >= 0
           /\ Lateness(n + 1) = Lateness(n) + (Accuracy - 1)
BY DEF Lateness

LateInv == IsFiniteSet(tasks_) /\ LatenessBound

(* Steps that neither add a task nor set the timer. *)
LEMMA SameLateness ==
    ASSUME LateInv, tasks_' = tasks_, armed' = armed, stale' = stale,
           Collecting' <=> Collecting,
           \A t \in tasks_ : expired'[t] = expired[t]
    PROVE  LateInv'
BY DEF LateInv, LatenessBound, First

(* Every step preserves it. *)
LEMMA NextLateInv == ASSUME IInv, LateInv, [Next]_vars PROVE LateInv'
<1> USE DEF IInv, TypeOK
<1>1. ASSUME NEW a \in Thread, Insert(a) PROVE LateInv'
  <2> DEFINE x == task[a]
             n == Cardinality(tasks_)
  <2>1. /\ x \in Task /\ x \notin tasks_ /\ tasks_' = tasks_ \cup {x}
        /\ UNCHANGED <<expired, armed, loop>>
        /\ stale' = (stale \/ ~CoveredByFirst(expired[x]))
    BY <1>1 DEF Insert, TaskInHand, OnePlace
  <2>2. /\ IsFiniteSet(tasks_') /\ n \in Nat /\ Cardinality(tasks_') = n + 1
    BY <2>1, FS_AddElement, FS_CardinalityType DEF LateInv
  <2>3. SUFFICES ASSUME ~stale, ~Collecting, CoveredByFirst(expired[x]),
                        NEW t \in tasks_', First(t)'
                 PROVE  armed - expired[t] <= Lateness(n + 1)
    BY <2>1, <2>2 DEF LateInv, LatenessBound, Lateness, Collecting
  <2>4. PICK u \in tasks_ : First(u) /\ expired[u] - expired[x] < Accuracy
    BY <2>3 DEF CoveredByFirst
  <2>5. armed - expired[u] <= Lateness(n)
    BY <2>3, <2>4 DEF LateInv, LatenessBound, Lateness
  <2>6. /\ armed \in Int /\ expired[u] \in Int /\ expired[x] \in Int
        /\ Lateness(n) \in Int
    BY <2>1, <2>2 DEF Lateness
  <2>7. CASE t = x
    BY <2>2, <2>4, <2>5, <2>6, <2>7, LatenessStep
  <2>8. CASE t \in tasks_
    <3>1. First(t)
      BY <2>1, <2>3, <2>8 DEF First
    <3>2. armed - expired[t] <= Lateness(n) /\ expired[t] \in Int
      BY <2>3, <2>8, <3>1 DEF LateInv, LatenessBound, Lateness
    <3> QED
      BY <2>2, <2>6, <3>2, LatenessStep
  <2> QED
    BY <2>1, <2>3, <2>7, <2>8
<1>2. ASSUME NEW a \in Thread, InsertAndArm(a) PROVE LateInv'
  <2> DEFINE x == task[a]
             n == Cardinality(tasks_)
  <2>1. /\ x \in Task /\ x \notin tasks_ /\ tasks_' = tasks_ \cup {x}
        /\ armed' = expired[x] /\ UNCHANGED <<expired, loop>>
        /\ stale' = (stale \/ CoveredByFirst(expired[x]))
    BY <1>2 DEF InsertAndArm, TaskInHand, OnePlace
  <2>2. IsFiniteSet(tasks_') /\ n \in Nat /\ Cardinality(tasks_') = n + 1
    BY <2>1, FS_AddElement, FS_CardinalityType DEF LateInv
  <2>3. SUFFICES ASSUME ~CoveredByFirst(expired[x]), NEW t \in tasks_', First(t)'
                 PROVE  expired[x] - expired[t] <= Lateness(n + 1)
    BY <2>1, <2>2 DEF LateInv, LatenessBound, Lateness, Collecting
  <2>4. t = x
    <3>1. SUFFICES ASSUME t \in tasks_ PROVE FALSE
      BY <2>1
    <3>2. First(t) /\ expired[t] <= expired[x]
      BY <2>1, <2>3, <3>1 DEF First
    <3>3. expired[t] - expired[x] >= Accuracy
      BY <2>1, <2>3, <3>1, <3>2 DEF CoveredByFirst
    <3> QED
      BY <2>1, <3>1, <3>2, <3>3
  <2>5. expired[x] \in Int
    BY <2>1
  <2> QED
    BY <2>2, <2>4, <2>5, LatenessStep
<1>3. ASSUME NEW t \in Task, Rearm(t) PROVE LateInv'
  <2>1. /\ armed' = expired[t] /\ First(t) /\ UNCHANGED <<tasks_, expired>>
    BY <1>3 DEF Rearm
  <2>2. PICK n \in Nat : Cardinality(tasks_) = n + 1
    <3>1. Cardinality(tasks_) \in Nat /\ Cardinality(tasks_) # 0
      BY <2>1, FS_CardinalityType, FS_EmptySet DEF LateInv, First
    <3>2. Cardinality(tasks_) - 1 \in Nat
      BY <3>1
    <3> QED
      BY <3>1, <3>2
  <2>3. \A u \in tasks_ : First(u) => expired[u] = expired[t]
    BY <2>1 DEF First
  <2>4. \A u \in tasks_ : First(u) => armed' - expired[u] <= Lateness(n + 1)
    <3>1. Lateness(n + 1) \in Int /\ Lateness(n + 1) >= 0
      BY LatenessStep
    <3>2. \A u \in tasks_ : First(u) => armed' - expired[u] = 0
      BY <2>1, <2>3
    <3> QED
      BY <3>1, <3>2
  <2> QED
    BY <2>1, <2>2, <2>4 DEF LateInv, LatenessBound, Lateness, First
<1>4. ASSUME NEW t \in Task, Collect(t) PROVE LateInv'
  <2>1. Collecting' /\ tasks_' \subseteq tasks_
    BY <1>4 DEF Collect, Collecting
  <2> QED
    BY <2>1, FS_Subset DEF LateInv, LatenessBound
<1>5. ASSUME NEW a \in Thread, NEW t \in Task, NEW e \in Time, Look(a, t, e)
      PROVE  LateInv'
  BY <1>5, SameLateness DEF Look, Fresh, Collecting
<1>6. ASSUME NEW a \in Thread, CallNow(a) \/ NotYet(a) PROVE LateInv'
  BY <1>6, SameLateness DEF CallNow, NotYet, Collecting
<1>7. CASE Expire \/ Drained
  BY <1>7 DEF Expire, Drained, LateInv, LatenessBound, Collecting
<1>8. CASE Lock \/ Return \/ Expired \/ Tick \/ UNCHANGED vars
  BY <1>8, SameLateness DEF Lock, Return, Expired, Tick, vars, Collecting
<1>9. ASSUME NEW t \in Task, Call(t) PROVE LateInv'
  BY <1>9, SameLateness DEF Call, Collecting
<1> QED
  BY <1>1, <1>2, <1>3, <1>4, <1>5, <1>6, <1>7, <1>8, <1>9
  DEF Next, AddStep, SchedulerStep

(* A task in the map is called late by less than Accuracy for every other    *)
(* task that is in it, for any accuracy and any number of tasks, until a     *)
(* stale look.                                                               *)
THEOREM LatenessBoundHolds == Spec => []LatenessBound
<1>1. Init => LateInv
  BY FS_EmptySet DEF Init, LateInv, LatenessBound
<1>2. IInv /\ LateInv /\ [Next]_vars => LateInv'
  BY NextLateInv
<1>3. LateInv => LatenessBound
  BY DEF LateInv
<1> QED
  BY <1>1, <1>2, <1>3, Invariance, PTL DEF Spec
-----------------------------------------------------------------------------
(* The Scheduler: timers that come and go.                                   *)

(* The parts of the state that the pointers depend on have their types.      *)
PointersTyped ==
    /\ held \subseteq Timer /\ timers_ \subseteq Timer
    /\ running \in Timer \cup {NoTimer}

(* epoll knows descriptors of Timers in timers_ only. *)
WatchedIsAdded == watched \subseteq timers_

(* While pollEvent() is not at work there is nothing reported; a callback    *)
(* runs in one state of the thread.                                          *)
BatchMatches ==
    /\ thread \in {"new", "started", "poll", "exited"} => vec = {}
    /\ running # NoTimer <=> thread = "callback"

(* It is timers_ that keeps what was reported alive: a timer_ptr of the      *)
(* program's would not do, for Drop() takes those away at any time.          *)
BatchIsAdded == Batch \subseteq timers_ \cup pulled

SInv ==
    /\ PointersTyped
    /\ WatchedIsAdded
    /\ BatchMatches
    /\ BatchIsAdded

USE TickAssumption

LEMMA InitSInv == SInit => SInv
BY DEF SInit, SInv, PointersTyped, WatchedIsAdded, BatchMatches, BatchIsAdded, Batch

(* What leaves the objects and the polling alone keeps the invariant.        *)
LEMMA Untouched ==
    ASSUME SInv, UNCHANGED objects, UNCHANGED polling, pulled' = pulled
    PROVE  SInv'
BY DEF SInv, PointersTyped, WatchedIsAdded, BatchMatches, BatchIsAdded, Batch,
       objects, polling

(* What the thread does, except for poll(), reports nothing new: it goes on  *)
(* with less of the batch, and may forget what was pulled when none is left. *)
LEMMA Smaller ==
    ASSUME SInv, UNCHANGED objects, vec' \subseteq vec,
           running' \in {NoTimer, running} \cup (vec \cap timers_),
           pulled' = pulled \/ Batch' = {},
           thread' \in {"new", "started", "poll", "exited"} => vec' = {},
           running' # NoTimer <=> thread' = "callback"
    PROVE  SInv'
<1>1. PointersTyped' /\ WatchedIsAdded' /\ BatchMatches'
  BY DEF SInv, PointersTyped, WatchedIsAdded, BatchMatches, objects
<1>2. Batch' \subseteq Batch
  BY DEF Batch
<1>3. BatchIsAdded'
  BY <1>2 DEF SInv, BatchIsAdded, objects
<1> QED
  BY <1>1, <1>3 DEF SInv

(* Every step of the program, the thread and the clock preserves it.         *)
LEMMA NextSInv == SInv /\ [SNext]_svars => SInv'
<1> SUFFICES ASSUME SInv, [SNext]_svars PROVE SInv'
  OBVIOUS
<1>1. CASE TimePasses
  BY <1>1, Untouched DEF TimePasses, history
<1>2. ASSUME NEW t \in Timer, NEW i \in Intervals, NEW d \in Delays, every(t, i, d)
      PROVE  SInv'
  BY <1>2, Untouched DEF every
<1>3. ASSUME NEW t \in Timer, Drop(t) PROVE SInv'
  BY <1>3 DEF Drop, SInv, PointersTyped, WatchedIsAdded, BatchMatches, BatchIsAdded,
              Batch, polling, history
<1>4. ASSUME NEW t \in Timer, BeginAdd(t) PROVE SInv'
  BY <1>4 DEF BeginAdd, SInv, PointersTyped, WatchedIsAdded, BatchMatches, BatchIsAdded,
              Batch, polling, history
<1>13. ASSUME NEW t \in Timer, BeginRemove(t) PROVE SInv'
  BY <1>13 DEF BeginRemove, SInv, PointersTyped, WatchedIsAdded, BatchMatches,
               BatchIsAdded, Batch, polling, history
<1>5. ASSUME NEW t \in Timer, addTimer(t) PROVE SInv'
  BY <1>5 DEF addTimer, SInv, PointersTyped, WatchedIsAdded, BatchMatches, BatchIsAdded,
              Batch, polling, history
<1>6. ASSUME NEW t \in Timer, removeTimer(t) PROVE SInv'
  <2>1. PointersTyped' /\ WatchedIsAdded' /\ BatchMatches'
    BY <1>6 DEF removeTimer, SInv, PointersTyped, WatchedIsAdded, BatchMatches, polling
  <2>2. BatchIsAdded'
    BY <1>6 DEF removeTimer, SInv, BatchIsAdded, Batch, polling
  <2> QED
    BY <2>1, <2>2 DEF SInv
<1>7. CASE Poll
  <2>1. vec' \subseteq timers_ /\ running' = NoTimer
    BY <1>7 DEF Poll, Ready, SInv, WatchedIsAdded, BatchMatches
  <2> QED
    BY <1>7, <2>1 DEF Poll, SInv, PointersTyped, WatchedIsAdded, BatchMatches,
                      BatchIsAdded, Batch, objects, history
<1>8. ASSUME NEW t \in Timer, Handle(t) PROVE SInv'
  <2>1. CASE Fire(t)
    BY <1>8, <2>1, Smaller DEF Fire, history
  <2>2. CASE Miss(t)
    BY <2>2, Smaller DEF Miss, SInv, BatchMatches
  <2>3. CASE ReadNothing(t)
    BY <2>3, Smaller DEF ReadNothing, SInv, BatchMatches, history
  <2> QED
    BY <1>8, <2>1, <2>2, <2>3 DEF Handle
<1>9. CASE start \/ run \/ CallbackReturns \/ Handled
  BY <1>9, Smaller DEF start, run, CallbackReturns, Handled, SInv, BatchMatches, Batch, history
<1>10. CASE CancelSelf \/ Cancelled
  BY <1>10, Smaller DEF CancelSelf, Cancelled, Exit, history
<1>11. CASE cancel
  BY <1>11, Smaller DEF cancel, SInv, BatchMatches, history
<1>12. CASE join \/ Joined \/ UNCHANGED svars
  BY <1>12, Untouched DEF join, Joined, svars, objects, polling, history
<1> QED
  BY <1>1, <1>2, <1>3, <1>4, <1>5, <1>6, <1>7, <1>8, <1>9, <1>10, <1>11, <1>12, <1>13
  DEF SNext, LoopStep

(* pollEvent() reaches no dead Timer but one that was removed meanwhile.     *)
THEOREM BatchIsLiveHolds == SSpec => []BatchIsLive
<1>1. SInv => BatchIsLive
  BY DEF SInv, BatchIsAdded, BatchIsLive, Alive
<1> QED
  BY <1>1, InitSInv, NextSInv, PTL DEF SSpec
=============================================================================
