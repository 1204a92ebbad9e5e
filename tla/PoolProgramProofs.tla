-------------------------- MODULE PoolProgramProofs --------------------------
(* Proofs about CountLatch.tla, for every start value and every amount,      *)
(* about BlockingQueue.tla, for every set of jobs, every ThreadNum and every *)
(* MaxThreads, and about PoolProgram.tla, for any jobs, any number of        *)
(* threads and any number of commence() calls, with jobs that throw          *)
(* QueueBreak.                                                               *)
EXTENDS PoolProgram, FiniteSetTheorems, TLAPS
-----------------------------------------------------------------------------
(* A latch, whatever program it is in.                                       *)
CONSTANTS Waiter, Start, Vals, MaxBelow, NoWaiter
VARIABLES anyCount, anyMutex, anyCond, stage

AnyLatch == INSTANCE CountLatch WITH
    count_ <- anyCount, mutex_ <- anyMutex, cond_ <- anyCond, pc <- stage

(* Only a thread between its test and wait() holds the mutex over a step. *)
AnyMutexHeld == \A w \in Waiter : anyMutex = w <=> stage[w] = "wait"

(* What its test found still holds when it goes to wait. *)
AnyWaitJustified == \A w \in Waiter : stage[w] = "wait" => anyCount > 0

AnyCondBlocked == \A w \in anyCond : stage[w] = "blocked"

AnyLatchInv ==
    /\ AnyLatch!TypeOK
    /\ AnyMutexHeld
    /\ AnyWaitJustified
    /\ AnyCondBlocked
    /\ AnyLatch!NeverEarly

(* notify() blocks nobody. *)
LEMMA AnyNotify ==
    ASSUME NEW S, NEW T \in AnyLatch!notify(S) PROVE T \subseteq S
BY DEF AnyLatch!notify

(* A new latch satisfies the inductive invariant. *)
LEMMA InitAnyLatch ==
    ASSUME AnyLatch!CountAssumption PROVE AnyLatch!Init => AnyLatchInv
BY DEF AnyLatch!CountAssumption, AnyLatch!Init, AnyLatchInv, AnyLatch!TypeOK,
       AnyMutexHeld, AnyWaitJustified, AnyCondBlocked, AnyLatch!NeverEarly

(* Every step of latch() and reduce() preserves it. *)
LEMMA NextAnyLatch ==
    ASSUME AnyLatch!CountAssumption
    PROVE  AnyLatchInv /\ [AnyLatch!Next]_AnyLatch!vars => AnyLatchInv'
<1> SUFFICES ASSUME AnyLatchInv, [AnyLatch!Next]_AnyLatch!vars PROVE AnyLatchInv'
  OBVIOUS
<1> USE DEF AnyLatch!CountAssumption, AnyLatchInv, AnyLatch!TypeOK, AnyMutexHeld,
            AnyWaitJustified, AnyCondBlocked, AnyLatch!NeverEarly
<1>1. ASSUME NEW val \in Vals, AnyLatch!reduce(val) PROVE AnyLatchInv'
  <2>1. anyCond' \subseteq anyCond
    BY <1>1, AnyNotify DEF AnyLatch!reduce
  <2>2. anyCount' \in Int /\ anyCount' < anyCount
    BY <1>1 DEF AnyLatch!reduce
  <2>3. \A w \in Waiter : stage[w] # "wait"
    BY <1>1 DEF AnyLatch!reduce
  <2> QED
    BY <1>1, <2>1, <2>2, <2>3 DEF AnyLatch!reduce
<1>2. ASSUME NEW w \in Waiter, AnyLatch!latch(w) PROVE AnyLatchInv'
  BY <1>2 DEF AnyLatch!latch
<1>3. ASSUME NEW w \in Waiter, AnyLatch!LockAndTest(w) PROVE AnyLatchInv'
  <2>1. CASE anyCount > 0
    BY <1>3, <2>1 DEF AnyLatch!LockAndTest
  <2>2. CASE ~(anyCount > 0)
    BY <1>3, <2>2 DEF AnyLatch!LockAndTest
  <2> QED
    BY <2>1, <2>2
<1>4. ASSUME NEW w \in Waiter, AnyLatch!Wait(w) PROVE AnyLatchInv'
  BY <1>4 DEF AnyLatch!Wait, AnyLatch!wait
<1>5. ASSUME NEW w \in Waiter, AnyLatch!Spurious(w) PROVE AnyLatchInv'
  BY <1>5 DEF AnyLatch!Spurious
<1>6. CASE UNCHANGED AnyLatch!vars
  BY <1>6 DEF AnyLatch!vars
<1> QED
  BY <1>1, <1>2, <1>3, <1>4, <1>5, <1>6 DEF AnyLatch!Next

(* The type invariant, with the facts about the mutex and the condition      *)
(* variable that make it inductive.                                          *)
THEOREM AnyLatchInvariance ==
    ASSUME AnyLatch!CountAssumption PROVE AnyLatch!Spec => []AnyLatchInv
BY InitAnyLatch, NextAnyLatch, PTL DEF AnyLatch!Spec

(* latch() never returns while the count is positive, for any number of      *)
(* waiters and with spurious wake-ups.                                       *)
THEOREM LatchNeverEarly ==
    ASSUME AnyLatch!CountAssumption PROVE AnyLatch!Spec => []AnyLatch!NeverEarly
<1>1. AnyLatchInv => AnyLatch!NeverEarly
  BY DEF AnyLatchInv
<1> QED
  BY <1>1, AnyLatchInvariance, PTL

(* With one waiter the notify() of reduce() is enough: an open latch leaves  *)
(* nobody asleep.  CountLatch_two.cfg shows that two waiters are too many.   *)
THEOREM LatchNoneStranded ==
    ASSUME AnyLatch!CountAssumption, \A v, w \in Waiter : v = w
    PROVE  AnyLatch!Spec => []AnyLatch!NoneStranded
<1>1. AnyLatch!Init => AnyLatch!NoneStranded
  BY DEF AnyLatch!Init, AnyLatch!NoneStranded
<1>2. ASSUME AnyLatchInv, AnyLatch!NoneStranded, [AnyLatch!Next]_AnyLatch!vars
      PROVE  AnyLatch!NoneStranded'
  <2> USE DEF AnyLatch!CountAssumption, AnyLatchInv, AnyLatch!TypeOK
  <2>1. ASSUME NEW val \in Vals, AnyLatch!reduce(val) PROVE anyCond' = {}
    <3>1. anyCond' \in AnyLatch!notify(anyCond)
      BY <2>1 DEF AnyLatch!reduce
    <3>2. \A v, w \in anyCond : v = w
      BY <1>2
    <3> QED
      BY <3>1, <3>2 DEF AnyLatch!notify
  <2>2. ASSUME NEW w \in Waiter, AnyLatch!Wait(w) PROVE AnyLatch!NoneStranded'
    BY <1>2, <2>2 DEF AnyLatch!Wait, AnyWaitJustified, AnyLatch!NoneStranded
  <2>3. ASSUME NEW w \in Waiter,
               AnyLatch!latch(w) \/ AnyLatch!LockAndTest(w) \/ AnyLatch!Spurious(w)
        PROVE  AnyLatch!NoneStranded'
    BY <1>2, <2>3 DEF AnyLatch!latch, AnyLatch!LockAndTest, AnyLatch!Spurious,
                      AnyLatch!NoneStranded
  <2>4. CASE UNCHANGED AnyLatch!vars
    BY <1>2, <2>4 DEF AnyLatch!vars, AnyLatch!NoneStranded
  <2> QED
    BY <1>2, <2>1, <2>2, <2>3, <2>4 DEF AnyLatch!Next, AnyLatch!NoneStranded
<1> QED
  BY <1>1, <1>2, AnyLatchInvariance, PTL DEF AnyLatch!Spec
-----------------------------------------------------------------------------
(* The pool of threads.                                                      *)

(* Every worker inside takeJob() between two steps holds the mutex, and only *)
(* such a worker does.                                                       *)
MutexHeld == \A w \in Worker : (mutex_ = w) <=> pc[w] \in {"wait", "take"}

(* What the loop test found still holds when the worker goes to wait.        *)
WaitJustified ==
    \A w \in Worker : pc[w] = "wait" => running_ /\ queue_ = <<>>

CondBlocked == \A w \in cond_ : pc[w] = "blocked"

NotStarted == \A w \in Worker : w > threads_ => pc[w] = "none"

JobHeld == \A w \in Worker : job[w] # NoJob <=> pc[w] \in {"run", "stopped"}

IInv ==
    /\ TypeOK
    /\ MutexHeld
    /\ WaitJustified
    /\ CondBlocked
    /\ NotStarted
    /\ JobHeld
    /\ StopReachesAll

USE ThreadAssumption, JobAssumption DEF Worker, Nobody

(* notify() wakes nobody who was not blocked, and blocks nobody. *)
LEMMA NotifyBounds ==
    ASSUME NEW S, NEW T \in notify(S)
    PROVE  T \subseteq S /\ (S = {} => T = {})
BY DEF notify

(* stop() leaves nobody blocked, and leaves the queue stopped. *)
LEMMA StopEffect ==
    ASSUME running_ \in BOOLEAN, StopReachesAll, stop
    PROVE  mutex_ = Nobody /\ running_' = FALSE /\ cond_' = {}
<1>1. CASE running_
  BY <1>1 DEF stop, notifyall
<1>2. CASE ~running_
  BY <1>2 DEF stop, StopReachesAll
<1> QED
  BY <1>1, <1>2

(* A new queue satisfies the inductive invariant. *)
LEMMA InitIInv == Init => IInv
<1> SUFFICES ASSUME Init PROVE IInv
  OBVIOUS
<1>1. TypeOK
  <2>1. queue_ \in Seq(Job) /\ threads_ \in 0 .. MaxThreads /\ toStart \in 0 .. ThreadNum
    BY DEF Init
  <2>2. pc \in [Worker -> {"none", "lock", "wait", "blocked", "take", "run",
                          "stopped", "exit"}]
    BY DEF Init
  <2> QED
    BY <2>1, <2>2 DEF Init, TypeOK
<1>2. MutexHeld /\ WaitJustified /\ NotStarted /\ JobHeld
  BY DEF Init, MutexHeld, WaitJustified, NotStarted, JobHeld
<1>3. CondBlocked /\ StopReachesAll
  BY DEF Init, CondBlocked, StopReachesAll
<1> QED
  BY <1>1, <1>2, <1>3 DEF IInv

(* Every step of every thread preserves it. *)
LEMMA NextIInv == IInv /\ [Next]_vars => IInv'
<1> SUFFICES ASSUME IInv, [Next]_vars PROVE IInv'
  OBVIOUS
<1> USE DEF IInv, TypeOK, MutexHeld, WaitJustified, CondBlocked, NotStarted,
            JobHeld, StopReachesAll
<1>1. ASSUME NEW j \in Job, addJob(j) PROVE IInv'
  <2>1. cond_' \subseteq cond_ /\ (cond_ = {} => cond_' = {})
    BY <1>1, NotifyBounds DEF addJob
  <2>2. queue_' \in Seq(Job)
    BY <1>1 DEF addJob
  <2>3. \A w \in Worker : pc[w] # "wait"
    BY <1>1 DEF addJob
  <2> QED
    BY <1>1, <2>1, <2>2, <2>3 DEF addJob
<1>2. CASE OwnerStop
  <2>1. mutex_ = Nobody /\ running_' = FALSE /\ cond_' = {}
    BY <1>2, StopEffect DEF OwnerStop
  <2>2. \A w \in Worker : pc[w] # "wait"
    BY <2>1
  <2> QED
    BY <1>2, <2>1, <2>2 DEF OwnerStop
<1>3. CASE commence
  BY <1>3 DEF commence
<1>4. CASE StartThread
  BY <1>4, SMTT(60) DEF StartThread
<1>5. CASE Destroy
  BY <1>5 DEF Destroy
<1>6. CASE Join
  BY <1>6 DEF Join
<1>7. ASSUME NEW w \in Worker, LockAndTest(w) PROVE IInv'
  BY <1>7 DEF LockAndTest
<1>8. ASSUME NEW w \in Worker, Wait(w) PROVE IInv'
  BY <1>8 DEF Wait, wait
<1>9. ASSUME NEW w \in Worker, Break(w) PROVE IInv'
  BY <1>9 DEF Break
<1>10. ASSUME NEW w \in Worker, Take(w) PROVE IInv'
  <2>1. cond_' \subseteq cond_
    BY <1>10, NotifyBounds DEF Take
  <2>2. queue_' \in Seq(Job) /\ Head(queue_) \in Job
    BY <1>10 DEF Take
  <2>3. \A v \in Worker : pc[v] # "wait"
    BY <1>10 DEF Take
  <2>4. running_' = running_ /\ running_
    BY <1>10 DEF Take
  <2>5. TypeOK'
    BY <1>10, <2>1, <2>2 DEF Take
  <2>6. (MutexHeld /\ WaitJustified /\ NotStarted)'
    BY <1>10, <2>3 DEF Take
  <2>7. (JobHeld /\ CondBlocked)'
    BY <1>10, <2>1, <2>2 DEF Take
  <2>8. StopReachesAll'
    BY <2>4
  <2> QED
    BY <2>5, <2>6, <2>7, <2>8
<1>11. ASSUME NEW w \in Worker, TakeNothing(w) PROVE IInv'
  BY <1>11 DEF TakeNothing
<1>12. ASSUME NEW w \in Worker, RunStop(w) PROVE IInv'
  <2>1. mutex_ = Nobody /\ running_' = FALSE /\ cond_' = {}
    BY <1>12, StopEffect DEF RunStop
  <2>2. \A v \in Worker : pc[v] # "wait"
    BY <2>1
  <2> QED
    BY <1>12, <2>1, <2>2 DEF RunStop
<1>13. ASSUME NEW w \in Worker, Finish(w) PROVE IInv'
  BY <1>13 DEF Finish
<1>14. ASSUME NEW w \in Worker, Spurious(w) PROVE IInv'
  BY <1>14 DEF Spurious
<1>15. CASE UNCHANGED vars
  BY <1>15 DEF vars
<1> QED
  BY <1>1, <1>2, <1>3, <1>4, <1>5, <1>6, <1>7, <1>8, <1>9, <1>10, <1>11,
     <1>12, <1>13, <1>14, <1>15 DEF Next, WorkerStep

(* The type invariant, and the facts about the mutex, the condition variable *)
(* and the workers that make it inductive.                                   *)
THEOREM Invariance == Spec => []IInv
BY InitIInv, NextIInv, PTL DEF Spec

(* The state of the pool stays within its types: no worker beyond MaxThreads *)
(* is started, and no commence() starts more than ThreadNum.                 *)
THEOREM TypeOKHolds == Spec => []TypeOK
<1>1. IInv => TypeOK
  BY DEF IInv
<1> QED
  BY <1>1, Invariance, PTL

(* A stopped queue has no worker blocked in takeJob(), whatever the          *)
(* interleaving of stop(), commence() and the workers.                       *)
THEOREM StopReachesAllHolds == Spec => []StopReachesAll
<1>1. IInv => StopReachesAll
  BY DEF IInv
<1> QED
  BY <1>1, Invariance, PTL
-----------------------------------------------------------------------------
(* No lost wake-up.                                                          *)

(* The awake workers can be counted ... *)
LEMMA AwakeFinite == IsFiniteSet(Awake) /\ Cardinality(Awake) \in Nat
<1>1. IsFiniteSet(Worker)
  BY FS_Interval
<1>2. Awake \subseteq Worker
  BY DEF Awake
<1> QED
  BY <1>1, <1>2, FS_Subset, FS_CardinalityType

(* ... before and after a step. *)
LEMMA AwakeFiniteNext == IsFiniteSet(Awake') /\ Cardinality(Awake') \in Nat
<1>1. IsFiniteSet(Worker)
  BY FS_Interval
<1>2. Awake' \subseteq Worker
  BY DEF Awake
<1> QED
  BY <1>1, <1>2, FS_Subset, FS_CardinalityType

(* A step that adds no job and puts nobody to sleep keeps the property.      *)
LEMMA MoreAwake ==
    ASSUME NoLostWakeup, queue_' = queue_, cond_' \subseteq cond_,
           Awake \subseteq Awake'
    PROVE  NoLostWakeup'
<1>1. Cardinality(Awake) <= Cardinality(Awake')
  BY AwakeFiniteNext, FS_Subset
<1> QED
  BY <1>1, AwakeFinite, AwakeFiniteNext DEF NoLostWakeup

(* Every step preserves it: addJob() and takeJob() wake as many as they owe. *)
LEMMA NextNoLostWakeup ==
    ASSUME IInv, NoLostWakeup, [Next]_vars PROVE NoLostWakeup'
<1> USE DEF IInv, TypeOK, CondBlocked
<1>1. ASSUME NEW j \in Job, addJob(j) PROVE NoLostWakeup'
  <2>1. CASE cond_ = {}
    BY <1>1, <2>1, NotifyBounds DEF addJob, NoLostWakeup
  <2>2. CASE cond_ # {}
    <3>1. PICK t \in cond_ : cond_' = cond_ \ {t}
      BY <1>1, <2>2 DEF addJob, notify
    <3>2. Awake' = Awake \cup {t} /\ t \notin Awake
      BY <1>1, <3>1 DEF addJob, Awake
    <3>3. Cardinality(Awake') = Cardinality(Awake) + 1
      BY <3>2, AwakeFinite, FS_AddElement
    <3>4. Len(queue_') = Len(queue_) + 1 /\ Len(queue_) \in Nat
      BY <1>1 DEF addJob
    <3> QED
      BY <2>2, <3>3, <3>4, AwakeFinite DEF NoLostWakeup
  <2> QED
    BY <2>1, <2>2
<1>2. ASSUME stop PROVE NoLostWakeup'
  BY <1>2, StopEffect DEF NoLostWakeup
<1>3. ASSUME NEW w \in Worker, LockAndTest(w) PROVE NoLostWakeup'
  <2>1. CASE queue_ = <<>>
    BY <1>3, <2>1, AwakeFiniteNext DEF LockAndTest, NoLostWakeup
  <2>2. CASE queue_ # <<>>
    <3>1. Awake \subseteq Awake'
      BY <1>3, <2>2 DEF LockAndTest, Awake
    <3> QED
      BY <1>3, <3>1, MoreAwake DEF LockAndTest
  <2> QED
    BY <2>1, <2>2
<1>4. ASSUME NEW w \in Worker, Wait(w) PROVE NoLostWakeup'
  <2>1. queue_' = <<>>
    BY <1>4 DEF Wait, WaitJustified
  <2> QED
    BY <2>1, AwakeFiniteNext DEF NoLostWakeup
<1>5. ASSUME NEW w \in Worker, Break(w) PROVE NoLostWakeup'
  BY <1>5 DEF Break, StopReachesAll, NoLostWakeup
<1>6. ASSUME NEW w \in Worker, Take(w) PROVE NoLostWakeup'
  <2>1. CASE queue_' = <<>>
    BY <2>1, AwakeFiniteNext DEF NoLostWakeup
  <2>2. CASE queue_' # <<>> /\ cond_ = {}
    BY <1>6, <2>2, NotifyBounds DEF Take, NoLostWakeup
  <2>3. CASE queue_' # <<>> /\ cond_ # {}
    <3>1. PICK t \in cond_ : cond_' = cond_ \ {t}
      BY <1>6, <2>3 DEF Take, notify
    <3>2. w \in Awake /\ t \notin Awake /\ t # w
      BY <1>6, <3>1 DEF Take, Awake
    <3>3. Awake' = (Awake \ {w}) \cup {t}
      BY <1>6, <3>1, <3>2 DEF Take, Awake
    <3>4. IsFiniteSet(Awake \ {w}) /\ Cardinality(Awake \ {w}) = Cardinality(Awake) - 1
      BY <3>2, AwakeFinite, FS_RemoveElement
    <3>5. Cardinality(Awake') = Cardinality(Awake \ {w}) + 1
      <4>1. t \notin Awake \ {w}
        BY <3>2
      <4> QED
        BY <3>3, <3>4, <4>1, FS_AddElement
    <3>6. Len(queue_') = Len(queue_) - 1 /\ Len(queue_) \in Nat
      BY <1>6 DEF Take
    <3> QED
      BY <2>3, <3>4, <3>5, <3>6, AwakeFinite DEF NoLostWakeup
  <2> QED
    BY <2>1, <2>2, <2>3
<1>7. ASSUME NEW w \in Worker, TakeNothing(w) \/ Finish(w) \/ Spurious(w)
      PROVE NoLostWakeup'
  <2>1. queue_' = queue_ /\ cond_' \subseteq cond_
    BY <1>7 DEF TakeNothing, Finish, Spurious
  <2>2. Awake \subseteq Awake'
    BY <1>7 DEF TakeNothing, Finish, Spurious, Awake
  <2> QED
    BY <2>1, <2>2, MoreAwake
<1>8. ASSUME commence \/ StartThread \/ Destroy \/ Join \/ UNCHANGED vars
      PROVE NoLostWakeup'
  <2>1. queue_' = queue_ /\ cond_' = cond_
    BY <1>8 DEF commence, StartThread, Destroy, Join, vars
  <2>2. Awake \subseteq Awake'
    BY <1>8 DEF commence, StartThread, Destroy, Join, vars, Awake, NotStarted
  <2> QED
    BY <2>1, <2>2, MoreAwake
<1> QED
  BY <1>1, <1>2, <1>3, <1>4, <1>5, <1>6, <1>7, <1>8
  DEF Next, WorkerStep, OwnerStop, RunStop

(* While a worker sleeps, each queued job has an awake worker of its own,    *)
(* for any number of workers and jobs.                                       *)
THEOREM NoLostWakeupHolds == Spec => []NoLostWakeup
<1>1. Init => NoLostWakeup
  BY DEF Init, NoLostWakeup
<1>2. IInv /\ NoLostWakeup /\ [Next]_vars => NoLostWakeup'
  BY NextNoLostWakeup
<1> QED
  BY <1>1, <1>2, Invariance, PTL DEF Spec
-----------------------------------------------------------------------------
(* Each job has one place.                                                   *)

Busy == {v \in Worker : pc[v] \in {"run", "stopped"}}

(* The running jobs are those of the busy workers. *)
LEMMA ExecutingBusy == Executing = {job[w] : w \in Busy}
BY DEF Executing, Busy

(* Steps that move no job.                                                   *)
LEMMA SamePlaces ==
    ASSUME OnePlace, queue_' = queue_, job' = job, finished' = finished,
           Executing' = Executing
    PROVE  OnePlace'
BY DEF OnePlace

(* Jobs move from place to place and are never copied. *)
LEMMA NextOnePlace ==
    ASSUME IInv, OnePlace, [Next]_vars PROVE OnePlace'
<1> USE DEF IInv, TypeOK
<1>1. ASSUME NEW j \in Job, addJob(j) PROVE OnePlace'
  <2>1. Executing' = Executing /\ job' = job /\ finished' = finished
    BY <1>1 DEF addJob, Executing
  <2>2. /\ Len(queue_) \in Nat
        /\ DOMAIN queue_ = 1 .. Len(queue_)
        /\ DOMAIN queue_' = 1 .. Len(queue_) + 1
        /\ \A i \in 1 .. Len(queue_) : queue_'[i] = queue_[i]
        /\ queue_'[Len(queue_) + 1] = j
    BY <1>1 DEF addJob
  <2>3. /\ \A i \in DOMAIN queue_ : queue_[i] # j
        /\ j \notin Executing \cup finished
    BY <1>1 DEF addJob, Fresh
  <2>4. \A i, k \in DOMAIN queue_' : queue_'[i] = queue_'[k] => i = k
    BY <2>2, <2>3 DEF OnePlace
  <2>5. \A i \in DOMAIN queue_' : queue_'[i] \notin finished \cup Executing
    BY <2>2, <2>3 DEF OnePlace
  <2> QED
    BY <2>1, <2>4, <2>5 DEF OnePlace
<1>2. ASSUME NEW w \in Worker, Take(w) PROVE OnePlace'
  <2> DEFINE h == Head(queue_)
  <2>1. /\ Len(queue_) \in Nat \ {0}
        /\ DOMAIN queue_ = 1 .. Len(queue_)
        /\ DOMAIN queue_' = 1 .. Len(queue_) - 1
        /\ \A i \in 1 .. Len(queue_) - 1 : queue_'[i] = queue_[i + 1]
        /\ h = queue_[1] /\ h \in Job
    BY <1>2 DEF Take
  <2>2. Executing' = Executing \cup {h} /\ finished' = finished
    <3>1. Busy' = Busy \cup {w} /\ w \notin Busy
      BY <1>2 DEF Take, Busy
    <3>2. job'[w] = h /\ \A v \in Busy : job'[v] = job[v]
      BY <1>2, <3>1 DEF Take, Busy
    <3> QED
      BY <1>2, <3>1, <3>2, ExecutingBusy DEF Take, Executing, Busy
  <2>3. \A i \in DOMAIN queue_' : queue_'[i] # h
    BY <2>1, SMTT(60) DEF OnePlace
  <2>4. \A i, k \in DOMAIN queue_' : queue_'[i] = queue_'[k] => i = k
    <3>1. SUFFICES ASSUME NEW i \in DOMAIN queue_', NEW k \in DOMAIN queue_',
                          queue_[i + 1] = queue_[k + 1]
                   PROVE  i = k
      BY <2>1
    <3>2. i \in Nat /\ k \in Nat /\ i + 1 \in DOMAIN queue_ /\ k + 1 \in DOMAIN queue_
      BY <2>1
    <3>3. i + 1 = k + 1
      BY <3>1, <3>2 DEF OnePlace
    <3> QED
      BY <3>2, <3>3
  <2>5. \A v \in Worker : job[v] # h
    BY <2>1 DEF OnePlace, Executing, JobHeld
  <2>6. \A u, v \in Worker : job'[u] = job'[v] => u = v \/ job'[v] = NoJob
    BY <1>2, <2>5 DEF Take, OnePlace
  <2>7. \A i \in DOMAIN queue_' : queue_'[i] \notin finished' \cup Executing'
    BY <2>1, <2>2, <2>3, SMTT(60) DEF OnePlace
  <2>8. Executing' \cap finished' = {}
    BY <2>1, <2>2 DEF OnePlace
  <2> QED
    BY <2>4, <2>6, <2>7, <2>8 DEF OnePlace
<1>3. ASSUME NEW w \in Worker, Finish(w) PROVE OnePlace'
  <2>1. Executing' = Executing \ {job[w]}
    BY <1>3 DEF Finish, Executing, OnePlace, JobHeld
  <2>2. job[w] \in Executing /\ finished' = finished \cup {job[w]} /\ queue_' = queue_
    BY <1>3 DEF Finish, Executing
  <2>3. \A u, v \in Worker : job'[u] = job'[v] => u = v \/ job'[v] = NoJob
    BY <1>3 DEF Finish, OnePlace
  <2> QED
    BY <2>1, <2>2, <2>3 DEF OnePlace
<1>4. ASSUME NEW w \in Worker, LockAndTest(w) \/ Wait(w) \/ Break(w) \/ TakeNothing(w)
                                 \/ RunStop(w) \/ Spurious(w)
      PROVE  OnePlace'
  <2>1. queue_' = queue_ /\ job' = job /\ finished' = finished
    BY <1>4 DEF LockAndTest, Wait, Break, TakeNothing, RunStop, Spurious
  <2>2. Executing' = Executing
    <3>1. Busy' = Busy
      BY <1>4 DEF LockAndTest, Wait, Break, TakeNothing, RunStop, Spurious, Busy
    <3> QED
      BY <2>1, <3>1 DEF Executing, Busy
  <2> QED
    BY <2>1, <2>2, SamePlaces
<1>5. ASSUME OwnerStop \/ commence \/ StartThread \/ Destroy \/ Join \/ UNCHANGED vars
      PROVE  OnePlace'
  <2>1. queue_' = queue_ /\ job' = job /\ finished' = finished
    BY <1>5 DEF OwnerStop, commence, StartThread, Destroy, Join, vars
  <2>2. Executing' = Executing
    <3>1. CASE StartThread
      <4>1. pc[threads_ + 1] = "none" /\ threads_ + 1 \in Worker
        BY <3>1 DEF StartThread, NotStarted
      <4>2. Busy' = Busy
        BY <3>1, <4>1 DEF StartThread, Busy
      <4> QED
        BY <2>1, <4>2 DEF Executing, Busy
    <3>2. CASE OwnerStop \/ commence \/ Destroy \/ Join \/ UNCHANGED vars
      <4>1. pc' = pc
        BY <3>2 DEF OwnerStop, commence, Destroy, Join, vars
      <4> QED
        BY <2>1, <4>1 DEF Executing
    <3> QED
      BY <1>5, <3>1, <3>2
  <2> QED
    BY <2>1, <2>2, SamePlaces
<1> QED
  BY <1>1, <1>2, <1>3, <1>4, <1>5 DEF Next, WorkerStep

(* A job is in the queue, at one worker, or in the past, never in two of     *)
(* them: no job is run twice and none is run by two workers.                 *)
THEOREM OnePlaceHolds == Spec => []OnePlace
<1>1. Init => OnePlace
  BY DEF Init, OnePlace, Executing
<1>2. IInv /\ OnePlace /\ [Next]_vars => OnePlace'
  BY NextOnePlace
<1> QED
  BY <1>1, <1>2, Invariance, PTL DEF Spec

-----------------------------------------------------------------------------
(* Jobs have workers.                                                        *)

(* The workers of the last commence() that have ended. *)
RoundExits ==
    {w \in Worker : w > threads_ + toStart - ThreadNum /\ pc[w] = "exit"}

Broken == finished \cap BreakJob

(* While the queue runs, each of them has thrown a QueueBreak of its own.    *)
RoundInv ==
    /\ IsFiniteSet(finished)
    /\ \A w \in Worker : w <= threads_ => pc[w] # "none"
    /\ running_ => /\ threads_ + toStart >= ThreadNum
                   /\ Cardinality(RoundExits) <= Cardinality(Broken)

(* Sets that are counted: some workers, and some of the finished jobs. *)
LEMMA WorkersFinite ==
    ASSUME NEW S \in SUBSET Worker
    PROVE  IsFiniteSet(S) /\ Cardinality(S) \in Nat
<1>1. IsFiniteSet(Worker)
  BY FS_Interval
<1> QED
  BY <1>1, FS_Subset, FS_CardinalityType

LEMMA BrokenFinite ==
    ASSUME NEW S, IsFiniteSet(S)
    PROVE  IsFiniteSet(S \cap BreakJob) /\ Cardinality(S \cap BreakJob) \in Nat
BY FS_Subset, FS_CardinalityType

(* What one more member adds to a set. *)
LEMMA OneMore ==
    ASSUME NEW S, IsFiniteSet(S), NEW x
    PROVE  Cardinality(S \cup {x}) <= Cardinality(S) + 1
<1>1. Cardinality(S) \in Nat
  BY FS_CardinalityType
<1>2. Cardinality(S \cup {x}) = IF x \in S THEN Cardinality(S) ELSE Cardinality(S) + 1
  BY FS_AddElement
<1>3. ASSUME NEW m \in Nat, NEW n, n = m \/ n = m + 1 PROVE n <= m + 1
  BY <1>3
<1>4. Cardinality(S \cup {x}) = Cardinality(S) \/ Cardinality(S \cup {x}) = Cardinality(S) + 1
  BY <1>2
<1> QED
  BY <1>1, <1>3, <1>4, Zenon

(* Steps that end no worker of the round keep the property. *)
LEMMA SameRound ==
    ASSUME RoundInv, finished' = finished, RoundExits' = RoundExits,
           running_' => running_, threads_' + toStart' = threads_ + toStart,
           (\A w \in Worker : w <= threads_ => pc[w] # "none")'
    PROVE  RoundInv'
BY DEF RoundInv, Broken

LEMMA NextRoundInv ==
    ASSUME IInv, OnePlace, RoundInv, [Next]_vars PROVE RoundInv'
<1> USE DEF IInv, TypeOK
<1>1. CASE commence
  <2>1. RoundExits' = {}
    BY <1>1 DEF commence, RoundExits, NotStarted
  <2>2. Cardinality(Broken') \in Nat
    BY <1>1, BrokenFinite DEF commence, RoundInv, Broken
  <2> QED
    BY <1>1, <2>1, <2>2, FS_EmptySet DEF commence, RoundInv
<1>2. CASE StartThread
  <2>1. RoundExits' = RoundExits
    BY <1>2 DEF StartThread, RoundExits, NotStarted
  <2>2. (\A w \in Worker : w <= threads_ => pc[w] # "none")'
    BY <1>2 DEF StartThread, RoundInv
  <2> QED
    BY <1>2, <2>1, <2>2, SameRound DEF StartThread
<1>3. ASSUME NEW w \in Worker, Finish(w) PROVE RoundInv'
  <2>1. (\A v \in Worker : v <= threads_ => pc[v] # "none")'
    BY <1>3 DEF Finish, RoundInv
  <2>2. IsFiniteSet(finished')
    BY <1>3, FS_AddElement DEF Finish, RoundInv
  <2>3. job[w] \in Job /\ job[w] \notin finished
    <3>1. job[w] \in Executing
      BY <1>3 DEF Finish, Executing
    <3> QED
      BY <1>3, <3>1 DEF Finish, OnePlace, JobHeld
  <2>4. CASE job[w] \notin BreakJob
    <3>1. RoundExits' = RoundExits /\ Broken' = Broken
      BY <1>3, <2>4 DEF Finish, RoundExits, Broken
    <3> QED
      BY <1>3, <2>1, <2>2, <3>1 DEF Finish, RoundInv
  <2>5. CASE job[w] \in BreakJob
    <3>1. Broken' = Broken \cup {job[w]} /\ job[w] \notin Broken
      BY <1>3, <2>3, <2>5 DEF Finish, Broken
    <3>2. Cardinality(Broken') = Cardinality(Broken) + 1
      BY <3>1, BrokenFinite, FS_AddElement DEF RoundInv, Broken
    <3>3. RoundExits' \subseteq RoundExits \cup {w}
      BY <1>3, <2>5 DEF Finish, RoundExits
    <3>4. Cardinality(RoundExits') <= Cardinality(RoundExits) + 1
      <4>1. RoundExits \in SUBSET Worker /\ RoundExits \cup {w} \in SUBSET Worker
        BY DEF RoundExits
      <4>2. IsFiniteSet(RoundExits) /\ Cardinality(RoundExits) \in Nat
        BY <4>1, WorkersFinite
      <4>3. Cardinality(RoundExits \cup {w}) <= Cardinality(RoundExits) + 1
        BY <4>2, OneMore
      <4>4. Cardinality(RoundExits') <= Cardinality(RoundExits \cup {w})
        BY <3>3, <4>1, WorkersFinite, FS_Subset
      <4>5. RoundExits' \in SUBSET Worker
        BY <3>3, <4>1
      <4> QED
        BY <4>1, <4>2, <4>3, <4>4, <4>5, WorkersFinite
    <3>5. Cardinality(RoundExits) \in Nat /\ Cardinality(RoundExits') \in Nat
      <4>1. RoundExits \in SUBSET Worker /\ RoundExits' \in SUBSET Worker
        BY DEF RoundExits
      <4> QED
        BY <4>1, WorkersFinite
    <3>6. Cardinality(Broken) \in Nat
      BY BrokenFinite DEF RoundInv, Broken
    <3> QED
      BY <1>3, <2>1, <2>2, <3>2, <3>4, <3>5, <3>6 DEF Finish, RoundInv
  <2> QED
    BY <2>4, <2>5
<1>4. ASSUME NEW w \in Worker, Break(w) PROVE RoundInv'
  BY <1>4 DEF Break, RoundInv
<1>5. ASSUME NEW w \in Worker, LockAndTest(w) \/ Wait(w) \/ Take(w) \/ TakeNothing(w)
                                 \/ RunStop(w) \/ Spurious(w)
      PROVE  RoundInv'
  <2>1. /\ finished' = finished /\ threads_' = threads_ /\ toStart' = toStart
        /\ running_' => running_
    BY <1>5 DEF LockAndTest, Wait, Take, TakeNothing, RunStop, Spurious, stop
  <2>2. \A v \in Worker : /\ pc'[v] = "exit" <=> pc[v] = "exit"
                          /\ pc[v] # "none" => pc'[v] # "none"
    BY <1>5 DEF LockAndTest, Wait, Take, TakeNothing, RunStop, Spurious
  <2>3. RoundExits' = RoundExits
    BY <2>1, <2>2 DEF RoundExits
  <2> QED
    BY <2>1, <2>2, <2>3, SameRound DEF RoundInv
<1>6. ASSUME OwnerStop \/ Destroy \/ Join \/ UNCHANGED vars
               \/ (\E j \in Job : addJob(j))
      PROVE  RoundInv'
  <2>1. /\ finished' = finished /\ threads_' = threads_ /\ toStart' = toStart
        /\ running_' => running_
        /\ pc' = pc
    BY <1>6 DEF OwnerStop, Destroy, Join, vars, addJob, stop
  <2>2. RoundExits' = RoundExits
    BY <2>1 DEF RoundExits
  <2> QED
    BY <2>1, <2>2, SameRound DEF RoundInv
<1> QED
  BY <1>1, <1>2, <1>3, <1>4, <1>5, <1>6 DEF Next, WorkerStep

(* A running queue is left without workers by QueueBreaks only, and by no    *)
(* fewer than one commence() starts threads, for any number of commence()    *)
(* calls and of workers.                                                     *)
THEOREM JobsHaveWorkersHolds == Spec => []JobsHaveWorkers
<1>1. Init => RoundInv
  BY FS_EmptySet DEF Init, RoundInv
<1>2. IInv /\ OnePlace /\ RoundInv /\ [Next]_vars => RoundInv'
  BY NextRoundInv
<1>3. IInv /\ RoundInv => JobsHaveWorkers
  <2> SUFFICES ASSUME IInv, RoundInv, running_, Cardinality(Broken) < ThreadNum,
                      toStart = 0, \A w \in Worker : pc[w] \in {"none", "exit"}
               PROVE  FALSE
    BY DEF JobsHaveWorkers, Broken, IInv, TypeOK
  <2> DEFINE round == threads_ - ThreadNum + 1 .. threads_
  <2>1. threads_ \in 0 .. MaxThreads /\ threads_ >= ThreadNum
    BY DEF IInv, TypeOK, RoundInv
  <2>2. Cardinality(round) = ThreadNum
    BY <2>1, FS_Interval
  <2>3. round \subseteq RoundExits
    BY <2>1 DEF RoundExits, RoundInv
  <2>4. RoundExits \in SUBSET Worker
    BY DEF RoundExits
  <2>5. Cardinality(round) <= Cardinality(RoundExits)
    BY <2>3, <2>4, WorkersFinite, FS_Subset
  <2>6. Cardinality(RoundExits) \in Nat /\ Cardinality(Broken) \in Nat
    BY <2>4, WorkersFinite, BrokenFinite DEF RoundInv, Broken
  <2> QED
    BY <2>2, <2>5, <2>6 DEF RoundInv
<1> QED
  BY <1>1, <1>2, <1>3, OnePlaceHolds, Invariance, PTL DEF Spec
-----------------------------------------------------------------------------
(* The pool implements JobQueue.                                             *)

(* A new queue is a new abstract queue. *)
LEMMA InitImplements == Init => Promise!Init
BY DEF Init, Promise!Init, Executing

(* Every step of the pool is a step of the abstract queue, or none. *)
LEMMA NextImplements ==
    ASSUME IInv, OnePlace, [Next]_vars PROVE [Promise!Next]_(Promise!vars)
<1> USE DEF IInv, TypeOK, Promise!vars
<1>1. ASSUME NEW j \in Job, addJob(j) PROVE Promise!Submit(j)
  BY <1>1 DEF addJob, Fresh, Promise!Submit, Executing
<1>2. ASSUME NEW w \in Worker, Take(w) PROVE Promise!Dispatch
  <2>1. Executing' = Executing \cup {Head(queue_)}
    <3>1. Busy' = Busy \cup {w} /\ w \notin Busy
      BY <1>2 DEF Take, Busy
    <3>2. job'[w] = Head(queue_) /\ \A v \in Busy : job'[v] = job[v]
      BY <1>2, <3>1 DEF Take, Busy
    <3> QED
      BY <1>2, <3>1, <3>2, ExecutingBusy DEF Take, Executing, Busy
  <2> QED
    BY <1>2, <2>1 DEF Take, Promise!Dispatch
<1>3. ASSUME NEW w \in Worker, Finish(w) PROVE \E j \in Job : Promise!Complete(j)
  <2>1. Executing' = Executing \ {job[w]} /\ job[w] \in Executing /\ job[w] \in Job
    BY <1>3 DEF Finish, Executing, OnePlace, JobHeld
  <2>2. Promise!Complete(job[w])
    BY <1>3, <2>1 DEF Finish, Promise!Complete
  <2> QED
    BY <2>1, <2>2
<1>4. ASSUME commence PROVE Promise!Open
  BY <1>4 DEF commence, Promise!Open, Executing
<1>5. ASSUME stop, queue_' = queue_, finished' = finished, Executing' = Executing
      PROVE  Promise!Close \/ UNCHANGED Promise!vars
  <2>1. CASE running_
    BY <1>5, <2>1 DEF stop, Promise!Close
  <2>2. CASE ~running_
    BY <1>5, <2>2 DEF stop
  <2> QED
    BY <2>1, <2>2
<1>6. CASE OwnerStop
  BY <1>5, <1>6 DEF OwnerStop, Executing, Promise!Next
<1>7. ASSUME NEW w \in Worker, RunStop(w) PROVE [Promise!Next]_(Promise!vars)
  <2>1. stop /\ queue_' = queue_ /\ finished' = finished /\ job' = job
    BY <1>7 DEF RunStop
  <2>2. Busy' = Busy
    BY <1>7 DEF RunStop, Busy
  <2>3. Executing' = Executing
    BY <2>1, <2>2 DEF Executing, Busy
  <2> QED
    BY <1>5, <2>1, <2>3 DEF Promise!Next
<1>8. ASSUME NEW w \in Worker, LockAndTest(w) \/ Wait(w) \/ Break(w) \/ TakeNothing(w)
                                 \/ Spurious(w)
      PROVE  UNCHANGED Promise!vars
  <2>1. UNCHANGED <<queue_, running_, finished, job>>
    BY <1>8 DEF LockAndTest, Wait, Break, TakeNothing, Spurious
  <2>2. Busy' = Busy
    BY <1>8 DEF LockAndTest, Wait, Break, TakeNothing, Spurious, Busy
  <2> QED
    BY <2>1, <2>2 DEF Executing, Busy
<1>9. ASSUME StartThread \/ Destroy \/ Join \/ UNCHANGED vars
      PROVE  UNCHANGED Promise!vars
  BY <1>9 DEF StartThread, Destroy, Join, vars, Executing, NotStarted
<1> QED
  BY <1>1, <1>2, <1>3, <1>4, <1>6, <1>7, <1>8, <1>9
  DEF Next, WorkerStep, Promise!Next

(* The pool of threads implements the abstract queue: jobs are started in    *)
(* the order they were added, once each, and only between commence() and     *)
(* stop().                                                                   *)
THEOREM ImplementsSafelyHolds == Spec => ImplementsSafely
<1>1. [](IInv /\ OnePlace) /\ [][Next]_vars => [][Promise!Next]_(Promise!vars)
  <2>1. IInv /\ OnePlace /\ [Next]_vars => [Promise!Next]_(Promise!vars)
    BY NextImplements
  <2> QED
    BY <2>1, PTL
<1> QED
  BY <1>1, InitImplements, Invariance, OnePlaceHolds, PTL
  DEF Spec, ImplementsSafely, Promise!SafeSpec
-----------------------------------------------------------------------------
(* The empty function.                                                       *)

(* A worker that has passed the loop test with nothing to take passed it on  *)
(* a stopped queue: that it is open means that it was commenced since.       *)
Reopened ==
    \A w \in Worker : pc[w] = "take" /\ queue_ = <<>> /\ running_ =>
        threads_ + toStart > ThreadNum

(* Every step preserves it. *)
LEMMA NextReopened == ASSUME IInv, Reopened, [Next]_vars PROVE Reopened'
<1> USE DEF IInv, TypeOK
<1>1. CASE commence
  <2>1. threads_' + toStart' = threads_ + ThreadNum /\ UNCHANGED pc
    BY <1>1 DEF commence
  <2>2. \A w \in Worker : pc[w] = "take" => threads_ > 0
    BY DEF NotStarted
  <2> QED
    BY <2>1, <2>2 DEF Reopened
<1>2. CASE StartThread
  <2>1. threads_' + toStart' = threads_ + toStart /\ UNCHANGED <<queue_, running_>>
    BY <1>2 DEF StartThread
  <2>2. \A w \in Worker : pc'[w] = "take" => pc[w] = "take"
    BY <1>2 DEF StartThread
  <2> QED
    BY <2>1, <2>2 DEF Reopened
<1>3. ASSUME NEW w \in Worker, LockAndTest(w) PROVE Reopened'
  <2>1. UNCHANGED <<queue_, running_, threads_, toStart>>
    BY <1>3 DEF LockAndTest
  <2>2. \A v \in Worker : pc'[v] = "take" =>
            pc[v] = "take" \/ ~(queue_ = <<>> /\ running_)
    BY <1>3 DEF LockAndTest
  <2> QED
    BY <2>1, <2>2 DEF Reopened
<1>4. ASSUME NEW w \in Worker, Take(w) PROVE Reopened'
  <2>1. \A v \in Worker : pc'[v] # "take"
    BY <1>4 DEF Take, MutexHeld
  <2> QED
    BY <2>1 DEF Reopened
<1>5. ASSUME NEW j \in Job, addJob(j) PROVE Reopened'
  <2>1. queue_' # <<>>
    BY <1>5 DEF addJob
  <2> QED
    BY <2>1 DEF Reopened
<1>6. ASSUME stop, UNCHANGED <<queue_, threads_, toStart>>,
             \A w \in Worker : pc'[w] = "take" => pc[w] = "take"
      PROVE  Reopened'
  <2>1. running_' => running_
    BY <1>6 DEF stop
  <2> QED
    BY <1>6, <2>1 DEF Reopened
<1>7. CASE OwnerStop
  BY <1>6, <1>7 DEF OwnerStop
<1>8. ASSUME NEW w \in Worker, RunStop(w) PROVE Reopened'
  BY <1>6, <1>8 DEF RunStop
<1>9. ASSUME NEW w \in Worker,
             Wait(w) \/ Break(w) \/ TakeNothing(w) \/ Finish(w) \/ Spurious(w)
      PROVE  Reopened'
  <2>1. UNCHANGED <<queue_, running_, threads_, toStart>>
    BY <1>9 DEF Wait, Break, TakeNothing, Finish, Spurious
  <2>2. \A v \in Worker : pc'[v] = "take" => pc[v] = "take"
    BY <1>9 DEF Wait, Break, TakeNothing, Finish, Spurious
  <2> QED
    BY <2>1, <2>2 DEF Reopened
<1>10. CASE Destroy \/ Join \/ UNCHANGED vars
  BY <1>10 DEF Destroy, Join, vars, Reopened
<1> QED
  BY <1>1, <1>2, <1>3, <1>4, <1>5, <1>7, <1>8, <1>9, <1>10 DEF Next, WorkerStep

(* runInThread() gets the empty function only in a queue that was commenced  *)
(* a second time, for any number of workers.                                 *)
THEOREM EmptyHandOnlyAfterRestartHolds == Spec => EmptyHandOnlyAfterRestart
<1>1. Init => Reopened
  BY DEF Init, Reopened
<1>2. IInv /\ Reopened /\ [Next]_vars => Reopened'
  BY NextReopened
<1>3. Reopened =>
        [\A w \in Worker : TakeNothing(w) => threads_ + toStart > ThreadNum]_vars
  BY DEF Reopened, TakeNothing
<1> QED
  BY <1>1, <1>2, <1>3, Invariance, PTL DEF Spec, EmptyHandOnlyAfterRestart
-----------------------------------------------------------------------------
(* The pool in a program.                                                    *)

(* The jobs that have counted themselves off the latch. *)
Off == {j \in UserJob :
            \/ j \in finished
            \/ \E w \in Worker : job[w] = j /\ at[w] = "reduced"}

(* The latch, with its single waiter. *)
LatchInv ==
    /\ count_ \in Nat
    /\ latchMutex_ \in {"main", "nobody"}
    /\ latchCond_ \subseteq {"main"}
    /\ main \in [{"main"} -> {"before", "lock", "wait", "blocked", "through"}]
    /\ latchMutex_ = "main" <=> main["main"] = "wait"
    /\ main["main"] = "wait" => count_ > 0
    /\ latchCond_ # {} => main["main"] = "blocked"
    /\ main["main"] = "through" => count_ = 0
    /\ count_ = 0 => latchCond_ = {}

Typed ==
    /\ storage \in {"local", "static"} /\ returned \in BOOLEAN
    /\ once_ \in Once /\ made \in Nat /\ t_ \in Nat
    /\ own \in [Worker -> {"none", "live", "freed"}]
    /\ at \in [Worker -> {"called", "routine", "got", "reduced"}]
    /\ got \in [Worker -> Nat]
    /\ ended \subseteq Worker

(* Only a job that is being run has got past its first line. *)
JobStage ==
    \A w \in Worker : at[w] # "called" =>
        /\ pc[w] = "run" /\ job[w] \in UserJob
        /\ at[w] = "routine" => job[w] \in SharedJob

(* pthread_once() and what it protects. *)
OnceInv ==
    /\ once_ # "done" => made = 0 /\ t_ = Null
    /\ once_ = "done" => made = 1 /\ t_ \in {Null, 1} /\ (t_ = Null => returned)
    /\ \A w \in Worker : at[w] = "routine" => once_ = "running"
    /\ \A v, w \in Worker : at[v] = "routine" /\ at[w] = "routine" => v = w
    /\ \A w \in Worker : at[w] = "got" /\ job[w] \in SharedJob =>
           got[w] = 1 /\ once_ = "done"

(* The latch counts the uses that are still to end. *)
Counted == count_ = Cardinality(UserJob \ Off)

(* What main() has waited for when it returns. *)
ReturnedInv ==
    returned => IF storage = "static" THEN main["main"] = "through"
                                      ELSE owner = "gone"

(* Thread-specific objects, and the threads that are joined. *)
EndedInv ==
    /\ owner # "idle" => toStart = 0
    /\ owner = "gone" => \A w \in Worker : w <= threads_ => w \in ended
    /\ \A w \in ended : pc[w] = "exit" /\ own[w] # "live"
    /\ \A w \in Worker : own[w] = "freed" => w \in ended

UsesInv ==
    /\ Typed /\ LatchInv /\ JobStage /\ OnceInv /\ Counted /\ ReturnedInv /\ EndedInv

PInv == IInv /\ OnePlace /\ UsesInv

USE JobAssumption, ThreadAssumption, UserJobAssumption, LatchAssumption
USE DEF Worker, Latch!CountAssumption
-----------------------------------------------------------------------------
(* The queue under this program does only what the queue alone can do.       *)

(* The steps of the queue that end no job and destroy nothing. *)
QueueStep ==
    \/ \E j \in Job : addJob(j)
    \/ OwnerStop \/ commence \/ StartThread
    \/ \E w \in Worker :
           \/ LockAndTest(w) \/ Wait(w) \/ Break(w) \/ Take(w) \/ TakeNothing(w)
           \/ RunStop(w) \/ Spurious(w)

(* A worker that has no job has none that uses an object. *)
LEMMA NoJobIsNoUse == NoJob \notin UserJob
OBVIOUS

(* Each step of the program is a step of the queue, or none of its own. *)
LEMMA StepIsQueueStep ==
    ASSUME [ProgramNext]_allVars PROVE [Next]_vars
<1>1. ASSUME NEW w \in Worker, ThreadStep(w) PROVE [Next]_vars
  BY <1>1 DEF ThreadStep, Work, FirstGet, initRoutine, get, getOwn, reduce,
              FinishJob, pthread_exit, Next, WorkerStep
<1>2. ASSUME NEW w \in Worker, JobAdds(w) \/ QueueSpurious(w) PROVE [Next]_vars
  BY <1>2 DEF JobAdds, QueueSpurious, Next
<1>3. CASE MainOp
  BY <1>3 DEF MainOp, Next
<1>4. CASE MainLatch \/ InLatch \/ LatchSpurious \/ MainReturns \/ destructor
  BY <1>4 DEF MainLatch, InLatch, LatchSpurious, MainReturns, destructor
<1>5. CASE DestroyQueue \/ JoinThreads
  BY <1>5 DEF DestroyQueue, JoinThreads, Next
<1>6. CASE UNCHANGED allVars
  BY <1>6 DEF allVars
<1> QED
  BY <1>1, <1>2, <1>3, <1>4, <1>5, <1>6 DEF ProgramNext

(* Such a step of the queue leaves alone the jobs that are being run, and    *)
(* the threads that are over.                                                *)
LEMMA QueueStepFrame ==
    ASSUME IInv, QueueStep
    PROVE  /\ finished' = finished /\ owner' = owner
           /\ owner # "idle" /\ toStart = 0 => toStart' = 0 /\ threads_' = threads_
           /\ \A v \in Worker : pc[v] = "exit" => pc'[v] = "exit"
           /\ \A v \in Worker : pc[v] = "run" /\ job[v] \in UserJob =>
                  pc'[v] = "run" /\ job'[v] = job[v]
<1> USE DEF IInv, TypeOK
<1>1. ASSUME NEW j \in Job, addJob(j) PROVE UNCHANGED <<finished, owner, toStart, threads_, pc, job>>
  BY <1>1 DEF addJob
<1>2. CASE OwnerStop \/ commence
  BY <1>2 DEF OwnerStop, commence
<1>3. CASE StartThread
  <2>1. threads_ + 1 \in Worker /\ pc[threads_ + 1] = "none"
    BY <1>3 DEF StartThread, NotStarted
  <2>2. \A v \in Worker : pc[v] \in {"run", "exit"} => pc'[v] = pc[v]
    BY <1>3, <2>1 DEF StartThread
  <2>3. UNCHANGED <<finished, owner, job>> /\ toStart # 0
    BY <1>3 DEF StartThread
  <2> QED
    BY <2>2, <2>3
<1>4. ASSUME NEW w \in Worker,
             LockAndTest(w) \/ Wait(w) \/ Break(w) \/ Take(w) \/ TakeNothing(w)
      PROVE  /\ UNCHANGED <<finished, owner, toStart, threads_>>
             /\ pc[w] \in {"lock", "blocked", "wait", "take"}
             /\ \A v \in Worker : v # w => pc'[v] = pc[v] /\ job'[v] = job[v]
  BY <1>4 DEF LockAndTest, Wait, Break, Take, TakeNothing
<1>5. ASSUME NEW w \in Worker, RunStop(w)
      PROVE  /\ UNCHANGED <<finished, owner, toStart, threads_, job>>
             /\ pc[w] = "run" /\ job[w] \in StopJob
             /\ \A v \in Worker : v # w => pc'[v] = pc[v]
  BY <1>5 DEF RunStop
<1>6. ASSUME NEW w \in Worker, Spurious(w)
      PROVE  UNCHANGED <<finished, owner, toStart, threads_, pc, job>>
  BY <1>6 DEF Spurious
<1>7. UserJob \cap StopJob = {}
  OBVIOUS
<1>8. ASSUME NEW w \in Worker,
             LockAndTest(w) \/ Wait(w) \/ Break(w) \/ Take(w) \/ TakeNothing(w)
      PROVE  \A v \in Worker : pc[v] \in {"run", "exit"} => v # w
  BY <1>4, <1>8
<1>9. ASSUME NEW w \in Worker, RunStop(w)
      PROVE  \A v \in Worker : pc[v] = "exit" \/ job[v] \in UserJob => v # w
  BY <1>5, <1>7, <1>9
<1> QED
  BY <1>1, <1>2, <1>3, <1>4, <1>5, <1>6, <1>8, <1>9 DEF QueueStep

(* What the queue does on its own keeps the rest of the invariant.           *)
LEMMA QueueStepUses ==
    ASSUME IInv, UsesInv, QueueStep,
           UNCHANGED <<latchVars, program, singleton, threads>>
    PROVE  UsesInv'
<1> USE DEF latchVars, program, singleton, threads
<1>1. Typed' /\ LatchInv'
  BY DEF UsesInv, Typed, LatchInv, Once, Null
<1>2. JobStage'
  BY QueueStepFrame DEF UsesInv, JobStage
<1>3. OnceInv'
  BY QueueStepFrame DEF UsesInv, OnceInv, JobStage, Typed
<1>4. Off' = Off
  BY QueueStepFrame DEF UsesInv, JobStage, Off
<1>5. Counted'
  BY <1>4 DEF UsesInv, Counted
<1>6. ReturnedInv'
  BY QueueStepFrame DEF UsesInv, ReturnedInv
<1>7. EndedInv'
  BY QueueStepFrame DEF UsesInv, EndedInv, Typed
<1> QED
  BY <1>1, <1>2, <1>3, <1>5, <1>6, <1>7 DEF UsesInv
-----------------------------------------------------------------------------
(* Who may still use what main() leaves behind.                              *)

(* The jobs still to count themselves off are finitely many. *)
LEMMA LeftFinite ==
    /\ IsFiniteSet(UserJob \ Off)
    /\ Cardinality(UserJob \ Off) = 0 => UserJob \ Off = {}
<1>1. IsFiniteSet(UserJob \ Off)
  BY FS_Subset
<1> QED
  BY <1>1, FS_EmptySet

(* When main() has returned no job is at work on an object.                  *)
LEMMA NobodyUses ==
    ASSUME PInv, returned, NEW w \in Worker, pc[w] = "run", job[w] \in UserJob
    PROVE  at[w] = "reduced"
<1> USE DEF PInv, UsesInv
<1>1. CASE storage = "static"
  <2>1. count_ = 0
    BY <1>1 DEF ReturnedInv, LatchInv
  <2>2. UserJob \ Off = {}
    BY <2>1, LeftFinite DEF Counted
  <2>3. job[w] \in Off
    BY <2>2
  <2>4. job[w] \in Executing /\ job[w] \notin finished
    BY DEF Executing, OnePlace
  <2>5. PICK v \in Worker : job[v] = job[w] /\ at[v] = "reduced"
    BY <2>3, <2>4 DEF Off
  <2>6. v = w
    BY <2>5 DEF OnePlace
  <2> QED
    BY <2>5, <2>6
<1>2. CASE storage # "static"
  <2>1. owner = "gone"
    BY <1>2 DEF ReturnedInv
  <2>2. w <= threads_
    BY DEF IInv, NotStarted, TypeOK
  <2>3. pc[w] = "exit"
    BY <2>1, <2>2 DEF EndedInv
  <2> QED
    BY <2>3
<1> QED
  BY <1>1, <1>2
-----------------------------------------------------------------------------
(* The steps of the program.                                                 *)

(* A new program. *)
LEMMA InitPInv == ProgramInit => PInv
<1> SUFFICES ASSUME ProgramInit PROVE PInv
  OBVIOUS
<1>1. IInv /\ OnePlace
  BY InitIInv DEF ProgramInit, Init, OnePlace, Executing
<1>2. Typed /\ JobStage /\ OnceInv /\ ReturnedInv
  BY DEF ProgramInit, Typed, JobStage, OnceInv, ReturnedInv, Once, Null
<1>3. Off = {}
  BY DEF ProgramInit, Init, Off
<1>4. Counted
  BY <1>3 DEF ProgramInit, Latch!Init, Counted
<1>5. LatchInv
  <2>1. count_ \in Nat
    BY <1>3, <1>4, LeftFinite, FS_CardinalityType DEF Counted
  <2> QED
    BY <2>1 DEF ProgramInit, Latch!Init, LatchInv
<1>6. EndedInv
  BY DEF ProgramInit, Init, EndedInv
<1> QED
  BY <1>1, <1>2, <1>4, <1>5, <1>6 DEF PInv, UsesInv

(* main() in the latch. *)
LEMMA LatchSteps ==
    ASSUME PInv, MainLatch \/ InLatch \/ LatchSpurious PROVE UsesInv'
<1> USE DEF PInv, UsesInv
<1>1. UNCHANGED <<vars, count_, program, singleton, threads>>
  BY DEF MainLatch, InLatch, LatchSpurious, Latch!latch, Latch!LockAndTest,
         Latch!Wait, Latch!Spurious
<1>2. LatchInv' /\ (main["main"] = "through" => main'["main"] = "through")
  <2> USE DEF LatchInv
  <2>1. CASE Latch!latch("main")
    BY <2>1 DEF Latch!latch
  <2>2. CASE Latch!LockAndTest("main")
    <3>0. latchCond_ = {} /\ latchCond_' = {} /\ count_' = count_ /\ main["main"] # "through"
      BY <2>2 DEF Latch!LockAndTest
    <3>1. CASE count_ > 0
      BY <2>2, <3>0, <3>1 DEF Latch!LockAndTest
    <3>2. CASE ~(count_ > 0)
      <4>1. latchMutex_' = "nobody" /\ main' = [main EXCEPT !["main"] = "through"]
        BY <2>2, <3>2 DEF Latch!LockAndTest
      <4> QED
        BY <3>0, <3>2, <4>1
    <3> QED
      BY <3>1, <3>2
  <2>3. CASE Latch!Wait("main")
    <3>1. /\ main["main"] = "wait" /\ main' = [main EXCEPT !["main"] = "blocked"]
          /\ latchCond_' \subseteq {"main"} /\ latchMutex_' = "nobody"
          /\ count_' = count_ /\ count_ > 0
      BY <2>3 DEF Latch!Wait, Latch!wait
    <3>2. /\ main'["main"] = "blocked"
          /\ main' \in [{"main"} -> {"before", "lock", "wait", "blocked", "through"}]
      BY <3>1
    <3> QED
      BY <3>1, <3>2
  <2>4. CASE Latch!Spurious("main")
    BY <2>4 DEF Latch!Spurious
  <2> QED
    BY <2>1, <2>2, <2>3, <2>4 DEF MainLatch, InLatch, LatchSpurious
<1>3. Off' = Off
  BY <1>1 DEF Off, vars, threads
<1>4. Typed' /\ JobStage' /\ OnceInv' /\ EndedInv'
  BY <1>1 DEF vars, program, singleton, threads, Typed, JobStage, OnceInv, EndedInv
<1>5. Counted' /\ ReturnedInv'
  BY <1>1, <1>2, <1>3 DEF vars, program, Counted, ReturnedInv
<1> QED
  BY <1>2, <1>4, <1>5

(* main()'s end and exit(). *)
LEMMA ExitSteps ==
    ASSUME PInv, MainReturns \/ destructor \/ DestroyQueue \/ JoinThreads
    PROVE  UsesInv'
<1> USE DEF PInv, UsesInv
<1>1. UNCHANGED <<latchVars, threads, finished, job, pc, storage, toStart, threads_>>
  BY DEF MainReturns, destructor, DestroyQueue, JoinThreads, Destroy, Join, vars, program
<1>2. Off' = Off
  BY <1>1 DEF Off, threads
<1>3. LatchInv' /\ JobStage' /\ Counted'
  BY <1>1, <1>2 DEF latchVars, threads, LatchInv, JobStage, Counted
<1>4. Typed'
  BY <1>1 DEF threads, Typed, MainReturns, destructor, DestroyQueue, JoinThreads,
              program, singleton, Null
<1>5. OnceInv'
  <2>1. CASE destructor
    <3>1. returned /\ once_ = "done" /\ t_' = Null
      BY <2>1 DEF destructor
    <3>2. UNCHANGED <<once_, made, returned, at, got, job>>
      BY <1>1, <2>1 DEF destructor, program, threads
    <3> QED
      BY <3>1, <3>2 DEF OnceInv, Null
  <2>2. CASE MainReturns \/ DestroyQueue \/ JoinThreads
    <3>1. UNCHANGED <<once_, made, t_, at, got, job>> /\ (returned => returned')
      BY <1>1, <2>2 DEF MainReturns, DestroyQueue, JoinThreads, program, singleton, threads
    <3> QED
      BY <3>1 DEF OnceInv
  <2> QED
    BY <2>1, <2>2
<1>6. ReturnedInv'
  BY <1>1 DEF latchVars, program, ReturnedInv, MainReturns, destructor, DestroyQueue,
              JoinThreads, Destroy, Join, vars
<1>7. EndedInv'
  BY <1>1 DEF threads, EndedInv, MainReturns, destructor, DestroyQueue,
              JoinThreads, Destroy, Join, vars, IInv, TypeOK
<1> QED
  BY <1>3, <1>4, <1>5, <1>6, <1>7

(* A job in Singleton::get() or ThreadSingleton::get(), and a thread's end.  *)
LEMMA ObjectSteps ==
    ASSUME PInv, NEW w \in Worker,
           FirstGet(w) \/ initRoutine(w) \/ get(w) \/ getOwn(w) \/ pthread_exit(w)
    PROVE  UsesInv'
<1> USE DEF PInv, UsesInv
<1>1. UNCHANGED <<vars, latchVars, program>>
  BY DEF FirstGet, initRoutine, get, getOwn, pthread_exit
<1>2. \A v \in Worker : at'[v] = "reduced" <=> at[v] = "reduced"
  BY DEF FirstGet, initRoutine, get, getOwn, pthread_exit, InJob, Typed
<1>3. Off' = Off
  BY <1>1, <1>2 DEF vars, Off
<1>4. LatchInv' /\ Counted' /\ ReturnedInv'
  BY <1>1, <1>3 DEF vars, latchVars, program, LatchInv, Counted, ReturnedInv
<1>5. Typed'
  <2> USE <1>1 DEF program, Typed, Once
  <2>1. CASE FirstGet(w)
    BY <2>1 DEF FirstGet
  <2>2. CASE initRoutine(w)
    BY <2>2 DEF initRoutine
  <2>3. CASE get(w)
    BY <2>3 DEF get, singleton
  <2>4. CASE getOwn(w)
    BY <2>4 DEF getOwn, singleton
  <2>5. CASE pthread_exit(w)
    BY <2>5 DEF pthread_exit, singleton
  <2> QED
    BY <2>1, <2>2, <2>3, <2>4, <2>5
<1>6. JobStage'
  BY <1>1 DEF vars, Typed, JobStage, FirstGet, initRoutine, get, getOwn, pthread_exit,
              InJob, UserJob
<1>7. EndedInv'
  <2>1. CASE getOwn(w)
    <3>1. pc[w] = "run" /\ ended' = ended
      BY <2>1 DEF getOwn, InJob
    <3>2. w \notin ended
      BY <3>1 DEF EndedInv
    <3> QED
      BY <1>1, <2>1, <3>1, <3>2 DEF getOwn, vars, EndedInv, Typed
  <2>2. CASE pthread_exit(w)
    BY <1>1, <2>2 DEF pthread_exit, vars, EndedInv, Typed
  <2>3. CASE FirstGet(w) \/ initRoutine(w) \/ get(w)
    BY <1>1, <2>3 DEF FirstGet, initRoutine, get, vars, EndedInv
  <2> QED
    BY <2>1, <2>2, <2>3
<1>8. OnceInv'
  <2> USE <1>1 DEF vars, program, OnceInv, Typed, Null
  <2>1. CASE FirstGet(w)
    BY <2>1 DEF FirstGet, InJob
  <2>2. CASE initRoutine(w)
    BY <2>2 DEF initRoutine, InJob
  <2>3. CASE get(w)
    <3>1. t_ = 1
      BY <2>3, NobodyUses DEF get, InJob
    <3> QED
      BY <2>3, <3>1 DEF get, InJob, singleton
  <2>4. CASE getOwn(w)
    BY <2>4 DEF getOwn, InJob, singleton
  <2>5. CASE pthread_exit(w)
    BY <2>5 DEF pthread_exit, singleton
  <2> QED
    BY <2>1, <2>2, <2>3, <2>4, <2>5
<1> QED
  BY <1>4, <1>5, <1>6, <1>7, <1>8

(* A job counts itself off. *)
LEMMA ReduceStep ==
    ASSUME PInv, NEW w \in Worker, reduce(w) PROVE UsesInv'
<1> USE DEF PInv, UsesInv
<1>0. /\ InJob(w, "got") /\ at' = [at EXCEPT ![w] = "reduced"]
      /\ got' = [got EXCEPT ![w] = Null]
      /\ Latch!reduce(1)
      /\ UNCHANGED <<vars, program, singleton, own, ended>>
  BY DEF reduce
<1>1. /\ count_' = count_ - 1 /\ count_ - 1 >= 0
      /\ latchMutex_ = "nobody" /\ latchCond_' \in Latch!notify(latchCond_)
      /\ UNCHANGED <<latchMutex_, main>>
  BY <1>0 DEF Latch!reduce, LatchInv
<1>2. Off' = Off \cup {job[w]} /\ job[w] \in UserJob \ Off
  <2>1. job[w] \in UserJob /\ job[w] # NoJob /\ job[w] \in Executing
    BY <1>0 DEF InJob, Executing
  <2>2. job[w] \notin finished
    BY <2>1 DEF OnePlace
  <2>3. \A v \in Worker : job[v] = job[w] => v = w
    BY <2>1 DEF OnePlace
  <2>4. job[w] \notin Off
    BY <1>0, <2>2, <2>3 DEF Off, InJob
  <2>5. Off' = Off \cup {job[w]}
    BY <1>0, <2>1 DEF Off, vars, Typed, InJob
  <2> QED
    BY <2>1, <2>4, <2>5
<1>3. Counted'
  <2>1. UserJob \ Off' = (UserJob \ Off) \ {job[w]}
    BY <1>2
  <2>2. Cardinality((UserJob \ Off) \ {job[w]}) = Cardinality(UserJob \ Off) - 1
    BY <1>2, LeftFinite, FS_RemoveElement
  <2> QED
    BY <1>1, <2>1, <2>2 DEF Counted
<1>4. LatchInv'
  <2>1. latchCond_' = {}
    BY <1>1 DEF Latch!notify, LatchInv
  <2> QED
    BY <1>1, <2>1 DEF LatchInv
<1>5. Typed' /\ JobStage' /\ ReturnedInv' /\ EndedInv'
  BY <1>0, <1>1 DEF vars, program, singleton, Typed, JobStage, ReturnedInv, EndedInv, InJob, Null
<1>6. OnceInv'
  BY <1>0, <1>1 DEF vars, program, singleton, Typed, OnceInv, InJob
<1> QED
  BY <1>3, <1>4, <1>5, <1>6

(* A job returns. *)
LEMMA FinishStep ==
    ASSUME PInv, NEW w \in Worker, FinishJob(w) PROVE UsesInv'
<1> USE DEF PInv, UsesInv
<1>1. /\ at' = [at EXCEPT ![w] = "called"]
      /\ job' = [job EXCEPT ![w] = NoJob]
      /\ finished' = finished \cup {job[w]}
      /\ pc[w] \in {"run", "stopped"}
      /\ \A v \in Worker : v # w => pc'[v] = pc[v]
      /\ job[w] \in UserJob => at[w] = "reduced"
      /\ UNCHANGED <<latchVars, program, singleton, own, got, ended, owner, toStart,
                     threads_>>
  BY DEF FinishJob, Finish, IInv, TypeOK
<1>2. Off' = Off
  <2>1. at[w] = "reduced" <=> job[w] \in UserJob
    BY <1>1 DEF JobStage
  <2>2. ASSUME NEW j \in UserJob PROVE j \in Off' <=> j \in Off
    <3>1. CASE j = job[w]
      BY <1>1, <2>1, <3>1 DEF Off
    <3>2. CASE j # job[w]
      <4>1. \A v \in Worker : job'[v] = j => v # w /\ job[v] = j
        BY <1>1, NoJobIsNoUse DEF IInv, TypeOK
      <4>2. \A v \in Worker : job[v] = j => v # w /\ job'[v] = j
        BY <1>1, <3>2 DEF IInv, TypeOK
      <4>3. \A v \in Worker : v # w => at'[v] = at[v]
        BY <1>1 DEF Typed
      <4> QED
        BY <1>1, <3>2, <4>1, <4>2, <4>3 DEF Off
    <3> QED
      BY <3>1, <3>2
  <2> QED
    BY <2>2 DEF Off
<1>3. LatchInv' /\ Counted' /\ ReturnedInv'
  BY <1>1, <1>2 DEF latchVars, program, LatchInv, Counted, ReturnedInv
<1>4. Typed' /\ EndedInv'
  <2>1. w \notin ended
    BY <1>1 DEF EndedInv
  <2> QED
    BY <1>1, <2>1 DEF program, singleton, Typed, EndedInv
<1>5. JobStage' /\ OnceInv'
  BY <1>1, SMTT(60) DEF program, singleton, Typed, JobStage, OnceInv, IInv, TypeOK
<1> QED
  BY <1>3, <1>4, <1>5
-----------------------------------------------------------------------------
(* Every step of the program preserves the invariant. *)
LEMMA NextPInv == PInv /\ [ProgramNext]_allVars => PInv'
<1> SUFFICES ASSUME PInv, [ProgramNext]_allVars PROVE PInv'
  OBVIOUS
<1>1. IInv' /\ OnePlace'
  BY StepIsQueueStep, NextIInv, NextOnePlace DEF PInv
<1>2. ASSUME QueueStep, UNCHANGED <<latchVars, program, singleton, threads>>
      PROVE  UsesInv'
  BY <1>2, QueueStepUses DEF PInv
<1>3. CASE MainOp
  BY <1>1, <1>2, <1>3 DEF MainOp, QueueStep, PInv
<1>4. ASSUME NEW w \in Worker, Work(w) \/ JobAdds(w) \/ QueueSpurious(w)
      PROVE  UsesInv'
  <2>1. QueueStep
    BY <1>4 DEF Work, JobAdds, QueueSpurious, QueueStep
  <2>2. UNCHANGED <<latchVars, program, singleton, threads>>
    BY <1>4 DEF Work, JobAdds, QueueSpurious
  <2> QED
    BY <1>2, <2>1, <2>2
<1>5. ASSUME NEW w \in Worker, ThreadStep(w) PROVE UsesInv'
  BY <1>4, <1>5, ObjectSteps, ReduceStep, FinishStep DEF ThreadStep
<1>6. CASE UNCHANGED allVars
  <2>1. Off' = Off
    BY <1>6 DEF allVars, vars, threads, Off
  <2> QED
    BY <1>1, <1>6, <2>1
    DEF allVars, vars, latchVars, program, singleton, threads, PInv, UsesInv, Typed,
        LatchInv, JobStage, OnceInv, Counted, ReturnedInv, EndedInv
<1> QED
  BY <1>1, <1>3, <1>4, <1>5, <1>6, LatchSteps, ExitSteps DEF ProgramNext, PInv

(* The queue's invariant, and what main(), the latch and the jobs know of    *)
(* one another.                                                              *)
THEOREM ProgramInvariance == ProgramSpec => []PInv
BY InitPInv, NextPInv, PTL DEF ProgramSpec

(* Jobs share one Singleton, and none uses it once exit() has destroyed it,  *)
(* because main() has waited: for the threads of a queue of its own, or for  *)
(* a latch that counts the uses.                                             *)
THEOREM SingletonIsLiveHolds == ProgramSpec => []SingletonIsLive
<1>1. ASSUME PInv PROVE SingletonIsLive
  <2> SUFFICES ASSUME NEW w \in Worker, InJob(w, "got"), job[w] \in SharedJob
               PROVE  got[w] = t_ /\ t_ # Null /\ made = 1
    BY DEF SingletonIsLive
  <2>1. ~returned
    BY <1>1, NobodyUses DEF InJob
  <2> QED
    BY <1>1, <2>1 DEF InJob, PInv, UsesInv, OnceInv, Null
<1> QED
  BY <1>1, ProgramInvariance, PTL

(* A thread keeps its ThreadSingleton until it ends, and when the queue is   *)
(* gone every thread has freed its own, for any number of threads.           *)
THEOREM ThreadObjectsHolds == ProgramSpec => []ThreadObjects
<1>1. PInv => ThreadObjects
  BY DEF PInv, UsesInv, EndedInv, ThreadObjects
<1> QED
  BY <1>1, ProgramInvariance, PTL

(* The latch leaves its waiter asleep only while uses are to come, whatever  *)
(* threads count them off.                                                   *)
THEOREM NoneStrandedInProgram == ProgramSpec => []NoneStranded
<1>1. PInv => NoneStranded
  BY DEF PInv, UsesInv, LatchInv, NoneStranded, Latch!NoneStranded
<1> QED
  BY <1>1, ProgramInvariance, PTL

(* In this program, too, the pool is the abstract queue: that main() and the *)
(* jobs wait for one another changes nothing in what the queue promises.     *)
THEOREM ProgramImplementsSafely == ProgramSpec => ImplementsSafely
<1>1. ProgramInit => Promise!Init
  BY InitImplements DEF ProgramInit
<1>2. PInv /\ [ProgramNext]_allVars => [Promise!Next]_(Promise!vars)
  BY StepIsQueueStep, NextImplements DEF PInv
<1> QED
  BY <1>1, <1>2, ProgramInvariance, PTL DEF ProgramSpec, ImplementsSafely, Promise!SafeSpec
=============================================================================
