--------------------------- MODULE BlockingQueue ---------------------------
(* base/BlockingQueue.hpp: a queue of jobs served by a pool of worker        *)
(* threads.  addJob() and stop() may be called by any thread; commence() and *)
(* the destructor by the thread that owns the object.  addJob() and stop()   *)
(* are one critical section each and so one step each.  takeJob() is cut     *)
(* where another thread can see or change something in the middle: after the *)
(* loop test, because commence() writes running_ without the mutex, and      *)
(* before cond_.wait(), so that it matters that addJob() and stop() take the *)
(* mutex.                                                                    *)
EXTENDS Naturals, Sequences, FiniteSets, Condition

CONSTANTS
    Job,        \* names of submissions: each is added at most once
    StopJob,    \* the jobs that call stop(), as in blockingqueue_test.cpp
    BreakJob,   \* the jobs that throw QueueBreak
    NoJob,      \* the empty boost::function
    ThreadNum,  \* the template parameter
    MaxThreads  \* bound: the threads all commence() calls together may start

ASSUME JobAssumption ==
    /\ StopJob \subseteq Job
    /\ BreakJob \subseteq Job
    /\ NoJob \notin Job

ASSUME ThreadAssumption == ThreadNum \in Nat \ {0} /\ MaxThreads \in Nat

Worker == 1 .. MaxThreads   \* a worker is its index in threads_
Nobody == 0

VARIABLES
    queue_,
    running_,
    threads_,   \* how many threads threads_ holds
    mutex_,     \* the worker that holds the mutex between two steps, or Nobody
    cond_,      \* the workers blocked in cond_.wait()
    pc,         \* where each worker is in runInThread()
    job,        \* the job each worker took
    toStart,    \* how many threads commence() still has to start
    owner,      \* what the owning thread does: "idle", "joining", "gone"
    finished    \* history: the jobs whose call has returned or thrown

vars == <<queue_, running_, threads_, mutex_, cond_, pc, job, toStart, owner,
          finished>>

Init ==
    /\ queue_ = <<>>
    /\ running_ = FALSE
    /\ threads_ = 0
    /\ mutex_ = Nobody
    /\ cond_ = {}
    /\ pc = [w \in Worker |-> "none"]
    /\ job = [w \in Worker |-> NoJob]
    /\ toStart = 0
    /\ owner = "idle"
    /\ finished = {}

Executing == {job[w] : w \in {v \in Worker : pc[v] \in {"run", "stopped"}}}

Fresh(j) ==
    /\ \A i \in DOMAIN queue_ : queue_[i] # j
    /\ j \notin Executing \cup finished
-----------------------------------------------------------------------------
(* Operations of the queue's users. *)

(* Mutant: addJob() without its MutexGuard. *)
addJobUnlocked(j) ==
    /\ owner \notin {"joining", "gone"} /\ Fresh(j)
    /\ queue_' = Append(queue_, j)
    /\ cond_' \in notify(cond_)
    /\ UNCHANGED <<running_, threads_, mutex_, pc, job, toStart, owner, finished>>

(* While the destructor waits, only a job still running can add another. *)
addJob(j) ==
    /\ owner = "joining" => Executing # {}
    /\ owner # "gone"
    /\ Fresh(j)
    /\ mutex_ = Nobody
    /\ queue_' = Append(queue_, j)
    /\ cond_' \in notify(cond_)
    /\ UNCHANGED <<running_, threads_, mutex_, pc, job, toStart, owner, finished>>

(* The body of stop(), for whoever calls it. *)
stop ==
    /\ mutex_ = Nobody
    /\ IF running_ THEN /\ running_' = FALSE
                        /\ cond_' \in notifyall(cond_)
                   ELSE UNCHANGED <<running_, cond_>>

OwnerStop ==
    /\ owner = "idle" /\ toStart = 0
    /\ stop
    /\ UNCHANGED <<queue_, threads_, mutex_, pc, job, toStart, owner, finished>>

(* commence() does not take the mutex.  A call made while running_ holds     *)
(* returns at once and changes nothing.                                      *)
commence ==
    /\ owner = "idle" /\ toStart = 0
    /\ threads_ + ThreadNum <= MaxThreads
    /\ ~running_
    /\ running_' = TRUE
    /\ toStart' = ThreadNum
    /\ UNCHANGED <<queue_, threads_, mutex_, cond_, pc, job, owner, finished>>

(* One iteration of commence()'s loop: the new thread is pushed and started. *)
StartThread ==
    /\ toStart > 0
    /\ threads_ < MaxThreads
    /\ toStart' = toStart - 1
    /\ threads_' = threads_ + 1
    /\ pc' = [pc EXCEPT ![threads_ + 1] = "lock"]
    /\ UNCHANGED <<queue_, running_, mutex_, cond_, job, owner, finished>>

(* ~BlockingQueue() joins every thread; it does not call stop(). *)
Destroy ==
    /\ owner = "idle" /\ toStart = 0
    /\ owner' = "joining"
    /\ UNCHANGED <<queue_, running_, threads_, mutex_, cond_, pc, job, toStart,
                   finished>>

Join ==
    /\ owner = "joining"
    /\ \A w \in Worker : w <= threads_ => pc[w] = "exit"
    /\ owner' = "gone"
    /\ UNCHANGED <<queue_, running_, threads_, mutex_, cond_, pc, job, toStart,
                   finished>>
-----------------------------------------------------------------------------
(* A worker: takeJob() and the loop of runInThread(). *)

(* Mutant: takeJob() tests its condition with an if instead of a while. *)
LockAndTestOnce(w) ==
    /\ pc[w] = "lock" \/ (pc[w] = "blocked" /\ w \notin cond_)
    /\ mutex_ = Nobody
    /\ mutex_' = w
    /\ pc' = [pc EXCEPT ![w] =
                 IF @ = "lock" /\ queue_ = <<>> /\ running_ THEN "wait" ELSE "take"]
    /\ UNCHANGED <<queue_, running_, threads_, cond_, job, toStart, owner, finished>>

(* The mutex is acquired, on entry or on the way out of cond_.wait(), and    *)
(* the loop condition is evaluated.                                          *)
LockAndTest(w) ==
    /\ pc[w] = "lock" \/ (pc[w] = "blocked" /\ w \notin cond_)
    /\ mutex_ = Nobody
    /\ mutex_' = w
    /\ pc' = [pc EXCEPT ![w] = IF queue_ = <<>> /\ running_ THEN "wait" ELSE "take"]
    /\ UNCHANGED <<queue_, running_, threads_, cond_, job, toStart, owner, finished>>

Wait(w) ==
    /\ pc[w] = "wait"
    /\ cond_' = wait(cond_, w)
    /\ mutex_' = Nobody
    /\ pc' = [pc EXCEPT ![w] = "blocked"]
    /\ UNCHANGED <<queue_, running_, threads_, job, toStart, owner, finished>>

(* throw QueueBreak, caught in runInThread(): the thread ends. *)
Break(w) ==
    /\ pc[w] = "take"
    /\ ~running_
    /\ mutex_' = Nobody
    /\ pc' = [pc EXCEPT ![w] = "exit"]
    /\ UNCHANGED <<queue_, running_, threads_, cond_, job, toStart, owner, finished>>

(* Mutant: takeJob() does not look at running_ before it takes a job. *)
TakeUnchecked(w) ==
    /\ pc[w] = "take" /\ queue_ # <<>>
    /\ job' = [job EXCEPT ![w] = Head(queue_)]
    /\ queue_' = Tail(queue_)
    /\ mutex_' = Nobody
    /\ pc' = [pc EXCEPT ![w] = "run"]
    /\ UNCHANGED <<running_, threads_, cond_, toStart, owner, finished>>

Take(w) ==
    /\ pc[w] = "take"
    /\ running_
    /\ queue_ # <<>>
    /\ job' = [job EXCEPT ![w] = Head(queue_)]
    /\ queue_' = Tail(queue_)
    /\ cond_' \in IF queue_' # <<>> THEN notify(cond_) ELSE {cond_}
    /\ mutex_' = Nobody
    /\ pc' = [pc EXCEPT ![w] = "run"]
    /\ UNCHANGED <<running_, threads_, toStart, owner, finished>>

(* running_ became TRUE after the loop ended on ~running_: takeJob() returns *)
(* the empty function and runInThread() calls it again.                      *)
TakeNothing(w) ==
    /\ pc[w] = "take"
    /\ running_
    /\ queue_ = <<>>
    /\ mutex_' = Nobody
    /\ pc' = [pc EXCEPT ![w] = "lock"]
    /\ UNCHANGED <<queue_, running_, threads_, cond_, job, toStart, owner, finished>>

(* A stop job calls stop() from the worker that runs it. *)
RunStop(w) ==
    /\ pc[w] = "run" /\ job[w] \in StopJob
    /\ stop
    /\ pc' = [pc EXCEPT ![w] = "stopped"]
    /\ UNCHANGED <<queue_, threads_, mutex_, job, toStart, owner, finished>>

(* Mutant: runInThread() has the try around its loop, so that any exception  *)
(* ends the thread.                                                          *)
FinishAndEnd(w) ==
    /\ \/ pc[w] = "run" /\ job[w] \notin StopJob
       \/ pc[w] = "stopped"
    /\ finished' = finished \cup {job[w]}
    /\ job' = [job EXCEPT ![w] = NoJob]
    /\ \E end \in {"exit", "lock"} : pc' = [pc EXCEPT ![w] = end]
    /\ UNCHANGED <<queue_, running_, threads_, mutex_, cond_, toStart, owner>>

(* The job returns, or throws: a std::exception is logged and the loop goes  *)
(* on, a QueueBreak ends the thread.                                         *)
Finish(w) ==
    /\ \/ pc[w] = "run" /\ job[w] \notin StopJob
       \/ pc[w] = "stopped"
    /\ finished' = finished \cup {job[w]}
    /\ job' = [job EXCEPT ![w] = NoJob]
    /\ pc' = [pc EXCEPT ![w] = IF job[w] \in BreakJob THEN "exit" ELSE "lock"]
    /\ UNCHANGED <<queue_, running_, threads_, mutex_, cond_, toStart, owner>>

(* wait() may return without a notify. *)
Spurious(w) ==
    /\ w \in cond_
    /\ cond_' = cond_ \ {w}
    /\ UNCHANGED <<queue_, running_, threads_, mutex_, pc, job, toStart, owner,
                   finished>>

WorkerStep(w) ==
    \/ LockAndTest(w)
    \/ Wait(w)
    \/ Break(w)
    \/ Take(w)
    \/ TakeNothing(w)
    \/ RunStop(w)
    \/ Finish(w)

Next ==
    \/ \E j \in Job : addJob(j)
    \/ OwnerStop
    \/ commence
    \/ StartThread
    \/ Destroy
    \/ Join
    \/ \E w \in Worker : WorkerStep(w) \/ Spurious(w)

(* Threads that can run do run, and jobs return; nothing obliges a user to   *)
(* add jobs, stop, or destroy the queue.  Spurious wake-ups end: a worker    *)
(* woken over and over could take the mutex each time another one needs it,  *)
(* and pthread_mutex_lock() promises no order.                               *)
Fairness ==
    /\ <>[][\A w \in Worker : ~Spurious(w)]_vars
    /\ WF_vars(StartThread)
    /\ WF_vars(Join)
    /\ \A w \in Worker : WF_vars(WorkerStep(w))

Spec == Init /\ [][Next]_vars /\ Fairness
-----------------------------------------------------------------------------
TypeOK ==
    /\ queue_ \in Seq(Job)
    /\ running_ \in BOOLEAN
    /\ threads_ \in 0 .. MaxThreads
    /\ mutex_ \in Worker \cup {Nobody}
    /\ cond_ \subseteq Worker
    /\ pc \in [Worker -> {"none", "lock", "wait", "blocked", "take", "run",
                          "stopped", "exit"}]
    /\ job \in [Worker -> Job \cup {NoJob}]
    /\ toStart \in 0 .. ThreadNum
    /\ owner \in {"idle", "joining", "gone"}
    /\ finished \subseteq Job

(* Once stop() has run no worker is left blocked, whatever it was doing when *)
(* stop() was called: a worker that had tested running_ but not yet waited   *)
(* would miss the broadcast and the destructor would join it for ever.       *)
StopReachesAll == ~running_ => cond_ = {}

(* The workers that will look at the queue without being notified again. *)
Awake == {w \in Worker : pc[w] \in {"lock", "take"}
                            \/ (pc[w] = "blocked" /\ w \notin cond_)}

(* No wake-up is lost: as long as a worker sleeps, every queued job has an   *)
(* awake worker of its own on the way to it, though addJob() and takeJob()   *)
(* notify one worker only and the signal may find nobody blocked.            *)
NoLostWakeup == cond_ # {} => Len(queue_) <= Cardinality(Awake)

(* A running queue has a worker left for its jobs as long as fewer of them   *)
(* than it has threads threw QueueBreak: no other exception ends a worker,   *)
(* and whoever ends because of a stop() was replaced by the last commence(). *)
JobsHaveWorkers ==
    running_ /\ queue_ # <<>> /\ Cardinality(finished \cap BreakJob) < ThreadNum =>
        toStart > 0 \/ \E w \in Worker : pc[w] \notin {"none", "exit"}

(* A job is owned by one place only: the queue, one worker, or the past. *)
OnePlace ==
    /\ \A i, k \in DOMAIN queue_ : queue_[i] = queue_[k] => i = k
    /\ \A v, w \in Worker : job[v] = job[w] => v = w \/ job[v] = NoJob
    /\ \A i \in DOMAIN queue_ : queue_[i] \notin finished \cup Executing
    /\ Executing \cap finished = {}

Promise == INSTANCE JobQueue WITH
    pending <- queue_, executing <- Executing, done <- finished, open <- running_

(* The pool implements JobQueue: FIFO start, each job once, no start after   *)
(* stop() returned.                                                          *)
ImplementsSafely == Promise!SafeSpec

(* ... and, when no job throws QueueBreak, every job added while the queue   *)
(* stays open is started and completed.                                      *)
Implements == Promise!Spec

StopComing ==
    \/ ~running_
    \/ \E i \in DOMAIN queue_ : queue_[i] \in StopJob
    \/ Executing \cap StopJob # {}

(* The destructor returns if the queue is stopped or a stop job was added,   *)
(* the way blockingqueue_test.cpp:55 shuts the queue down: no worker stays   *)
(* blocked, and none goes on for ever.                                       *)
ShutdownCompletes == (owner = "joining" /\ StopComing) ~> owner = "gone"

(* takeJob() hands the empty function to a worker only if the queue was      *)
(* commenced again while that worker was between the loop and the check.     *)
EmptyHandOnlyAfterRestart ==
    [][\A w \in Worker : TakeNothing(w) => threads_ + toStart > ThreadNum]_vars
=============================================================================
