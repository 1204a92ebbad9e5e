----------------------------- MODULE PoolProgram -----------------------------
(* A whole program over the base/ library, as singletin_test.cpp and         *)
(* openssl_test.cpp are: main() commences a BlockingQueue and adds jobs that *)
(* use a Singleton or a ThreadSingleton and then reduce() a CountLatch;      *)
(* main() may wait for the latch, stops the queue and returns.  The queue is *)
(* a local of main(), gone before exit() runs the handlers, or a static,     *)
(* whose destructor joins the threads after Singleton::destructor() ran.     *)
(* The latch is CountLatch's and the queue BlockingQueue's: their steps are  *)
(* theirs, restricted to what this program's threads are ready to do.        *)
EXTENDS BlockingQueue

CONSTANTS
    SharedJob,      \* the jobs that call Singleton::get()
    ThreadJob       \* the jobs that call ThreadSingleton::get()

UserJob == SharedJob \cup ThreadJob

ASSUME UserJobAssumption ==
    /\ UserJob \subseteq Job \ StopJob
    /\ SharedJob \cap ThreadJob = {}
    /\ IsFiniteSet(UserJob)    \* they are as many as the latch's start value

Once == {"new", "running", "done"}  \* the states of a pthread_once_t
Null == 0

VARIABLES
    count_, latchMutex_, latchCond_,
    main,       \* where main() is in CountLatch::latch()
    storage,    \* of the queue: "local" or "static"
    returned,   \* main() has returned, exit() is at work
    once_,
    made,       \* how many objects Singleton::initRoutine() has made
    t_,         \* Singleton::t_, the number of the object it made, or Null
    own,        \* each thread's ThreadSingleton object: "none", "live", "freed"
    at,         \* where the thread's job is: "called", "routine", "got", "reduced"
    got,        \* the Singleton that the thread's job uses
    ended       \* the threads that pthread_join() finds terminated

latchVars == <<count_, latchMutex_, latchCond_, main>>
singleton == <<once_, made, t_>>
program == <<storage, returned>>
threads == <<own, at, got, ended>>
allVars == <<vars, latchVars, program, singleton, threads>>

Latch == INSTANCE CountLatch WITH
    Waiter <- {"main"}, Start <- Cardinality(UserJob), Vals <- {1}, MaxBelow <- 0,
    NoWaiter <- "nobody", mutex_ <- latchMutex_, cond_ <- latchCond_, pc <- main

ASSUME LatchAssumption == Latch!CountAssumption

ProgramInit ==
    /\ Init /\ Latch!Init
    /\ storage \in {"local", "static"} /\ returned = FALSE
    /\ once_ = "new" /\ made = 0 /\ t_ = Null
    /\ own = [w \in Worker |-> "none"]
    /\ at = [w \in Worker |-> "called"]
    /\ got = [w \in Worker |-> Null]
    /\ ended = {}
-----------------------------------------------------------------------------
(* main(), with latch(), commence(), addJob() and stop() in any order. *)

MainIsFree == ~returned /\ main["main"] \in {"before", "through"}

MainOp ==
    /\ MainIsFree /\ owner = "idle"
    /\ \/ commence \/ StartThread \/ OwnerStop
       \/ toStart = 0 /\ \E j \in Job : addJob(j)
    /\ UNCHANGED <<latchVars, program, singleton, threads>>

MainLatch ==
    /\ MainIsFree /\ owner = "idle" /\ toStart = 0
    /\ Latch!latch("main")
    /\ UNCHANGED <<vars, program, singleton, threads>>

InLatch ==
    /\ Latch!LockAndTest("main") \/ Latch!Wait("main")
    /\ UNCHANGED <<vars, program, singleton, threads>>

LatchSpurious ==
    /\ Latch!Spurious("main")
    /\ UNCHANGED <<vars, program, singleton, threads>>

(* A program whose queue is static waits for its jobs before it returns; one *)
(* whose queue is local has joined the threads by then.                      *)
MainReturns ==
    /\ MainIsFree
    /\ IF storage = "static"
         THEN owner = "idle" /\ toStart = 0 /\ main["main"] = "through"
         ELSE owner = "gone"
    /\ returned' = TRUE
    /\ UNCHANGED <<vars, latchVars, storage, singleton, threads>>

(* exit(): initRoutine() registered the handler after the constructor of a   *)
(* static queue, which therefore goes second.                                *)
destructor ==
    /\ returned /\ once_ = "done" /\ t_ # Null
    /\ t_' = Null
    /\ UNCHANGED <<vars, latchVars, program, once_, made, threads>>

DestroyQueue ==
    /\ IF storage = "static" THEN returned /\ (once_ = "done" => t_ = Null)
                             ELSE MainIsFree
    /\ Destroy
    /\ UNCHANGED <<latchVars, program, singleton, threads>>

(* pthread_join() waits for the thread-specific destructors, too. *)
JoinThreads ==
    /\ \A w \in Worker : w <= threads_ => w \in ended
    /\ Join
    /\ UNCHANGED <<latchVars, program, singleton, threads>>
-----------------------------------------------------------------------------
(* What a job does. *)

InJob(w, where) == pc[w] = "run" /\ job[w] \in UserJob /\ at[w] = where

(* Mutant: get() tests t_ in the place of pthread_once(). *)
FirstGetUnguarded(w) ==
    /\ InJob(w, "called") /\ job[w] \in SharedJob
    /\ t_ = Null
    /\ once_' = "done"
    /\ at' = [at EXCEPT ![w] = "routine"]
    /\ UNCHANGED <<vars, latchVars, program, made, t_, own, got, ended>>

(* The first call of Singleton::get() runs initRoutine() ... *)
FirstGet(w) ==
    /\ InJob(w, "called") /\ job[w] \in SharedJob
    /\ once_ = "new"
    /\ once_' = "running"
    /\ at' = [at EXCEPT ![w] = "routine"]
    /\ UNCHANGED <<vars, latchVars, program, made, t_, own, got, ended>>

initRoutine(w) ==
    /\ InJob(w, "routine")
    /\ once_' = "done"
    /\ made' = made + 1
    /\ t_' = made'
    /\ at' = [at EXCEPT ![w] = "got"]
    /\ got' = [got EXCEPT ![w] = t_']
    /\ UNCHANGED <<vars, latchVars, program, own, ended>>

(* ... and the others wait for it. *)
get(w) ==
    /\ InJob(w, "called") /\ job[w] \in SharedJob
    /\ once_ = "done"
    /\ at' = [at EXCEPT ![w] = "got"]
    /\ got' = [got EXCEPT ![w] = t_]
    /\ UNCHANGED <<vars, latchVars, program, singleton, own, ended>>

(* ThreadSingleton::get().  The key is made under a pthread_once() of its    *)
(* own; what it leads to is the calling thread's.                            *)
getOwn(w) ==
    /\ InJob(w, "called") /\ job[w] \in ThreadJob
    /\ own' = [own EXCEPT ![w] = IF @ = "none" THEN "live" ELSE @]
    /\ at' = [at EXCEPT ![w] = "got"]
    /\ UNCHANGED <<vars, latchVars, program, singleton, got, ended>>

(* The job is done with the object and counts itself off. *)
reduce(w) ==
    /\ InJob(w, "got")
    /\ Latch!reduce(1)
    /\ at' = [at EXCEPT ![w] = "reduced"]
    /\ got' = [got EXCEPT ![w] = Null]
    /\ UNCHANGED <<vars, program, singleton, own, ended>>

(* Jobs may add jobs. *)
JobAdds(w) ==
    /\ pc[w] = "run"
    /\ \E j \in Job : addJob(j)
    /\ UNCHANGED <<latchVars, program, singleton, threads>>
-----------------------------------------------------------------------------
(* The worker threads. *)

Work(w) ==
    /\ \/ LockAndTest(w) \/ Wait(w) \/ Break(w) \/ Take(w) \/ TakeNothing(w)
       \/ RunStop(w)
    /\ UNCHANGED <<latchVars, program, singleton, threads>>

FinishJob(w) ==
    /\ job[w] \in UserJob => at[w] = "reduced"
    /\ Finish(w)
    /\ at' = [at EXCEPT ![w] = "called"]
    /\ UNCHANGED <<latchVars, program, singleton, own, got, ended>>

(* Mutant: the key is made without a destructor. *)
pthread_exitOnly(w) ==
    /\ pc[w] = "exit" /\ w \notin ended
    /\ ended' = ended \cup {w}
    /\ UNCHANGED <<vars, latchVars, program, singleton, own, at, got>>

(* Thread::run() ends in pthread_exit(), which calls the key's destructor if *)
(* the thread has a value for it.                                            *)
pthread_exit(w) ==
    /\ pc[w] = "exit" /\ w \notin ended
    /\ own' = [own EXCEPT ![w] = IF @ = "live" THEN "freed" ELSE @]
    /\ ended' = ended \cup {w}
    /\ UNCHANGED <<vars, latchVars, program, singleton, at, got>>

QueueSpurious(w) ==
    /\ Spurious(w)
    /\ UNCHANGED <<latchVars, program, singleton, threads>>

ThreadStep(w) ==
    \/ Work(w)
    \/ FirstGet(w) \/ initRoutine(w) \/ get(w) \/ getOwn(w) \/ reduce(w)
    \/ FinishJob(w)
    \/ pthread_exit(w)

ProgramNext ==
    \/ MainOp \/ MainLatch \/ InLatch \/ LatchSpurious
    \/ MainReturns \/ destructor \/ DestroyQueue \/ JoinThreads
    \/ \E w \in Worker : ThreadStep(w) \/ JobAdds(w) \/ QueueSpurious(w)

(* Threads that can run do, and spurious wake-ups end; main() need not call  *)
(* anything, and need not return, but goes on with what it has begun.        *)
ProgramSpec ==
    /\ ProgramInit /\ [][ProgramNext]_allVars
    /\ <>[][~LatchSpurious /\ \A w \in Worker : ~QueueSpurious(w)]_allVars
    /\ WF_allVars(toStart > 0 /\ MainOp)
    /\ WF_allVars(InLatch)
    /\ WF_allVars(destructor) /\ WF_allVars(returned /\ DestroyQueue)
    /\ WF_allVars(JoinThreads)
    /\ \A w \in Worker : WF_allVars(ThreadStep(w))
-----------------------------------------------------------------------------
ProgramTypeOK ==
    /\ TypeOK /\ Latch!TypeOK
    /\ storage \in {"local", "static"} /\ returned \in BOOLEAN
    /\ once_ \in Once /\ made \in Nat /\ t_ \in Nat
    /\ own \in [Worker -> {"none", "live", "freed"}]
    /\ at \in [Worker -> {"called", "routine", "got", "reduced"}]
    /\ got \in [Worker -> Nat]
    /\ ended \subseteq Worker

(* Every job that uses the Singleton uses the same object, and uses it while *)
(* it lives: exit() destroys it when no job is between get() and reduce(),   *)
(* and none that comes later finds t_ NULL, with a queue that is static,     *)
(* because the latch counts uses that are over.                              *)
SingletonIsLive ==
    \A w \in Worker : InJob(w, "got") /\ job[w] \in SharedJob =>
        got[w] = t_ /\ t_ # Null /\ made = 1

(* Once the queue is gone so are the ThreadSingletons of its threads, also   *)
(* of those that a QueueBreak ended; and no thread loses its own while it    *)
(* may still run a job.                                                      *)
ThreadObjects ==
    \A w \in Worker :
        /\ own[w] = "live" /\ owner = "gone" => ~(w <= threads_)
        /\ own[w] = "freed" => pc[w] = "exit"

(* The latch, when the workers of a queue reduce it, strands main() no more  *)
(* than one that is on its own ...                                           *)
NoneStranded == Latch!NoneStranded

(* ... and main() gets through when every job has been run: what latch()     *)
(* waits for comes, unless the queue is stopped before that.                 *)
LatchFreesMain ==
    main["main"] # "before" /\ (\A j \in UserJob : ~Fresh(j)) /\ threads_ > 0 ~>
        main["main"] = "through" \/ ~running_
=============================================================================
