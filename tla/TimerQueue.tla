----------------------------- MODULE TimerQueue -----------------------------
(* net/Timer.cpp: a TimerQueue keeps tasks by deadline and has one timerfd.  *)
(* addTask() may be called by any thread, and by a task; the scheduler       *)
(* thread polls the timerfd, and expire() collects what is due under the     *)
(* mutex and calls it without.  addTask() looks at the first task without    *)
(* the mutex: the look and the locked section that acts on it are two steps, *)
(* and so is everything else that another thread can get between.  Time is   *)
(* counted in ticks.  The look reads a std::multimap that another thread may *)
(* be changing, which C++ leaves undefined; here it sees the map of that     *)
(* moment, the best the program can hope for.                                *)
EXTENDS Integers, FiniteSets

CONSTANTS
    Task,
    NoTask,
    Caller,         \* threads, beside the scheduler's, that call addTask()
    Scheduler,      \* the thread that runs TimerQueue::commence()
    Accuracy,       \* TIMER_ACCURACY, in ticks
    MaxTime         \* bound: the last tick, and the last deadline

ASSUME TimeAssumption == Accuracy \in Nat \ {0} /\ MaxTime \in Nat
ASSUME NameAssumption == Scheduler \notin Caller /\ NoTask \notin Task

Thread == Caller \cup {Scheduler}
Time == 0 .. MaxTime
Never == MaxTime + 1    \* the timerfd is not armed

VARIABLES
    now,
    tasks_,     \* the tasks in the multimap
    expired,    \* the deadline each task was added with
    armed,      \* the time the timerfd is set to, or Never
    adding,     \* where each thread is in addTask(): "no" when it is not
    task,       \* the task each thread is adding
    loop,       \* where the scheduler thread is
    due,        \* the vector expire() collects into
    done,       \* history: the tasks that were called
    stale       \* history: addTask() acted on a first task that had changed

vars == <<now, tasks_, expired, armed, adding, task, loop, due, done, stale>>

Init ==
    /\ now = 0
    /\ tasks_ = {}
    /\ expired = [t \in Task |-> 0]
    /\ armed = Never
    /\ adding = [a \in Thread |-> "no"]
    /\ task = [a \in Thread |-> NoTask]
    /\ loop = "poll"
    /\ due = {}
    /\ done = {}
    /\ stale = FALSE

(* A task that tasks_.begin() may be. *)
First(t) == t \in tasks_ /\ \A u \in tasks_ : expired[t] <= expired[u]

IsDue(t) == expired[t] - now < Accuracy

(* expire() holds mutex_; the locked sections of addTask() are one step.     *)
MutexFree == loop # "collect"

Fresh(t) == t \notin tasks_ \cup due \cup done /\ \A a \in Thread : task[a] # t

(* Mutant: <= in the place of <. *)
CoveredLoosely(e) == \E u \in tasks_ : First(u) /\ expired[u] - e <= Accuracy

(* addTask()'s first condition: the timer is set early enough for deadline e. *)
CoveredByFirst(e) == \E u \in tasks_ : First(u) /\ expired[u] - e < Accuracy
-----------------------------------------------------------------------------
(* addTask(e, t), by thread a.                                               *)

Look(a, t, e) ==
    /\ adding[a] = "no" /\ Fresh(t)
    /\ a = Scheduler => loop = "call"
    /\ expired' = [expired EXCEPT ![t] = e]
    /\ task' = [task EXCEPT ![a] = t]
    /\ adding' = [adding EXCEPT ![a] = IF CoveredByFirst(e) THEN "insert" ELSE "clock"]
    /\ UNCHANGED <<now, tasks_, armed, loop, due, done, stale>>

Insert(a) ==
    /\ adding[a] = "insert" /\ MutexFree
    /\ tasks_' = tasks_ \cup {task[a]}
    /\ stale' = (stale \/ ~CoveredByFirst(expired[task[a]]))
    /\ adding' = [adding EXCEPT ![a] = "no"]
    /\ task' = [task EXCEPT ![a] = NoTask]
    /\ UNCHANGED <<now, expired, armed, loop, due, done>>

(* A task that is due already is called by the thread that adds it.          *)
CallNow(a) ==
    /\ adding[a] = "clock" /\ IsDue(task[a])
    /\ done' = done \cup {task[a]}
    /\ adding' = [adding EXCEPT ![a] = "no"]
    /\ task' = [task EXCEPT ![a] = NoTask]
    /\ UNCHANGED <<now, tasks_, expired, armed, loop, due, stale>>

NotYet(a) ==
    /\ adding[a] = "clock" /\ ~IsDue(task[a])
    /\ adding' = [adding EXCEPT ![a] = "arm"]
    /\ UNCHANGED <<now, tasks_, expired, armed, task, loop, due, done, stale>>

InsertAndArm(a) ==
    /\ adding[a] = "arm" /\ MutexFree
    /\ tasks_' = tasks_ \cup {task[a]}
    /\ armed' = expired[task[a]]
    /\ stale' = (stale \/ CoveredByFirst(expired[task[a]]))
    /\ adding' = [adding EXCEPT ![a] = "no"]
    /\ task' = [task EXCEPT ![a] = NoTask]
    /\ UNCHANGED <<now, expired, loop, due, done>>
-----------------------------------------------------------------------------
(* The scheduler thread: poll(), pollEvent() and expire().                   *)

(* epoll_wait() reports the timerfd, read() takes its expiration.  A timer   *)
(* set anew in between makes read() fail and the loop poll again.            *)
Expire ==
    /\ loop = "poll" /\ armed <= now
    /\ armed' = Never
    /\ loop' = "expire"
    /\ UNCHANGED <<now, tasks_, expired, adding, task, due, done, stale>>

Lock ==
    /\ loop = "expire"
    /\ loop' = "collect"
    /\ UNCHANGED <<now, tasks_, expired, armed, adding, task, due, done, stale>>

(* Mutant: expire() forgets erase(). *)
CollectNoErase(t) ==
    /\ loop = "collect" /\ First(t) /\ IsDue(t)
    /\ due' = due \cup {t}
    /\ loop' = "run"
    /\ UNCHANGED <<now, tasks_, expired, armed, adding, task, done, stale>>

Collect(t) ==
    /\ loop = "collect" /\ First(t) /\ IsDue(t)
    /\ tasks_' = tasks_ \ {t}
    /\ due' = due \cup {t}
    /\ UNCHANGED <<now, expired, armed, adding, task, loop, done, stale>>

(* Mutant: expire() stops at the first task that is not due, and that is all. *)
RearmNot(t) ==
    /\ loop = "collect" /\ First(t) /\ ~IsDue(t)
    /\ loop' = "run"
    /\ UNCHANGED <<now, tasks_, expired, armed, adding, task, due, done, stale>>

Rearm(t) ==
    /\ loop = "collect" /\ First(t) /\ ~IsDue(t)
    /\ armed' = expired[t]
    /\ loop' = "run"
    /\ UNCHANGED <<now, tasks_, expired, adding, task, due, done, stale>>

Drained ==
    /\ loop = "collect" /\ tasks_ = {}
    /\ loop' = "run"
    /\ UNCHANGED <<now, tasks_, expired, armed, adding, task, due, done, stale>>

(* The vector is in deadline order. *)
Call(t) ==
    /\ loop = "run"
    /\ t \in due /\ \A u \in due : expired[t] <= expired[u]
    /\ due' = due \ {t}
    /\ done' = done \cup {t}
    /\ loop' = "call"
    /\ UNCHANGED <<now, tasks_, expired, armed, adding, task, stale>>

Return ==
    /\ loop = "call" /\ adding[Scheduler] = "no"
    /\ loop' = "run"
    /\ UNCHANGED <<now, tasks_, expired, armed, adding, task, due, done, stale>>

Expired ==
    /\ loop = "run" /\ due = {}
    /\ loop' = "poll"
    /\ UNCHANGED <<now, tasks_, expired, armed, adding, task, due, done, stale>>

Tick ==
    /\ now < MaxTime
    /\ now' = now + 1
    /\ UNCHANGED <<tasks_, expired, armed, adding, task, loop, due, done, stale>>

AddStep(a) == Insert(a) \/ CallNow(a) \/ NotYet(a) \/ InsertAndArm(a)

SchedulerStep ==
    \/ Expire
    \/ Lock
    \/ \E t \in Task : Collect(t) \/ Rearm(t) \/ Call(t)
    \/ Drained
    \/ Return
    \/ Expired

Next ==
    \/ \E a \in Thread, t \in Task, e \in Time : Look(a, t, e)
    \/ \E a \in Thread : AddStep(a)
    \/ SchedulerStep
    \/ Tick

(* Time passes and threads that can run do; nobody has to add a task.        *)
Spec ==
    /\ Init /\ [][Next]_vars
    /\ WF_vars(Tick) /\ WF_vars(SchedulerStep)
    /\ \A a \in Thread : WF_vars(AddStep(a))
-----------------------------------------------------------------------------
TypeOK ==
    /\ now \in Time
    /\ tasks_ \subseteq Task
    /\ expired \in [Task -> Time]
    /\ armed \in Time \cup {Never}
    /\ adding \in [Thread -> {"no", "insert", "clock", "arm"}]
    /\ task \in [Thread -> Task \cup {NoTask}]
    /\ loop \in {"poll", "expire", "collect", "run", "call"}
    /\ due \subseteq Task
    /\ done \subseteq Task
    /\ stale \in BOOLEAN

(* A task is in one place, so it is called at most once, though addTask()    *)
(* may call it in the adding thread while expire() runs in another.          *)
OnePlace ==
    /\ tasks_ \cap due = {} /\ tasks_ \cap done = {} /\ due \cap done = {}
    /\ \A a \in Thread : task[a] \notin tasks_ \cup due \cup done
    /\ \A a, b \in Thread : task[a] = task[b] => a = b \/ task[a] = NoTask

(* No task is called a full Accuracy or more before its deadline.            *)
NeverEarly ==
    [][\A t \in done' \ done : expired[t] - now < Accuracy]_vars

(* The scheduler thread will look at the map without a timer. *)
Collecting == loop \in {"expire", "collect"}

(* As long as no addTask() acted on a first task that had changed since it   *)
(* looked, waiting tasks have a timer: addTask() that sets none relies on    *)
(* the one of the first task, and expire() leaves none without.              *)
WaitingIsArmed == ~stale /\ tasks_ # {} /\ ~Collecting => armed # Never

(* ... and the timer is late for the first task by less than Accuracy for    *)
(* every other task in the map: each task added to a set timer can be that   *)
(* much earlier than the first one, and the lateness adds up.                *)
LatenessBound ==
    ~stale /\ ~Collecting =>
        \A t \in tasks_ : First(t) =>
            armed - expired[t] <= (Accuracy - 1) * (Cardinality(tasks_) - 1)

(* ... so every task in the map is called. *)
CalledUnlessStale ==
    \A t \in Task : (t \in tasks_ /\ ~stale) ~> (t \in done \/ stale)

(* Every task that was added is called, as timer_test.cpp expects when it    *)
(* joins the thread that its task has to end.                                *)
EveryTaskCalled == \A t \in Task : t \in tasks_ ~> t \in done
=============================================================================
