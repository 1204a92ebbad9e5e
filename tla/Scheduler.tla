------------------------------ MODULE Scheduler ------------------------------
(* net/Timer.cpp, Timer and Scheduler, run by a base::Thread as timer_test.  *)
(* cpp:42-53 runs them: a program thread makes timers, sets, adds, changes   *)
(* and removes them while the Scheduler's thread polls them, and so may the  *)
(* callbacks; either cancels the thread, and the program joins it.  Nothing  *)
(* here takes a mutex.                                                       *)
(*                                                                           *)
(* A second has Nano ticks.  A Timer lives while timers_ or the program has  *)
(* a timer_ptr to it; epoll and the vector of reported channels have plain   *)
(* pointers.  What happens at a dangling one is undefined: here, nothing.    *)
(* Only the part of a second that has gone and the ticks that are left to    *)
(* each timer matter, so that time has no end here.                          *)
(*                                                                           *)
(* The names of the specification begin with S, so that it can stand next to *)
(* TimerQueue's.                                                             *)
EXTENDS Integers, FiniteSets

CONSTANTS
    Timer,
    NoTimer,
    Nano,       \* ticks of a second
    Delays,     \* bound: the delays that timers are set to, in ticks
    Intervals   \* bound: their intervals, 0 for none

ASSUME TickAssumption ==
    /\ Nano \in Nat \ {0}
    /\ Delays \subseteq Nat \ {0} /\ Intervals \subseteq Nat
    /\ NoTimer \notin Timer

VARIABLES
    clock,      \* the ticks of this second that have gone
    left,       \* the ticks before each timerfd expires, or 0: it is not armed
    interval,   \* and its period
    readable,   \* the Timers whose timerfds have expirations to be read
    held,       \* the Timers that the program holds a timer_ptr to
    timers_,
    watched,    \* the Timers whose descriptors are registered with epoll
    events_,    \* the length of EPoll's vector: what one poll() may report
    changing,   \* the Timer that the program's thread is putting into timers_,
                \* or erasing there
    thread,     \* the Thread: "new", "started", or what pollEvent() is doing
    vec,        \* reported channels that pollEvent() has not come to yet
    running,    \* the Timer whose callback is called
    requested,  \* pthread_cancel() was called
    program,    \* "free", or blocked in Thread::join(), or "joined"
    refused,    \* history: Timers refused a delay of whole seconds
    pulled,     \* history: Timers of this batch, removed while reported or called
    missed      \* history: those whose expirations were read for nothing

svars == <<clock, left, interval, readable, held, timers_, watched, events_, changing,
          thread, vec, running, requested, program, refused, pulled, missed>>
kernel == <<clock, left, interval, readable>>
objects == <<held, timers_, watched, changing>>
polling == <<events_, thread, vec, running, requested>>
history == <<refused, pulled, missed>>

SInit ==
    /\ clock \in 0 .. Nano - 1
    /\ left = [t \in Timer |-> 0] /\ interval = [t \in Timer |-> 0] /\ readable = {}
    /\ held = Timer /\ timers_ = {} /\ watched = {} /\ changing = NoTimer
    /\ events_ = 2 /\ thread = "new" /\ vec = {} /\ running = NoTimer
    /\ requested = FALSE /\ program = "free"
    /\ refused = {} /\ pulled = {} /\ missed = {}

Alive == held \cup timers_
Batch == vec \cup ({running} \ {NoTimer})

(* The program's thread can call an operation; and so can a callback.        *)
Free == program = "free" /\ changing = NoTimer
Calling == Free \/ thread = "callback"
-----------------------------------------------------------------------------
(* Timers. *)

Due == {t \in Timer : left[t] = 1}

(* An interval timer goes on whether or not its expirations are read. *)
TimePasses ==
    /\ clock' = (clock + 1) % Nano
    /\ left' = [t \in Timer |-> IF t \in Due THEN interval[t]
                                ELSE IF left[t] = 0 THEN 0 ELSE left[t] - 1]
    /\ readable' = readable \cup Due
    /\ UNCHANGED <<interval, objects, polling, program, history>>

(* Mutant: the delay's whole seconds are counted as nanoseconds, too. *)
nanosOfAll(d) == clock + d

(* The tv_nsec that every() computes: no carry into tv_sec. *)
nanos(d) == clock + (d % Nano)

(* every(i, d), and after(d), which is every(0, d).  timerfd_settime()       *)
(* refuses a tv_nsec of a second or more, and every() does not look.         *)
every(t, i, d) ==
    /\ Calling /\ t \in Alive
    /\ IF nanos(d) < Nano
         THEN /\ left' = [left EXCEPT ![t] = (d \div Nano) * Nano + nanos(d) - clock]
              /\ interval' = [interval EXCEPT ![t] = i]
              /\ readable' = readable \ {t}
              /\ refused' = refused \ {t}
         ELSE /\ refused' = IF d % Nano = 0 THEN refused \cup {t} ELSE refused
              /\ UNCHANGED <<left, interval, readable>>
    /\ UNCHANGED <<clock, objects, polling, program, pulled, missed>>

(* Once the last timer_ptr is gone ~Timer() closes the descriptor, which     *)
(* takes it out of epoll.                                                    *)
Drop(t) ==
    /\ Free /\ t \in held
    /\ held' = held \ {t}
    /\ watched' = IF t \in timers_ THEN watched ELSE watched \ {t}
    /\ UNCHANGED <<kernel, timers_, changing, polling, program, history>>
-----------------------------------------------------------------------------
(* The Scheduler's operations. *)

(* addTimer() on the program's thread changes timers_ while pollEvent() may  *)
(* be searching it.  Bound: one thread changes timers_ at a time.            *)
BeginAdd(t) ==
    /\ Free /\ t \in held \ timers_
    /\ changing' = t
    /\ UNCHANGED <<kernel, held, timers_, watched, polling, program, history>>

(* So does removeTimer(), which has called delChannel() before. *)
BeginRemove(t) ==
    /\ Free /\ t \in timers_
    /\ changing' = t
    /\ watched' = watched \ {t}
    /\ UNCHANGED <<kernel, held, timers_, polling, program, history>>

(* The program's thread is in an operation on t, or a callback calls it.     *)
Changes(t) == changing = t \/ (thread = "callback" /\ changing = NoTimer)

(* The entry is there before epoll knows the channel. *)
addTimer(t) ==
    /\ Changes(t) /\ t \in held \ timers_
    /\ changing' = NoTimer
    /\ timers_' = timers_ \cup {t}
    /\ watched' = watched \cup {t}
    /\ UNCHANGED <<kernel, held, polling, program, history>>

(* Mutant: removeTimer() leaves the channel registered. *)
removeTimerOnly(t) ==
    /\ Changes(t) /\ t \in timers_
    /\ changing' = NoTimer
    /\ timers_' = timers_ \ {t}
    /\ watched' = IF t \in held THEN watched ELSE watched \ {t}
    /\ pulled' = IF t \in Batch THEN pulled \cup {t} ELSE pulled
    /\ UNCHANGED <<kernel, held, polling, program, refused, missed>>

(* delChannel(), then erase(), which destroys a Timer nobody else holds.     *)
removeTimer(t) ==
    /\ Changes(t) /\ t \in timers_
    /\ changing' = NoTimer
    /\ watched' = watched \ {t}
    /\ timers_' = timers_ \ {t}
    /\ pulled' = IF t \in Batch THEN pulled \cup {t} ELSE pulled
    /\ UNCHANGED <<kernel, held, polling, program, refused, missed>>
-----------------------------------------------------------------------------
(* The thread: Thread::start(), run(), and EventLoop::loop() in it.          *)

start ==
    /\ Free /\ thread = "new"
    /\ thread' = "started"
    /\ UNCHANGED <<kernel, objects, events_, vec, running, requested, program, history>>

run ==
    /\ thread = "started"
    /\ thread' = "poll"
    /\ UNCHANGED <<kernel, objects, events_, vec, running, requested, program, history>>

Ready == watched \cap readable

(* epoll_wait() reports as many as fit, and poll() doubles a vector that was *)
(* filled.  Bound: not beyond the number of Timers.                          *)
Poll ==
    /\ thread = "poll" /\ ~requested
    /\ \E R \in SUBSET Ready \ {{}} :
        /\ R = Ready \/ Cardinality(R) = events_
        /\ Cardinality(R) <= events_
        /\ vec' = R
        /\ events_' = IF Cardinality(R) = events_ /\ events_ < Cardinality(Timer)
                        THEN 2 * events_ ELSE events_
    /\ thread' = "handle"
    /\ UNCHANGED <<kernel, objects, running, requested, program, history>>

(* pollEvent() reads the expirations of one reported channel and calls the   *)
(* callback of the Timer that it finds for it.                               *)
Fire(t) ==
    /\ thread = "handle" /\ ~requested
    /\ t \in vec \cap readable \cap timers_
    /\ vec' = vec \ {t}
    /\ readable' = readable \ {t}
    /\ running' = t /\ thread' = "callback"
    /\ UNCHANGED <<clock, left, interval, objects, events_, requested, program, history>>

(* Nothing is found: the Timer was removed, or timers_ is being changed, for *)
(* this Timer or another, and find() misses an entry.  The expirations are   *)
(* gone.                                                                     *)
Miss(t) ==
    /\ thread = "handle" /\ ~requested
    /\ t \in vec \cap readable \cap Alive
    /\ t \notin timers_ \/ changing # NoTimer
    /\ vec' = vec \ {t}
    /\ readable' = readable \ {t}
    /\ missed' = missed \cup {t}
    /\ UNCHANGED <<clock, left, interval, objects, events_, thread, running, requested,
                   program, refused, pulled>>

(* read() gets nothing: the timer was set anew; or the channel is dangling.  *)
ReadNothing(t) ==
    /\ thread = "handle" /\ ~requested
    /\ t \in vec \ (readable \cap Alive)
    /\ vec' = vec \ {t}
    /\ UNCHANGED <<kernel, objects, events_, thread, running, requested, program, history>>

CallbackReturns ==
    /\ thread = "callback"
    /\ thread' = "handle" /\ running' = NoTimer
    /\ UNCHANGED <<kernel, objects, events_, vec, requested, program, history>>

Handled ==
    /\ thread = "handle" /\ vec = {}
    /\ thread' = "poll"
    /\ pulled' = {} /\ missed' = {}
    /\ UNCHANGED <<kernel, objects, events_, vec, running, requested, program, refused>>

Exit ==
    /\ thread' = "exited" /\ vec' = {} /\ running' = NoTimer
    /\ UNCHANGED <<kernel, objects, events_, program, history>>

(* Thread::cancel() by a callback: the thread exits at once.                 *)
CancelSelf == thread = "callback" /\ Exit /\ UNCHANGED requested

(* Thread::cancel() by the program ... *)
cancel ==
    /\ Free /\ thread # "new" /\ ~requested
    /\ requested' = TRUE
    /\ UNCHANGED <<kernel, objects, events_, thread, vec, running, program, history>>

(* Mutant: epoll_wait() is called with cancellation disabled. *)
CancelledReading == requested /\ thread = "handle" /\ Exit /\ UNCHANGED requested

(* ... takes effect at the next epoll_wait() or read().                      *)
Cancelled == requested /\ thread \in {"poll", "handle"} /\ Exit /\ UNCHANGED requested

(* Thread::join() *)
join ==
    /\ Free /\ thread # "new"
    /\ program' = "joining"
    /\ UNCHANGED <<kernel, objects, polling, history>>

Joined ==
    /\ program = "joining" /\ thread = "exited"
    /\ program' = "joined"
    /\ UNCHANGED <<kernel, objects, polling, history>>

Handle(t) == Fire(t) \/ Miss(t) \/ ReadNothing(t)
LoopStep == run \/ Poll \/ (\E t \in Timer : Handle(t)) \/ CallbackReturns \/ Handled \/ Cancelled

SNext ==
    \/ TimePasses
    \/ \E t \in Timer :
        \/ \E i \in Intervals, d \in Delays : every(t, i, d)
        \/ Drop(t)
        \/ BeginAdd(t)
        \/ BeginRemove(t)
        \/ addTimer(t)
        \/ removeTimer(t)
    \/ start \/ cancel \/ join \/ Joined
    \/ LoopStep \/ CancelSelf

(* Time goes on, the thread runs, callbacks return, and an addTimer() or     *)
(* removeTimer() that was begun and a join() that can return do.             *)
SSpec ==
    /\ SInit /\ [][SNext]_svars
    /\ WF_svars(TimePasses)
    /\ WF_svars(LoopStep)
    /\ WF_svars(Joined)
    /\ WF_svars(\E t \in Timer : changing = t /\ (addTimer(t) \/ removeTimer(t)))
-----------------------------------------------------------------------------
STypeOK ==
    /\ clock \in 0 .. Nano - 1
    /\ left \in [Timer -> Nat] /\ readable \subseteq Timer
    /\ interval \in [Timer -> Intervals \cup {0}]
    /\ held \subseteq Timer /\ timers_ \subseteq Timer /\ watched \subseteq Timer
    /\ events_ \in Nat
    /\ changing \in Timer \cup {NoTimer} /\ running \in Timer \cup {NoTimer}
    /\ thread \in {"new", "started", "poll", "handle", "callback", "exited"}
    /\ vec \subseteq Timer
    /\ requested \in BOOLEAN /\ program \in {"free", "joining", "joined"}
    /\ refused \subseteq Timer /\ pulled \subseteq Timer /\ missed \subseteq Timer

(* pollEvent() works with plain pointers to Channels inside Timers.  They    *)
(* are to live Timers, and so is the callback that runs, unless removeTimer()*)
(* was called on that Timer while it was reported or called: dropping        *)
(* timer_ptrs, and removing Timers that have not been reported, is safe.     *)
BatchIsLive == Batch \subseteq Alive \cup pulled

(* A callback is due to a Timer whose timerfd is armed or has expired, and   *)
(* to one that was asked for it in whole seconds: timerfd_settime() can only *)
(* refuse other delays.                                                      *)
Owed(t) == left[t] # 0 \/ t \in readable \cup refused

Sets(t) == \E i \in Intervals, d \in Delays : every(t, i, d)

(* Unless it is set anew for ever, a Timer in timers_ that a callback is due *)
(* to gets it, an interval timer again and again; or it is removed, or the   *)
(* thread ends, or pollEvent() reads its expirations and calls nobody: it    *)
(* had been removed when they were read, or find() came upon a map being     *)
(* changed.  Its next expiration makes good for that.                        *)
TimerFires ==
    \A t \in Timer :
        <>[][~Sets(t)]_svars =>
            (Owed(t) /\ t \in timers_ /\ thread # "new" ~>
                running = t \/ t \notin timers_ \/ thread = "exited" \/ t \in missed)

(* The program's join() returns once it has called cancel(), whatever the    *)
(* thread was doing then.                                                    *)
CancelEnds == requested /\ program = "joining" ~> program = "joined"
=============================================================================
