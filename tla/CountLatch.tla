----------------------------- MODULE CountLatch -----------------------------
(* base/Condition.cpp, CountLatch: threads wait in latch() until calls of    *)
(* reduce() have brought the count down to zero.  reduce() is one critical   *)
(* section and one step, by whatever thread; latch() is cut between its test *)
(* and the wait, which the mutex must hold together.                         *)
EXTENDS Integers, FiniteSets, Condition

CONSTANTS
    Waiter,     \* the threads that call latch()
    Start,      \* the constructor's argument
    Vals,       \* the arguments reduce() is called with
    MaxBelow,   \* bound: how far below zero calls of reduce() may go
    NoWaiter    \* "the mutex is free"

(* What a program that has a latch assumes of it. *)
CountAssumption ==
    /\ Start \in Int
    /\ Vals \subseteq Nat \ {0}
    /\ MaxBelow \in Nat
    /\ NoWaiter \notin Waiter

VARIABLES count_, mutex_, cond_, pc

vars == <<count_, mutex_, cond_, pc>>

Init ==
    /\ count_ = Start
    /\ mutex_ = NoWaiter
    /\ cond_ = {}
    /\ pc = [w \in Waiter |-> "before"]

(* Mutant: reduce() without its MutexGuard. *)
reduceUnlocked(val) ==
    /\ count_ - val >= -MaxBelow
    /\ count_' = count_ - val
    /\ cond_' \in notify(cond_)
    /\ UNCHANGED <<mutex_, pc>>

reduce(val) ==
    /\ count_ - val >= -MaxBelow
    /\ mutex_ = NoWaiter
    /\ count_' = count_ - val
    /\ cond_' \in notify(cond_)
    /\ UNCHANGED <<mutex_, pc>>

latch(w) ==
    /\ pc[w] = "before"
    /\ pc' = [pc EXCEPT ![w] = "lock"]
    /\ UNCHANGED <<count_, mutex_, cond_>>

(* The mutex is acquired, on entry or on the way out of wait(), and the loop *)
(* condition is evaluated; latch() returns, or goes on to wait.              *)
LockAndTest(w) ==
    /\ pc[w] = "lock" \/ (pc[w] = "blocked" /\ w \notin cond_)
    /\ mutex_ = NoWaiter
    /\ IF count_ > 0
         THEN pc' = [pc EXCEPT ![w] = "wait"] /\ mutex_' = w
         ELSE pc' = [pc EXCEPT ![w] = "through"] /\ UNCHANGED mutex_
    /\ UNCHANGED <<count_, cond_>>

Wait(w) ==
    /\ pc[w] = "wait"
    /\ cond_' = wait(cond_, w)
    /\ mutex_' = NoWaiter
    /\ pc' = [pc EXCEPT ![w] = "blocked"]
    /\ UNCHANGED count_

Spurious(w) ==
    /\ w \in cond_
    /\ cond_' = cond_ \ {w}
    /\ UNCHANGED <<count_, mutex_, pc>>

Next ==
    \/ \E val \in Vals : reduce(val)
    \/ \E w \in Waiter : latch(w) \/ LockAndTest(w) \/ Wait(w) \/ Spurious(w)

(* A thread inside latch() that can run does run; nothing obliges a thread   *)
(* to call reduce() or latch(), and wait() need not return spuriously.       *)
Spec ==
    /\ Init /\ [][Next]_vars
    /\ \A w \in Waiter : WF_vars(LockAndTest(w)) /\ WF_vars(Wait(w))
-----------------------------------------------------------------------------
TypeOK ==
    /\ count_ \in Int
    /\ mutex_ \in Waiter \cup {NoWaiter}
    /\ cond_ \subseteq Waiter
    /\ pc \in [Waiter -> {"before", "lock", "wait", "blocked", "through"}]

(* latch() returns to no thread while the count is positive, whatever woke   *)
(* the thread up.                                                            *)
NeverEarly == \A w \in Waiter : pc[w] = "through" => count_ <= 0

(* Once the latch is open nobody is left sleeping.  It holds for one waiter: *)
(* reduce() notifies each time, also with nobody blocked, but wakes only one *)
(* thread, and a thread that leaves latch() wakes no other.                  *)
NoneStranded == count_ <= 0 => cond_ = {}

(* ... so the single waiter, the main thread of singletin_test.cpp, gets     *)
(* through.                                                                  *)
OpenLatchFrees ==
    \A w \in Waiter : (count_ <= 0 /\ pc[w] # "before") ~> pc[w] = "through"
=============================================================================
