------------------------------ MODULE JobQueue ------------------------------
(* What the blocking queue promises its users, without threads, mutex or     *)
(* condition variable: jobs are started in the order they were submitted,    *)
(* each at most once, and only while the queue is open; while it stays open  *)
(* every submitted job is started and every started job completes.           *)
EXTENDS Sequences

CONSTANT Job

VARIABLES
    pending,    \* submitted jobs that no worker has started, oldest first
    executing,  \* jobs being run
    done,       \* jobs whose run has ended
    open        \* TRUE between commence() and stop()

vars == <<pending, executing, done, open>>

Init ==
    /\ pending = <<>>
    /\ executing = {}
    /\ done = {}
    /\ open = FALSE

Submit(j) ==
    /\ \A i \in DOMAIN pending : pending[i] # j
    /\ j \notin executing \cup done
    /\ pending' = Append(pending, j)
    /\ UNCHANGED <<executing, done, open>>

Dispatch ==
    /\ open
    /\ pending # <<>>
    /\ executing' = executing \cup {Head(pending)}
    /\ pending' = Tail(pending)
    /\ UNCHANGED <<done, open>>

Complete(j) ==
    /\ j \in executing
    /\ executing' = executing \ {j}
    /\ done' = done \cup {j}
    /\ UNCHANGED <<pending, open>>

Open == ~open /\ open' = TRUE /\ UNCHANGED <<pending, executing, done>>

Close == open /\ open' = FALSE /\ UNCHANGED <<pending, executing, done>>

Next ==
    \/ \E j \in Job : Submit(j) \/ Complete(j)
    \/ Dispatch
    \/ Open
    \/ Close

SafeSpec == Init /\ [][Next]_vars

Spec == SafeSpec /\ WF_vars(Dispatch) /\ \A j \in Job : WF_vars(Complete(j))
=============================================================================
