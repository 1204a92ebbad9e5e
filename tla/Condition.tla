----------------------------- MODULE Condition -----------------------------
(* The condition variable of base/Condition.cpp, a thin wrapper over         *)
(* pthread_cond_t.  Its only state that a program can observe is the set of  *)
(* threads blocked in wait(); a component keeps that set in a variable       *)
(* (cond_) and these operators say how each call changes it.  A thread that  *)
(* has left the set still has to acquire the mutex before wait() returns:    *)
(* that step belongs to the component.  POSIX lets wait() return without a   *)
(* signal, and signal() wake more than one thread: components model both by  *)
(* an action that removes an arbitrary thread from the set.                  *)

(* wait(mutex): thread t releases the mutex and blocks, as one step. *)
wait(blocked, t) == blocked \cup {t}

(* Mutant: the call to pthread_cond_signal() is missing. *)
notifyNobody(blocked) == {blocked}

(* notify(): the sets that may remain after one blocked thread, the kernel   *)
(* chooses which, is woken.  With nobody blocked the signal is lost.         *)
notify(blocked) ==
    IF blocked = {} THEN {{}} ELSE {blocked \ {t} : t \in blocked}

(* notifyall(): the only set that may remain. *)
notifyall(blocked) == {{}}
=============================================================================
