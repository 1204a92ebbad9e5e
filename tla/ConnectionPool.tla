---------------------------- MODULE ConnectionPool ----------------------------
(* What a pool of connections promises its users, without flags, locks or    *)
(* calls of the database: a connection in the pool is idle, lent to one      *)
(* user, or lost, and it is lost only by the user it is lent to.             *)

CONSTANTS
    User,
    Connection,
    None        \* what a user has that has no connection

VARIABLES
    idle,       \* the connections to be lent
    lent,       \* the connection each user has
    lost        \* the connections that users have kept for good

vars == <<idle, lent, lost>>

Init ==
    /\ idle = {}
    /\ lent = [u \in User |-> None]
    /\ lost = {}

Add(c) ==
    /\ c \notin idle \cup lost /\ \A u \in User : lent[u] # c
    /\ idle' = idle \cup {c}
    /\ UNCHANGED <<lent, lost>>

Lend(u, c) ==
    /\ lent[u] = None /\ c \in idle
    /\ lent' = [lent EXCEPT ![u] = c]
    /\ idle' = idle \ {c}
    /\ UNCHANGED lost

Return(u) ==
    /\ lent[u] # None
    /\ lent' = [lent EXCEPT ![u] = None]
    /\ idle' = idle \cup {lent[u]}
    /\ UNCHANGED lost

Lose(u) ==
    /\ lent[u] # None
    /\ lent' = [lent EXCEPT ![u] = None]
    /\ lost' = lost \cup {lent[u]}
    /\ UNCHANGED idle

Next ==
    \/ \E c \in Connection : Add(c)
    \/ \E u \in User, c \in Connection : Lend(u, c)
    \/ \E u \in User : Return(u) \/ Lose(u)

Spec == Init /\ [][Next]_vars
=============================================================================
