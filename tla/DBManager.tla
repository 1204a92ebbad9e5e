------------------------------ MODULE DBManager ------------------------------
(* db/SqlManager.h and db/Psql.cpp: a fixed pool of database connections and *)
(* the four operations that borrow one.  getDB(), returnDB() and close() are *)
(* one critical section each, and so are the iterations of init().  What an  *)
(* operation does to its connection between getDB() and returnDB() is one    *)
(* step per call of libpq.  A connection that PQfinish() freed may still be  *)
(* used, with any outcome: the model lets the call succeed or fail.          *)
EXTENDS Naturals, FiniteSets

CONSTANTS
    Thread,     \* the threads that run operations
    Number      \* the template parameter: how many connections init() makes

ASSUME NumberAssumption == Number \in Nat \ {0}

DB == 1 .. Number
NoDB == 0
Op == {"query", "select", "queryById", "selectById"}

VARIABLES
    size,       \* how many connections init() has put into dbs_
    inUse,      \* the inUse_ flag of each connection
    finished,   \* how often PQfinish() was called on it
    inTxn,      \* whether the session is inside a transaction block
    pc,         \* where each thread is in its operation
    op,         \* the operation it runs
    db,         \* the connection it got, or NoDB
    closed,     \* whether close() was called
    broken,     \* history: connections connect() could not open
    lost        \* history: connections an operation kept for good

vars == <<size, inUse, finished, inTxn, pc, op, db, closed, broken, lost>>

pool == <<size, closed, broken>>

Init ==
    /\ size = 0
    /\ inUse = [i \in DB |-> FALSE]
    /\ finished = [i \in DB |-> 0]
    /\ inTxn = [i \in DB |-> FALSE]
    /\ pc = [t \in Thread |-> "idle"]
    /\ op = [t \in Thread |-> "query"]
    /\ db = [t \in Thread |-> NoDB]
    /\ closed = FALSE
    /\ broken = {}
    /\ lost = {}
-----------------------------------------------------------------------------
(* The manager. *)

(* One iteration of init().  The result of connect() is not looked at: a     *)
(* connection that failed, and that connect() has finished, is pushed too.   *)
Connect(ok) ==
    /\ size < Number /\ ~closed
    /\ size' = size + 1
    /\ broken' = IF ok THEN broken ELSE broken \cup {size + 1}
    /\ finished' = IF ok THEN finished ELSE [finished EXCEPT ![size + 1] = 1]
    /\ UNCHANGED <<inUse, inTxn, pc, op, db, closed, lost>>

(* close() finishes every connection, also those in use, and keeps them. *)
close ==
    /\ size = Number /\ ~closed
    /\ closed' = TRUE
    /\ finished' = [i \in DB |-> finished[i] + 1]
    /\ inTxn' = [i \in DB |-> FALSE]
    /\ UNCHANGED <<size, inUse, pc, op, db, broken, lost>>

FirstFree(i) ==
    /\ i <= size /\ ~inUse[i]
    /\ \A k \in DB : k < i => inUse[k]

getDB(t, o, i) ==
    /\ pc[t] = "idle" /\ FirstFree(i)
    /\ inUse' = [inUse EXCEPT ![i] = TRUE]
    /\ db' = [db EXCEPT ![t] = i]
    /\ op' = [op EXCEPT ![t] = o]
    /\ pc' = [pc EXCEPT ![t] = IF o = "selectById" THEN "exec" ELSE "begin"]
    /\ UNCHANGED <<pool, finished, inTxn, lost>>

returnDB(t) ==
    /\ pc[t] = "return"
    /\ inUse' = [inUse EXCEPT ![db[t]] = FALSE]
    /\ db' = [db EXCEPT ![t] = NoDB]
    /\ pc' = [pc EXCEPT ![t] = "idle"]
    /\ UNCHANGED <<pool, finished, inTxn, op, lost>>
-----------------------------------------------------------------------------
(* The operations. *)

Live(i) == finished[i] = 0

(* BEGIN may fail; the operation goes on without a transaction. *)
transactionBegin(t, ok) ==
    /\ pc[t] = "begin"
    /\ inTxn' = [inTxn EXCEPT ![db[t]] = ok /\ Live(db[t])]
    /\ pc' = [pc EXCEPT ![t] = "exec"]
    /\ UNCHANGED <<pool, inUse, finished, op, db, lost>>

(* PQexecParams() succeeds, or fails in select(), which goes on all the same. *)
Executed(t, ok) ==
    /\ pc[t] = "exec"
    /\ ok \/ op[t] = "select"
    /\ pc' = [pc EXCEPT ![t] = IF op[t] = "selectById" THEN "return" ELSE "end"]
    /\ UNCHANGED <<pool, inUse, finished, inTxn, op, db, lost>>

(* Mutant: query() returns its connection, and only that, when it fails. *)
QueryFailsReturned(t) ==
    /\ pc[t] = "exec" /\ op[t] = "query"
    /\ pc' = [pc EXCEPT ![t] = "return"]
    /\ UNCHANGED <<pool, inUse, finished, inTxn, op, db, lost>>

(* query() returns: no transactionEnd(), no returnDB(). *)
QueryFails(t) ==
    /\ pc[t] = "exec" /\ op[t] = "query"
    /\ lost' = lost \cup {db[t]}
    /\ db' = [db EXCEPT ![t] = NoDB]
    /\ pc' = [pc EXCEPT ![t] = "idle"]
    /\ UNCHANGED <<pool, inUse, finished, inTxn, op>>

(* Mutant: they return the connection that they finished. *)
ByIdFailsReturned(t) ==
    /\ pc[t] = "exec" /\ op[t] \in {"queryById", "selectById"}
    /\ finished' = [finished EXCEPT ![db[t]] = @ + 1]
    /\ inTxn' = [inTxn EXCEPT ![db[t]] = FALSE]
    /\ pc' = [pc EXCEPT ![t] = "return"]
    /\ UNCHANGED <<pool, inUse, op, db, lost>>

(* queryById() and selectById() finish the connection and return. *)
ByIdFails(t) ==
    /\ pc[t] = "exec" /\ op[t] \in {"queryById", "selectById"}
    /\ finished' = [finished EXCEPT ![db[t]] = @ + 1]
    /\ inTxn' = [inTxn EXCEPT ![db[t]] = FALSE]
    /\ lost' = lost \cup {db[t]}
    /\ db' = [db EXCEPT ![t] = NoDB]
    /\ pc' = [pc EXCEPT ![t] = "idle"]
    /\ UNCHANGED <<pool, inUse, op>>

(* Mutant: an operation that ends its transaction forgets its connection. *)
transactionEndOnly(t) ==
    /\ pc[t] = "end"
    /\ inTxn' = [inTxn EXCEPT ![db[t]] = FALSE]
    /\ db' = [db EXCEPT ![t] = NoDB]
    /\ pc' = [pc EXCEPT ![t] = "idle"]
    /\ UNCHANGED <<pool, inUse, finished, op, lost>>

transactionEnd(t) ==
    /\ pc[t] = "end"
    /\ inTxn' = [inTxn EXCEPT ![db[t]] = FALSE]
    /\ pc' = [pc EXCEPT ![t] = "return"]
    /\ UNCHANGED <<pool, inUse, finished, op, db, lost>>

(* An operation that gets no connection returns at once and changes nothing. *)
Next ==
    \/ \E ok \in BOOLEAN : Connect(ok)
    \/ close
    \/ \E t \in Thread :
        \/ \E o \in Op, i \in DB : getDB(t, o, i)
        \/ \E ok \in BOOLEAN : transactionBegin(t, ok) \/ Executed(t, ok)
        \/ QueryFails(t)
        \/ ByIdFails(t)
        \/ transactionEnd(t)
        \/ returnDB(t)

Spec == Init /\ [][Next]_vars
-----------------------------------------------------------------------------
TypeOK ==
    /\ size \in 0 .. Number
    /\ inUse \in [DB -> BOOLEAN]
    /\ finished \in [DB -> Nat]
    /\ inTxn \in [DB -> BOOLEAN]
    /\ pc \in [Thread -> {"idle", "begin", "exec", "end", "return"}]
    /\ op \in [Thread -> Op]
    /\ db \in [Thread -> DB \cup {NoDB}]
    /\ closed \in BOOLEAN
    /\ broken \subseteq DB
    /\ lost \subseteq DB

Held == {db[t] : t \in Thread} \ {NoDB}

(* Two operations never share a connection, whatever the others did with it  *)
(* before: its transaction and its result belong to one thread.              *)
Exclusive == \A t, u \in Thread : db[t] = db[u] => t = u \/ db[t] = NoDB

(* Every connection marked in use is held by an operation or was lost by one *)
(* that failed, never both, so the pool shrinks by exactly the failures of   *)
(* query(), queryById() and selectById() and by nothing else.                *)
Accounting ==
    /\ {i \in DB : inUse[i]} = Held \cup lost
    /\ Held \cap lost = {}

(* getDB() never hands out a connection that is still inside the transaction *)
(* block of an earlier operation, although query() and queryById() leave     *)
(* theirs open when they fail: such a connection is never handed out again.  *)
CleanHandout ==
    [][\A t \in Thread : db[t] = NoDB /\ db'[t] # NoDB => ~inTxn[db'[t]]]_vars

(* An operation works on a freed connection only if connect() failed or the  *)
(* manager was closed under it: the close() of a failed queryById() or       *)
(* selectById() hits nobody, because nobody gets that connection again.      *)
UsesLive ==
    \A t \in Thread : pc[t] \in {"begin", "exec", "end"} /\ ~Live(db[t]) =>
        closed \/ db[t] \in broken

(* A connection is freed twice only if connect() had failed on it or an      *)
(* operation had lost it: close() does not know that it is gone already.     *)
FreedOnce == \A i \in DB : finished[i] > 1 => i \in broken \cup lost
(* The manager is a pool that lends each connection to one operation at a    *)
(* time, gets it back or loses it: whatever the threads do between getDB()   *)
(* and returnDB(), inUse_ frees for others exactly what has been returned.   *)
Pool == INSTANCE ConnectionPool WITH
            User <- Thread, Connection <- DB, None <- NoDB,
            idle <- {i \in 1 .. size : ~inUse[i]}, lent <- db, lost <- lost

ImplementsPool == Pool!Spec
=============================================================================
