------------------------------ MODULE SqlClient ------------------------------
(* db/orm-psql.h over DBManager.tla: the functions of a table's class, and   *)
(* the PSql::Result each of them has.  An operation of PSql leaves a pointer *)
(* to a PGresult in it, the function reads fields out of it and clears it    *)
(* with freeAll().  freeAll() keeps the pointer, and an operation that fails *)
(* calls it, too.  Addresses of results that were cleared are used again.    *)
EXTENDS DBManager

CONSTANT Address    \* bound: where PGresults can be allocated

ASSUME AddressAssumption == 0 \notin Address

Null == 0
Nobody == {}

VARIABLES
    heap,       \* for whose function a live PGresult is at an address: {thread},
                \* or Nobody
    leaked,     \* where the live PGresults of failed BEGINs are
    res,        \* Result::res of each thread's function
    back,       \* the threads whose operation has returned to its function
    failed,     \* history: those of them whose operation failed
    hit         \* history: those whose result another thread has cleared

clientVars == <<heap, leaked, res, back, failed, hit>>
allVars == <<vars, clientVars>>

ClientInit ==
    /\ Init
    /\ heap = [a \in Address |-> Nobody] /\ leaked = {}
    /\ res = [t \in Thread |-> Null]
    /\ back = {} /\ failed = {} /\ hit = {}
-----------------------------------------------------------------------------
(* selectById(), insert(), update() and DeleteById() call selectById(),      *)
(* select(), query() and queryById(), with a new Result.                     *)
Call(t) ==
    /\ t \notin back
    /\ \E o \in Op, i \in DB : getDB(t, o, i)
    /\ UNCHANGED clientVars

(* Without a free connection the operation returns and leaves res NULL. *)
CallInVain(t) ==
    /\ t \notin back /\ pc[t] = "idle"
    /\ ~\E i \in DB : FirstFree(i)
    /\ back' = back \cup {t}
    /\ UNCHANGED <<vars, heap, leaked, res, failed, hit>>

(* BEGIN or END succeeds, and its PGresult is cleared at once. *)
transaction(t) ==
    /\ transactionBegin(t, TRUE) \/ transactionEnd(t)
    /\ UNCHANGED clientVars

Free(a) == heap[a] = Nobody /\ a \notin leaked

(* transactionBegin() returns before PQclear(): the PGresult of a failed     *)
(* BEGIN, unless PQexec() returned NULL, stays, and nothing points to it.    *)
beginFails(t) ==
    /\ transactionBegin(t, FALSE)
    /\ \/ \E a \in Address : Free(a) /\ leaked' = leaked \cup {a}
       \/ UNCHANGED leaked
    /\ UNCHANGED <<heap, res, back, failed, hit>>

(* Mutant: the braces of the error path are missing, its freeAll() always    *)
(* runs.                                                                     *)
execAndFree(t) ==
    /\ Executed(t, TRUE)
    /\ \E a \in Address : Free(a) /\ res' = [res EXCEPT ![t] = a]
    /\ UNCHANGED <<heap, leaked, back, failed, hit>>

(* PQexecParams() succeeds and the result is the thread's. *)
exec(t) ==
    /\ Executed(t, TRUE)
    /\ \E a \in Address :
        /\ Free(a)
        /\ heap' = [heap EXCEPT ![a] = {t}]
        /\ res' = [res EXCEPT ![t] = a]
    /\ UNCHANGED <<leaked, back, failed, hit>>

(* It fails: the result with the error is allocated and cleared, and the     *)
(* pointer stays.  Only select() goes on to end its transaction.             *)
execFails(t) ==
    /\ \/ op[t] = "select" /\ Executed(t, FALSE) /\ UNCHANGED back
       \/ (QueryFails(t) \/ ByIdFails(t)) /\ back' = back \cup {t}
    /\ \E a \in Address : Free(a) /\ res' = [res EXCEPT ![t] = a]
    /\ failed' = failed \cup {t}
    /\ UNCHANGED <<heap, leaked, hit>>

Returned(t) ==
    /\ returnDB(t)
    /\ back' = back \cup {t}
    /\ UNCHANGED <<heap, leaked, res, failed, hit>>

(* The function has read its fields and calls freeAll().  PQclear(NULL) does *)
(* nothing; nor does, here, the undefined clearing of what is free; but at   *)
(* an address that was allocated again it clears somebody else's result, or  *)
(* one that a BEGIN left.                                                    *)
freeAll(t) ==
    /\ t \in back
    /\ IF res[t] = Null THEN UNCHANGED <<heap, leaked, hit>>
         ELSE /\ heap' = [heap EXCEPT ![res[t]] = Nobody]
              /\ leaked' = leaked \ {res[t]}
              /\ hit' = (hit \cup heap[res[t]]) \ {t}
    /\ res' = [res EXCEPT ![t] = Null]
    /\ back' = back \ {t} /\ failed' = failed \ {t}
    /\ UNCHANGED vars

Manager == ((\E ok \in BOOLEAN : Connect(ok)) \/ close) /\ UNCHANGED clientVars

ClientNext ==
    \/ Manager
    \/ \E t \in Thread :
        \/ Call(t) \/ CallInVain(t)
        \/ transaction(t) \/ beginFails(t) \/ exec(t) \/ execFails(t) \/ Returned(t)
        \/ freeAll(t)

ClientSpec == ClientInit /\ [][ClientNext]_allVars
-----------------------------------------------------------------------------
ClientTypeOK ==
    /\ TypeOK
    /\ heap \in [Address -> {Nobody} \cup {{t} : t \in Thread}]
    /\ leaked \subseteq Address
    /\ res \in [Thread -> Address \cup {Null}]
    /\ back \subseteq Thread /\ failed \subseteq Thread /\ hit \subseteq Thread

(* What a function reads and clears is its own thread's result, or nothing,  *)
(* in whatever order the threads borrow connections, fail and clear.  It is  *)
(* only a failed operation, which clears its result and leaves the pointer,  *)
(* that takes this from its caller, and by the caller's freeAll() from the   *)
(* thread that got the address next.  No result is left behind but those of  *)
(* BEGINs that failed: any other is in its thread's Result.                  *)
ResultIsOwn ==
    /\ \A t \in back \ (failed \cup hit) : res[t] # Null => heap[res[t]] = {t}
    /\ \A a \in Address :
        Free(a) \/ a \in leaked \/ \E t \in Thread : heap[a] = {t} /\ res[t] = a
=============================================================================
