--------------------------- MODULE DBManagerProofs ---------------------------
(* Proofs about DBManager.tla and SqlClient.tla, for any set of threads, any *)
(* pool size and any addresses.                                              *)
EXTENDS SqlClient, TLAPS

(* A thread holds a connection during an operation, and only then. *)
HeldWhileBusy ==
    \A t \in Thread :
        /\ db[t] = NoDB <=> pc[t] = "idle"
        /\ pc[t] = "begin" => op[t] # "selectById"

(* A connection nobody uses is outside any transaction, and so is one about  *)
(* to be returned.                                                           *)
IdleIsClean ==
    /\ \A i \in DB : ~inUse[i] => ~inTxn[i]
    /\ \A t \in Thread :
        /\ pc[t] \in {"begin", "return"} => ~inTxn[db[t]]
        /\ pc[t] = "exec" /\ op[t] = "selectById" => ~inTxn[db[t]]

(* A freed connection is one that was never open, that is lost, or that the  *)
(* manager closed.                                                           *)
FreedIsKnown ==
    \A i \in DB : finished[i] > 0 => closed \/ i \in broken \cup lost

IInv ==
    /\ TypeOK
    /\ HeldWhileBusy
    /\ Exclusive
    /\ Accounting
    /\ IdleIsClean
    /\ FreedIsKnown

USE NumberAssumption DEF DB, NoDB

(* An empty pool satisfies the inductive invariant. *)
LEMMA InitIInv == Init => IInv
<1> SUFFICES ASSUME Init PROVE IInv
  OBVIOUS
<1>1. TypeOK
  <2>1. inUse \in [DB -> BOOLEAN] /\ inTxn \in [DB -> BOOLEAN]
    BY ZenonT(20) DEF Init
  <2>2. finished \in [DB -> Nat] /\ db \in [Thread -> DB \cup {NoDB}]
    BY DEF Init
  <2>3. /\ pc \in [Thread -> {"idle", "begin", "exec", "end", "return"}]
        /\ op \in [Thread -> Op]
    BY DEF Init, Op
  <2>4. size \in 0 .. Number
    BY NumberAssumption DEF Init
  <2>6. closed \in BOOLEAN
    BY DEF Init
  <2>5. broken \subseteq DB /\ lost \subseteq DB
    BY DEF Init
  <2> QED
    BY <2>1, <2>2, <2>3, <2>4, <2>5, <2>6 DEF TypeOK
<1>2. HeldWhileBusy /\ Exclusive /\ IdleIsClean /\ FreedIsKnown
  BY DEF Init, HeldWhileBusy, Exclusive, IdleIsClean, FreedIsKnown
<1>3. Accounting
  BY DEF Init, Accounting, Held
<1> QED
  BY <1>1, <1>2, <1>3 DEF IInv

(* What an operation does to the flags when it ends with its connection lost. *)
LEMMA LoseAccounting ==
    ASSUME IInv, NEW t \in Thread, pc[t] # "idle",
           inUse' = inUse, lost' = lost \cup {db[t]},
           db' = [db EXCEPT ![t] = NoDB]
    PROVE  Accounting'
<1>1. db[t] \in DB /\ db[t] \in Held
  BY DEF IInv, TypeOK, HeldWhileBusy, Held
<1>2. Held' = Held \ {db[t]}
  BY <1>1 DEF IInv, TypeOK, Exclusive, Held
<1> QED
  BY <1>1, <1>2 DEF IInv, Accounting

(* Every step of the manager and of the operations preserves it. *)
LEMMA NextIInv == IInv /\ [Next]_vars => IInv'
<1> SUFFICES ASSUME IInv, [Next]_vars PROVE IInv'
  OBVIOUS
<1> USE DEF IInv, pool
<1>1. ASSUME NEW ok \in BOOLEAN, Connect(ok) PROVE IInv'
  <2>1. TypeOK'
    BY <1>1 DEF Connect, TypeOK
  <2>2. (HeldWhileBusy /\ Exclusive /\ IdleIsClean)'
    BY <1>1 DEF Connect, HeldWhileBusy, Exclusive, IdleIsClean
  <2>3. Accounting'
    BY <1>1 DEF Connect, Accounting, Held
  <2>4. FreedIsKnown'
    BY <1>1 DEF Connect, FreedIsKnown, TypeOK
  <2> QED
    BY <2>1, <2>2, <2>3, <2>4
<1>2. CASE close
  <2>1. TypeOK'
    BY <1>2 DEF close, TypeOK
  <2>2. (HeldWhileBusy /\ Exclusive /\ FreedIsKnown)'
    BY <1>2 DEF close, HeldWhileBusy, Exclusive, FreedIsKnown
  <2>3. Accounting'
    BY <1>2 DEF close, Accounting, Held
  <2>4. IdleIsClean'
    BY <1>2 DEF close, IdleIsClean, TypeOK, HeldWhileBusy
  <2> QED
    BY <2>1, <2>2, <2>3, <2>4
<1>3. ASSUME NEW t \in Thread, NEW o \in Op, NEW i \in DB, getDB(t, o, i) PROVE IInv'
  <2>1. TypeOK'
    BY <1>3 DEF getDB, TypeOK
  <2>2. ~inUse[i] /\ db[t] = NoDB /\ i \notin Held
    BY <1>3 DEF getDB, FirstFree, HeldWhileBusy, Accounting
  <2>3. Exclusive'
    BY <1>3, <2>2 DEF getDB, Exclusive, TypeOK, Held
  <2>4. Held' = Held \cup {i}
    BY <1>3, <2>2 DEF getDB, TypeOK, Held
  <2>5. Accounting'
    BY <1>3, <2>2, <2>4 DEF getDB, Accounting, TypeOK
  <2>6. (HeldWhileBusy /\ FreedIsKnown)'
    BY <1>3 DEF getDB, HeldWhileBusy, FreedIsKnown, TypeOK
  <2>7. IdleIsClean'
    BY <1>3, <2>2 DEF getDB, IdleIsClean, TypeOK
  <2> QED
    BY <2>1, <2>3, <2>5, <2>6, <2>7
<1>4. ASSUME NEW t \in Thread, pc[t] # "idle"
      PROVE  /\ db[t] \in DB /\ inUse[db[t]] /\ db[t] \notin lost
             /\ \A u \in Thread : db[u] = db[t] => u = t
  BY <1>4 DEF TypeOK, HeldWhileBusy, Exclusive, Accounting, Held
<1>5. ASSUME NEW t \in Thread, NEW ok \in BOOLEAN, transactionBegin(t, ok) PROVE IInv'
  <2>1. TypeOK' /\ HeldWhileBusy' /\ Exclusive' /\ FreedIsKnown'
    BY <1>5 DEF transactionBegin, TypeOK, HeldWhileBusy, Exclusive, FreedIsKnown
  <2>2. Accounting'
    BY <1>5 DEF transactionBegin, Accounting, Held
  <2>3. IdleIsClean'
    BY <1>4, <1>5 DEF transactionBegin, IdleIsClean, TypeOK, HeldWhileBusy
  <2> QED
    BY <2>1, <2>2, <2>3
<1>6. ASSUME NEW t \in Thread, NEW ok \in BOOLEAN, Executed(t, ok) PROVE IInv'
  <2>1. TypeOK' /\ HeldWhileBusy' /\ Exclusive' /\ FreedIsKnown'
    BY <1>6 DEF Executed, TypeOK, HeldWhileBusy, Exclusive, FreedIsKnown
  <2>2. Accounting'
    BY <1>6 DEF Executed, Accounting, Held
  <2>3. IdleIsClean'
    BY <1>6 DEF Executed, IdleIsClean, TypeOK
  <2> QED
    BY <2>1, <2>2, <2>3
<1>7. ASSUME NEW t \in Thread, QueryFails(t) PROVE IInv'
  <2>1. Accounting'
    BY <1>7, LoseAccounting DEF QueryFails
  <2>2. (TypeOK /\ HeldWhileBusy /\ Exclusive)'
    <3>1. TypeOK'
      <4>1. finished' \in [DB -> Nat]
        BY <1>4, <1>7 DEF QueryFails, TypeOK
      <4>2. db' \in [Thread -> DB \cup {NoDB}]
        BY <1>7 DEF QueryFails, TypeOK
      <4>3. lost \subseteq DB
        BY DEF TypeOK
      <4>4. lost' \subseteq DB
        BY <1>4, <1>7, <4>3 DEF QueryFails
      <4> QED
        BY <1>7, <4>1, <4>2, <4>4 DEF QueryFails, TypeOK
    <3>2. (HeldWhileBusy /\ Exclusive)'
      BY <1>4, <1>7 DEF QueryFails, TypeOK, HeldWhileBusy, Exclusive
    <3> QED
      BY <3>1, <3>2
  <2>3. (IdleIsClean /\ FreedIsKnown)'
    BY <1>4, <1>7 DEF QueryFails, TypeOK, IdleIsClean, FreedIsKnown
  <2> QED
    BY <2>1, <2>2, <2>3
<1>8. ASSUME NEW t \in Thread, ByIdFails(t) PROVE IInv'
  <2>1. Accounting'
    BY <1>8, LoseAccounting DEF ByIdFails
  <2>2. (TypeOK /\ HeldWhileBusy /\ Exclusive)'
    <3>1. finished' \in [DB -> Nat]
      BY <1>4, <1>8 DEF ByIdFails, TypeOK
    <3>2. inTxn' \in [DB -> BOOLEAN]
      BY <1>4, <1>8 DEF ByIdFails, TypeOK
    <3>3. db' \in [Thread -> DB \cup {NoDB}]
      BY <1>8 DEF ByIdFails, TypeOK
    <3>4. lost' \subseteq DB
      <4>1. lost \subseteq DB
        BY DEF TypeOK
      <4> QED
        BY <1>4, <1>8, <4>1 DEF ByIdFails
    <3>5. TypeOK'
      BY <1>8, <3>1, <3>2, <3>3, <3>4 DEF ByIdFails, TypeOK
    <3> QED
      BY <1>8, <3>5 DEF ByIdFails, TypeOK, HeldWhileBusy, Exclusive
  <2>3. IdleIsClean'
    BY <1>4, <1>8 DEF ByIdFails, TypeOK, IdleIsClean
  <2>4. FreedIsKnown'
    BY <1>4, <1>8 DEF ByIdFails, TypeOK, FreedIsKnown
  <2> QED
    BY <2>1, <2>2, <2>3, <2>4
<1>9. ASSUME NEW t \in Thread, transactionEnd(t) PROVE IInv'
  <2>1. TypeOK' /\ HeldWhileBusy' /\ Exclusive' /\ FreedIsKnown'
    BY <1>9 DEF transactionEnd, TypeOK, HeldWhileBusy, Exclusive, FreedIsKnown
  <2>2. Accounting'
    BY <1>9 DEF transactionEnd, Accounting, Held
  <2>3. IdleIsClean'
    BY <1>4, <1>9 DEF transactionEnd, IdleIsClean, TypeOK
  <2> QED
    BY <2>1, <2>2, <2>3
<1>10. ASSUME NEW t \in Thread, returnDB(t) PROVE IInv'
  <2>1. TypeOK' /\ HeldWhileBusy' /\ Exclusive' /\ FreedIsKnown'
    BY <1>4, <1>10 DEF returnDB, TypeOK, HeldWhileBusy, Exclusive, FreedIsKnown
  <2>2. Held' = Held \ {db[t]}
    BY <1>4, <1>10 DEF returnDB, TypeOK, Held
  <2>3. Accounting'
    BY <1>4, <1>10, <2>2 DEF returnDB, Accounting, TypeOK
  <2>4. IdleIsClean'
    BY <1>4, <1>10 DEF returnDB, IdleIsClean, TypeOK
  <2> QED
    BY <2>1, <2>3, <2>4
<1>11. CASE UNCHANGED vars
  BY <1>11 DEF vars, TypeOK, HeldWhileBusy, Exclusive, Accounting, Held,
               IdleIsClean, FreedIsKnown
<1> QED
  BY <1>1, <1>2, <1>3, <1>5, <1>6, <1>7, <1>8, <1>9, <1>10, <1>11 DEF Next

(* The type invariant, and what the flags say about the connections. *)
THEOREM Invariance == Spec => []IInv
BY InitIInv, NextIInv, PTL DEF Spec

(* No two operations share a connection. *)
THEOREM ExclusiveHolds == Spec => []Exclusive
<1>1. IInv => Exclusive
  BY DEF IInv
<1> QED
  BY <1>1, Invariance, PTL

(* The pool loses a connection exactly when a failing operation keeps it. *)
THEOREM AccountingHolds == Spec => []Accounting
<1>1. IInv => Accounting
  BY DEF IInv
<1> QED
  BY <1>1, Invariance, PTL

(* A failed operation's freed connection is never used by another one. *)
THEOREM UsesLiveHolds == Spec => []UsesLive
<1>1. IInv => UsesLive
  <2> SUFFICES ASSUME IInv, NEW t \in Thread, pc[t] \in {"begin", "exec", "end"},
                      ~Live(db[t])
               PROVE  closed \/ db[t] \in broken
    BY DEF UsesLive
  <2>1. db[t] \in DB /\ db[t] \in Held
    BY DEF IInv, TypeOK, HeldWhileBusy, Held
  <2>2. finished[db[t]] > 0
    BY <2>1 DEF IInv, TypeOK, Live
  <2> QED
    BY <2>1, <2>2 DEF IInv, FreedIsKnown, Accounting
<1> QED
  BY <1>1, Invariance, PTL

(* No connection is handed out inside somebody else's transaction. *)
THEOREM CleanHandoutHolds == Spec => CleanHandout
<1>1. ASSUME IInv, [Next]_vars
      PROVE  [\A t \in Thread : db[t] = NoDB /\ db'[t] # NoDB => ~inTxn[db'[t]]]_vars
  <2> SUFFICES ASSUME NEW t \in Thread, db[t] = NoDB, db'[t] # NoDB
               PROVE  ~inTxn[db'[t]]
    OBVIOUS
  <2> USE <1>1 DEF IInv, TypeOK, pool
  <2>1. ASSUME NEW u \in Thread, NEW o \in Op, NEW i \in DB, getDB(u, o, i)
        PROVE  ~inTxn[db'[t]]
    <3>1. ~inUse[i]
      BY <2>1 DEF getDB, FirstFree
    <3>2. db'[t] = i
      BY <2>1 DEF getDB
    <3> QED
      BY <3>1, <3>2 DEF IdleIsClean
  <2>2. ASSUME (\E ok \in BOOLEAN : Connect(ok)) \/ close \/ UNCHANGED vars PROVE FALSE
    BY <2>2 DEF Connect, close, vars
  <2>3. ASSUME NEW u \in Thread, NEW ok \in BOOLEAN,
               transactionBegin(u, ok) \/ Executed(u, ok) \/ transactionEnd(u)
        PROVE  FALSE
    BY <2>3 DEF transactionBegin, Executed, transactionEnd
  <2>4. ASSUME NEW u \in Thread, QueryFails(u) \/ ByIdFails(u) \/ returnDB(u)
        PROVE  FALSE
    BY <2>4 DEF QueryFails, ByIdFails, returnDB
  <2> QED
    BY <2>1, <2>2, <2>3, <2>4 DEF Next
<1> QED
  BY <1>1, Invariance, PTL DEF Spec, CleanHandout

(* close() frees a second time only connections that never opened or that a  *)
(* failed operation had freed.                                               *)
THEOREM FreedOnceHolds == Spec => []FreedOnce
<1>1. Init => FreedOnce
  BY DEF Init, FreedOnce
<1>2. ASSUME IInv, FreedOnce, [Next]_vars PROVE FreedOnce'
  <2> USE <1>2 DEF IInv, TypeOK, FreedOnce, pool
  <2>1. ASSUME NEW ok \in BOOLEAN, Connect(ok) PROVE FreedOnce'
    BY <2>1 DEF Connect
  <2>2. ASSUME close PROVE FreedOnce'
    BY <2>2 DEF close, FreedIsKnown
  <2>3. ASSUME NEW t \in Thread, ByIdFails(t) PROVE FreedOnce'
    BY <2>3 DEF ByIdFails
  <2>4. ASSUME NEW t \in Thread, QueryFails(t) PROVE FreedOnce'
    BY <2>4 DEF QueryFails
  <2>5. ASSUME NEW t \in Thread, NEW o \in Op, NEW i \in DB, getDB(t, o, i)
        PROVE  FreedOnce'
    BY <2>5 DEF getDB
  <2>6. ASSUME NEW t \in Thread, NEW ok \in BOOLEAN,
               \/ transactionBegin(t, ok) \/ Executed(t, ok)
               \/ transactionEnd(t) \/ returnDB(t)
        PROVE  FreedOnce'
    BY <2>6 DEF transactionBegin, Executed, transactionEnd, returnDB
  <2>7. CASE UNCHANGED vars
    BY <2>7 DEF vars
  <2> QED
    BY <2>1, <2>2, <2>3, <2>4, <2>5, <2>6, <2>7 DEF Next
<1> QED
  BY <1>1, <1>2, Invariance, PTL DEF Spec
-----------------------------------------------------------------------------
(* The manager as a pool that lends its connections.                         *)

Idle == {i \in 1 .. size : ~inUse[i]}

(* The connections that init() has not made yet are not marked in use. *)
UnmadeIsFree == \A i \in DB : inUse[i] => i <= size

(* Only getDB() marks a connection, and it takes one that is made. *)
LEMMA NextUnmade == IInv /\ UnmadeIsFree /\ [Next]_vars => UnmadeIsFree'
<1> SUFFICES ASSUME IInv, UnmadeIsFree, [Next]_vars PROVE UnmadeIsFree'
  OBVIOUS
<1> USE DEF IInv, TypeOK, UnmadeIsFree, pool
<1>1. ASSUME NEW ok \in BOOLEAN, Connect(ok) PROVE UnmadeIsFree'
  BY <1>1 DEF Connect
<1>2. ASSUME NEW t \in Thread, NEW o \in Op, NEW i \in DB, getDB(t, o, i)
      PROVE  UnmadeIsFree'
  BY <1>2 DEF getDB, FirstFree
<1>3. ASSUME NEW t \in Thread, NEW ok \in BOOLEAN,
             \/ transactionBegin(t, ok) \/ Executed(t, ok) \/ QueryFails(t)
             \/ ByIdFails(t) \/ transactionEnd(t)
      PROVE  UnmadeIsFree'
  <2>1. UNCHANGED <<size, inUse>>
    BY <1>3 DEF transactionBegin, Executed, QueryFails, ByIdFails, transactionEnd
  <2> QED
    BY <2>1
<1>4. ASSUME NEW t \in Thread, returnDB(t) PROVE UnmadeIsFree'
  <2>1. size' = size /\ inUse' = [inUse EXCEPT ![db[t]] = FALSE]
    BY <1>4 DEF returnDB
  <2> QED
    BY <2>1
<1>5. CASE close \/ UNCHANGED vars
  BY <1>5 DEF close, vars
<1> QED
  BY <1>1, <1>2, <1>3, <1>4, <1>5 DEF Next

(* A thread in an operation has a connection that is made, marked and its own. *)
LEMMA BusyHolds ==
    ASSUME IInv, UnmadeIsFree, NEW t \in Thread, pc[t] # "idle"
    PROVE  /\ db[t] # NoDB /\ db[t] \in 1 .. size
           /\ inUse[db[t]] /\ db[t] \notin lost
<1>1. db[t] \in DB /\ db[t] # NoDB /\ db[t] \in Held
  BY DEF IInv, TypeOK, HeldWhileBusy, Held
<1>2. inUse[db[t]] /\ db[t] \notin lost
  BY <1>1 DEF IInv, Accounting
<1> QED
  BY <1>1, <1>2 DEF IInv, TypeOK, UnmadeIsFree

(* An iteration of init() adds a connection nobody has or had. *)
LEMMA ConnectAdds ==
    ASSUME IInv, UnmadeIsFree, NEW ok \in BOOLEAN, Connect(ok),
           NEW c \in DB, c = size + 1
    PROVE  Pool!Add(c)
<1>1. size \in 0 .. Number /\ size' = c /\ UNCHANGED <<inUse, db, lost>>
  BY DEF Connect, IInv, TypeOK
<1>2. ~inUse[c]
  BY <1>1 DEF UnmadeIsFree
<1>3. c \notin lost /\ \A t \in Thread : db[t] # c
  BY <1>1, <1>2 DEF IInv, Accounting, Held
<1>4. Idle' = Idle \cup {c} /\ c \notin Idle
  BY <1>1, <1>2 DEF Idle
<1> QED
  BY <1>1, <1>3, <1>4 DEF Pool!Add, Idle

(* getDB() lends. *)
LEMMA GetLends ==
    ASSUME IInv, NEW t \in Thread, NEW o \in Op, NEW i \in DB, getDB(t, o, i)
    PROVE  Pool!Lend(t, i)
<1>1. /\ i <= size /\ ~inUse[i] /\ inUse' = [inUse EXCEPT ![i] = TRUE]
      /\ db' = [db EXCEPT ![t] = i] /\ UNCHANGED <<size, lost>>
  BY DEF getDB, FirstFree, pool
<1>2. db[t] = NoDB
  BY DEF getDB, IInv, HeldWhileBusy
<1>3. i \in Idle /\ Idle' = Idle \ {i}
  BY <1>1 DEF Idle, IInv, TypeOK
<1> QED
  BY <1>1, <1>2, <1>3 DEF Pool!Lend, Idle

(* returnDB() gives back. *)
LEMMA ReturnReturns ==
    ASSUME IInv, UnmadeIsFree, NEW t \in Thread, returnDB(t)
    PROVE  Pool!Return(t)
<1>1. /\ inUse' = [inUse EXCEPT ![db[t]] = FALSE]
      /\ db' = [db EXCEPT ![t] = NoDB] /\ UNCHANGED <<size, lost>>
  BY DEF returnDB, pool
<1>2. db[t] # NoDB /\ db[t] \in 1 .. size
  BY BusyHolds DEF returnDB
<1>3. Idle' = Idle \cup {db[t]}
  BY <1>1, <1>2 DEF Idle, IInv, TypeOK
<1> QED
  BY <1>1, <1>2, <1>3 DEF Pool!Return, Idle

(* query(), queryById() and selectById() lose theirs when they fail. *)
LEMMA FailLoses ==
    ASSUME IInv, UnmadeIsFree, NEW t \in Thread, QueryFails(t) \/ ByIdFails(t)
    PROVE  Pool!Lose(t)
<1>1. /\ lost' = lost \cup {db[t]} /\ db' = [db EXCEPT ![t] = NoDB]
      /\ UNCHANGED <<size, inUse>>
  BY DEF QueryFails, ByIdFails, pool
<1>2. db[t] # NoDB
  BY BusyHolds DEF QueryFails, ByIdFails
<1> QED
  BY <1>1, <1>2 DEF Pool!Lose

(* Every step is one of the pool, or leaves it alone. *)
LEMMA NextPools ==
    IInv /\ UnmadeIsFree /\ [Next]_vars => [Pool!Next]_(Pool!vars)
<1> SUFFICES ASSUME IInv, UnmadeIsFree, [Next]_vars PROVE [Pool!Next]_(Pool!vars)
  OBVIOUS
<1>1. ASSUME NEW ok \in BOOLEAN, Connect(ok) PROVE Pool!Next
  <2>1. PICK c \in DB : c = size + 1
    BY <1>1 DEF Connect, IInv, TypeOK
  <2>2. Pool!Add(c)
    BY <1>1, <2>1, ConnectAdds
  <2> QED
    BY <2>2 DEF Pool!Next
<1>2. ASSUME NEW t \in Thread, NEW o \in Op, NEW i \in DB, getDB(t, o, i)
      PROVE  Pool!Next
  BY <1>2, GetLends DEF Pool!Next
<1>3. ASSUME NEW t \in Thread, QueryFails(t) \/ ByIdFails(t) \/ returnDB(t)
      PROVE  Pool!Next
  BY <1>3, FailLoses, ReturnReturns DEF Pool!Next
<1>4. ASSUME NEW t \in Thread, NEW ok \in BOOLEAN,
             transactionBegin(t, ok) \/ Executed(t, ok) \/ transactionEnd(t)
      PROVE  UNCHANGED Pool!vars
  BY <1>4 DEF transactionBegin, Executed, transactionEnd, pool, Pool!vars
<1>5. CASE close \/ UNCHANGED vars
  BY <1>5 DEF close, vars, Pool!vars
<1> QED
  BY <1>1, <1>2, <1>3, <1>4, <1>5 DEF Next

(* The manager implements the pool of ConnectionPool.tla: whatever fails,    *)
(* a connection is lent to one operation at a time and comes back or is lost. *)
THEOREM ImplementsPoolHolds == Spec => ImplementsPool
<1>1. Init => UnmadeIsFree /\ Pool!Init
  BY DEF Init, UnmadeIsFree, Pool!Init
<1> QED
  BY <1>1, Invariance, NextUnmade, NextPools, PTL DEF Spec, ImplementsPool, Pool!Spec
-----------------------------------------------------------------------------
(* The results of SqlClient.                                                 *)

(* A result belongs to a thread that points to it and has executed. *)
OwnerPoints ==
    \A a \in Address, t \in Thread : heap[a] = {t} =>
        res[t] = a /\ (t \in back \/ pc[t] \in {"end", "return"})

(* Who has executed and neither failed nor was hit has its own result. *)
PointerIsOwn ==
    \A t \in Thread :
        (t \in back \/ pc[t] \in {"end", "return"}) /\ t \notin failed \cup hit =>
            res[t] = Null \/ heap[res[t]] = {t}

(* An operation begins with a new Result, and ends in its function. *)
CallStage ==
    \A t \in Thread :
        /\ t \in back => pc[t] = "idle"
        /\ t \notin back /\ pc[t] \in {"idle", "begin", "exec"} =>
               res[t] = Null /\ t \notin failed \cup hit
        /\ t \in hit => res[t] # Null

ResultTypes ==
    /\ heap \in [Address -> {Nobody} \cup {{t} : t \in Thread}]
    /\ res \in [Thread -> Address \cup {Null}]
    /\ back \subseteq Thread /\ failed \subseteq Thread /\ hit \subseteq Thread

ResultInv == ResultTypes /\ OwnerPoints /\ PointerIsOwn /\ CallStage

(* The functions use the pool as its operations do. *)
LEMMA StepIsPoolStep == ASSUME [ClientNext]_allVars PROVE [Next]_vars
BY DEF ClientNext, allVars, Manager, Call, CallInVain, transaction, beginFails, exec,
       execFails, Returned, freeAll, Next

(* The functions of a table's class call the operations as threads of the    *)
(* manager do, so all that is proved above is true under them.               *)
THEOREM ClientImplementsManager == ClientSpec => Spec
<1>1. ClientInit => Init
  BY DEF ClientInit
<1>2. [ClientNext]_allVars => [Next]_vars
  BY StepIsPoolStep
<1> QED
  BY <1>1, <1>2, PTL DEF ClientSpec, Spec

(* What the pool does of its own, and what an operation does that touches no *)
(* result, moves no thread past its execution or back before it.             *)
LEMMA KeepResults ==
    ASSUME ResultInv, UNCHANGED <<heap, res, failed, hit>>, back \subseteq back',
           back' \subseteq Thread,
           \A t \in Thread :
               (t \in back' \/ pc'[t] \in {"end", "return"}) <=>
               (t \in back \/ pc[t] \in {"end", "return"}),
           \A t \in Thread : t \in back' => pc'[t] = "idle",
           \A t \in Thread : pc'[t] \in {"idle", "begin", "exec"} /\ t \notin back' =>
                             pc[t] \in {"idle", "begin", "exec"}
    PROVE  ResultInv'
BY DEF ResultInv, ResultTypes, OwnerPoints, PointerIsOwn, CallStage

(* The first call finds no result and no pointer. *)
LEMMA InitResultInv == ClientInit => ResultInv
BY AddressAssumption
DEF ClientInit, Init, ResultInv, ResultTypes, OwnerPoints, PointerIsOwn, CallStage,
    Nobody, Null

(* Every step of the functions preserves it. *)
LEMMA NextResultInv == IInv /\ ResultInv /\ [ClientNext]_allVars => ResultInv'
<1> SUFFICES ASSUME IInv, ResultInv, [ClientNext]_allVars PROVE ResultInv'
  OBVIOUS
<1> USE AddressAssumption DEF ResultInv, ResultTypes, IInv, TypeOK
<1>1. CASE Manager \/ UNCHANGED allVars
  <2>1. UNCHANGED <<pc, clientVars>>
    BY <1>1 DEF Manager, Connect, close, allVars, vars
  <2> QED
    BY <2>1 DEF clientVars, OwnerPoints, PointerIsOwn, CallStage
<1>2. ASSUME NEW t \in Thread, Call(t) PROVE ResultInv'
  <2>1. /\ pc[t] = "idle" /\ t \notin back /\ UNCHANGED clientVars
        /\ pc' = [pc EXCEPT ![t] = "exec"] \/ pc' = [pc EXCEPT ![t] = "begin"]
    BY <1>2 DEF Call, getDB
  <2>2. \A u \in Thread :
            /\ pc'[u] \in {"end", "return"} <=> pc[u] \in {"end", "return"}
            /\ u \in back => pc'[u] = pc[u]
            /\ u # t => pc'[u] = pc[u]
    BY <2>1
  <2> QED
    BY <2>1, <2>2, KeepResults DEF clientVars, CallStage
<1>3. ASSUME NEW t \in Thread, CallInVain(t) PROVE ResultInv'
  <2>1. /\ pc[t] = "idle" /\ t \notin back /\ back' = back \cup {t}
        /\ UNCHANGED <<pc, heap, res, failed, hit>>
    BY <1>3 DEF CallInVain, vars
  <2>2. res[t] = Null /\ t \notin failed \cup hit
    BY <2>1 DEF CallStage
  <2> QED
    BY <2>1, <2>2 DEF OwnerPoints, PointerIsOwn, CallStage
<1>4. ASSUME NEW t \in Thread, transaction(t) \/ beginFails(t) PROVE ResultInv'
  <2>1. /\ UNCHANGED <<heap, res, back, failed, hit>>
        /\ \/ pc[t] = "begin" /\ pc' = [pc EXCEPT ![t] = "exec"]
           \/ pc[t] = "end" /\ pc' = [pc EXCEPT ![t] = "return"]
    BY <1>4 DEF transaction, beginFails, clientVars, transactionBegin, transactionEnd
  <2>2. t \notin back
    BY <2>1 DEF CallStage
  <2>3. \A u \in Thread :
            /\ pc'[u] \in {"end", "return"} <=> pc[u] \in {"end", "return"}
            /\ u # t => pc'[u] = pc[u]
    BY <2>1
  <2>4. pc'[t] # "idle"
    BY <2>1
  <2> QED
    BY <2>1, <2>2, <2>3, <2>4, KeepResults DEF CallStage
<1>5. ASSUME NEW t \in Thread, exec(t) PROVE ResultInv'
  <2>1. PICK a \in Address :
            /\ heap[a] = Nobody
            /\ heap' = [heap EXCEPT ![a] = {t}]
            /\ res' = [res EXCEPT ![t] = a]
    BY <1>5 DEF exec, Free
  <2>2. /\ pc[t] = "exec" /\ pc'[t] \in {"end", "return"}
        /\ \A u \in Thread : u # t => pc'[u] = pc[u]
        /\ UNCHANGED <<back, failed, hit>>
    BY <1>5 DEF exec, Executed
  <2>3. t \notin back /\ t \notin failed \cup hit
    BY <2>2 DEF CallStage
  <2>4. \A b \in Address : heap[b] # {t}
    BY <2>2, <2>3 DEF OwnerPoints
  <2>5. ResultTypes'
    <3>1. {t} \in {{u} : u \in Thread} /\ a \in Address \cup {Null}
      OBVIOUS
    <3>2. heap' \in [Address -> {Nobody} \cup {{u} : u \in Thread}]
      BY <2>1, <3>1
    <3>3. res' \in [Thread -> Address \cup {Null}]
      BY <2>1, <3>1
    <3> QED
      BY <2>2, <3>2, <3>3
  <2>6. OwnerPoints'
    <3>1. SUFFICES ASSUME NEW b \in Address, NEW u \in Thread, heap'[b] = {u}
                   PROVE  res'[u] = b /\ (u \in back' \/ pc'[u] \in {"end", "return"})
      BY DEF OwnerPoints
    <3>2. CASE b = a
      <4>1. u \in {t}
        BY <2>1, <3>1, <3>2
      <4>2. res'[t] = a
        BY <2>1
      <4> QED
        BY <2>2, <3>2, <4>1, <4>2
    <3>3. CASE b # a
      <4>1. heap[b] = {u} /\ u # t
        BY <2>1, <2>4, <3>1, <3>3
      <4> QED
        BY <2>1, <2>2, <4>1 DEF OwnerPoints
    <3> QED
      BY <3>2, <3>3
  <2>7. PointerIsOwn'
    BY <2>1, <2>2, <2>3, ZenonT(60) DEF PointerIsOwn, Nobody
  <2>8. CallStage'
    BY <2>1, <2>2, <2>3 DEF CallStage
  <2> QED
    BY <2>5, <2>6, <2>7, <2>8
<1>6. ASSUME NEW t \in Thread, execFails(t) PROVE ResultInv'
  <2>1. PICK a \in Address : heap[a] = Nobody /\ res' = [res EXCEPT ![t] = a]
    BY <1>6 DEF execFails, Free
  <2>2. /\ pc[t] = "exec" /\ failed' = failed \cup {t}
        /\ \/ back' = back /\ pc'[t] \in {"end", "return"}
           \/ back' = back \cup {t} /\ pc'[t] = "idle"
        /\ \A u \in Thread : u # t => pc'[u] = pc[u]
        /\ UNCHANGED <<heap, hit>>
    BY <1>6 DEF execFails, Executed, QueryFails, ByIdFails
  <2>3. t \notin back
    BY <2>2 DEF CallStage
  <2>4. \A b \in Address : heap[b] # {t}
    BY <2>2, <2>3 DEF OwnerPoints
  <2>5. ResultTypes'
    BY <2>1, <2>2
  <2>6. OwnerPoints'
    BY <2>1, <2>2, <2>4 DEF OwnerPoints
  <2>7. PointerIsOwn'
    BY <2>1, <2>2 DEF PointerIsOwn
  <2>8. CallStage'
    BY <2>1, <2>2, <2>3 DEF CallStage
  <2> QED
    BY <2>5, <2>6, <2>7, <2>8
<1>7. ASSUME NEW t \in Thread, Returned(t) PROVE ResultInv'
  <2>1. /\ pc[t] = "return" /\ pc' = [pc EXCEPT ![t] = "idle"]
        /\ back' = back \cup {t} /\ UNCHANGED <<heap, res, failed, hit>>
    BY <1>7 DEF Returned, returnDB
  <2> QED
    BY <2>1, KeepResults DEF CallStage
<1>8. ASSUME NEW t \in Thread, freeAll(t) PROVE ResultInv'
  <2>1. /\ t \in back /\ pc[t] = "idle" /\ res' = [res EXCEPT ![t] = Null]
        /\ back' = back \ {t} /\ failed' = failed \ {t} /\ UNCHANGED pc
    BY <1>8 DEF freeAll, vars, CallStage
  <2>2. CASE res[t] = Null
    <3>1. heap' = heap /\ hit' = hit
      BY <1>8, <2>2 DEF freeAll
    <3>2. \A b \in Address : heap[b] # {t}
      BY <2>2 DEF OwnerPoints, Null
    <3>3. \A u \in Thread : res'[u] = res[u]
      BY <2>1, <2>2
    <3>4. ResultTypes' /\ OwnerPoints'
      BY <2>1, <3>1, <3>2, <3>3 DEF OwnerPoints, Null
    <3>5. PointerIsOwn'
      BY <2>1, <3>1, <3>3 DEF PointerIsOwn
    <3>6. CallStage'
      BY <2>1, <3>1, <3>3 DEF CallStage
    <3> QED
      BY <3>4, <3>5, <3>6
  <2>3. CASE res[t] # Null
    <3>1. /\ res[t] \in Address
          /\ heap' = [heap EXCEPT ![res[t]] = Nobody]
          /\ hit' = (hit \cup heap[res[t]]) \ {t}
      BY <1>8, <2>3 DEF freeAll
    <3>0. heap[res[t]] = {} \/ \E u \in Thread : heap[res[t]] = {u}
      <4>1. heap[res[t]] \in {Nobody} \cup {{u} : u \in Thread}
        BY <3>1
      <4> QED
        BY <4>1 DEF Nobody
    <3>2. heap[res[t]] \subseteq Thread /\ t \notin hit'
      BY <3>0, <3>1
    <3>3. ResultTypes'
      BY <2>1, <3>1, <3>2 DEF Null
    <3>4. OwnerPoints'
      BY <2>1, <3>1, ZenonT(60) DEF OwnerPoints, Nobody
    <3>5. PointerIsOwn'
      <4>1. ASSUME NEW u \in Thread, u # t, heap[res[u]] = {u}, res[u] = res[t]
            PROVE  u \in hit'
        BY <3>1, <4>1
      <4> QED
        BY <2>1, <3>1, <4>1 DEF PointerIsOwn, Null
    <3>6. CallStage'
      <4>1. ASSUME NEW u \in Thread, u # t, u \in hit', u \notin hit
            PROVE  res[u] # Null /\ (u \in back \/ pc[u] \in {"end", "return"})
        <5>1. heap[res[t]] = {u}
          BY <3>0, <3>1, <4>1
        <5> QED
          BY <2>3, <3>1, <5>1 DEF OwnerPoints
      <4> QED
        BY <2>1, <3>1, <3>2, <4>1 DEF CallStage
    <3> QED
      BY <3>3, <3>4, <3>5, <3>6
  <2> QED
    BY <2>2, <2>3
<1> QED
  BY <1>1, <1>2, <1>3, <1>4, <1>5, <1>6, <1>7, <1>8 DEF ClientNext

(* Every function reads and clears the result of its own operation, unless   *)
(* that failed or a failed one cleared it, and only a failed BEGIN leaves one *)
(* behind, for any number of threads and however addresses are used again.   *)
THEOREM ResultIsOwnHolds == ClientSpec => []ResultIsOwn
<1>1. ClientInit => IInv
  BY InitIInv DEF ClientInit
<1>2. IInv /\ [ClientNext]_allVars => IInv'
  BY StepIsPoolStep, NextIInv
<1>3. ResultInv => ResultIsOwn
  BY DEF ResultInv, ResultTypes, OwnerPoints, PointerIsOwn, ResultIsOwn, Free
<1> QED
  BY <1>1, <1>2, <1>3, InitResultInv, NextResultInv, PTL DEF ClientSpec
=============================================================================
