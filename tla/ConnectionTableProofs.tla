------------------------ MODULE ConnectionTableProofs ------------------------
(* Proofs about ConnectionTable, for any number of connections, descriptors  *)
(* and jobs.                                                                 *)
EXTENDS ConnectionTable, TLAPS

(* Everything that is found under a descriptor is a connection that was      *)
(* given this descriptor, now or earlier.                                    *)
Located ==
    /\ \A c \in waiting : fd_[c] = NoFd
    /\ \A c \in freed \cup (vec \ {Listener}) : fd_[c] # NoFd
    /\ loop # "poll" => cur \in Conn /\ fd_[cur] # NoFd
    /\ \A f \in Fd : owner[f] # NoConn => fd_[owner[f]] = f
    /\ \A f \in Fd : watch[f] # NoConn => fd_[watch[f]] = f
    /\ \A f \in Fd : channels_[f] # NoConn => fd_[channels_[f]] = f
    /\ \A f \in Fd : watch[f] = NoConn <=> owner[f] = NoConn

(* While onConnect() and onClose() are at work, the descriptor's owner is    *)
(* the new connection, or nobody.                                            *)
Stage ==
    /\ loop = "insert" => owner[fd_[cur]] = cur
    /\ loop = "erase" => owner[fd_[cur]] = NoConn

(* A job, its answer and the connection that asked share a descriptor.       *)
Asked(j) == asker[j] \in Conn /\ fd[j] # NoFd /\ fd_[asker[j]] = fd[j]

JobLocated ==
    /\ \A c \in Conn : \A j \in inbox[c] : asker[j] = c /\ pc[j] = "asked"
    /\ \A j \in Job : pc[j] \notin {"none", "asked"} => Asked(j)
    /\ \A j \in Job : pc[j] \in {"finding", "sending", "returning"} =>
                        channel[j] \in Conn /\ fd_[channel[j]] = fd[j]
    /\ \A c \in Conn : \A j \in out[c] :
            pc[j] \in {"returning", "done"} /\ fd_[c] = fd[j]
    /\ \A j \in Job, c \in Conn : <<j, c>> \in delivered =>
            pc[j] \in {"returning", "done"} /\ fd_[c] = fd[j]

(* A destroyed Channel is not in the table, nor about to be inserted.        *)
FreedIsGone ==
    \A c \in freed : /\ \A f \in Fd : channels_[f] # c
                     /\ ~(loop = "insert" /\ cur = c)

(* Until a late answer misleads epoll, its pointers and those of pollEvent() *)
(* are those of the owners.                                                  *)
Directed ==
    /\ loop # "poll" => cur \notin vec
    /\ ~misled => /\ \A f \in Fd : watch[f] = owner[f]
                  /\ \A c \in vec \ {Listener} : owner[fd_[c]] = c
                  /\ loop \in {"read", "write"} => owner[fd_[cur]] = cur
                  /\ loop = "erase" => channels_[fd_[cur]] = cur

IInv ==
    /\ TypeOK
    /\ Located
    /\ Stage
    /\ TableMatches
    /\ JobLocated
    /\ FreedIsGone
    /\ Directed
    /\ HeldIsLive
    /\ AnswerToAsker
-----------------------------------------------------------------------------
(* A negative number is no descriptor. *)
LEMMA NoFdIsNone == NoFd \notin Fd
BY NumberAssumption DEF NoFd

(* The server starts without connections. *)
LEMMA InitIInv == Init => IInv
<1> SUFFICES ASSUME Init PROVE IInv
  OBVIOUS
<1> USE DEF Init
<1>1. TypeOK
  BY DEF TypeOK
<1>2. Located /\ Stage /\ TableMatches /\ FreedIsGone /\ Directed
  BY DEF Located, Stage, TableMatches, FreedIsGone, Directed
<1>3. JobLocated /\ HeldIsLive /\ AnswerToAsker
  BY DEF JobLocated, HeldIsLive, AnswerToAsker
<1> QED
  BY <1>1, <1>2, <1>3 DEF IInv

(* Types.                                                                    *)
LEMMA NextTypeOK == ASSUME TypeOK, Located, JobLocated, [Next]_vars PROVE TypeOK'
<1> USE NoFdIsNone DEF TypeOK, Located
<1>1. CASE PeerStep
  <2>1. ASSUME NEW c \in Conn, Connect(c) PROVE TypeOK'
    BY <2>1 DEF Connect, job
  <2>2. ASSUME NEW c \in Conn, NEW j \in Job, PeerAsks(c, j) PROVE TypeOK'
    BY <2>2 DEF PeerAsks
  <2>3. ASSUME NEW c \in Conn, PeerCloses(c) PROVE TypeOK'
    BY <2>3 DEF PeerCloses, job
  <2> QED
    BY <1>1, <2>1, <2>2, <2>3 DEF PeerStep
<1>2. CASE Poll
  BY <1>2 DEF Poll, kernel, job, Ready
<1>3. ASSUME NEW c \in Conn, NextChannel(c) PROVE TypeOK'
  BY <1>3 DEF NextChannel, kernel, job
<1>4. ASSUME NEW c \in Conn, NEW f \in Fd, onConnect(c, f) PROVE TypeOK'
  BY <1>4 DEF onConnect, job
<1>5. CASE AcceptFails
  BY <1>5 DEF AcceptFails, kernel, job
<1>6. CASE Insert \/ Erase
  <2>1. freed' \subseteq Conn
    BY <1>6 DEF Insert, Erase, Release
  <2> QED
    BY <1>6, <2>1 DEF Insert, Erase, kernel, job
<1>7. ASSUME NEW batch \in SUBSET Job, onRead(batch) PROVE TypeOK'
  BY <1>7 DEF onRead
<1>8. CASE onClose
  BY <1>8 DEF onClose, job
<1>9. CASE onWrite
  <2>1. cur \in Conn /\ fd_[cur] \in Fd
    BY <1>9 DEF onWrite
  <2>2. out[cur] \X {owner[fd_[cur]]} \subseteq Job \X Conn
    BY <1>9, <2>1 DEF onWrite
  <2> HIDE DEF Located
  <2>3. delivered' \subseteq Job \X Conn
    BY <1>9, <2>2 DEF onWrite
  <2> QED
    BY <1>9, <2>1, <2>3 DEF onWrite, job
<1>10. ASSUME NEW j \in Job, getChannel(j) PROVE TypeOK'
  BY <1>10 DEF getChannel, kernel, JobLocated, Asked
<1>11. ASSUME NEW j \in Job, Copy(j) \/ CopyTorn(j) PROVE TypeOK'
  BY <1>11 DEF Copy, CopyTorn, kernel
<1>12. ASSUME NEW j \in Job, Callback(j) PROVE TypeOK'
  <2>1. channel[j] \in Conn
    BY <1>12 DEF Callback, JobLocated
  <2>2. misled' \in BOOLEAN
    BY <1>12 DEF Callback
  <2>3. watch' \in [Fd -> Conn \cup {NoConn}]
    BY <1>12, <2>1 DEF Callback
  <2>4. out' \in [Conn -> SUBSET Job]
    BY <1>12, <2>1 DEF Callback
  <2> HIDE DEF Located
  <2> QED
    BY <1>12, <2>2, <2>3, <2>4 DEF Callback
<1>13. ASSUME NEW j \in Job, Return(j) PROVE TypeOK'
  <2>1. freed' \subseteq Conn
    BY <1>13 DEF Return, Release
  <2> QED
    BY <1>13, <2>1 DEF Return, kernel
<1>14. CASE UNCHANGED vars
  BY <1>14 DEF vars, kernel, job
<1> QED
  BY <1>1, <1>2, <1>3, <1>4, <1>5, <1>6, <1>7, <1>8, <1>9, <1>10, <1>11, <1>12,
     <1>13, <1>14
  DEF Next, LoopStep, JobStep

(* Descriptors stay with what was found under them.                          *)
LEMMA NextLocated == ASSUME TypeOK, Located, JobLocated, [Next]_vars PROVE Located'
<1> USE NoFdIsNone DEF TypeOK, Located
<1>1. CASE PeerStep
  <2>1. ASSUME NEW c \in Conn, Connect(c) PROVE Located'
    BY <2>1 DEF Connect, job
  <2>2. ASSUME NEW c \in Conn, NEW j \in Job, PeerAsks(c, j) PROVE Located'
    BY <2>2 DEF PeerAsks
  <2>3. ASSUME NEW c \in Conn, PeerCloses(c) PROVE Located'
    BY <2>3 DEF PeerCloses, job
  <2> QED
    BY <1>1, <2>1, <2>2, <2>3 DEF PeerStep
<1>2. CASE Poll
  <2>1. \A c \in vec' \ {Listener} : fd_[c] # NoFd
    BY <1>2 DEF Poll, Ready
  <2> QED
    BY <1>2, <2>1 DEF Poll, kernel, job
<1>3. ASSUME NEW c \in Conn, NextChannel(c) PROVE Located'
  BY <1>3 DEF NextChannel, kernel, job
<1>4. ASSUME NEW c \in Conn, NEW f \in Fd, onConnect(c, f) PROVE Located'
  <2>1. fd_[c] = NoFd /\ owner[f] = NoConn
    BY <1>4 DEF onConnect, Free
  <2>2. \A d \in Conn : d # c => fd_'[d] = fd_[d]
    BY <1>4 DEF onConnect
  <2>3. \A g \in Fd : owner[g] # c /\ watch[g] # c /\ channels_[g] # c
    BY <2>1, ConnAssumption
  <2>4. fd_'[c] = f /\ owner'[f] = c /\ watch'[f] = c /\ cur' = c
    BY <1>4 DEF onConnect
  <2>5. \A g \in Fd : g # f => owner'[g] = owner[g] /\ watch'[g] = watch[g]
    BY <1>4 DEF onConnect
  <2>6. /\ waiting' = waiting \ {c} /\ freed' = freed /\ vec' = vec \ {Listener}
        /\ channels_' = channels_
    BY <1>4 DEF onConnect
  <2>7. \A g \in Fd : /\ owner'[g] # NoConn => fd_'[owner'[g]] = g
                      /\ watch'[g] # NoConn => fd_'[watch'[g]] = g
                      /\ channels_'[g] # NoConn => fd_'[channels_'[g]] = g
    BY <2>2, <2>3, <2>4, <2>5, <2>6
  <2>8. \A g \in Fd : watch'[g] = NoConn <=> owner'[g] = NoConn
    BY <2>4, <2>5, ConnAssumption
  <2>9. /\ \A d \in waiting' : fd_'[d] = NoFd
        /\ \A d \in freed' \cup (vec' \ {Listener}) : fd_'[d] # NoFd
        /\ cur' \in Conn /\ fd_'[cur'] # NoFd
    BY <2>2, <2>4, <2>6
  <2> QED
    BY <2>7, <2>8, <2>9
<1>5. CASE AcceptFails
  BY <1>5 DEF AcceptFails, kernel, job
<1>6. CASE Insert \/ Erase
  <2>1. \A c \in freed' : fd_[c] # NoFd
    BY <1>6 DEF Insert, Erase, Release
  <2>2. \A f \in Fd : channels_'[f] # NoConn => fd_[channels_'[f]] = f
    BY <1>6 DEF Insert, Erase
  <2> QED
    BY <1>6, <2>1, <2>2 DEF Insert, Erase, kernel, job
<1>7. ASSUME NEW batch \in SUBSET Job, onRead(batch) PROVE Located'
  <2>1. \A f \in Fd : watch'[f] = IF f = fd_[cur] THEN cur ELSE watch[f]
    BY <1>7 DEF onRead
  <2>2. UNCHANGED <<waiting, owner, fd_, channels_, freed, vec, cur>> /\ loop = "read"
    BY <1>7 DEF onRead
  <2>3. owner[fd_[cur]] # NoConn /\ cur \in Conn
    BY <1>7 DEF onRead
  <2> QED
    BY <2>1, <2>2, <2>3, ConnAssumption
<1>8. CASE onClose
  BY <1>8 DEF onClose, job
<1>9. CASE onWrite
  <2>1. \A f \in Fd : watch'[f] = IF f = fd_[cur] THEN cur ELSE watch[f]
    BY <1>9 DEF onWrite
  <2>2. UNCHANGED <<waiting, owner, fd_, channels_, freed, vec, cur>> /\ loop = "write"
    BY <1>9 DEF onWrite
  <2>3. owner[fd_[cur]] # NoConn /\ cur \in Conn
    BY <1>9 DEF onWrite
  <2> QED
    BY <2>1, <2>2, <2>3, ConnAssumption
<1>10. ASSUME NEW j \in Job, getChannel(j) \/ Copy(j) \/ CopyTorn(j) PROVE Located'
  BY <1>10 DEF getChannel, Copy, CopyTorn, kernel
<1>11. ASSUME NEW j \in Job, Callback(j) PROVE Located'
  <2>1. channel[j] \in Conn
    BY <1>11 DEF Callback, JobLocated
  <2> QED
    BY <1>11, <2>1, ConnAssumption DEF Callback
<1>12. ASSUME NEW j \in Job, Return(j) PROVE Located'
  <2>1. \A c \in freed' : fd_[c] # NoFd
    BY <1>12 DEF Return, Release
  <2> QED
    BY <1>12, <2>1 DEF Return, kernel
<1>13. CASE UNCHANGED vars
  BY <1>13 DEF vars, kernel, job
<1> QED
  BY <1>1, <1>2, <1>3, <1>4, <1>5, <1>6, <1>7, <1>8, <1>9, <1>10, <1>11, <1>12, <1>13
  DEF Next, LoopStep, JobStep

(* Only the steps of the loop thread between poll() and poll() part the      *)
(* table from the kernel.                                                    *)
LEMMA NextTableMatches ==
    ASSUME TypeOK, Located, Stage, TableMatches, [Next]_vars
    PROVE  Stage' /\ TableMatches'
<1> USE NoFdIsNone DEF TypeOK, Located, Stage, TableMatches
<1>1. ASSUME UNCHANGED <<owner, fd_, channels_>>,
             \/ loop' = loop /\ cur' = cur
             \/ loop \in {"poll", "read", "write"} /\ loop' \in {"poll", "read", "write"}
      PROVE  Stage' /\ TableMatches'
  BY <1>1
<1>2. CASE PeerStep
  BY <1>1, <1>2 DEF PeerStep, Connect, PeerAsks, PeerCloses
<1>3. CASE Poll \/ AcceptFails \/ \E c \in Conn : NextChannel(c)
  BY <1>1, <1>3 DEF Poll, AcceptFails, NextChannel, kernel
<1>4. ASSUME NEW batch \in SUBSET Job, onRead(batch) PROVE Stage' /\ TableMatches'
  BY <1>1, <1>4 DEF onRead
<1>5. CASE onWrite
  BY <1>1, <1>5 DEF onWrite
<1>6. ASSUME NEW j \in Job, JobStep(j) PROVE Stage' /\ TableMatches'
  BY <1>1, <1>6
  DEF JobStep, getChannel, Copy, CopyTorn, Callback, Return, kernel
<1>7. CASE UNCHANGED vars
  BY <1>1, <1>7 DEF vars, kernel
<1>8. ASSUME NEW c \in Conn, NEW f \in Fd, onConnect(c, f)
      PROVE  Stage' /\ TableMatches'
  <2>1. /\ loop = "poll" /\ loop' = "insert" /\ cur' = c /\ fd_'[c] = f
        /\ owner'[f] = c /\ channels_' = channels_
        /\ \A g \in Fd : g # f => owner'[g] = owner[g]
    BY <1>8 DEF onConnect
  <2> QED
    BY <2>1
<1>9. CASE Insert
  <2>1. /\ loop = "insert" /\ loop' = "poll" /\ UNCHANGED <<owner, fd_, cur>>
        /\ channels_'[fd_[cur]] = owner[fd_[cur]]
        /\ \A g \in Fd : g # fd_[cur] => channels_'[g] = channels_[g]
    BY <1>9 DEF Insert, kernel
  <2> QED
    BY <2>1
<1>10. CASE onClose
  <2>1. /\ loop = "read" /\ loop' = "erase" /\ UNCHANGED <<fd_, cur, channels_>>
        /\ owner'[fd_[cur]] = NoConn
        /\ \A g \in Fd : g # fd_[cur] => owner'[g] = owner[g]
    BY <1>10 DEF onClose
  <2> QED
    BY <2>1
<1>11. CASE Erase
  <2>1. /\ loop = "erase" /\ loop' = "poll" /\ UNCHANGED <<owner, fd_, cur>>
        /\ channels_'[fd_[cur]] = owner[fd_[cur]]
        /\ \A g \in Fd : g # fd_[cur] => channels_'[g] = channels_[g]
    BY <1>11 DEF Erase, kernel
  <2> QED
    BY <2>1
<1> QED
  BY <1>2, <1>3, <1>4, <1>5, <1>6, <1>7, <1>8, <1>9, <1>10, <1>11 DEF Next, LoopStep

(* What is destroyed had no channel_ptr, and a new Channel is not destroyed. *)
LEMMA NextFreedIsGone ==
    ASSUME TypeOK, Located, JobLocated, FreedIsGone, HeldIsLive, [Next]_vars
    PROVE  FreedIsGone' /\ HeldIsLive'
<1> USE DEF TypeOK, FreedIsGone, HeldIsLive
<1>1. ASSUME UNCHANGED <<freed, channels_>>, loop' = "insert" => UNCHANGED <<loop, cur>>
      PROVE  FreedIsGone'
  BY <1>1
<1>2. ASSUME UNCHANGED <<freed, pc, channel, torn>> PROVE HeldIsLive'
  BY <1>2
<1>3. CASE PeerStep
  <2>1. FreedIsGone'
    BY <1>1, <1>3 DEF PeerStep, Connect, PeerAsks, PeerCloses
  <2>2. CASE \E c \in Conn : Connect(c) \/ PeerCloses(c)
    BY <1>2, <2>1, <2>2 DEF Connect, PeerCloses, job
  <2>3. ASSUME NEW c \in Conn, NEW j \in Job, PeerAsks(c, j) PROVE HeldIsLive'
    BY <2>3 DEF PeerAsks
  <2> QED
    BY <1>3, <2>1, <2>2, <2>3 DEF PeerStep
<1>4. CASE Poll \/ AcceptFails \/ (\E c \in Conn : NextChannel(c)) \/ onClose \/ onWrite
  <2>1. UNCHANGED <<freed, channels_, pc, channel, torn>> /\ loop' # "insert"
    BY <1>4 DEF Poll, AcceptFails, NextChannel, onClose, onWrite, job
  <2> QED
    BY <1>1, <1>2, <2>1
<1>5. ASSUME NEW batch \in SUBSET Job, onRead(batch) PROVE FreedIsGone' /\ HeldIsLive'
  <2>1. FreedIsGone'
    BY <1>1, <1>5 DEF onRead
  <2>2. UNCHANGED <<freed, channel, torn>>
        /\ \A j \in Job : pc'[j] = pc[j] \/ pc'[j] = "queued"
    BY <1>5 DEF onRead
  <2> QED
    BY <2>1, <2>2
<1>6. ASSUME NEW c \in Conn, NEW f \in Fd, onConnect(c, f)
      PROVE  FreedIsGone' /\ HeldIsLive'
  <2>1. c \notin freed
    BY <1>6 DEF onConnect, Located
  <2>2. UNCHANGED <<freed, channels_, pc, channel, torn>> /\ cur' = c /\ loop = "poll"
    BY <1>6 DEF onConnect, job
  <2> QED
    BY <1>2, <2>1, <2>2
<1>7. ASSUME Release, UNCHANGED <<fd_, channel, torn>>, loop' # "insert",
             \A c \in freed : \A f \in Fd : channels_'[f] # c,
             \A j \in Job : pc'[j] \in Holder => pc[j] \in Holder
      PROVE  FreedIsGone' /\ HeldIsLive'
  BY <1>7 DEF Release, Holder
<1>8. CASE Insert
  <2>1. /\ Release /\ UNCHANGED <<fd_, pc, channel, torn>> /\ loop' # "insert"
        /\ cur \notin freed
    BY <1>8 DEF Insert, job
  <2>2. \A f \in Fd : channels_'[f] = channels_[f] \/ channels_'[f] = cur
    BY <1>8 DEF Insert
  <2> QED
    BY <1>7, <2>1, <2>2
<1>9. CASE Erase
  <2>1. Release /\ UNCHANGED <<fd_, pc, channel, torn>> /\ loop' # "insert"
    BY <1>9 DEF Erase, job
  <2>2. \A f \in Fd : channels_'[f] = channels_[f] \/ channels_'[f] = NoConn
    BY <1>9 DEF Erase
  <2>3. NoConn \notin freed
    BY ConnAssumption
  <2> QED
    BY <1>7, <2>1, <2>2, <2>3
<1>10. ASSUME NEW j \in Job, Return(j) PROVE FreedIsGone' /\ HeldIsLive'
  <2>1. \A c \in freed' : \A f \in Fd : channels_'[f] # c
    BY <1>10 DEF Return, Release
  <2>2. ASSUME loop' = "insert" PROVE cur' \notin freed'
    BY <1>10, <2>2 DEF Return, Release
  <2>3. HeldIsLive'
    BY <1>10 DEF Return, Release, Holder
  <2> QED
    BY <2>1, <2>2, <2>3
<1>11. ASSUME NEW j \in Job, getChannel(j) \/ Copy(j) \/ CopyTorn(j) \/ Callback(j)
       PROVE  FreedIsGone' /\ HeldIsLive'
  <2>1. FreedIsGone'
    BY <1>1, <1>11 DEF getChannel, Copy, CopyTorn, Callback
  <2>2. CASE getChannel(j)
    BY <2>2 DEF getChannel
  <2>3. CASE Copy(j)
    <3>1. fd[j] \in Fd /\ channels_[fd[j]] = channel[j]
      BY <2>3 DEF Copy, JobLocated, Asked
    <3>2. channel[j] \notin freed
      BY <3>1
    <3> QED
      BY <2>3, <3>2 DEF Copy
  <2>4. CASE CopyTorn(j)
    BY <2>4 DEF CopyTorn
  <2>5. CASE Callback(j)
    BY <2>5 DEF Callback
  <2> QED
    BY <1>11, <2>1, <2>2, <2>3, <2>4, <2>5
<1>12. CASE UNCHANGED vars
  BY <1>1, <1>2, <1>12 DEF vars, job
<1> QED
  BY <1>3, <1>4, <1>5, <1>6, <1>8, <1>9, <1>10, <1>11, <1>12
  DEF Next, LoopStep, JobStep

(* A job keeps the descriptor of the connection that asked, and so do the    *)
(* Channel that it finds and the connection that its answer goes to.         *)
LEMMA NextJobLocated ==
    ASSUME TypeOK, Located, JobLocated, [Next]_vars PROVE JobLocated'
<1> USE NoFdIsNone DEF TypeOK, JobLocated, Asked
<1>1. ASSUME UNCHANGED <<inbox, out, delivered, pc, fd, channel, asker>>,
             \A c \in Conn : fd_[c] # NoFd => fd_'[c] = fd_[c],
             \A c \in Conn : fd_[c] = NoFd => out[c] = {} /\ \A j \in Job : <<j, c>> \notin delivered
      PROVE  JobLocated'
  <2>1. \A j \in Job : pc[j] \notin {"none", "asked"} => fd_'[asker[j]] = fd[j]
    BY <1>1
  <2>2. \A j \in Job : pc[j] \in {"finding", "sending", "returning"} =>
                         channel[j] \in Conn /\ fd_'[channel[j]] = fd[j]
    BY <1>1
  <2>3. \A c \in Conn : \A j \in out[c] : fd_'[c] = fd[j]
    BY <1>1
  <2>4. \A j \in Job, c \in Conn : <<j, c>> \in delivered => fd_'[c] = fd[j]
    BY <1>1
  <2> QED
    BY <1>1, <2>1, <2>2, <2>3, <2>4
<1>2. \A c \in Conn : fd_[c] = NoFd => out[c] = {} /\ \A j \in Job : <<j, c>> \notin delivered
  OBVIOUS
<1>3. ASSUME fd_' = fd_, UNCHANGED <<inbox, out, delivered, pc, fd, channel, asker>>
      PROVE  JobLocated'
  BY <1>3
<1>4. CASE \E c \in Conn : Connect(c) \/ PeerCloses(c)
  BY <1>3, <1>4 DEF Connect, PeerCloses, job
<1>5. ASSUME NEW c \in Conn, NEW j \in Job, PeerAsks(c, j) PROVE JobLocated'
  BY <1>5 DEF PeerAsks
<1>6. CASE Poll \/ AcceptFails \/ (\E c \in Conn : NextChannel(c)) \/ Insert \/ Erase
  BY <1>3, <1>6 DEF Poll, AcceptFails, NextChannel, Insert, Erase, kernel, job
<1>7. ASSUME NEW c \in Conn, NEW f \in Fd, onConnect(c, f) PROVE JobLocated'
  <2>1. \A d \in Conn : fd_[d] # NoFd => fd_'[d] = fd_[d]
    BY <1>7 DEF onConnect, Located
  <2> QED
    BY <1>1, <1>2, <1>7, <2>1 DEF onConnect, job
<1>8. ASSUME NEW batch \in SUBSET Job, onRead(batch) PROVE JobLocated'
  <2> DEFINE o == owner[fd_[cur]]
  <2>1. cur \in Conn /\ fd_[cur] \in Fd /\ o \in Conn /\ fd_[o] = fd_[cur]
    BY <1>8 DEF onRead, Located
  <2>2. \A j \in batch : asker[j] = o /\ pc[j] = "asked"
    BY <1>8, <2>1 DEF onRead
  <2>3. /\ UNCHANGED <<fd_, out, delivered, channel, asker>>
        /\ pc' = [j \in Job |-> IF j \in batch THEN "queued" ELSE pc[j]]
        /\ fd' = [j \in Job |-> IF j \in batch THEN fd_[cur] ELSE fd[j]]
        /\ inbox' = [inbox EXCEPT ![o] = @ \ batch]
    BY <1>8 DEF onRead
  <2> HIDE DEF o
  <2>4. \A c \in Conn : \A j \in inbox'[c] : j \in inbox[c] /\ j \notin batch
    BY <2>1, <2>2, <2>3
  <2>5. \A j \in Job : j \in batch =>
          fd'[j] = fd_[cur] /\ pc'[j] = "queued" /\ asker[j] = o /\ pc[j] = "asked"
    BY <2>2, <2>3
  <2>6. \A j \in Job : j \notin batch => fd'[j] = fd[j] /\ pc'[j] = pc[j]
    BY <2>3
  <2> QED
    BY <2>1, <2>3, <2>4, <2>5, <2>6
<1>9. CASE onClose
  <2>1. \A c \in Conn : inbox'[c] \subseteq inbox[c]
    BY <1>9 DEF onClose
  <2>2. UNCHANGED <<fd_, out, delivered, pc, fd, channel, asker>>
    BY <1>9 DEF onClose, job
  <2> QED
    BY <2>1, <2>2
<1>10. CASE onWrite
  <2> DEFINE o == owner[fd_[cur]]
  <2>1. cur \in Conn /\ fd_[cur] \in Fd /\ o \in Conn /\ fd_[o] = fd_[cur]
    BY <1>10 DEF onWrite, Located
  <2>2. UNCHANGED <<fd_, inbox, pc, fd, channel, asker>>
    BY <1>10 DEF onWrite, job
  <2>3. \A c \in Conn : out'[c] \subseteq out[c]
    BY <1>10 DEF onWrite
  <2>4. delivered' = delivered \cup (out[cur] \X {o})
    BY <1>10 DEF onWrite
  <2> HIDE DEF o
  <2>5. \A j \in Job, c \in Conn :
            <<j, c>> \in delivered' => <<j, c>> \in delivered \/ (j \in out[cur] /\ c = o)
    BY <2>4
  <2>6. \A j \in Job, c \in Conn : <<j, c>> \in delivered' =>
            pc[j] \in {"returning", "done"} /\ fd_[c] = fd[j]
    BY <2>1, <2>5
  <2> QED
    BY <2>2, <2>3, <2>6
<1>11. ASSUME NEW j \in Job, getChannel(j) PROVE JobLocated'
  BY <1>11 DEF getChannel, kernel, Located
<1>12. ASSUME NEW j \in Job, Copy(j) \/ CopyTorn(j) PROVE JobLocated'
  BY <1>12 DEF Copy, CopyTorn, kernel
<1>13. ASSUME NEW j \in Job, Callback(j) PROVE JobLocated'
  BY <1>13 DEF Callback
<1>14. ASSUME NEW j \in Job, Return(j) PROVE JobLocated'
  BY <1>14 DEF Return, kernel
<1>15. CASE UNCHANGED vars
  BY <1>3, <1>15 DEF vars, kernel, job
<1> QED
  BY <1>4, <1>5, <1>6, <1>7, <1>8, <1>9, <1>10, <1>11, <1>12, <1>13, <1>14, <1>15
  DEF Next, LoopStep, PeerStep, JobStep

(* As long as epoll is not misled, the channels to be handled are owners.    *)
LEMMA NextDirected ==
    ASSUME TypeOK, Located, Stage, TableMatches, Directed, [Next]_vars PROVE Directed'
<1> USE NoFdIsNone DEF TypeOK, Directed
<1>1. ASSUME UNCHANGED <<owner, watch, channels_, fd_, loop, vec, cur, misled>>
      PROVE  Directed'
  BY <1>1
<1>2. CASE PeerStep
  BY <1>1, <1>2 DEF PeerStep, Connect, PeerAsks, PeerCloses
<1>3. CASE Poll
  <2>1. /\ UNCHANGED <<owner, watch, channels_, fd_, loop, cur, misled>> /\ loop = "poll"
        /\ \A c \in vec' \ {Listener} : \E f \in Fd : watch[f] = c /\ c # NoConn
    BY <1>3 DEF Poll, kernel, Ready
  <2>2. ASSUME ~misled, NEW c \in vec' \ {Listener} PROVE owner[fd_[c]] = c
    <3>1. PICK f \in Fd : watch[f] = c /\ c # NoConn
      BY <2>1
    <3> QED
      BY <2>2, <3>1 DEF Located
  <2> QED
    BY <2>1, <2>2
<1>4. ASSUME NEW c \in Conn, NextChannel(c) PROVE Directed'
  BY <1>4 DEF NextChannel, kernel
<1>5. CASE AcceptFails
  BY <1>5 DEF AcceptFails, kernel
<1>6. ASSUME NEW c \in Conn, NEW f \in Fd, onConnect(c, f) PROVE Directed'
  <2>1. /\ loop' = "insert" /\ cur' = c /\ vec' = vec \ {Listener} /\ misled' = misled
        /\ owner' = [owner EXCEPT ![f] = c] /\ watch' = [watch EXCEPT ![f] = c]
        /\ channels_' = channels_ /\ fd_' = [fd_ EXCEPT ![c] = f]
        /\ owner[f] = NoConn
    BY <1>6 DEF onConnect, Free
  <2>2. c \notin vec
    BY <1>6, ConnAssumption DEF onConnect, Located
  <2>3. ASSUME ~misled, NEW d \in vec' \ {Listener} PROVE owner'[fd_'[d]] = d
    <3>1. d \in Conn /\ d # c /\ owner[fd_[d]] = d /\ fd_[d] \in Fd
      BY <2>1, <2>2, <2>3 DEF Located
    <3>2. fd_[d] # f
      BY <2>1, <3>1, ConnAssumption
    <3> QED
      BY <2>1, <3>1, <3>2
  <2> QED
    BY <2>1, <2>2, <2>3
<1>7. CASE Insert
  BY <1>7 DEF Insert, kernel
<1>8. ASSUME cur \in Conn, fd_[cur] \in Fd, loop \in {"read", "write"}, cur \notin vec,
             UNCHANGED <<owner, channels_, fd_, vec, cur>>,
             watch' = [watch EXCEPT ![fd_[cur]] = cur],
             misled' = (misled \/ owner[fd_[cur]] # cur), loop' \in {"poll", "write"}
      PROVE  Directed'
  BY <1>8
<1>9. ASSUME NEW batch \in SUBSET Job, onRead(batch) PROVE Directed'
  BY <1>8, <1>9 DEF onRead, Located
<1>10. CASE onWrite
  BY <1>8, <1>10 DEF onWrite, Located, job
<1>11. CASE onClose
  <2>1. /\ cur \in Conn /\ fd_[cur] \in Fd /\ loop = "read" /\ loop' = "erase"
        /\ owner' = [owner EXCEPT ![fd_[cur]] = NoConn]
        /\ watch' = [watch EXCEPT ![fd_[cur]] = NoConn]
        /\ UNCHANGED <<channels_, fd_, vec, cur, misled>>
    BY <1>11 DEF onClose, Located
  <2>2. ASSUME ~misled, NEW d \in vec' \ {Listener} PROVE owner'[fd_'[d]] = d
    <3>1. d \in Conn /\ d # cur /\ owner[fd_[d]] = d /\ fd_[d] \in Fd
      BY <2>1, <2>2 DEF Located
    <3>2. fd_[d] # fd_[cur]
      BY <2>1, <2>2, <3>1
    <3> QED
      BY <2>1, <3>1, <3>2
  <2>3. ~misled => channels_[fd_[cur]] = cur
    BY <2>1 DEF TableMatches
  <2> QED
    BY <2>1, <2>2, <2>3
<1>12. CASE Erase
  BY <1>12 DEF Erase, kernel
<1>13. ASSUME NEW j \in Job, getChannel(j) \/ Copy(j) \/ CopyTorn(j) \/ Return(j)
       PROVE  Directed'
  BY <1>1, <1>13 DEF getChannel, Copy, CopyTorn, Return, kernel
<1>14. ASSUME NEW j \in Job, Callback(j) PROVE Directed'
  <2>1. UNCHANGED <<owner, channels_, fd_, loop, vec, cur>>
    BY <1>14 DEF Callback
  <2>2. ~misled' => ~misled /\ \A f \in Fd : watch'[f] = owner[f]
    BY <1>14 DEF Callback
  <2> QED
    BY <2>1, <2>2
<1>15. CASE UNCHANGED vars
  BY <1>1, <1>15 DEF vars, kernel
<1> QED
  BY <1>2, <1>3, <1>4, <1>5, <1>6, <1>7, <1>9, <1>10, <1>11, <1>12, <1>13, <1>14, <1>15
  DEF Next, LoopStep, JobStep

(* A closed connection stays closed, and an answer that goes to another      *)
(* connection than the asker finds that one in the asker's place.            *)
LEMMA NextAnswerToAsker ==
    ASSUME TypeOK, Located, JobLocated, AnswerToAsker, [Next]_vars PROVE AnswerToAsker'
<1> USE NoFdIsNone DEF TypeOK
<1>1. ASSUME NEW c \in Conn, Closed(c) PROVE Closed(c)'
  <2>1. CASE owner' = owner /\ fd_' = fd_
    BY <1>1, <2>1 DEF Closed
  <2>2. ASSUME NEW d \in Conn, NEW f \in Fd, onConnect(d, f) PROVE Closed(c)'
    <3>1. d # c /\ fd_' = [fd_ EXCEPT ![d] = f] /\ owner' = [owner EXCEPT ![f] = d]
      BY <1>1, <2>2 DEF onConnect, Located, Closed
    <3> QED
      BY <1>1, <3>1 DEF Closed
  <2>3. CASE onClose
    <3>1. fd_' = fd_ /\ owner' = [owner EXCEPT ![fd_[cur]] = NoConn] /\ c # NoConn
      BY <2>3, ConnAssumption DEF onClose
    <3> QED
      BY <1>1, <3>1 DEF Closed
  <2>4. CASE UNCHANGED vars
    BY <2>1, <2>4 DEF vars, kernel
  <2> QED
    BY <2>1, <2>2, <2>3, <2>4
    DEF Next, LoopStep, PeerStep, JobStep, Connect, PeerAsks, PeerCloses, Poll, NextChannel,
        AcceptFails, Insert, onRead, Erase, onWrite, getChannel, Copy, CopyTorn,
        Callback, Return, kernel
<1>2. \A j \in Job, c \in Conn : <<j, c>> \in delivered => asker'[j] = asker[j]
  <2>1. \A j \in Job, c \in Conn : <<j, c>> \in delivered => pc[j] # "none"
    BY DEF JobLocated
  <2>2. asker' = asker \/ \E c \in Conn, j \in Job : PeerAsks(c, j)
    BY DEF Next, LoopStep, PeerStep, JobStep, Connect, PeerAsks, PeerCloses, Poll, NextChannel,
           onConnect, AcceptFails, Insert, onRead, onClose, Erase, onWrite, getChannel,
           Copy, CopyTorn, Callback, Return, job, vars
  <2> QED
    BY <2>1, <2>2 DEF PeerAsks
<1>3. ASSUME NEW j \in Job, NEW c \in Conn, <<j, c>> \in delivered', <<j, c>> \notin delivered,
             c # asker'[j]
      PROVE  Closed(asker[j])' /\ asker'[j] = asker[j]
  <2>1. onWrite
    BY <1>3
    DEF Next, LoopStep, PeerStep, JobStep, Connect, PeerAsks, PeerCloses, Poll, NextChannel,
        onConnect, AcceptFails, Insert, onRead, onClose, Erase, getChannel, Copy,
        CopyTorn, Callback, Return, vars
  <2>2. /\ cur \in Conn /\ fd_[cur] \in Fd
        /\ j \in out[cur] /\ c = owner[fd_[cur]]
    BY <1>3, <2>1 DEF onWrite, Located
  <2>3. UNCHANGED <<owner, fd_, asker>>
    BY <2>1 DEF onWrite, job
  <2>4. asker[j] \in Conn /\ fd_[asker[j]] = fd[j] /\ fd_[cur] = fd[j]
    BY <2>2 DEF JobLocated, Asked
  <2> QED
    BY <1>3, <2>2, <2>3, <2>4 DEF Closed
<1>4. ASSUME NEW j \in Job, NEW c \in Conn, <<j, c>> \in delivered', c # asker'[j]
      PROVE  Closed(asker[j])'
  <2>1. CASE <<j, c>> \in delivered
    <3>1. PICK a \in Conn : a = asker[j] /\ a = asker'[j]
      BY <1>2, <2>1 DEF JobLocated, Asked
    <3>2. Closed(a)
      BY <1>4, <2>1, <3>1 DEF AnswerToAsker
    <3>3. Closed(a)'
      BY <1>1, <3>2
    <3> QED
      BY <3>1, <3>3 DEF Closed
  <2>2. CASE <<j, c>> \notin delivered
    BY <1>3, <1>4, <2>2
  <2> QED
    BY <2>1, <2>2
<1> QED
  BY <1>4 DEF AnswerToAsker

(* IInv is inductive. *)
LEMMA Invariance == Spec => []IInv
<1>1. IInv /\ [Next]_vars => IInv'
  BY NextTypeOK, NextLocated, NextTableMatches, NextFreedIsGone, NextJobLocated,
     NextDirected, NextAnswerToAsker
  DEF IInv
<1> QED
  BY <1>1, InitIInv, PTL DEF Spec

(* The table and the kernel agree on every descriptor that the loop thread   *)
(* is not working on.                                                        *)
THEOREM TableMatchesHolds == Spec => []TableMatches
<1>1. IInv => TableMatches
  BY DEF IInv
<1> QED
  BY <1>1, Invariance, PTL

(* epoll and pollEvent() have pointers to Channels that exist, unless a late *)
(* answer has put its Channel on a descriptor that was given away again.     *)
THEOREM PointersAreLiveHolds == Spec => []PointersAreLive
<1>1. IInv => PointersAreLive
  <2> SUFFICES ASSUME IInv, ~misled PROVE PointersAreLive
    BY DEF PointersAreLive
  <2> USE NoFdIsNone DEF IInv, TypeOK
  <2>1. ASSUME NEW f \in Fd, owner[f] # NoConn PROVE owner[f] \notin freed
    <3>1. CASE channels_[f] = owner[f]
      BY <3>1 DEF FreedIsGone
    <3>2. CASE channels_[f] # owner[f]
      BY <2>1, <3>2 DEF TableMatches, Stage, FreedIsGone
    <3> QED
      BY <3>1, <3>2
  <2>2. NoConn \notin freed /\ Listener \notin freed
    BY ConnAssumption
  <2>3. \A f \in Fd : watch[f] \notin freed
    BY <2>1, <2>2 DEF Directed
  <2>4. vec \cap freed = {}
    BY <2>1, <2>2, ConnAssumption DEF Directed, Located
  <2>5. ASSUME loop # "poll" PROVE cur \notin freed
    <3>1. cur \in Conn /\ fd_[cur] \in Fd
      BY <2>5 DEF Located
    <3>2. CASE loop \in {"read", "write", "insert"}
      BY <2>1, <3>1, <3>2, ConnAssumption DEF Directed, Stage
    <3>3. CASE loop = "erase"
      BY <3>1, <3>3 DEF Directed, FreedIsGone
    <3> QED
      BY <2>5, <3>2, <3>3
  <2> QED
    BY <2>3, <2>4, <2>5 DEF PointersAreLive
<1> QED
  BY <1>1, Invariance, PTL

(* A job's Channel lives until the job returns, unless the job copied the    *)
(* channel_ptr while onClose() erased it.                                    *)
THEOREM HeldIsLiveHolds == Spec => []HeldIsLive
<1>1. IInv => HeldIsLive
  BY DEF IInv
<1> QED
  BY <1>1, Invariance, PTL

(* An answer goes to the connection that asked while that is open.           *)
THEOREM AnswerToAskerHolds == Spec => []AnswerToAsker
<1>1. IInv => AnswerToAsker
  BY DEF IInv
<1> QED
  BY <1>1, Invariance, PTL
=============================================================================
