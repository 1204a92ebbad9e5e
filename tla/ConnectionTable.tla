--------------------------- MODULE ConnectionTable ---------------------------
(* net/TcpServer.cpp with protobuf/protoServer.cpp and Rpc.cpp: the table of *)
(* the server's connections, from descriptors to Channels, under a loop      *)
(* thread that accepts, reads, writes and closes, and job threads that look  *)
(* a descriptor up when they have an answer for it.  A request carries the   *)
(* descriptor it came by; the kernel gives a descriptor that was closed to   *)
(* the next connection.  A Channel lives as long as a channel_ptr to it;     *)
(* epoll and pollEvent() have plain pointers.                                *)
(*                                                                           *)
(* A connection and the Channel made for it have one name.  Which events     *)
(* are watched, and how bytes move, is TcpEndpoint's subject: here a request *)
(* and an answer are read and written whole, and a ready descriptor is       *)
(* reported.  The HUP branch of pollEvent() is left out: a descriptor that   *)
(* hung up is also at its end of input, and onRead() has replaced event_.    *)
EXTENDS Integers

CONSTANTS
    Conn,       \* connections, numbered in the order the peers make them
    Fd,         \* the descriptors that the process may have for them
    Job,        \* requests, each with its job
    NoConn,     \* no Channel
    Listener    \* the server's own channel_

ASSUME ConnAssumption == NoConn \notin Conn /\ Listener \notin Conn \cup {NoConn}
ASSUME NumberAssumption == Conn \subseteq Nat /\ Fd \subseteq Nat

NoFd == -1

VARIABLES
    (* the kernel *)
    waiting,    \* connections to be accepted
    owner,      \* the connection that a descriptor refers to
    watch,      \* the pointer that epoll has for a descriptor
    inbox,      \* requests received and not read, for each connection
    eof,        \* connections that their peer has closed
    (* the server *)
    fd_,        \* the descriptor of each Channel
    channels_,  \* the table
    freed,      \* Channels that have been destroyed
    out,        \* answers in the write buffer of each Channel
    (* the loop thread *)
    loop,       \* where it is
    vec,        \* the channels that pollEvent() has still to handle
    cur,        \* the one that it handles
    (* the job threads *)
    pc,         \* where each job is
    fd,         \* the descriptor that the job was bound to
    channel,    \* what getChannel() finds and returns to the job
    (* history *)
    asker,      \* the connection that the request of a job came by
    delivered,  \* pairs of a job and the connection that its answer went to
    torn,       \* jobs that copied a channel_ptr while onClose() erased it
    misled      \* a late answer has put its Channel on another's descriptor

kernel == <<waiting, owner, watch, inbox, eof>>
job == <<pc, fd, channel, asker, torn>>
vars == <<kernel, fd_, channels_, freed, out, loop, vec, cur, job, delivered, misled>>

Init ==
    /\ waiting = {} /\ eof = {} /\ freed = {} /\ vec = {} /\ torn = {}
    /\ owner = [f \in Fd |-> NoConn] /\ watch = [f \in Fd |-> NoConn]
    /\ channels_ = [f \in Fd |-> NoConn]
    /\ inbox = [c \in Conn |-> {}] /\ out = [c \in Conn |-> {}]
    /\ fd_ = [c \in Conn |-> NoFd]
    /\ loop = "poll" /\ cur = NoConn
    /\ pc = [j \in Job |-> "none"] /\ fd = [j \in Job |-> NoFd]
    /\ channel = [j \in Job |-> NoConn] /\ asker = [j \in Job |-> NoConn]
    /\ delivered = {} /\ misled = FALSE

MutexFree == \A j \in Job : pc[j] # "finding"

(* Mutant: getChannel() returns a plain pointer. *)
HolderTableOnly == {"nobody"}

(* Where a job has a channel_ptr: until onMessage() returns. *)
Holder == {"sending", "returning"}

(* The Channels without a channel_ptr, after a step, are destroyed by it. *)
Release ==
    freed' = freed \cup {c \in Conn :
        /\ fd_[c] # NoFd
        /\ \A f \in Fd : channels_'[f] # c
        /\ ~(loop' = "insert" /\ cur' = c)
        /\ \A j \in Job : channel'[j] = c => pc'[j] \notin Holder}
-----------------------------------------------------------------------------
(* The peers. *)

Connect(c) ==
    /\ fd_[c] = NoFd /\ c \notin waiting
    /\ \A d \in Conn : d < c => d \in waiting \/ fd_[d] # NoFd
    /\ waiting' = waiting \cup {c}
    /\ UNCHANGED <<owner, watch, inbox, eof, fd_, channels_, freed, out, loop, vec,
                   cur, job, delivered, misled>>

PeerAsks(c, j) ==
    /\ c \in waiting \/ fd_[c] # NoFd
    /\ c \notin eof
    /\ pc[j] = "none"
    /\ pc' = [pc EXCEPT ![j] = "asked"]
    /\ inbox' = [inbox EXCEPT ![c] = @ \cup {j}]
    /\ asker' = [asker EXCEPT ![j] = c]
    /\ UNCHANGED <<waiting, owner, watch, eof, fd_, channels_, freed, out, loop, vec,
                   cur, fd, channel, delivered, torn, misled>>

PeerCloses(c) ==
    /\ c \in waiting \/ fd_[c] # NoFd
    /\ c \notin eof
    /\ eof' = eof \cup {c}
    /\ UNCHANGED <<waiting, owner, watch, inbox, fd_, channels_, freed, out, loop,
                   vec, cur, job, delivered, misled>>
-----------------------------------------------------------------------------
(* The loop thread. *)

Ready(f) ==
    /\ watch[f] # NoConn
    /\ inbox[owner[f]] # {} \/ owner[f] \in eof \/ out[watch[f]] # {}

(* epoll_wait(): here every ready descriptor is reported at once. *)
Poll ==
    /\ loop = "poll" /\ vec = {}
    /\ vec' = {watch[f] : f \in {g \in Fd : Ready(g)}}
                \cup (IF waiting # {} THEN {Listener} ELSE {})
    /\ UNCHANGED <<kernel, fd_, channels_, freed, out, loop, cur, job, delivered, misled>>

(* pollEvent() goes on to the next channel. *)
NextChannel(c) ==
    /\ loop = "poll"
    /\ c \in vec \ {Listener}
    /\ vec' = vec \ {c}
    /\ cur' = c
    /\ loop' = "read"
    /\ UNCHANGED <<kernel, fd_, channels_, freed, out, job, delivered, misled>>

Free == {f \in Fd : owner[f] = NoConn}

(* accept() takes the oldest waiting connection and gives it the lowest free *)
(* descriptor; addChannel().                                                 *)
onConnect(c, f) ==
    /\ loop = "poll" /\ Listener \in vec
    /\ c \in waiting /\ \A d \in waiting : c <= d
    /\ f \in Free /\ \A g \in Free : f <= g
    /\ vec' = vec \ {Listener}
    /\ waiting' = waiting \ {c}
    /\ fd_' = [fd_ EXCEPT ![c] = f]
    /\ owner' = [owner EXCEPT ![f] = c]
    /\ watch' = [watch EXCEPT ![f] = c]
    /\ cur' = c
    /\ loop' = "insert"
    /\ UNCHANGED <<inbox, eof, channels_, freed, out, job, delivered, misled>>

(* accept() fails for want of a descriptor. *)
AcceptFails ==
    /\ loop = "poll" /\ Listener \in vec
    /\ Free = {}
    /\ vec' = vec \ {Listener}
    /\ UNCHANGED <<kernel, fd_, channels_, freed, out, loop, cur, job, delivered, misled>>

(* channels_[connsock->getFd()]=connsock, under the mutex. *)
Insert ==
    /\ loop = "insert" /\ MutexFree
    /\ channels_' = [channels_ EXCEPT ![fd_[cur]] = cur]
    /\ loop' = "poll"
    /\ UNCHANGED <<kernel, fd_, out, vec, cur, job, delivered, misled>>
    /\ Release

(* Mutant: the jobs get the descriptor by reference. *)
onReadByReference(batch) ==
    /\ loop = "read"
    /\ owner[fd_[cur]] # NoConn /\ batch \subseteq inbox[owner[fd_[cur]]]
    /\ owner[fd_[cur]] \in eof => batch # {}
    /\ inbox' = [inbox EXCEPT ![owner[fd_[cur]]] = @ \ batch]
    /\ watch' = [watch EXCEPT ![fd_[cur]] = cur]
    /\ misled' = (misled \/ owner[fd_[cur]] # cur)
    /\ pc' = [j \in Job |-> IF j \in batch THEN "queued" ELSE pc[j]]
    /\ fd' = [j \in Job |-> IF batch # {} THEN fd_[cur] ELSE fd[j]]
    /\ loop' = "write"
    /\ UNCHANGED <<waiting, owner, eof, fd_, channels_, freed, out, vec, cur, channel,
                   asker, delivered, torn>>

(* onRead() reads until errno is EAGAIN, which an earlier call may have left *)
(* there, calls updateChannel() and onData(), and returns false.  Each       *)
(* request that was read becomes a job bound to the Channel's descriptor.    *)
onRead(batch) ==
    /\ loop = "read"
    /\ owner[fd_[cur]] # NoConn /\ batch \subseteq inbox[owner[fd_[cur]]]
    /\ owner[fd_[cur]] \in eof => batch # {}
    /\ inbox' = [inbox EXCEPT ![owner[fd_[cur]]] = @ \ batch]
    /\ watch' = [watch EXCEPT ![fd_[cur]] = cur]
    /\ misled' = (misled \/ owner[fd_[cur]] # cur)
    /\ pc' = [j \in Job |-> IF j \in batch THEN "queued" ELSE pc[j]]
    /\ fd' = [j \in Job |-> IF j \in batch THEN fd_[cur] ELSE fd[j]]
    /\ loop' = "write"
    /\ UNCHANGED <<waiting, owner, eof, fd_, channels_, freed, out, vec, cur, channel,
                   asker, delivered, torn>>

(* read() returns 0: delChannel() and close().  Requests that were read on   *)
(* the way are lost when errno was not EAGAIN (TcpEndpoint).                 *)
onClose ==
    /\ loop = "read"
    /\ owner[fd_[cur]] \in eof
    /\ inbox' = [inbox EXCEPT ![owner[fd_[cur]]] = {}]
    /\ owner' = [owner EXCEPT ![fd_[cur]] = NoConn]
    /\ watch' = [watch EXCEPT ![fd_[cur]] = NoConn]
    /\ loop' = "erase"
    /\ UNCHANGED <<waiting, eof, fd_, channels_, freed, out, vec, cur, job, delivered,
                   misled>>

(* Mutant: erase() is forgotten. *)
EraseNot ==
    /\ loop = "erase"
    /\ loop' = "poll"
    /\ UNCHANGED <<kernel, fd_, channels_, out, vec, cur, job, delivered, misled>>
    /\ Release

(* Mutant: pollEvent() handles the channel further. *)
EraseAndWrite ==
    /\ loop = "erase"
    /\ channels_' = [channels_ EXCEPT ![fd_[cur]] = NoConn]
    /\ loop' = "write"
    /\ UNCHANGED <<kernel, fd_, out, vec, cur, job, delivered, misled>>
    /\ Release

(* channels_.erase(channel->getFd()), without the mutex. *)
Erase ==
    /\ loop = "erase"
    /\ channels_' = [channels_ EXCEPT ![fd_[cur]] = NoConn]
    /\ loop' = "poll"
    /\ UNCHANGED <<kernel, fd_, out, vec, cur, job, delivered, misled>>
    /\ Release

(* onWrite() writes what the Channel has to the descriptor of its number. *)
onWrite ==
    /\ loop = "write" /\ MutexFree
    /\ owner[fd_[cur]] # NoConn
    /\ out' = [out EXCEPT ![cur] = {}]
    /\ delivered' = delivered \cup (out[cur] \X {owner[fd_[cur]]})
    /\ watch' = [watch EXCEPT ![fd_[cur]] = cur]
    /\ misled' = (misled \/ owner[fd_[cur]] # cur)
    /\ loop' = "poll"
    /\ UNCHANGED <<waiting, owner, inbox, eof, fd_, channels_, freed, vec, cur, job>>
-----------------------------------------------------------------------------
(* The job threads: ProtoServer::onMessage(). *)

(* getChannel() locks the mutex and finds an entry. *)
getChannel(j) ==
    /\ pc[j] = "queued" /\ MutexFree
    /\ channel' = [channel EXCEPT ![j] = channels_[fd[j]]]
    /\ pc' = [pc EXCEPT ![j] = IF channels_[fd[j]] = NoConn THEN "done" ELSE "finding"]
    /\ UNCHANGED <<kernel, fd_, channels_, freed, out, loop, vec, cur, fd, asker,
                   delivered, torn, misled>>

(* It copies the channel_ptr of the entry and unlocks. *)
Copy(j) ==
    /\ pc[j] = "finding" /\ channels_[fd[j]] = channel[j]
    /\ pc' = [pc EXCEPT ![j] = "sending"]
    /\ UNCHANGED <<kernel, fd_, channels_, freed, out, loop, vec, cur, fd, channel,
                   asker, delivered, torn, misled>>

(* It copies a channel_ptr that erase() has destroyed: undefined, but what   *)
(* is left in memory is the pointer or nothing.                              *)
CopyTorn(j) ==
    /\ pc[j] = "finding" /\ channels_[fd[j]] # channel[j]
    /\ torn' = torn \cup {j}
    /\ \/ pc' = [pc EXCEPT ![j] = "sending"] /\ UNCHANGED channel
       \/ pc' = [pc EXCEPT ![j] = "done"] /\ channel' = [channel EXCEPT ![j] = NoConn]
    /\ UNCHANGED <<kernel, fd_, channels_, freed, out, loop, vec, cur, fd, asker,
                   delivered, misled>>

(* Callback() and send(): the answer goes into the Channel, and setChannel() *)
(* gives epoll the Channel for its descriptor, whose ever that is now.       *)
Callback(j) ==
    LET c == channel[j] f == fd_[channel[j]]
    IN  /\ pc[j] = "sending" /\ MutexFree
        /\ out' = [out EXCEPT ![c] = @ \cup {j}]
        /\ IF watch[f] # NoConn
             THEN /\ watch' = [watch EXCEPT ![f] = c]
                  /\ misled' = (misled \/ owner[f] # c)
             ELSE UNCHANGED <<watch, misled>>
        /\ pc' = [pc EXCEPT ![j] = "returning"]
        /\ UNCHANGED <<waiting, owner, inbox, eof, fd_, channels_, freed, loop, vec,
                       cur, fd, channel, asker, delivered, torn>>

(* onMessage() returns and its channel_ptr goes. *)
Return(j) ==
    /\ pc[j] = "returning"
    /\ pc' = [pc EXCEPT ![j] = "done"]
    /\ UNCHANGED <<kernel, fd_, channels_, out, loop, vec, cur, fd, channel, asker,
                   delivered, torn, misled>>
    /\ Release

LoopStep ==
    \/ Poll
    \/ \E c \in Conn : NextChannel(c)
    \/ \E c \in Conn, f \in Fd : onConnect(c, f)
    \/ AcceptFails
    \/ Insert
    \/ \E batch \in SUBSET Job : onRead(batch)
    \/ onClose
    \/ Erase
    \/ onWrite

JobStep(j) ==
    \/ getChannel(j)
    \/ Copy(j)
    \/ CopyTorn(j)
    \/ Callback(j)
    \/ Return(j)

PeerStep ==
    \/ \E c \in Conn : Connect(c)
    \/ \E c \in Conn, j \in Job : PeerAsks(c, j)
    \/ \E c \in Conn : PeerCloses(c)

Next == LoopStep \/ PeerStep \/ \E j \in Job : JobStep(j)

(* The threads that can run do. *)
Spec ==
    /\ Init /\ [][Next]_vars
    /\ WF_vars(LoopStep)
    /\ \A j \in Job : WF_vars(JobStep(j))
-----------------------------------------------------------------------------
TypeOK ==
    /\ waiting \subseteq Conn /\ eof \subseteq Conn /\ freed \subseteq Conn
    /\ owner \in [Fd -> Conn \cup {NoConn}]
    /\ watch \in [Fd -> Conn \cup {NoConn}]
    /\ channels_ \in [Fd -> Conn \cup {NoConn}]
    /\ inbox \in [Conn -> SUBSET Job] /\ out \in [Conn -> SUBSET Job]
    /\ fd_ \in [Conn -> Fd \cup {NoFd}]
    /\ loop \in {"poll", "insert", "read", "write", "erase"}
    /\ vec \subseteq Conn \cup {Listener} /\ cur \in Conn \cup {NoConn}
    /\ pc \in [Job -> {"none", "asked", "queued", "finding", "sending", "returning",
                       "done"}]
    /\ fd \in [Job -> Fd \cup {NoFd}]
    /\ channel \in [Job -> Conn \cup {NoConn}] /\ asker \in [Job -> Conn \cup {NoConn}]
    /\ delivered \subseteq Job \X Conn /\ torn \subseteq Job /\ misled \in BOOLEAN

Closed(c) == fd_[c] # NoFd /\ owner[fd_[c]] # c

(* The table and the kernel agree on every descriptor, but for the one that  *)
(* onConnect() or onClose() is working on.                                   *)
TableMatches ==
    \A f \in Fd : channels_[f] # owner[f] =>
        loop \in {"insert", "erase"} /\ fd_[cur] = f

(* The plain pointers of epoll and pollEvent() are to Channels that exist,   *)
(* as long as no late answer put its Channel on another's descriptor.        *)
PointersAreLive ==
    ~misled => /\ \A f \in Fd : watch[f] \notin freed
               /\ vec \cap freed = {}
               /\ loop # "poll" => cur \notin freed

(* A job's channel_ptr keeps its Channel alive, unless it was copied while   *)
(* onClose() erased the entry without the mutex.                             *)
HeldIsLive ==
    \A j \in Job : pc[j] \in {"sending", "returning"} /\ channel[j] \in freed
                      => j \in torn

(* An answer goes to the connection that asked, as long as that is open.     *)
AnswerToAsker ==
    \A j \in Job, c \in Conn :
        <<j, c>> \in delivered /\ c # asker[j] => Closed(asker[j])

(* A connection that its peer has closed is closed and its Channel destroyed.*)
EndIsFreed ==
    \A c \in Conn : c \in eof /\ fd_[c] # NoFd ~> c \in freed \/ misled
=============================================================================
