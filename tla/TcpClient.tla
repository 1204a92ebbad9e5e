----------------------------- MODULE TcpClient -----------------------------
(* net/TcpClient.cpp with TcpServer.cpp (class TcpEndpoint): one connection  *)
(* that a program makes with connect() while the loop thread runs, and that  *)
(* it writes to with send(), which it may do before the connection is        *)
(* established.  As in TcpEndpoint, event_ is changed with and without the   *)
(* mutex, and write() and the unlocked updateChannel() are cut in two.       *)
(*                                                                           *)
(* The peer sends nothing: read() finds the end of input or nothing.  The    *)
(* kernel takes all that write() offers.  A connection that is refused shows *)
(* every event and EPOLLHUP; read() then fails once and finds the end.       *)
EXTENDS FixedBuffer

CONSTANT kBufferEachTimeSize

ASSUME SizeAssumption == kBufferEachTimeSize \in Nat \ {0}

VARIABLES
    state,      \* the socket: "none", "connecting", "established", "refused", "closed"
    interest,   \* the events that epoll watches
    event,      \* event_
    connected,  \* connected_
    writebuf,   \* writebuf_
    writing,    \* the program is in write(), between setEvent() and epoll_ctl()
    loop,       \* where the loop thread is
    eagain,     \* whether its errno is EAGAIN
    wire,       \* bytes taken by the kernel and not yet at the peer
    overwritten \* an update has taken back the interest in pending output

clientVars == <<state, interest, event, connected, writebuf, writing, loop, eagain,
                wire, overwritten>>
socket == <<state, interest, wire>>

ClientInit ==
    /\ state = "none" /\ interest = {} /\ event = {} /\ connected = FALSE
    /\ writebuf = Empty /\ writing = FALSE
    /\ loop = "poll" /\ eagain \in BOOLEAN
    /\ wire = <<>> /\ overwritten = FALSE

Open == state \notin {"none", "closed"}

Pending == readable(writebuf) > 0
-----------------------------------------------------------------------------
(* EPoll. *)

addChannel(events) == event' = events /\ interest' = events

(* setChannel() has epoll watch for event_, as it is now. *)
setChannel == interest' = event \ {"HUP"}

delChannel == interest' = {}
-----------------------------------------------------------------------------
(* The program. *)

(* socket(), connect() with EINPROGRESS, addChannel(channel, EPOLLOUT). *)
connect ==
    /\ state = "none"
    /\ state' = "connecting"
    /\ addChannel({"OUT"})
    /\ UNCHANGED <<connected, writebuf, writing, loop, eagain, wire, overwritten>>

(* send(): the mutex is free when neither side is in the middle of it.  It   *)
(* asks for output only if there is any: a full buffer takes nothing.        *)
send(s) ==
    /\ state # "none" /\ ~writing
    /\ writebuf' = append(writebuf, s)
    /\ IF readable(writebuf') > 0
         THEN event' = {"IN", "OUT"} /\ writing' = TRUE
         ELSE UNCHANGED <<event, writing>>
    /\ UNCHANGED <<socket, connected, loop, eagain, overwritten>>

(* epoll_ctl() reads event_ again; it fails on a closed descriptor. *)
sendControl ==
    /\ writing
    /\ writing' = FALSE
    /\ IF Open THEN setChannel ELSE UNCHANGED interest
    /\ overwritten' = (overwritten \/ (Open /\ Pending /\ "OUT" \notin event))
    /\ UNCHANGED <<state, event, connected, writebuf, loop, eagain, wire>>
-----------------------------------------------------------------------------
(* The network answers connect(). *)

Establish ==
    /\ state = "connecting"
    /\ state' = "established"
    /\ UNCHANGED <<interest, event, connected, writebuf, writing, loop, eagain, wire,
                   overwritten>>

Refuse ==
    /\ state = "connecting"
    /\ state' = "refused"
    /\ UNCHANGED <<interest, event, connected, writebuf, writing, loop, eagain, wire,
                   overwritten>>
-----------------------------------------------------------------------------
(* The loop thread.  ended: the peer has shut its side down. *)

Ready(ended) ==
    CASE state = "established" ->
             interest \cap ({"OUT"} \cup IF ended THEN {"IN"} ELSE {})
      [] state = "refused" -> interest \cup {"HUP"}
      [] OTHER -> {}

Poll(ended) ==
    /\ loop = "poll" /\ Ready(ended) # {}
    /\ event' = Ready(ended)
    /\ loop' = "tryRead"
    /\ UNCHANGED <<socket, connected, writebuf, writing, eagain, overwritten>>

(* Mutant: pollEvent() writes first. *)
TryReadLast ==
    /\ loop = "tryRead"
    /\ loop' = CASE "OUT" \in event -> "tryWrite"
                 [] "OUT" \notin event /\ "IN" \in event -> "read"
                 [] OTHER -> "tryClose"
    /\ UNCHANGED <<socket, event, connected, writebuf, writing, eagain, overwritten>>

TryRead ==
    /\ loop = "tryRead"
    /\ loop' = IF "IN" \in event THEN "read" ELSE "tryWrite"
    /\ UNCHANGED <<socket, event, connected, writebuf, writing, eagain, overwritten>>

(* onRead(): nothing to read, errno EAGAIN; updateChannel() begins. *)
ReadNothing(ended) ==
    /\ loop = "read" /\ state = "established" /\ ~ended
    /\ eagain' = TRUE
    /\ event' = {"IN"}
    /\ loop' = "update"
    /\ UNCHANGED <<socket, connected, writebuf, writing, overwritten>>

(* The end of updateChannel(channel, EPOLLIN), in onRead() and onConnect(). *)
UpdateControl ==
    /\ setChannel
    /\ overwritten' = (overwritten \/ (Pending /\ "OUT" \notin event))

Update ==
    /\ loop = "update"
    /\ UpdateControl
    /\ loop' = "tryWrite"
    /\ UNCHANGED <<state, event, connected, writebuf, writing, eagain, wire>>

(* onRead() finds the end, on a refused connection with its second read().   *)
onClose(ended) ==
    /\ loop = "read" /\ (state = "refused" \/ ended)
    /\ state' = "closed" /\ delChannel
    /\ connected' = FALSE
    /\ loop' = "poll"
    /\ UNCHANGED <<event, writebuf, writing, eagain, wire, overwritten>>

TryWrite ==
    /\ loop = "tryWrite"
    /\ "OUT" \in event => connected
    /\ loop' = IF "OUT" \in event THEN "write" ELSE "tryClose"
    /\ UNCHANGED <<socket, event, connected, writebuf, writing, eagain, overwritten>>

(* onConnect(), up to the epoll_ctl() of updateChannel().  Whether connect() *)
(* has succeeded is not looked at.                                           *)
onConnect ==
    /\ loop = "tryWrite" /\ "OUT" \in event /\ ~connected
    /\ connected' = TRUE
    /\ event' = {"IN"}
    /\ loop' = "connect"
    /\ UNCHANGED <<socket, writebuf, writing, eagain, overwritten>>

onConnectControl ==
    /\ loop = "connect"
    /\ UpdateControl
    /\ loop' = "tryClose"
    /\ UNCHANGED <<state, event, connected, writebuf, writing, eagain, wire>>

(* Mutant: what is left in the buffer is forgotten. *)
WriteSomeUnwatched ==
    /\ loop = "write" /\ ~writing /\ Pending
    /\ \E n \in {smaller(readable(writebuf), kBufferEachTimeSize)} :
        /\ wire' = wire \o str(writebuf, n)
        /\ writebuf' = read(writebuf, n)
    /\ IF eagain THEN event' = {"IN"} /\ interest' = {"IN"} /\ loop' = "tryClose"
                 ELSE UNCHANGED <<event, interest, loop>>
    /\ UNCHANGED <<state, connected, writing, eagain, overwritten>>

(* An iteration of onWrite(), under the mutex.  It returns when errno is     *)
(* EAGAIN, from an earlier call.                                             *)
WriteSome ==
    /\ loop = "write" /\ ~writing /\ Pending
    /\ \E n \in {smaller(readable(writebuf), kBufferEachTimeSize)} :
        /\ wire' = wire \o str(writebuf, n)
        /\ writebuf' = read(writebuf, n)
    /\ IF eagain
         THEN /\ event' = {"IN"} \cup IF readable(writebuf') > 0 THEN {"OUT"} ELSE {}
              /\ interest' = event'
              /\ loop' = "tryClose"
         ELSE UNCHANGED <<event, interest, loop>>
    /\ UNCHANGED <<state, connected, writing, eagain, overwritten>>

(* write() of nothing returns 0. *)
WriteEnd ==
    /\ loop = "write" /\ ~writing /\ ~Pending
    /\ writebuf' = readall(writebuf)
    /\ event' = {"IN"} /\ interest' = {"IN"}
    /\ loop' = "tryClose"
    /\ UNCHANGED <<state, connected, writing, eagain, wire, overwritten>>

(* The last test of pollEvent(), for EPOLLHUP: what has been done for the    *)
(* other events has replaced event_ by then (WritesEstablished).             *)
TryClose ==
    /\ loop = "tryClose"
    /\ loop' = "poll"
    /\ UNCHANGED <<socket, event, connected, writebuf, writing, eagain, overwritten>>

ClientLoop(ended) ==
    \/ Poll(ended)
    \/ TryRead
    \/ ReadNothing(ended)
    \/ Update
    \/ onClose(ended)
    \/ TryWrite
    \/ onConnect
    \/ onConnectControl
    \/ WriteSome
    \/ WriteEnd
    \/ TryClose
=============================================================================
