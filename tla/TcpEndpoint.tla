---------------------------- MODULE TcpEndpoint ----------------------------
(* net/TcpEndpoint.hpp, TcpServer.cpp, Channel.cpp, EPoll.cpp, EventLoop.h:  *)
(* one established connection, served by the thread that runs the event loop *)
(* (poll(), pollEvent(), onRead(), onWrite(), onClose()) and written to by   *)
(* other threads through send() and write().  The mutex of the endpoint      *)
(* covers onWrite() and write() but not onRead() and poll(), while           *)
(* channel->event_, which is both what epoll reported and what epoll is to   *)
(* watch, is changed by all four.  So write() is cut between setEvent() and  *)
(* epoll_ctl(), as is the updateChannel() of onRead(); an iteration of       *)
(* onWrite() excludes write() and runs in the only thread that changes       *)
(* event_ without the mutex, and is one step.                                *)
(*                                                                           *)
(* The kernel is what poll(), read(), write() and epoll_ctl() show of it:    *)
(* bytes received and not read, room in the send buffer, the end of input,   *)
(* and the watched events.  epoll is level-triggered.  A successful call     *)
(* leaves errno alone, so the loop thread's errno is state.  Connection      *)
(* resets, shutdown() and the reuse of descriptors are left out.             *)
EXTENDS FixedBuffer

CONSTANTS
    Sender,                 \* threads that call send() or write()
    kBufferEachTimeSize,    \* the most one read() or write() moves
    Window,                 \* the size of the kernel's send buffer
    MaxIn,                  \* bound: the bytes the peer sends
    MaxOut                  \* bound: the bytes that write() is called with

ASSUME SizeAssumption ==
    /\ kBufferEachTimeSize \in Nat \ {0}
    /\ Window \in Nat \ {0}
    /\ MaxIn \in Nat /\ MaxOut \in Nat

VARIABLES
    (* the channel *)
    event,      \* event_
    writebuf,   \* writebuf_, its bytes numbered in the order they were accepted
    readbuf,    \* how many bytes readbuf_ holds
    open,       \* FALSE once onClose() has closed the descriptor
    (* the kernel *)
    interest,   \* the events epoll watches for the descriptor
    received,   \* bytes received and not read
    eof,        \* the peer has closed its side
    room,       \* free bytes in the send buffer
    (* the threads *)
    loop,       \* where the loop thread is
    eagain,     \* whether the loop thread's errno is EAGAIN
    writing,    \* the sender between setEvent() and epoll_ctl(), or none
    (* history *)
    sent,       \* how many bytes the peer has sent so far
    offered,    \* how many bytes write() was called with so far
    accepted,   \* how many of them went into writebuf_
    wire,       \* the bytes handed to the kernel
    unseen,     \* bytes in readbuf_ that onData_ has not been called for
    full,       \* a write() of the loop thread has failed with EAGAIN
    raced       \* an update without the mutex has lost the interest in output

vars == <<event, writebuf, readbuf, open, interest, received, eof, room, loop,
          eagain, writing, sent, offered, accepted, wire, unseen, full, raced>>

input == <<readbuf, received, eof, sent, unseen>>
output == <<writebuf, room, offered, accepted, wire, full>>

NoSender == {}

(* After onConnect(): the descriptor is watched for input. *)
Init ==
    /\ event = {"IN"} /\ interest = {"IN"}
    /\ writebuf = Empty /\ readbuf = 0 /\ open = TRUE
    /\ received = 0 /\ eof = FALSE /\ room = Window
    /\ loop = "poll" /\ eagain \in BOOLEAN /\ writing = NoSender
    /\ sent = 0 /\ offered = 0 /\ accepted = 0 /\ wire = <<>> /\ unseen = 0
    /\ full = FALSE /\ raced = FALSE

Pending == readable(writebuf) > 0

MutexFree == writing = NoSender
-----------------------------------------------------------------------------
(* The senders: TcpEndpoint::write(). *)

(* The lock, Channel::write() and setEvent(). *)
SenderAppend(s, n) ==
    /\ MutexFree
    /\ offered + n <= MaxOut
    /\ offered' = offered + n
    /\ writebuf' = append(writebuf, [i \in 1 .. n |-> accepted + i])
    /\ accepted' = accepted + writer(writebuf') - writer(writebuf)
    /\ IF readable(writebuf') > 0
         THEN event' = {"IN", "OUT"} /\ writing' = {s}
         ELSE UNCHANGED <<event, writing>>
    /\ UNCHANGED <<input, open, interest, room, loop, eagain, wire, full, raced>>

(* epoll_ctl() reads event_ again; it fails on a closed descriptor. *)
SenderControl(s) ==
    /\ s \in writing
    /\ interest' = IF open THEN event ELSE interest
    /\ raced' = (raced \/ (open /\ Pending /\ "OUT" \notin event))
    /\ writing' = NoSender
    /\ UNCHANGED <<input, output, event, open, loop, eagain>>
-----------------------------------------------------------------------------
(* The loop thread. *)

Ready ==
    interest \cap ((IF received > 0 \/ eof THEN {"IN"} ELSE {})
                   \cup (IF room > 0 THEN {"OUT"} ELSE {}))

(* epoll_wait() and setEvent() with what it reported. *)
Poll ==
    /\ loop = "poll" /\ open /\ Ready # {}
    /\ event' = Ready
    /\ loop' = "tryRead"
    /\ UNCHANGED <<input, output, open, interest, eagain, writing, raced>>

(* pollEvent() looks at event_ twice, whoever changed it meanwhile. *)
TryRead ==
    /\ loop = "tryRead"
    /\ loop' = IF "IN" \in event THEN "read" ELSE "tryWrite"
    /\ UNCHANGED <<input, output, event, open, interest, eagain, writing, raced>>

TryWrite ==
    /\ loop = "tryWrite"
    /\ loop' = IF "OUT" \in event THEN "write" ELSE "poll"
    /\ UNCHANGED <<input, output, event, open, interest, eagain, writing, raced>>

(* Mutant: errno is looked at before the read(). *)
ReadNextEarly ==
    IF eagain THEN loop' = "update" /\ event' = {"IN"}
              ELSE UNCHANGED <<loop, event>>

(* The end of an iteration of onRead(): if errno is EAGAIN, from this read() *)
(* or from an earlier call, updateChannel(channel, EPOLLIN) begins.          *)
ReadNext ==
    IF eagain' THEN loop' = "update" /\ event' = {"IN"}
               ELSE UNCHANGED <<loop, event>>

ReadSome ==
    /\ loop = "read" /\ received > 0
    /\ \E n \in {smaller(received, kBufferEachTimeSize)} :
        /\ received' = received - n
        /\ readbuf' = smaller(readbuf + n, BUFFER_SIZE - 1)
        /\ unseen' = unseen + readbuf' - readbuf
    /\ UNCHANGED eagain
    /\ ReadNext
    /\ UNCHANGED <<output, open, interest, eof, sent, writing, raced>>

(* len is -1 and errno EAGAIN; append() of -1 bytes does nothing. *)
ReadNothing ==
    /\ loop = "read" /\ received = 0 /\ ~eof
    /\ eagain' = TRUE
    /\ ReadNext
    /\ UNCHANGED <<input, output, open, interest, writing, raced>>

(* read() returns 0: onClose(), and pollEvent() goes on to the next channel. *)
ReadEnd ==
    /\ loop = "read" /\ received = 0 /\ eof
    /\ open' = FALSE
    /\ interest' = {}
    /\ loop' = "poll"
    /\ UNCHANGED <<input, output, event, eagain, writing, raced>>

(* updateChannel() ends with epoll_ctl(); onData_ takes what it can use. *)
Update ==
    /\ loop = "update"
    /\ interest' = event
    /\ raced' = (raced \/ (Pending /\ "OUT" \notin event))
    /\ readbuf' \in 0 .. readbuf
    /\ unseen' = 0
    /\ loop' = "tryWrite"
    /\ UNCHANGED <<output, event, open, received, eof, sent, eagain, writing>>

Watch(events) == event' = events /\ interest' = events

(* Mutant: what is left in the buffer is forgotten. *)
WriteNextIn ==
    IF eagain' THEN Watch({"IN"}) /\ loop' = "poll"
               ELSE UNCHANGED <<event, interest, loop>>

(* The end of an iteration of onWrite(): with errno EAGAIN, from this        *)
(* write() or from an earlier call, it returns.                              *)
WriteNext ==
    IF eagain' THEN /\ Watch(IF readable(writebuf') > 0 THEN {"IN", "OUT"} ELSE {"IN"})
                    /\ loop' = "poll"
               ELSE UNCHANGED <<event, interest, loop>>

(* Mutant: a short write is taken for a whole one. *)
WriteSomeAsAll ==
    /\ loop = "write" /\ MutexFree
    /\ Pending /\ room > 0
    /\ \E n \in {smaller(smaller(readable(writebuf), kBufferEachTimeSize), room)} :
        /\ wire' = wire \o str(writebuf, n)
        /\ writebuf' = read(writebuf, smaller(readable(writebuf), kBufferEachTimeSize))
        /\ room' = room - n
    /\ UNCHANGED eagain
    /\ WriteNext
    /\ UNCHANGED <<input, open, offered, accepted, full, writing, raced>>

WriteSome ==
    /\ loop = "write" /\ MutexFree
    /\ Pending /\ room > 0
    /\ \E n \in {smaller(smaller(readable(writebuf), kBufferEachTimeSize), room)} :
        /\ wire' = wire \o str(writebuf, n)
        /\ writebuf' = read(writebuf, n)
        /\ room' = room - n
    /\ UNCHANGED eagain
    /\ WriteNext
    /\ UNCHANGED <<input, open, offered, accepted, full, writing, raced>>

(* len is -1 and errno EAGAIN; read(-1) moves the reader back. *)
WriteNothing ==
    /\ loop = "write" /\ MutexFree
    /\ Pending /\ room = 0
    /\ writebuf' = read(writebuf, -1)
    /\ full' = TRUE
    /\ eagain' = TRUE
    /\ WriteNext
    /\ UNCHANGED <<input, open, room, offered, accepted, wire, writing, raced>>

(* Mutant: the descriptor is watched for nothing. *)
WriteEndUnwatched ==
    /\ loop = "write" /\ MutexFree
    /\ ~Pending
    /\ writebuf' = readall(writebuf)
    /\ Watch({})
    /\ loop' = "poll"
    /\ UNCHANGED <<input, open, room, offered, accepted, wire, full, eagain,
                   writing, raced>>

(* Mutant: the buffer is not reset. *)
WriteEndKept ==
    /\ loop = "write" /\ MutexFree
    /\ ~Pending
    /\ Watch({"IN"})
    /\ loop' = "poll"
    /\ UNCHANGED <<input, output, open, eagain, writing, raced>>

(* write() of no bytes returns 0: the buffer is reset and onWrite() returns. *)
WriteEnd ==
    /\ loop = "write" /\ MutexFree
    /\ ~Pending
    /\ writebuf' = readall(writebuf)
    /\ Watch({"IN"})
    /\ loop' = "poll"
    /\ UNCHANGED <<input, open, room, offered, accepted, wire, full, eagain,
                   writing, raced>>
-----------------------------------------------------------------------------
(* The peer. *)

PeerSends ==
    /\ sent < MaxIn /\ ~eof
    /\ sent' = sent + 1
    /\ received' = received + 1
    /\ UNCHANGED <<output, event, readbuf, open, interest, eof, loop, eagain,
                   writing, unseen, raced>>

PeerCloses ==
    /\ ~eof
    /\ eof' = TRUE
    /\ UNCHANGED <<output, event, readbuf, open, interest, received, loop, eagain,
                   writing, sent, unseen, raced>>

PeerReads ==
    /\ room < Window
    /\ room' = room + 1
    /\ UNCHANGED <<input, event, writebuf, open, interest, loop, eagain, writing,
                   offered, accepted, wire, full, raced>>

LoopStep ==
    \/ Poll
    \/ TryRead
    \/ ReadSome
    \/ ReadNothing
    \/ ReadEnd
    \/ Update
    \/ TryWrite
    \/ WriteSome
    \/ WriteNothing
    \/ WriteEnd

Next ==
    \/ LoopStep
    \/ \E s \in Sender : SenderControl(s)
    \/ \E s \in Sender, n \in 1 .. MaxOut : SenderAppend(s, n)
    \/ PeerSends
    \/ PeerCloses
    \/ PeerReads

(* Threads that can run do, and the peer goes on reading. *)
Spec ==
    /\ Init /\ [][Next]_vars
    /\ WF_vars(LoopStep) /\ WF_vars(PeerReads)
    /\ \A s \in Sender : WF_vars(SenderControl(s))
-----------------------------------------------------------------------------
TypeOK ==
    /\ event \subseteq {"IN", "OUT"} /\ interest \subseteq {"IN", "OUT"}
    /\ writebuf.reader \in Int /\ writer(writebuf) \in 0 .. BUFFER_SIZE - 1
    /\ readbuf \in 0 .. BUFFER_SIZE - 1 /\ unseen \in 0 .. readbuf
    /\ room \in 0 .. Window /\ received \in 0 .. MaxIn
    /\ loop \in {"poll", "tryRead", "read", "update", "tryWrite", "write"}
    /\ writing = NoSender \/ \E s \in Sender : writing = {s}
    /\ open \in BOOLEAN /\ eof \in BOOLEAN /\ eagain \in BOOLEAN
    /\ full \in BOOLEAN /\ raced \in BOOLEAN

(* The assertions of FixedBuffer hold in the write buffer, and its reader    *)
(* stays inside the buffer unless a write() has failed with EAGAIN.          *)
BufferAsserts == AssertsHold(writebuf) /\ (writebuf.reader < 0 => full)

(* As long as no write() has failed with EAGAIN, the kernel gets the bytes   *)
(* that write() accepted, each once and in order, and those it has not got   *)
(* are the readable bytes of the buffer.                                     *)
StreamIntact ==
    ~full => /\ \A i \in 1 .. Len(wire) : wire[i] = i
             /\ Len(wire) + readable(writebuf) = accepted

(* Pending output is watched for whenever no thread is about to do so,       *)
(* unless an update without the mutex has overwritten the interest.          *)
PendingIsWatched ==
    Pending /\ open /\ MutexFree /\ ~raced => "OUT" \in interest

(* ... so it is sent while the connection stays open.                        *)
PendingIsSent ==
    (Pending /\ ~raced) ~> (~Pending \/ raced \/ ~open)

(* A buffer whose bytes were all sent is reset, and has all its room again   *)
(* for the next message, unless errno has been EAGAIN once: from then on     *)
(* onWrite() returns before it comes to the reset.                           *)
DrainedIsReset ==
    open /\ ~Pending /\ writer(writebuf) > 0 => loop = "write" \/ eagain

(* Input that was read and not given to onData_ is lost at the end of the    *)
(* stream only if errno was never EAGAIN: then onRead() goes on reading and  *)
(* finds the end before it calls onData_.                                    *)
LastInputSeen == ~open /\ unseen > 0 => ~eagain

(* Input stays watched, so a peer that sends is read: poll() overwriting     *)
(* event_ under write() can take EPOLLIN away for a while, never for good.   *)
InputIsRead == received > 0 ~> (received = 0 \/ ~open)

(* When onRead() says "reading done" there was nothing left to read.         *)
ReadingDone == [][loop = "read" /\ loop' = "update" => received' = 0]_vars
=============================================================================
