------------------------------ MODULE RpcStream ------------------------------
(* net/protobuf/Rpc.cpp, ProtoClient.cpp, protoServer.cpp: the messages of   *)
(* one direction of a connection.  Threads put them into the write buffer of *)
(* the Channel, CallMethod() for requests and Callback() for answers: first  *)
(* AppendInt32() without the mutex, then send() with it.  The loop thread    *)
(* writes the buffer out; at the other end onRead() and onData() take the    *)
(* messages from the read buffer.                                            *)
(*                                                                           *)
(* What the events are, and what a write() that fails does to the stream, is *)
(* TcpEndpoint's subject: here the kernel takes what it is given.  A message *)
(* is a sequence of bytes of which some may be zero.                         *)
EXTENDS LengthCoder

CONSTANTS
    Writer,     \* threads that send
    Msg,        \* the messages, named by their lengths
    Zeroed,     \* those whose second byte is zero
    Chunk       \* the most that one read() or write() moves

ASSUME MsgAssumption ==
    /\ Msg \subseteq Nat \ {0} /\ Zeroed \subseteq Msg
    /\ \A m \in Msg : m + HEADER < power[HEADER]
    /\ Chunk \in Nat \ {0}

NoMsg == 0

VARIABLES
    (* the sender *)
    writebuf,   \* the Channel's write buffer
    sending,    \* the message of each thread that has appended its header
    loop,       \* "idle", or "reset" between a write() of nothing and readall()
    (* the connection and the receiver *)
    wire,       \* bytes on their way
    readbuf,    \* the Channel's read buffer
    receiver,   \* "idle", "reading" or "decoding"
    (* history *)
    sent,       \* the messages that send() was called with, in this order
    got,        \* the messages that decode() returned, in this order
    spoiled     \* what has gone wrong with the stream

vars == <<writebuf, sending, loop, wire, readbuf, receiver, sent, got, spoiled>>

Init ==
    /\ writebuf = Empty /\ readbuf = Empty
    /\ sending = [w \in Writer |-> NoMsg]
    /\ loop = "idle" /\ receiver = "idle"
    /\ wire = <<>> /\ sent = <<>> /\ got = <<>> /\ spoiled = {}

Body(m) ==
    [i \in 1 .. m |-> IF m \in Zeroed /\ i = 2 THEN 0 ELSE (m % (Digit - 1)) + 1]

(* write() takes msg.c_str(), and append() its strlen(). *)
c_str(m) == IF m \in Zeroed THEN SubSeq(Body(m), 1, smaller(1, m)) ELSE Body(m)

Reason(condition, what) == IF condition THEN {what} ELSE {}

TooLong(b, s) == Len(s) > writable(b)

Idle(w) == sending[w] = NoMsg
-----------------------------------------------------------------------------
(* The threads that send. *)

(* AppendInt32(), with the length of the serialized message.  It neither     *)
(* waits for a thread that has still to append its body, nor for the loop    *)
(* thread that is about to reset the buffer.                                 *)
(* Bound: each message is sent once.                                         *)
AppendInt32(w, m) ==
    /\ Idle(w)
    /\ \A i \in 1 .. Len(sent) : sent[i] # m
    /\ \A v \in Writer : sending[v] # m
    /\ sending' = [sending EXCEPT ![w] = m]
    /\ writebuf' = append(writebuf, encode(m))
    /\ spoiled' = spoiled
                    \cup Reason(\E v \in Writer : ~Idle(v), "overlap")
                    \cup Reason(loop = "reset", "reset")
                    \cup Reason(TooLong(writebuf, encode(m)), "full")
    /\ UNCHANGED <<loop, wire, readbuf, receiver, sent, got>>

(* send(): the mutex is not free while the loop thread is in onWrite().      *)
send(w) ==
    /\ ~Idle(w) /\ loop = "idle"
    /\ writebuf' = append(writebuf, c_str(sending[w]))
    /\ sent' = Append(sent, sending[w])
    /\ spoiled' = spoiled
                    \cup Reason(c_str(sending[w]) # Body(sending[w]), "zero")
                    \cup Reason(TooLong(writebuf, c_str(sending[w])), "full")
    /\ sending' = [sending EXCEPT ![w] = NoMsg]
    /\ UNCHANGED <<loop, wire, readbuf, receiver, got>>
-----------------------------------------------------------------------------
(* The sender's loop thread: onWrite(). *)

WriteSome ==
    /\ loop = "idle" /\ readable(writebuf) > 0
    /\ \E n \in 1 .. smaller(readable(writebuf), Chunk) :
        /\ wire' = wire \o str(writebuf, n)
        /\ writebuf' = read(writebuf, n)
    /\ UNCHANGED <<sending, loop, readbuf, receiver, sent, got, spoiled>>

(* Nothing is left: write() returns 0. *)
WriteNothing ==
    /\ loop = "idle" /\ readable(writebuf) = 0 /\ writer(writebuf) > 0
    /\ loop' = "reset"
    /\ UNCHANGED <<writebuf, sending, wire, readbuf, receiver, sent, got, spoiled>>

Reset ==
    /\ loop = "reset"
    /\ writebuf' = readall(writebuf)
    /\ loop' = "idle"
    /\ UNCHANGED <<sending, wire, readbuf, receiver, sent, got, spoiled>>
-----------------------------------------------------------------------------
(* The receiver's loop thread: onRead() and onData(). *)

ReadSome ==
    /\ receiver \in {"idle", "reading"}
    /\ \E n \in 1 .. smaller(Len(wire), Chunk) :
        /\ readbuf' = append(readbuf, SubSeq(wire, 1, n))
        /\ wire' = SubSeq(wire, n + 1, Len(wire))
        /\ spoiled' = spoiled \cup Reason(TooLong(readbuf, SubSeq(wire, 1, n)), "full")
    /\ receiver' = "reading"
    /\ UNCHANGED <<writebuf, sending, loop, sent, got>>

(* errno is EAGAIN, from this read() or from an earlier call: onData().      *)
ReadDone ==
    /\ receiver = "reading"
    /\ receiver' = "decoding"
    /\ UNCHANGED <<writebuf, sending, loop, wire, readbuf, sent, got, spoiled>>

(* Mutant: onData() takes one message. *)
decodeOne ==
    /\ receiver = "decoding"
    /\ IF Decodable(readbuf)
         THEN got' = Append(got, Message(readbuf)) /\ readbuf' = Decoded(readbuf)
         ELSE UNCHANGED <<got, readbuf>>
    /\ receiver' = "idle"
    /\ UNCHANGED <<writebuf, sending, loop, wire, sent, spoiled>>

(* onData() takes messages as long as decode() finds one. *)
decode ==
    /\ receiver = "decoding"
    /\ IF Decodable(readbuf)
         THEN /\ got' = Append(got, Message(readbuf)) /\ readbuf' = Decoded(readbuf)
              /\ UNCHANGED receiver
         ELSE receiver' = "idle" /\ UNCHANGED <<got, readbuf>>
    /\ UNCHANGED <<writebuf, sending, loop, wire, sent, spoiled>>

LoopStep == WriteSome \/ WriteNothing \/ Reset
ReceiverStep == ReadSome \/ ReadDone \/ decode

(* Bound: a spoiled stream is not followed any further; nothing is promised  *)
(* about it, and what its receiver takes for lengths may be anything.        *)
Next ==
    /\ spoiled = {}
    /\ \/ \E w \in Writer, m \in Msg : AppendInt32(w, m)
       \/ \E w \in Writer : send(w)
       \/ LoopStep
       \/ ReceiverStep

(* The threads that can run do; nobody has to begin a message. *)
Spec ==
    /\ Init /\ [][Next]_vars
    /\ \A w \in Writer : WF_vars(spoiled = {} /\ send(w))
    /\ WF_vars(spoiled = {} /\ LoopStep)
    /\ WF_vars(spoiled = {} /\ ReceiverStep)
-----------------------------------------------------------------------------
(* In whatever pieces the bytes travel, the messages are taken out as they   *)
(* were sent, until the stream is spoiled: by two threads whose headers and  *)
(* bodies overlap, by a header appended to a buffer that is being reset, by  *)
(* a zero byte, or by a full buffer.                                         *)
FramesIntact ==
    spoiled = {} =>
        /\ Len(got) <= Len(sent)
        /\ \A i \in 1 .. Len(got) : got[i] = Body(sent[i])

Stream == INSTANCE MessageStream WITH
    Payload <- {Body(m) : m \in Msg},
    put <- [i \in 1 .. Len(sent) |-> Body(sent[i])],
    taken <- got,
    stream <- IF spoiled = {} THEN "whole" ELSE "broken"

(* The two ends implement MessageStream: decode() returns the next of the    *)
(* messages that send() was called with, and nothing else happens to them    *)
(* until the stream is spoiled.                                              *)
ImplementsSafely == Stream!SafeSpec

(* ... and each of them arrives.                                             *)
Implements == Stream!Spec
=============================================================================
