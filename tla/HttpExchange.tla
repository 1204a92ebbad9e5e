---------------------------- MODULE HttpExchange ----------------------------
(* A program that sends requests through a TcpClient, as httpclient_test.cpp *)
(* does, to an HttpServer: TcpClient and HttpServer with the network between *)
(* them.  Each end learns that the other has shut its side down when it has  *)
(* read all that came before.                                                *)
EXTENDS TcpClient, HttpServer

CONSTANTS
    Request     \* the requests, named by the lengths of their text

ASSUME RequestAssumption ==
    Request \subseteq Nat \ {0, CR, LF}

VARIABLE sent   \* history: the requests that send() was called with, in order

vars == <<clientVars, serverVars, sent>>

Init == ClientInit /\ ServerInit /\ sent = <<>>

Text(r) == [i \in 1 .. r |-> r]

Bytes(r) == Text(r) \o End

ServerEnded == shut \/ server = "closed"

ClientEnded == state = "closed" /\ wire = <<>>

(* Bound: each request is sent once. *)
Send(r) ==
    /\ \A i \in 1 .. Len(sent) : sent[i] # r
    /\ send(Bytes(r))
    /\ sent' = Append(sent, r)
    /\ UNCHANGED <<received, readbuf, server, shut, requests>>
    /\ dropped' = (dropped \/ Len(Bytes(r)) > writable(writebuf))

(* Bytes arrive at the server in pieces. *)
Deliver ==
    /\ server # "closed"
    /\ \E n \in 1 .. Len(wire) :
        /\ received' = received \o SubSeq(wire, 1, n)
        /\ wire' = SubSeq(wire, n + 1, Len(wire))
    /\ UNCHANGED <<state, interest, event, connected, writebuf, writing, loop, eagain,
                   overwritten, readbuf, server, shut, requests, dropped, sent>>

ClientStep ==
    /\ connect \/ Establish \/ Refuse
    /\ UNCHANGED <<serverVars, sent>>

ClientLoopStep == ClientLoop(ServerEnded) /\ UNCHANGED <<serverVars, sent>>
SendControl == sendControl /\ UNCHANGED <<serverVars, sent>>
ServerLoopStep == ServerLoop(ClientEnded) /\ UNCHANGED <<clientVars, sent>>

Next ==
    \/ ClientStep
    \/ \E r \in Request : Send(r)
    \/ SendControl
    \/ ClientLoopStep
    \/ Deliver
    \/ ServerLoopStep

(* The threads that can run do, and the network delivers.  The program need  *)
(* not connect or send, nor need connect() be answered.                      *)
Spec ==
    /\ Init /\ [][Next]_vars
    /\ WF_vars(ClientLoopStep) /\ WF_vars(SendControl)
    /\ WF_vars(ServerLoopStep) /\ WF_vars(Deliver)
-----------------------------------------------------------------------------
(* The server takes the requests as they were sent, in whatever pieces they  *)
(* arrive, unless one of the two buffers had to drop bytes.                  *)
RequestsIntact ==
    ~dropped => /\ Len(requests) <= Len(sent)
                /\ \A i \in 1 .. Len(requests) : requests[i] = Text(sent[i])

Stream == INSTANCE MessageStream WITH
    Payload <- {Text(r) : r \in Request},
    put <- [i \in 1 .. Len(sent) |-> Text(sent[i])],
    taken <- requests,
    stream <- IF dropped THEN "broken" ELSE "whole"

(* ... and so client and server implement what MessageStream says is safe:   *)
(* onMessage() takes the next of the requests that send() was called with.   *)
ImplementsSafely == Stream!SafeSpec

(* Nothing is written to a connection before it is established, or after it  *)
(* was refused, when write() would raise SIGPIPE: although onConnect() does  *)
(* not ask whether connect() has succeeded, onRead() closes the connection   *)
(* before onWrite() is called, and before pollEvent() sees EPOLLHUP.         *)
WritesEstablished ==
    /\ loop = "write" => state = "established"
    /\ loop = "tryClose" => "HUP" \notin event

(* A request that is sent is taken, unless bytes were dropped, the           *)
(* connection was refused or closed, or the loop thread overwrote the        *)
(* interest in output, as onConnect() does to what was sent before it.       *)
RequestIsTaken ==
    \A r \in Request :
        (state = "established" /\ \E i \in 1 .. Len(sent) : sent[i] = r)
            ~> \/ \E i \in 1 .. Len(requests) : requests[i] = Text(r)
               \/ dropped \/ overwritten \/ state = "closed"

(* A request that fills the buffer ends the connection, at both ends: the    *)
(* server shuts its side, the client finds the end and closes, and so does   *)
(* the server.                                                               *)
FullIsClosed ==
    (server = "idle" /\ writable(readbuf) = 0) ~> (server = "closed" /\ state = "closed")
=============================================================================
