-------------------------- MODULE HttpExchangeProofs --------------------------
(* Proofs about HttpExchange.tla, for every buffer size, every block size,   *)
(* any set of requests and any way their bytes are cut into pieces.          *)
EXTENDS HttpExchange, FixedBufferProofs

USE SizeAssumption, EndAssumption, RequestAssumption
-----------------------------------------------------------------------------
(* The client's events.                                                      *)

ClientTypeOK ==
    /\ state \in {"none", "connecting", "established", "refused", "closed"}
    /\ loop \in {"poll", "tryRead", "read", "update", "tryWrite", "connect", "write",
                 "tryClose"}
    /\ event \subseteq {"IN", "OUT", "HUP"} /\ interest \subseteq {"IN", "OUT"}
    /\ connected \in BOOLEAN /\ writing \in BOOLEAN

(* The loop thread learns of the socket only by Poll(). *)
LoopKnows ==
    /\ state \in {"none", "connecting", "closed"} => loop = "poll" /\ ~connected
    /\ "HUP" \in event => state \in {"refused", "closed"}
    /\ loop = "write" => state = "established"

(* The interest in output, with which connect() begins, stays until          *)
(* onConnect(); then the interest in input takes its place, and onRead()     *)
(* comes first.  It is so in event_, which send() may hand to epoll at any   *)
(* time, as in epoll.                                                        *)
RefusedIsRead ==
    /\ state = "connecting" => "OUT" \in interest /\ "OUT" \in event
    /\ state = "refused" /\ ~connected =>
           /\ "OUT" \in interest /\ "OUT" \in event
           /\ loop \in {"poll", "tryRead", "read", "tryWrite"}
    /\ state = "refused" /\ connected =>
           /\ "IN" \in event
           /\ loop # "connect" => "IN" \in interest
           /\ loop \in {"poll", "tryRead", "read", "connect", "tryClose"}
           /\ loop \in {"connect", "tryClose"} => "HUP" \notin event

ClientInv == ClientTypeOK /\ LoopKnows /\ RefusedIsRead

(* Nothing of it is about the server, the network or the buffers.            *)
LEMMA InitClientInv == Init => ClientInv
BY DEF Init, ClientInit, ClientInv, ClientTypeOK, LoopKnows, RefusedIsRead

(* The program, and the network that answers connect().                      *)
LEMMA ProgramClientInv ==
    ASSUME ClientInv, NEW s, connect \/ Establish \/ Refuse \/ send(s) \/ sendControl
    PROVE  ClientInv'
<1> USE DEF ClientInv, ClientTypeOK, LoopKnows, RefusedIsRead, socket
<1>1. CASE connect
  BY <1>1 DEF connect, addChannel
<1>2. CASE Establish
  BY <1>2 DEF Establish
<1>5. CASE Refuse
  BY <1>5 DEF Refuse
<1>3. CASE send(s)
  BY <1>3 DEF send
<1>4. CASE sendControl
  BY <1>4 DEF sendControl, setChannel, Open
<1> QED
  BY <1>1, <1>2, <1>3, <1>4, <1>5

(* The loop thread.                                                          *)
LEMMA LoopClientInv ==
    ASSUME ClientInv, NEW ended, ClientLoop(ended) PROVE ClientInv'
<1> USE DEF ClientInv, ClientTypeOK, LoopKnows, RefusedIsRead, socket
<1>1. CASE Poll(ended)
  <2>1. CASE state = "established"
    BY <1>1, <2>1 DEF Poll, Ready
  <2>2. CASE state = "refused"
    BY <1>1, <2>2 DEF Poll, Ready
  <2>3. CASE state \notin {"established", "refused"}
    BY <1>1, <2>3 DEF Poll, Ready
  <2> QED
    BY <2>1, <2>2, <2>3
<1>2. CASE TryRead
  BY <1>2 DEF TryRead
<1>3. CASE ReadNothing(ended)
  BY <1>3 DEF ReadNothing
<1>4. CASE Update \/ onConnectControl
  BY <1>4 DEF Update, onConnectControl, UpdateControl, setChannel
<1>5. CASE onClose(ended)
  BY <1>5 DEF onClose, delChannel
<1>6. CASE TryWrite
  BY <1>6 DEF TryWrite
<1>7. CASE onConnect
  BY <1>7 DEF onConnect
<1>8. CASE WriteSome
  BY <1>8 DEF WriteSome
<1>9. CASE WriteEnd \/ TryClose
  BY <1>9 DEF WriteEnd, TryClose
<1> QED
  BY <1>1, <1>2, <1>3, <1>4, <1>5, <1>6, <1>7, <1>8, <1>9 DEF ClientLoop

LEMMA NextClientInv == ClientInv /\ [Next]_vars => ClientInv'
<1> SUFFICES ASSUME ClientInv, [Next]_vars PROVE ClientInv'
  OBVIOUS
<1>1. CASE UNCHANGED clientVars
  BY <1>1 DEF clientVars, ClientInv, ClientTypeOK, LoopKnows, RefusedIsRead
<1>2. CASE Deliver
  BY <1>2 DEF Deliver, ClientInv, ClientTypeOK, LoopKnows, RefusedIsRead
<1>3. CASE ClientStep \/ SendControl \/ \E r \in Request : Send(r)
  BY <1>3, ProgramClientInv DEF ClientStep, SendControl, Send
<1>4. CASE ClientLoopStep
  BY <1>4, LoopClientInv DEF ClientLoopStep
<1> QED
  BY <1>1, <1>2, <1>3, <1>4 DEF Next, ServerLoopStep, vars

(* onWrite() is called only when the connection is established, and none is  *)
(* closed for EPOLLHUP: a refused connection never gets past onRead(), for   *)
(* whatever send() puts into event_ between two steps of the loop thread.    *)
THEOREM WritesEstablishedHolds == Spec => []WritesEstablished
<1>1. ClientInv => WritesEstablished
  BY DEF ClientInv, ClientTypeOK, LoopKnows, RefusedIsRead, WritesEstablished
<1> QED
  BY <1>1, InitClientInv, NextClientInv, PTL DEF Spec
-----------------------------------------------------------------------------
(* The requests.                                                             *)

(* The bytes that were sent and not taken, from the server back to the       *)
(* client ...                                                                *)
OnTheWay == Chain(Chain(Chain(readbuf.bytes, received), wire), unread(writebuf))

(* ... and what they should be.                                              *)
Coming == [i \in 1 .. Len(sent) - Len(requests) |-> Bytes(sent[Len(requests) + i])]

StreamTypeOK ==
    /\ writebuf \in Buffer /\ InOrder(writebuf)
    /\ readbuf \in Buffer /\ readbuf.reader = 0
    /\ received \in Seq(Int) /\ wire \in Seq(Int)
    /\ sent \in Seq(Request) /\ requests \in Seq(Seq(Int))

StreamInv ==
    ~dropped => StreamTypeOK /\ RequestsIntact /\ Framed(OnTheWay, Coming)

(* The bytes of a request. *)
LEMMA BytesOfRequest ==
    ASSUME NEW r \in Request
    PROVE  /\ r \in Nat /\ r > 0 /\ r # CR /\ r # LF
           /\ Text(r) \in Seq(Int) /\ Len(Text(r)) = r /\ \A i \in 1 .. r : Text(r)[i] = r
           /\ Bytes(r) \in Seq(Int) /\ Len(Bytes(r)) = r + 2
           /\ \A i \in 1 .. r : Bytes(r)[i] = r
           /\ Bytes(r)[r + 1] = CR /\ Bytes(r)[r + 2] = LF
<1>1. r \in Nat /\ r > 0 /\ r # CR /\ r # LF
  OBVIOUS
<1>2. Text(r) \in Seq(Int) /\ Len(Text(r)) = r /\ \A i \in 1 .. r : Text(r)[i] = r
  BY <1>1 DEF Text
<1>3. End \in Seq(Int) /\ Len(End) = 2 /\ End[1] = CR /\ End[2] = LF
  BY DEF End
<1>4. /\ Bytes(r) \in Seq(Int) /\ Len(Bytes(r)) = Len(Text(r)) + Len(End)
      /\ \A i \in 1 .. Len(Text(r)) : Bytes(r)[i] = Text(r)[i]
      /\ \A i \in 1 .. Len(End) : Bytes(r)[Len(Text(r)) + i] = End[i]
  <2> DEFINE t == Text(r)
             e == End
  <2>1. t \in Seq(Int) /\ e \in Seq(Int) /\ Bytes(r) = t \o e
    BY <1>2, <1>3 DEF Bytes
  <2> HIDE DEF t, e
  <2>2. /\ t \o e \in Seq(Int) /\ Len(t \o e) = Len(t) + Len(e)
        /\ \A i \in 1 .. Len(t) : (t \o e)[i] = t[i]
        /\ \A i \in 1 .. Len(e) : (t \o e)[Len(t) + i] = e[i]
    BY <2>1, Joined, Zenon
  <2> QED
    BY <2>1, <2>2, Zenon DEF t, e
<1> QED
  BY <1>1, <1>2, <1>3, <1>4

LEMMA ComingType ==
    ASSUME StreamTypeOK, Len(requests) <= Len(sent)
    PROVE  /\ Coming \in Seq(Frame) /\ Len(Coming) = Len(sent) - Len(requests)
           /\ \A i \in 1 .. Len(sent) - Len(requests) :
                 /\ Len(requests) + i \in 1 .. Len(sent)
                 /\ Coming[i] = Bytes(sent[Len(requests) + i])
<1>1. Len(requests) \in Nat /\ Len(sent) \in Nat
  BY DEF StreamTypeOK
<1> DEFINE n == Len(sent) - Len(requests)
<1>2. n \in Nat
  BY <1>1
<1>3. ASSUME NEW i \in 1 .. n PROVE Len(requests) + i \in 1 .. Len(sent)
  BY <1>1, <1>2
<1>4. \A i \in 1 .. n : Bytes(sent[Len(requests) + i]) \in Frame
  <2>1. \A i \in 1 .. n : sent[Len(requests) + i] \in Request
    BY <1>3 DEF StreamTypeOK
  <2> QED
    BY <2>1, BytesOfRequest DEF Frame
<1>5. Coming = [i \in 1 .. n |-> Bytes(sent[Len(requests) + i])]
  BY DEF Coming
<1> HIDE DEF n
<1>6. /\ Coming \in Seq(Frame) /\ Len(Coming) = n
      /\ \A i \in 1 .. n : Coming[i] = Bytes(sent[Len(requests) + i])
  BY <1>2, <1>4, <1>5
<1> QED
  BY <1>3, <1>6 DEF n

(* Nothing is on its way at first. *)
LEMMA InitStreamInv == Init => StreamInv
<1> SUFFICES ASSUME Init PROVE StreamInv
  OBVIOUS
<1>1. /\ writebuf = Empty /\ readbuf = Empty /\ received = <<>> /\ wire = <<>>
      /\ sent = <<>> /\ requests = <<>>
  BY DEF Init, ClientInit, ServerInit
<1>2. StreamTypeOK
  BY <1>1 DEF StreamTypeOK, Empty, Buffer, InOrder, writer
<1>3. RequestsIntact
  BY <1>1 DEF RequestsIntact
<1>4. OnTheWay = <<>>
  <2>1. unread(writebuf) = <<>>
    BY <1>1, SubSeqEmpty DEF unread, Empty, writer
  <2> QED
    BY <1>1, <2>1 DEF OnTheWay, Empty, Chain
<1>5. Coming = <<>>
  BY <1>1 DEF Coming
<1> QED
  BY <1>2, <1>3, <1>4, <1>5, FramedEmpty DEF StreamInv

(* Bytes that move on, and steps that move none, leave it as it is. *)
LEMMA SameStream ==
    ASSUME StreamInv, UNCHANGED <<sent, requests>>, ~dropped' => ~dropped,
           ~dropped' => StreamTypeOK' /\ OnTheWay' = OnTheWay
    PROVE  StreamInv'
BY DEF StreamInv, RequestsIntact, Coming

(* send() puts a request behind the others. *)
LEMMA SendStreamInv ==
    ASSUME StreamInv, NEW r \in Request, Send(r) PROVE StreamInv'
<1> SUFFICES ASSUME ~dropped' PROVE StreamInv'
  BY DEF StreamInv
<1>1. /\ writebuf' = append(writebuf, Bytes(r)) /\ sent' = Append(sent, r)
      /\ UNCHANGED <<wire, received, readbuf, requests>>
      /\ ~dropped /\ ~(Len(Bytes(r)) > writable(writebuf))
  BY DEF Send, send, socket
<1>2. StreamTypeOK /\ RequestsIntact /\ Framed(OnTheWay, Coming)
  BY <1>1 DEF StreamInv
<1>3. Bytes(r) \in Seq(Int) /\ Bytes(r) \in Frame /\ Len(Bytes(r)) \in Int
  BY BytesOfRequest DEF Frame
<1>4. Len(Bytes(r)) <= writable(writebuf)
  <2>1. Len(writebuf.bytes) \in Int
    BY <1>2 DEF StreamTypeOK, Buffer
  <2>2. writable(writebuf) \in Int
    BY <2>1, BufferAssumption DEF writable, writer
  <2> QED
    BY <1>1, <1>3, <2>2
<1>5. /\ writebuf' \in Buffer /\ InOrder(writebuf')
      /\ unread(writebuf') = unread(writebuf) \o Bytes(r)
      /\ unread(writebuf) \in Seq(Int)
  BY <1>1, <1>2, <1>3, <1>4, AppendAll, Unread DEF StreamTypeOK
<1>6. /\ sent' \in Seq(Request) /\ Len(sent') = Len(sent) + 1 /\ sent'[Len(sent) + 1] = r
      /\ \A i \in 1 .. Len(sent) : sent'[i] = sent[i]
  BY <1>1, <1>2, AppendProperties DEF StreamTypeOK
<1>7. StreamTypeOK'
  BY <1>1, <1>2, <1>5, <1>6 DEF StreamTypeOK
<1>8. RequestsIntact'
  <2>1. Len(requests) \in Nat /\ Len(sent) \in Nat /\ Len(requests) <= Len(sent)
    BY <1>1, <1>2 DEF StreamTypeOK, RequestsIntact
  <2> QED
    BY <1>1, <1>2, <1>6, <2>1 DEF RequestsIntact
<1>9. OnTheWay' = OnTheWay \o Bytes(r) /\ OnTheWay \in Seq(Int)
  <2>1. readbuf.bytes \in Seq(Int) /\ received \in Seq(Int) /\ wire \in Seq(Int)
    BY <1>2 DEF StreamTypeOK, Buffer
  <2> DEFINE before == Chain(Chain(readbuf.bytes, received), wire)
             d == unread(writebuf)
             e == Bytes(r)
  <2>2. before \in Seq(Int)
    BY <2>1, ChainType
  <2>3. OnTheWay = Chain(before, d) /\ OnTheWay' = Chain(before, Chain(d, e))
    BY <1>1, <1>5 DEF OnTheWay, Chain
  <2>4. d \in Seq(Int) /\ e \in Seq(Int)
    BY <1>3, <1>5
  <2> HIDE DEF before, d, e
  <2>5. OnTheWay' = Chain(OnTheWay, e)
    BY <2>2, <2>3, <2>4, ChainAssociative
  <2>6. OnTheWay \in Seq(Int)
    BY <2>2, <2>3, <2>4, ChainType
  <2> QED
    BY <2>5, <2>6 DEF e, Chain
<1>10. Coming \in Seq(Frame) /\ Coming' = Append(Coming, Bytes(r))
  <2>1. Len(requests) \in Nat /\ Len(sent) \in Nat /\ Len(requests) <= Len(sent)
    BY <1>1, <1>2 DEF StreamTypeOK, RequestsIntact
  <2> DEFINE n == Len(sent) - Len(requests)
  <2>2. n \in Nat
    BY <2>1
  <2>4. /\ Coming \in Seq(Frame) /\ Len(Coming) = n
        /\ \A i \in 1 .. n : /\ Len(requests) + i \in 1 .. Len(sent)
                            /\ Coming[i] = Bytes(sent[Len(requests) + i])
    BY <1>2, <2>1, ComingType
  <2>5. /\ Append(Coming, Bytes(r)) \in Seq(Frame) /\ Len(Append(Coming, Bytes(r))) = n + 1
        /\ \A i \in 1 .. n : Append(Coming, Bytes(r))[i] = Coming[i]
        /\ Append(Coming, Bytes(r))[n + 1] = Bytes(r)
    BY <1>3, <2>4, AppendProperties
  <2>6. Coming' = [i \in 1 .. n + 1 |-> Bytes(sent'[Len(requests) + i])]
    <3>1. Len(sent') - Len(requests') = n + 1
      BY <1>1, <1>6, <2>1
    <3> QED
      BY <1>1, <3>1 DEF Coming
  <2>7. ASSUME NEW i \in 1 .. n + 1
        PROVE  Bytes(sent'[Len(requests) + i]) = Append(Coming, Bytes(r))[i]
    <3>1. CASE i = n + 1
      BY <1>6, <2>1, <2>5, <3>1
    <3>2. CASE i # n + 1
      <4>1. i \in 1 .. n
        BY <2>2, <3>2
      <4> QED
        BY <1>6, <2>4, <2>5, <4>1
    <3> QED
      BY <3>1, <3>2
  <2>8. /\ Coming' \in Seq(Frame) /\ Len(Coming') = n + 1
        /\ \A i \in 1 .. n + 1 : Coming'[i] = Append(Coming, Bytes(r))[i]
    <3>1. Append(Coming, Bytes(r)) \in [1 .. n + 1 -> Frame] /\ n + 1 \in Nat
      BY <2>2, <2>5, LenProperties
    <3>2. \A i \in 1 .. n + 1 : Bytes(sent'[Len(requests) + i]) \in Frame
      BY <2>7, <3>1
    <3>3. Coming' \in [1 .. n + 1 -> Frame]
      BY <2>6, <3>2
    <3>4. Coming' \in Seq(Frame) /\ Len(Coming') = n + 1
      BY <3>1, <3>3
    <3> QED
      BY <2>6, <2>7, <3>4
  <2>9. Coming' = Append(Coming, Bytes(r))
    BY <2>5, <2>8, SeqEqual
  <2> QED
    BY <2>4, <2>9
<1>11. Framed(OnTheWay', Coming')
  BY <1>2, <1>3, <1>9, <1>10, FramedAppend
<1> QED
  BY <1>7, <1>8, <1>11 DEF StreamInv

(* The loop thread writes to the connection. *)
LEMMA WriteStreamInv ==
    ASSUME StreamInv, WriteSome \/ WriteEnd, UNCHANGED <<serverVars, sent>>
    PROVE  StreamInv'
<1> SUFFICES ASSUME ~dropped, ~dropped' PROVE StreamTypeOK' /\ OnTheWay' = OnTheWay
  BY SameStream DEF serverVars
<1>1. StreamTypeOK /\ UNCHANGED <<received, readbuf, sent, requests>>
  BY DEF StreamInv, serverVars
<1> DEFINE before == Chain(readbuf.bytes, received)
           d == unread(writebuf)
<1>2. before \in Seq(Int) /\ wire \in Seq(Int) /\ d \in Seq(Int) /\ Len(d) = readable(writebuf)
  BY <1>1, ChainType, Unread DEF StreamTypeOK, Buffer
<1>3. CASE WriteSome
  <2>1. PICK n \in {smaller(readable(writebuf), kBufferEachTimeSize)} :
          wire' = wire \o str(writebuf, n) /\ writebuf' = read(writebuf, n)
    BY <1>3 DEF WriteSome
  <2>2. n \in Nat /\ n <= readable(writebuf)
    <3>1. readable(writebuf) \in Nat
      BY <1>2
    <3> QED
      BY <2>1, <3>1 DEF smaller
  <2>3. /\ str(writebuf, n) = SubSeq(d, 1, n)
        /\ writebuf' \in Buffer /\ InOrder(writebuf')
        /\ unread(writebuf') = SubSeq(d, n + 1, Len(d))
    BY <1>1, <2>1, <2>2, StrIsRead DEF StreamTypeOK
  <2> DEFINE p == SubSeq(d, 1, n)
             q == SubSeq(d, n + 1, Len(d))
  <2>4. OnTheWay = Chain(Chain(before, wire), d)
    BY DEF OnTheWay
  <2>5. p \in Seq(Int) /\ q \in Seq(Int) /\ Chain(p, q) = d
    BY <1>2, <2>2, TwoPieces
  <2>6. wire' = Chain(wire, p) /\ wire' \in Seq(Int)
    BY <1>2, <2>1, <2>3, <2>5, Joined DEF Chain
  <2>7. OnTheWay' = Chain(Chain(before, Chain(wire, p)), q)
    BY <1>1, <2>3, <2>6 DEF OnTheWay
  <2> HIDE DEF before, d, p, q
  <2>8. OnTheWay' = OnTheWay
    BY <1>2, <2>4, <2>5, <2>7, MovedAlong
  <2> QED
    BY <1>1, <2>3, <2>6, <2>8 DEF StreamTypeOK
<1>4. CASE WriteEnd
  <2>1. ~(readable(writebuf) > 0) /\ writebuf' = Empty /\ wire' = wire
    BY <1>4 DEF WriteEnd, Pending, readall
  <2>2. d = <<>>
    <3>1. Len(d) = 0
      BY <1>2, <2>1
    <3> QED
      BY <1>2, <3>1, EmptySeq
  <2>3. writebuf' \in Buffer /\ InOrder(writebuf') /\ unread(writebuf') = <<>>
    <3>1. Empty \in Buffer /\ InOrder(Empty) /\ unread(Empty) = <<>>
      BY SubSeqEmpty DEF Empty, Buffer, InOrder, writer, unread
    <3> QED
      BY <2>1, <3>1
  <2>4. OnTheWay' = OnTheWay
    BY <1>1, <2>1, <2>2, <2>3 DEF OnTheWay
  <2> QED
    BY <1>1, <2>1, <2>3, <2>4 DEF StreamTypeOK
<1> QED
  BY <1>3, <1>4

(* The network delivers. *)
LEMMA DeliverStreamInv == ASSUME StreamInv, Deliver PROVE StreamInv'
<1> SUFFICES ASSUME ~dropped, ~dropped' PROVE StreamTypeOK' /\ OnTheWay' = OnTheWay
  BY SameStream DEF Deliver
<1>1. StreamTypeOK /\ UNCHANGED <<writebuf, readbuf, sent, requests>>
  BY DEF StreamInv, Deliver
<1>2. PICK n \in 1 .. Len(wire) :
        received' = received \o SubSeq(wire, 1, n) /\ wire' = SubSeq(wire, n + 1, Len(wire))
  BY DEF Deliver
<1>3. /\ readbuf.bytes \in Seq(Int) /\ received \in Seq(Int) /\ wire \in Seq(Int)
      /\ n \in Nat /\ n <= Len(wire)
  BY <1>1 DEF StreamTypeOK, Buffer
<1> DEFINE a == readbuf.bytes
           p == SubSeq(wire, 1, n)
           q == SubSeq(wire, n + 1, Len(wire))
<1>4. a \in Seq(Int) /\ p \in Seq(Int) /\ q \in Seq(Int) /\ Chain(p, q) = wire
  BY <1>3, TwoPieces
<1>5. received' = Chain(received, p) /\ wire' = q /\ received' \in Seq(Int)
  BY <1>2, <1>3, <1>4, Joined DEF Chain
<1> DEFINE d == unread(writebuf)
<1>6. /\ OnTheWay = Chain(Chain(Chain(a, received), wire), d)
      /\ OnTheWay' = Chain(Chain(Chain(a, Chain(received, p)), q), d)
  BY <1>1, <1>5 DEF OnTheWay
<1> HIDE DEF a, d, p, q
<1>7. OnTheWay' = OnTheWay
  BY <1>3, <1>4, <1>6, MovedAlong
<1> QED
  BY <1>1, <1>4, <1>5, <1>7 DEF StreamTypeOK

(* onRead() takes over what arrived. *)
LEMMA ReadStreamInv ==
    ASSUME StreamInv, ReadSome, UNCHANGED <<clientVars, sent>> PROVE StreamInv'
<1> SUFFICES ASSUME ~dropped, ~dropped' PROVE StreamTypeOK' /\ OnTheWay' = OnTheWay
  BY SameStream DEF ReadSome
<1>1. StreamTypeOK /\ UNCHANGED <<writebuf, wire, sent, requests>>
  BY DEF StreamInv, clientVars, ReadSome
<1>2. PICK n \in {smaller(Len(received), Block)} :
        /\ received' = SubSeq(received, n + 1, Len(received))
        /\ readbuf' = append(readbuf, SubSeq(received, 1, n))
        /\ ~(n > writable(readbuf))
  BY DEF ReadSome
<1>3. /\ readbuf \in Buffer /\ InOrder(readbuf) /\ readbuf.bytes \in Seq(Int)
      /\ received \in Seq(Int)
  BY <1>1 DEF StreamTypeOK, Buffer, InOrder, writer
<1>4. n \in Nat /\ n <= Len(received)
  <2>1. Len(received) \in Nat
    BY <1>3
  <2> QED
    BY <1>2, <2>1 DEF smaller
<1> DEFINE a == readbuf.bytes
           s == SubSeq(received, 1, n)
           t == SubSeq(received, n + 1, Len(received))
<1>5. s \in Seq(Int) /\ Len(s) = n /\ t \in Seq(Int) /\ Chain(s, t) = received
  BY <1>3, <1>4, TwoPieces
<1>6. n <= writable(readbuf)
  <2>1. Len(readbuf.bytes) \in Int
    BY <1>3
  <2>2. writable(readbuf) \in Int
    BY <2>1, BufferAssumption DEF writable, writer
  <2> QED
    BY <1>2, <1>4, <2>2
<1> HIDE DEF s, t
<1>7. /\ readbuf' \in Buffer /\ readbuf'.reader = readbuf.reader
      /\ readbuf'.bytes = Chain(a, s)
  BY <1>2, <1>3, <1>5, <1>6, AppendAll DEF s, Chain
<1> DEFINE d == unread(writebuf)
<1>8. /\ OnTheWay = Chain(Chain(Chain(a, received), wire), d)
      /\ OnTheWay' = Chain(Chain(Chain(Chain(a, s), t), wire), d)
  BY <1>1, <1>2, <1>7 DEF OnTheWay, t
<1>9. a \in Seq(Int)
  BY <1>3
<1> HIDE DEF a, d
<1>10. OnTheWay' = OnTheWay
  BY <1>5, <1>8, <1>9, ChainAssociative
<1> QED
  BY <1>1, <1>2, <1>5, <1>7, <1>10 DEF StreamTypeOK, t

(* An iteration of onMessage() finds the end of the first request that was   *)
(* not taken, and no earlier one: text is made of one byte, which is neither *)
(* CR nor LF.                                                                *)
LEMMA FindsFirst ==
    ASSUME StreamTypeOK, RequestsIntact, ~dropped, Framed(OnTheWay, Coming),
           NEW len \in 0 .. Len(text) - 2, FirstEnd(len)
    PROVE  /\ Len(requests) < Len(sent)
           /\ len = sent[Len(requests) + 1] /\ SubSeq(text, 1, len) = Text(len)
           /\ text = readbuf.bytes /\ readable(readbuf) = Len(text)
           /\ Coming # <<>> /\ Len(Coming[1]) = len + 2
<1> DEFINE a == readbuf.bytes
<1>1. /\ readbuf \in Buffer /\ InOrder(readbuf) /\ a \in Seq(Int) /\ Len(a) \in Nat
      /\ readable(readbuf) = Len(a)
  BY DEF StreamTypeOK, Buffer, InOrder, writer, readable
<1>2. text = a
  <2>1. unread(readbuf) = SubSeq(a, 1, Len(a)) /\ SubSeq(a, 1, Len(a)) = a
    BY <1>1, SubSeqFull DEF unread, writer, StreamTypeOK
  <2>2. str(readbuf, readable(readbuf)) = SubSeq(unread(readbuf), 1, readable(readbuf))
    <3>1. readable(readbuf) \in Nat /\ readable(readbuf) <= readable(readbuf)
      BY <1>1
    <3> QED
      BY <1>1, <3>1, StrIsRead
  <2> QED
    BY <1>1, <2>1, <2>2 DEF text
<1>3. len \in Nat /\ len + 2 <= Len(a)
  BY <1>1, <1>2
<1>4. Len(requests) \in Nat /\ Len(sent) \in Nat /\ Len(requests) <= Len(sent)
  BY DEF StreamTypeOK, RequestsIntact
<1>5. /\ Coming \in Seq(Frame) /\ Len(Coming) = Len(sent) - Len(requests)
      /\ \A i \in 1 .. Len(sent) - Len(requests) :
                 /\ Len(requests) + i \in 1 .. Len(sent)
                 /\ Coming[i] = Bytes(sent[Len(requests) + i])
  BY <1>4, ComingType
<1>6. /\ OnTheWay \in Seq(Int) /\ Len(a) <= Len(OnTheWay)
      /\ \A i \in 1 .. Len(a) : OnTheWay[i] = a[i]
  <2> DEFINE b == Chain(a, received)
             c == Chain(b, wire)
             d == unread(writebuf)
  <2>1. received \in Seq(Int) /\ wire \in Seq(Int) /\ d \in Seq(Int)
    BY Unread DEF StreamTypeOK
  <2>2. OnTheWay = Chain(c, d)
    BY DEF OnTheWay
  <2>3. /\ b \in Seq(Int) /\ Len(b) = Len(a) + Len(received)
        /\ \A i \in 1 .. Len(a) : b[i] = a[i]
    BY <1>1, <2>1, Joined DEF Chain
  <2> HIDE DEF a, b, d
  <2>4. /\ c \in Seq(Int) /\ Len(c) = Len(b) + Len(wire)
        /\ \A i \in 1 .. Len(b) : c[i] = b[i]
    BY <2>1, <2>3, Joined DEF Chain
  <2> HIDE DEF c
  <2>5. /\ OnTheWay \in Seq(Int) /\ Len(OnTheWay) = Len(c) + Len(d)
        /\ \A i \in 1 .. Len(c) : OnTheWay[i] = c[i]
    BY <2>1, <2>2, <2>4, Joined, ZenonT(60) DEF Chain
  <2>6. /\ Len(received) \in Nat /\ Len(wire) \in Nat /\ Len(d) \in Nat
        /\ Len(b) \in Nat /\ Len(c) \in Nat /\ Len(a) \in Nat
    BY <1>1, <2>1, <2>3, <2>4, SMTT(60)
  <2>7. Len(a) <= Len(b) /\ Len(b) <= Len(c) /\ Len(c) <= Len(OnTheWay)
    BY <2>3, <2>4, <2>5, <2>6
  <2>8. ASSUME NEW i \in 1 .. Len(a) PROVE OnTheWay[i] = a[i]
    <3>1. i \in 1 .. Len(b) /\ i \in 1 .. Len(c)
      BY <2>6, <2>7
    <3> QED
      BY <2>3, <2>4, <2>5, <3>1
  <2>9. Len(a) <= Len(OnTheWay)
    BY <2>5, <2>6, <2>7
  <2> QED
    BY <2>5, <2>8, <2>9
<1>7. Coming # <<>>
  <2>1. Len(OnTheWay) \in Nat
    BY <1>6
  <2>2. Len(OnTheWay) # 0
    BY <1>1, <1>3, <1>6, <2>1
  <2> QED
    BY <1>6, <2>2, FramedNothing
<1>8. Len(requests) < Len(sent)
  <2>1. Len(Coming) # 0
    BY <1>5, <1>7
  <2> QED
    BY <1>4, <1>5, <2>1
<1> DEFINE r == sent[Len(requests) + 1]
<1>9. r \in Request /\ Coming[1] = Bytes(r)
  <2>1. 1 \in 1 .. Len(sent) - Len(requests)
    BY <1>4, <1>8
  <2> QED
    BY <1>5, <2>1 DEF StreamTypeOK
<1> HIDE DEF r
<1>10. /\ r \in Nat /\ r > 0 /\ r # CR /\ r # LF
       /\ Text(r) \in Seq(Int) /\ Len(Text(r)) = r /\ \A i \in 1 .. r : Text(r)[i] = r
       /\ Bytes(r) \in Seq(Int) /\ Len(Bytes(r)) = r + 2
       /\ \A i \in 1 .. r : Bytes(r)[i] = r
       /\ Bytes(r)[r + 1] = CR /\ Bytes(r)[r + 2] = LF
  BY <1>9, BytesOfRequest
<1>11. Len(Bytes(r)) <= Len(OnTheWay) /\ \A k \in 1 .. Len(Bytes(r)) : OnTheWay[k] = Bytes(r)[k]
  BY <1>5, <1>6, <1>7, <1>9, FramedHead, SMTT(60)
<1>12. \A k \in 1 .. r + 2 : k <= Len(a) => a[k] = Bytes(r)[k]
  <2>1. ASSUME NEW k \in 1 .. r + 2, k <= Len(a) PROVE a[k] = Bytes(r)[k]
    <3>1. k \in 1 .. Len(a) /\ k \in 1 .. Len(Bytes(r))
      BY <1>1, <1>10, <2>1
    <3> QED
      BY <1>6, <1>11, <3>1
  <2> QED
    BY <2>1
<1>13. ASSUME NEW k \in Nat, k + 2 <= Len(a)
       PROVE  EndsAt(k) <=> a[k + 1] = CR /\ a[k + 2] = LF
  <2> HIDE DEF a
  <2>1. /\ SubSeq(a, k + 1, k + 2) \in Seq(Int) /\ Len(SubSeq(a, k + 1, k + 2)) = (k + 2) - k
        /\ \A i \in 1 .. (k + 2) - k : SubSeq(a, k + 1, k + 2)[i] = a[k + i]
    BY <1>1, <1>13, Piece
  <2> DEFINE s == SubSeq(a, k + 1, k + 2)
  <2>2. s \in Seq(Int) /\ Len(s) = 2 /\ s[1] = a[k + 1] /\ s[2] = a[k + 2]
    BY <2>1
  <2>3. EndsAt(k) <=> s = End
    BY <1>2 DEF EndsAt
  <2>4. End \in Seq(Int) /\ Len(End) = 2 /\ End[1] = CR /\ End[2] = LF
    BY DEF End
  <2> HIDE DEF s
  <2>5. ASSUME s[1] = End[1], s[2] = End[2] PROVE s = End
    <3>1. \A i \in 1 .. Len(s) : s[i] = End[i]
      BY <2>2, <2>5
    <3> QED
      BY <2>2, <2>4, <3>1, SeqEqual
  <2> QED
    BY <2>2, <2>3, <2>4, <2>5
<1>14. a[len + 1] = CR /\ a[len + 2] = LF
  BY <1>3, <1>13 DEF FirstEnd
<1> HIDE DEF a
<1>15. len = r
  <2>1. CASE len < r
    <3>1. len + 1 \in 1 .. r + 2 /\ len + 1 <= Len(a) /\ len + 1 \in 1 .. r
      BY <1>1, <1>3, <1>10, <2>1
    <3> QED
      BY <1>10, <1>12, <1>14, <3>1
  <2>2. CASE r < len
    <3>1. /\ r + 1 \in 1 .. r + 2 /\ r + 1 <= Len(a)
          /\ r + 2 \in 1 .. r + 2 /\ r + 2 <= Len(a)
      BY <1>1, <1>3, <1>10, <2>2, SMTT(60)
    <3>2. a[r + 1] = CR /\ a[r + 2] = LF
      BY <1>10, <1>12, <3>1
    <3>3. EndsAt(r)
      BY <1>10, <1>13, <3>1, <3>2
    <3>4. r \in 0 .. len - 1
      BY <1>3, <1>10, <2>2
    <3> QED
      BY <3>3, <3>4 DEF FirstEnd
  <2> QED
    BY <1>3, <1>10, <2>1, <2>2
<1>16. SubSeq(text, 1, len) = Text(len)
  <2> DEFINE s == SubSeq(a, 1, r)
  <2>1. r \in Nat /\ r <= Len(a) /\ 0 \in Nat /\ 0 <= r
    BY <1>1, <1>3, <1>10, <1>15
  <2>2. /\ SubSeq(a, 0 + 1, r) \in Seq(Int) /\ Len(SubSeq(a, 0 + 1, r)) = r - 0
        /\ \A i \in 1 .. r - 0 : SubSeq(a, 0 + 1, r)[i] = a[0 + i]
    BY <1>1, <2>1, Piece DEF a
  <2>3. s \in Seq(Int) /\ Len(s) = r /\ \A i \in 1 .. r : s[i] = a[i]
    BY <2>1, <2>2
  <2> HIDE DEF s
  <2>4. ASSUME NEW i \in 1 .. Len(s) PROVE s[i] = Text(r)[i]
    <3>1. i \in 1 .. r /\ i \in 1 .. r + 2 /\ i <= Len(a)
      BY <1>1, <2>1, <2>3
    <3> QED
      BY <1>10, <1>12, <2>3, <3>1, SMTT(60)
  <2>5. s = Text(r)
    BY <1>10, <2>3, <2>4, SeqEqual
  <2> QED
    BY <1>2, <1>15, <2>5 DEF s
<1> QED
  BY <1>1, <1>2, <1>7, <1>8, <1>9, <1>10, <1>15, <1>16 DEF a, r

(* ... and takes it. *)
LEMMA TakeStreamInv ==
    ASSUME StreamInv, Take, UNCHANGED <<clientVars, sent>> PROVE StreamInv'
<1> SUFFICES ASSUME ~dropped' PROVE StreamInv'
  BY DEF StreamInv
<1>1. /\ ~dropped
      /\ UNCHANGED <<received, wire, writebuf, sent>>
  BY DEF Take, clientVars
<1>2. StreamTypeOK /\ RequestsIntact /\ Framed(OnTheWay, Coming)
  BY <1>1 DEF StreamInv
<1>3. PICK len \in 0 .. Len(text) - 2 :
        /\ FirstEnd(len)
        /\ requests' = Append(requests, SubSeq(text, 1, len))
        /\ readbuf' = move(read(readbuf, len + 2))
  BY DEF Take
<1> DEFINE a == readbuf.bytes
           n == len + 2
<1>4. /\ Len(requests) < Len(sent)
      /\ len = sent[Len(requests) + 1] /\ SubSeq(text, 1, len) = Text(len)
      /\ text = a /\ readable(readbuf) = Len(text)
      /\ Coming # <<>> /\ Len(Coming[1]) = n
  BY <1>1, <1>2, <1>3, FindsFirst
<1>5. /\ Len(requests) \in Nat /\ Len(sent) \in Nat
      /\ a \in Seq(Int) /\ Len(a) \in Nat /\ n \in Nat /\ n <= Len(a)
  <2>1. /\ Len(requests) \in Nat /\ Len(sent) \in Nat
        /\ a \in Seq(Int) /\ Len(a) \in Nat
    BY <1>2 DEF StreamTypeOK, Buffer
  <2> QED
    BY <1>4, <2>1, SMTT(60)
<1>6. len \in Request /\ Text(len) \in Seq(Int)
  <2>1. Len(requests) + 1 \in 1 .. Len(sent)
    BY <1>4, <1>5, SMTT(60)
  <2>2. len \in Request
    BY <1>2, <1>4, <2>1 DEF StreamTypeOK
  <2> QED
    BY <2>2, BytesOfRequest
<1>7. /\ requests' \in Seq(Seq(Int)) /\ Len(requests') = Len(requests) + 1
      /\ requests'[Len(requests) + 1] = Text(len)
      /\ \A i \in 1 .. Len(requests) : requests'[i] = requests[i]
  <2>1. requests' = Append(requests, Text(len)) /\ requests \in Seq(Seq(Int))
    BY <1>2, <1>3, <1>4 DEF StreamTypeOK
  <2> QED
    BY <1>6, <2>1, AppendProperties
<1>8. /\ readbuf' \in Buffer /\ readbuf'.reader = 0
      /\ readbuf'.bytes = SubSeq(a, n + 1, Len(a)) /\ readbuf'.bytes \in Seq(Int)
  <2>1. read(readbuf, n) = [readbuf EXCEPT !.reader = 0 + n]
    BY <1>2 DEF read, StreamTypeOK
  <2>2. read(readbuf, n).bytes = a /\ read(readbuf, n).reader = n
    BY <1>2, <1>5, <2>1, SMTT(60) DEF StreamTypeOK, Buffer
  <2>3. readbuf' = [bytes |-> SubSeq(a, n + 1, Len(a)), reader |-> 0]
    BY <1>3, <2>2 DEF move, writer
  <2>4. SubSeq(a, n + 1, Len(a)) \in Seq(Int)
    BY <1>5, Piece
  <2> QED
    BY <2>3, <2>4 DEF Buffer
<1>9. StreamTypeOK'
  BY <1>1, <1>2, <1>7, <1>8 DEF StreamTypeOK
<1>10. RequestsIntact'
  <2>1. Len(requests') <= Len(sent')
    BY <1>1, <1>4, <1>5, <1>7
  <2>2. ASSUME NEW i \in 1 .. Len(requests') PROVE requests'[i] = Text(sent'[i])
    <3>1. CASE i = Len(requests) + 1
      BY <1>1, <1>4, <1>7, <3>1
    <3>2. CASE i # Len(requests) + 1
      <4>1. i \in 1 .. Len(requests)
        BY <1>5, <1>7, <3>2
      <4> QED
        BY <1>1, <1>2, <1>7, <4>1 DEF RequestsIntact
    <3> QED
      BY <3>1, <3>2
  <2> QED
    BY <2>1, <2>2 DEF RequestsIntact
<1>11. OnTheWay' = SubSeq(OnTheWay, n + 1, Len(OnTheWay)) /\ OnTheWay \in Seq(Int)
  <2> DEFINE d == unread(writebuf)
             e == SubSeq(a, n + 1, Len(a))
             b == Chain(a, received)
             c == Chain(b, wire)
  <2>1. received \in Seq(Int) /\ wire \in Seq(Int) /\ d \in Seq(Int)
    BY <1>2, Unread DEF StreamTypeOK
  <2>2. OnTheWay = Chain(c, d) /\ OnTheWay' = Chain(Chain(Chain(e, received), wire), d)
    BY <1>1, <1>8 DEF OnTheWay
  <2>3. b \in Seq(Int) /\ n <= Len(b) /\ SubSeq(b, n + 1, Len(b)) = Chain(e, received)
    BY <1>5, <2>1, ChainType, TakenInFront
  <2> HIDE DEF n, a, b, d, e
  <2>4. c \in Seq(Int) /\ n <= Len(c)
        /\ SubSeq(c, n + 1, Len(c)) = Chain(SubSeq(b, n + 1, Len(b)), wire)
    BY <1>5, <2>1, <2>3, ChainType, TakenInFront
  <2> HIDE DEF c
  <2>5. /\ Chain(c, d) \in Seq(Int)
        /\ SubSeq(Chain(c, d), n + 1, Len(Chain(c, d))) = Chain(SubSeq(c, n + 1, Len(c)), d)
    BY <1>5, <2>1, <2>4, ChainType, TakenInFront
  <2> QED
    BY <2>2, <2>3, <2>4, <2>5
<1>12. /\ Coming \in Seq(Frame) /\ Len(Coming) = Len(sent) - Len(requests)
       /\ \A i \in 1 .. Len(sent) - Len(requests) :
                  Coming[i] = Bytes(sent[Len(requests) + i])
  BY <1>2, <1>4, <1>5, ComingType
<1>13. Coming' = Tail(Coming)
  <2> DEFINE m == Len(sent) - Len(requests) - 1
  <2>1. m \in Nat
    BY <1>4, <1>5
  <2>2. /\ Tail(Coming) \in Seq(Frame) /\ Len(Tail(Coming)) = m
        /\ \A i \in 1 .. m : Tail(Coming)[i] = Coming[i + 1]
    BY <1>4, <1>5, <1>12, HeadTailProperties
  <2>3. Coming' = [i \in 1 .. m |-> Bytes(sent[(Len(requests) + 1) + i])]
    <3>1. Len(sent') - Len(requests') = m
      BY <1>1, <1>5, <1>7
    <3> QED
      BY <1>1, <1>7, <3>1 DEF Coming
  <2> HIDE DEF m
  <2>4. ASSUME NEW i \in 1 .. m
        PROVE  Bytes(sent[(Len(requests) + 1) + i]) = Tail(Coming)[i]
    <3>1. /\ i + 1 \in 1 .. Len(sent) - Len(requests)
          /\ Len(requests) + (i + 1) = (Len(requests) + 1) + i
      BY <1>5, <2>1 DEF m
    <3>2. Coming[i + 1] = Bytes(sent[Len(requests) + (i + 1)])
      BY <1>12, <3>1
    <3> QED
      BY <2>2, <3>1, <3>2
  <2>5. Tail(Coming) = [i \in 1 .. m |-> Tail(Coming)[i]]
    <3>1. Tail(Coming) \in [1 .. m -> Frame]
      BY <2>2, LenProperties
    <3> QED
      BY <3>1
  <2> QED
    BY <2>3, <2>4, <2>5
<1>14. Framed(OnTheWay', Coming')
  BY <1>2, <1>4, <1>11, <1>12, <1>13, FramedHead
<1> QED
  BY <1>9, <1>10, <1>14 DEF StreamInv

LEMMA NextStreamInv == StreamInv /\ [Next]_vars => StreamInv'
<1> SUFFICES ASSUME StreamInv, [Next]_vars PROVE StreamInv'
  OBVIOUS
<1>1. ASSUME UNCHANGED <<wire, writebuf, received, readbuf, sent, requests, dropped>>
      PROVE  StreamInv'
  BY <1>1 DEF StreamInv, StreamTypeOK, RequestsIntact, OnTheWay, Coming
<1>2. CASE ClientStep
  BY <1>1, <1>2 DEF ClientStep, connect, Establish, Refuse, socket, serverVars
<1>3. CASE \E r \in Request : Send(r)
  BY <1>3, SendStreamInv
<1>4. CASE SendControl
  BY <1>1, <1>4 DEF SendControl, sendControl, serverVars
<1>5. CASE ClientLoopStep
  <2>1. ClientLoop(ServerEnded) /\ UNCHANGED <<serverVars, sent>>
    BY <1>5 DEF ClientLoopStep
  <2>2. CASE Poll(ServerEnded) \/ TryRead \/ ReadNothing(ServerEnded) \/ Update
    BY <1>1, <2>1, <2>2 DEF Poll, TryRead, ReadNothing, Update, socket, serverVars
  <2>3. CASE onClose(ServerEnded) \/ TryWrite \/ onConnect \/ onConnectControl \/ TryClose
    BY <1>1, <2>1, <2>3 DEF onClose, TryWrite, onConnect, onConnectControl, TryClose,
                            socket, serverVars
  <2>4. CASE WriteSome \/ WriteEnd
    BY <2>1, <2>4, WriteStreamInv
  <2> QED
    BY <2>1, <2>2, <2>3, <2>4 DEF ClientLoop
<1>6. CASE Deliver
  BY <1>6, DeliverStreamInv
<1>7. CASE ServerLoopStep
  <2>1. ServerLoop(ClientEnded) /\ UNCHANGED <<clientVars, sent>>
    BY <1>7 DEF ServerLoopStep
  <2>2. CASE ReadSome
    BY <2>1, <2>2, ReadStreamInv
  <2>3. CASE Take
    BY <2>1, <2>3, TakeStreamInv
  <2>4. CASE ReadDone \/ ReadEnd(ClientEnded) \/ Taken
    BY <1>1, <2>1, <2>4 DEF ReadDone, ReadEnd, Taken, clientVars
  <2> QED
    BY <2>1, <2>2, <2>3, <2>4 DEF ServerLoop
<1>8. CASE UNCHANGED vars
  BY <1>1, <1>8 DEF vars, clientVars, serverVars
<1> QED
  BY <1>2, <1>3, <1>4, <1>5, <1>6, <1>7, <1>8 DEF Next

(* The server takes the requests as they were sent, in whatever pieces they  *)
(* travel, as long as neither buffer had to drop bytes.                      *)
THEOREM RequestsIntactHolds == Spec => []RequestsIntact
<1>1. StreamInv => RequestsIntact
  BY DEF StreamInv, RequestsIntact
<1> QED
  BY <1>1, InitStreamInv, NextStreamInv, PTL DEF Spec
-----------------------------------------------------------------------------
(* The refinement.                                                           *)

(* What send() puts in is the request that it was called with.               *)
LEMMA SendPuts ==
    ASSUME StreamTypeOK, NEW r \in Request, Send(r), ~dropped, ~dropped'
    PROVE  Stream!Next
<1> DEFINE put == [i \in 1 .. Len(sent) |-> Text(sent[i])]
           b == Text(r)
<1>1. /\ sent \in Seq(Request) /\ Len(sent) \in Nat
      /\ sent' = Append(sent, r) /\ requests' = requests
  BY DEF Send, StreamTypeOK
<1>2. put \in Seq(Seq(Int)) /\ Len(put) = Len(sent) /\ b \in Seq(Int)
  <2>1. \A i \in 1 .. Len(sent) : Text(sent[i]) \in Seq(Int)
    <3>1. \A i \in 1 .. Len(sent) : sent[i] \in Request
      BY <1>1
    <3> QED
      BY <3>1, BytesOfRequest
  <2> DEFINE n == Len(sent)
             S == Seq(Int)
  <2>2. n \in Nat /\ \A i \in 1 .. n : Text(sent[i]) \in S
    BY <1>1, <2>1
  <2> HIDE DEF n, S
  <2>3. [i \in 1 .. n |-> Text(sent[i])] \in Seq(S) /\ Len([i \in 1 .. n |-> Text(sent[i])]) = n
    BY <2>2
  <2> QED
    BY <1>1, <2>3, BytesOfRequest DEF n, S
<1>3. /\ Append(put, b) \in Seq(Seq(Int)) /\ Len(Append(put, b)) = Len(sent) + 1
      /\ Append(put, b)[Len(sent) + 1] = b
      /\ \A i \in 1 .. Len(sent) : Append(put, b)[i] = put[i]
  <2> HIDE DEF put, b
  <2> QED
    BY <1>2, AppendProperties
<1>4. /\ Len(sent') = Len(sent) + 1 /\ sent'[Len(sent) + 1] = r
      /\ \A i \in 1 .. Len(sent) : sent'[i] = sent[i]
  BY <1>1, AppendProperties
<1>5. put' = Append(put, b)
  <2> DEFINE q == Append(put, b)
  <2>1. q = [i \in 1 .. Len(sent) + 1 |-> q[i]]
    BY <1>1, <1>3
  <2>2. ASSUME NEW i \in 1 .. Len(sent) + 1 PROVE q[i] = Text(sent'[i])
    <3>1. CASE i = Len(sent) + 1
      BY <1>3, <1>4, <3>1
    <3>2. CASE i # Len(sent) + 1
      <4>1. i \in 1 .. Len(sent)
        BY <1>1, <3>2
      <4> QED
        BY <1>3, <1>4, <4>1
    <3> QED
      BY <3>1, <3>2
  <2> HIDE DEF q
  <2> QED
    BY <1>4, <2>1, <2>2 DEF q
<1>6. Stream!Put(b)
  BY <1>1, <1>5 DEF Stream!Put
<1> QED
  BY <1>6 DEF Stream!Next

(* What onMessage() takes is the next of them.                               *)
LEMMA TakeTakes ==
    ASSUME StreamInv, StreamInv', ~dropped, Take, UNCHANGED sent
    PROVE  Stream!Next
<1> DEFINE put == [i \in 1 .. Len(sent) |-> Text(sent[i])]
<1>1. PICK len \in 0 .. Len(text) - 2 : requests' = Append(requests, SubSeq(text, 1, len))
  BY DEF Take
<1> DEFINE s == SubSeq(text, 1, len)
<1>2. /\ requests \in Seq(Seq(Int)) /\ Len(requests) \in Nat /\ Len(sent) \in Nat
      /\ dropped' = dropped /\ RequestsIntact'
  BY DEF Take, StreamInv, StreamTypeOK
<1> HIDE DEF s
<1>3. Len(requests') = Len(requests) + 1 /\ requests'[Len(requests) + 1] = s
  BY <1>1, <1>2 DEF s
<1>4. Len(requests) + 1 <= Len(sent) /\ s = Text(sent[Len(requests) + 1])
  BY <1>2, <1>3 DEF RequestsIntact
<1>5. Len(put) = Len(sent) /\ put[Len(requests) + 1] = s /\ put' = put
  BY <1>2, <1>4
<1>6. Stream!Take
  <2> HIDE DEF put
  <2>1. Len(requests) < Len(put) /\ requests' = Append(requests, put[Len(requests) + 1])
    BY <1>1, <1>2, <1>4, <1>5 DEF s
  <2> QED
    BY <1>2, <1>5, <2>1 DEF Stream!Take, put
<1> QED
  BY <1>6 DEF Stream!Next

(* Sending and taking are steps of MessageStream, dropping bytes breaks it,  *)
(* and nothing else that happens to the connection shows.                    *)
LEMMA NextImplements ==
    StreamInv /\ StreamInv' /\ [Next]_vars => [Stream!Next]_(Stream!vars)
<1> SUFFICES ASSUME StreamInv, StreamInv', [Next]_vars
             PROVE  [Stream!Next]_(Stream!vars)
  OBVIOUS
<1>1. ASSUME UNCHANGED <<sent, requests, dropped>> PROVE [Stream!Next]_(Stream!vars)
  BY <1>1 DEF Stream!vars
<1>2. CASE dropped'
  <2>1. Stream!Break
    BY <1>2 DEF Stream!Break
  <2> QED
    BY <2>1 DEF Stream!Next
<1>3. CASE ~dropped' /\ ClientStep
  BY <1>1, <1>3 DEF ClientStep, serverVars
<1>4. CASE ~dropped' /\ \E r \in Request : Send(r)
  <2>1. PICK r \in Request : Send(r)
    BY <1>4
  <2>2. ~dropped
    BY <1>4, <2>1 DEF Send
  <2> QED
    BY <1>4, <2>1, <2>2, SendPuts DEF StreamInv
<1>5. CASE SendControl \/ ClientLoopStep \/ Deliver
  BY <1>1, <1>5 DEF SendControl, ClientLoopStep, Deliver, serverVars
<1>6. CASE ~dropped' /\ ServerLoopStep
  <2>1. ServerLoop(ClientEnded) /\ UNCHANGED sent
    BY <1>6 DEF ServerLoopStep
  <2>2. CASE ReadSome
    <3>1. ~dropped
      BY <1>6, <2>2 DEF ReadSome
    <3> QED
      BY <1>6, <2>1, <2>2, <3>1 DEF ReadSome, Stream!vars
  <2>3. CASE Take
    BY <1>6, <2>1, <2>3, TakeTakes DEF Take
  <2>4. CASE ReadDone \/ ReadEnd(ClientEnded) \/ Taken
    BY <1>1, <2>1, <2>4 DEF ReadDone, ReadEnd, Taken
  <2> QED
    BY <2>1, <2>2, <2>3, <2>4 DEF ServerLoop
<1>7. CASE UNCHANGED vars
  BY <1>1, <1>7 DEF vars, serverVars
<1> QED
  BY <1>2, <1>3, <1>4, <1>5, <1>6, <1>7 DEF Next

(* A TcpClient and an HttpServer, with the network between them, are a       *)
(* sequence of requests that is taken from its front, until bytes are        *)
(* dropped.                                                                  *)
THEOREM ImplementsSafelyHolds == Spec => ImplementsSafely
<1>1. Init => Stream!Init
  BY DEF Init, ServerInit, Stream!Init
<1>2. [](StreamInv) /\ [][Next]_vars => [][Stream!Next]_(Stream!vars)
  BY NextImplements, PTL
<1> QED
  BY <1>1, <1>2, InitStreamInv, NextStreamInv, PTL DEF Spec, ImplementsSafely, Stream!SafeSpec
=============================================================================
