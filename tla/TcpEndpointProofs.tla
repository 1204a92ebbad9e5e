------------------------- MODULE TcpEndpointProofs -------------------------
(* Proofs about TcpEndpoint.tla, for every buffer size, every size of the    *)
(* kernel's buffer and any number of senders.                                *)
EXTENDS TcpEndpoint, FixedBufferProofs

USE BufferAssumption, SizeAssumption
-----------------------------------------------------------------------------
(* The write buffer.                                                         *)

(* As long as no write() has failed with EAGAIN, the bytes of the buffer     *)
(* carry on the numbering of those that were sent: the one at reader_ is the *)
(* next one.                                                                 *)
Numbered ==
    /\ writebuf.reader >= 0
    /\ wire \in Seq(Int)
    /\ accepted = Len(wire) + readable(writebuf)
    /\ \A i \in 1 .. Len(wire) : wire[i] = i
    /\ \A i \in 1 .. writer(writebuf) :
        writebuf.bytes[i] = Len(wire) - writebuf.reader + i

WriteInv ==
    /\ writebuf \in Buffer
    /\ AssertsHold(writebuf)
    /\ accepted \in Int
    /\ ~full => Numbered

(* Steps that leave the output alone. *)
LEMMA SameOutput == ASSUME WriteInv, UNCHANGED output PROVE WriteInv'
BY DEF output, WriteInv, Numbered, readable, writer, AssertsHold

(* Steps that add to, send from and reset the write buffer preserve WriteInv. *)
LEMMA AppendWriteInv ==
    ASSUME WriteInv, NEW s \in Sender, NEW n \in 1 .. MaxOut, SenderAppend(s, n)
    PROVE  WriteInv'
<1> DEFINE m == [i \in 1 .. n |-> accepted + i]
<1>1. m \in Seq(Int) /\ \A i \in 1 .. n : m[i] = accepted + i
  BY DEF WriteInv
<1>2. writebuf' = append(writebuf, m) /\ UNCHANGED <<wire, full>>
      /\ accepted' = accepted + writer(writebuf') - writer(writebuf)
  BY DEF SenderAppend
<1>3. Len(m) = n
  BY <1>1
<1>a. writebuf \in Buffer /\ AssertsHold(writebuf)
  BY DEF WriteInv
<1> HIDE DEF m
<1>4. /\ writebuf' \in Buffer /\ AssertsHold(writebuf')
      /\ writebuf'.reader = writebuf.reader
      /\ writer(writebuf) <= writer(writebuf')
      /\ writer(writebuf') <= writer(writebuf) + n
      /\ \A i \in 1 .. writer(writebuf') :
           writebuf'.bytes[i] = IF i <= writer(writebuf) THEN writebuf.bytes[i]
                                ELSE m[i - writer(writebuf)]
  BY <1>1, <1>2, <1>3, <1>a, AppendFits
<1>5. /\ writer(writebuf) \in Nat /\ writer(writebuf') \in Nat
      /\ writebuf.reader \in Int /\ accepted \in Int
  BY <1>4 DEF writer, Buffer, WriteInv
<1>6. ASSUME Numbered PROVE Numbered'
  <2>1. Len(wire) \in Nat
    BY <1>6 DEF Numbered
  <2>2. accepted = Len(wire) + writer(writebuf) - writebuf.reader
    BY <1>5, <1>6, <2>1 DEF Numbered, readable
  <2>3. ASSUME NEW i \in 1 .. writer(writebuf')
        PROVE  writebuf'.bytes[i] = Len(wire) - writebuf.reader + i
    <3>1. CASE i <= writer(writebuf)
      BY <1>4, <1>5, <1>6, <3>1 DEF Numbered
    <3>2. CASE ~(i <= writer(writebuf))
      <4>1. i - writer(writebuf) \in 1 .. n
        BY <1>4, <1>5, <3>2
      <4>2. writebuf'.bytes[i] = accepted + (i - writer(writebuf))
        BY <1>1, <1>4, <3>2, <4>1
      <4> QED
        BY <1>5, <2>1, <2>2, <4>2, SMTT(60)
    <3> QED
      BY <3>1, <3>2
  <2>4. accepted' = Len(wire) + readable(writebuf')
    BY <1>2, <1>4, <1>5, <2>1, <2>2, SMTT(60) DEF readable
  <2> QED
    BY <1>2, <1>4, <1>6, <2>3, <2>4 DEF Numbered
<1>7. accepted' \in Int
  BY <1>2, <1>5
<1> QED
  BY <1>2, <1>4, <1>6, <1>7 DEF WriteInv

(* What is sent comes from the front of the readable bytes. *)
LEMMA SendWriteInv ==
    ASSUME WriteInv, room \in Int, WriteSome PROVE WriteInv'
<1>1. PICK n \in {smaller(smaller(readable(writebuf), kBufferEachTimeSize), room)} :
        /\ wire' = wire \o str(writebuf, n)
        /\ writebuf' = read(writebuf, n)
  BY DEF WriteSome
<1>2. /\ writebuf \in Buffer /\ AssertsHold(writebuf)
      /\ writebuf.reader \in Int /\ writer(writebuf) \in Nat
  BY DEF WriteInv, Buffer, writer
<1>3. readable(writebuf) \in Int /\ readable(writebuf) > 0 /\ room > 0
  BY <1>2 DEF WriteSome, Pending, readable
<1>4. n \in Nat /\ n <= readable(writebuf)
  BY <1>3 DEF smaller
<1>5. /\ writebuf' \in Buffer /\ writebuf'.bytes = writebuf.bytes
      /\ writebuf'.reader = writebuf.reader + n
  <2>1. writebuf' = [writebuf EXCEPT !.reader = writebuf.reader + n]
    BY <1>1 DEF read
  <2>2. writebuf.reader + n \in Int
    BY <1>2, <1>4
  <2> QED
    BY <1>2, <2>1, <2>2 DEF Buffer
<1>6. UNCHANGED <<accepted, full>>
  BY DEF WriteSome
<1>7. AssertsHold(writebuf')
  BY <1>2, <1>4, <1>5 DEF AssertsHold, writer, readable
<1>8. ASSUME Numbered PROVE Numbered'
  <2> DEFINE sending == str(writebuf, n)
  <2>1. /\ sending \in Seq(Int) /\ Len(sending) = n
        /\ \A i \in 1 .. n : sending[i] = writebuf.bytes[writebuf.reader + i]
    BY <1>2, <1>4, <1>8, StrInside DEF Numbered
  <2>2. wire \in Seq(Int) /\ wire' = wire \o sending
    BY <1>1, <1>8 DEF Numbered
  <2> HIDE DEF sending
  <2>3. /\ wire' \in Seq(Int) /\ Len(wire') = Len(wire) + n
        /\ \A i \in 1 .. Len(wire) + n :
             wire'[i] = IF i <= Len(wire) THEN wire[i] ELSE sending[i - Len(wire)]
    BY <2>1, <2>2, ConcatProperties, ZenonT(60)
  <2>4. ASSUME NEW i \in 1 .. Len(wire') PROVE wire'[i] = i
    <3>1. CASE i <= Len(wire)
      BY <1>8, <2>2, <2>3, <3>1 DEF Numbered
    <3>2. CASE ~(i <= Len(wire))
      <4>1. i - Len(wire) \in 1 .. n
        BY <1>4, <2>2, <2>3, <3>2
      <4>2. writebuf.reader + (i - Len(wire)) \in 1 .. writer(writebuf)
        <5>1. n <= writer(writebuf) - writebuf.reader /\ writebuf.reader >= 0
          BY <1>4, <1>8 DEF readable, Numbered
        <5>2. i - Len(wire) \in Nat /\ i - Len(wire) >= 1 /\ i - Len(wire) <= n
          BY <1>4, <4>1
        <5> QED
          BY <1>2, <1>4, <5>1, <5>2, SMTT(60)
      <4>3. writebuf.bytes[writebuf.reader + (i - Len(wire))]
               = Len(wire) - writebuf.reader + (writebuf.reader + (i - Len(wire)))
        BY <1>8, <4>2 DEF Numbered
      <4> QED
        BY <1>2, <2>1, <2>2, <2>3, <3>2, <4>1, <4>3, SMTT(60)
    <3> QED
      BY <3>1, <3>2
  <2>5. accepted' = Len(wire') + readable(writebuf')
    BY <1>2, <1>4, <1>5, <1>6, <1>8, <2>2, <2>3, SMTT(60) DEF Numbered, readable, writer
  <2>6. \A i \in 1 .. writer(writebuf') :
            writebuf'.bytes[i] = Len(wire') - writebuf'.reader + i
    BY <1>2, <1>4, <1>5, <1>8, <2>2, <2>3, SMTT(60) DEF Numbered, writer
  <2>7. writebuf'.reader >= 0
    BY <1>2, <1>4, <1>5, <1>8 DEF Numbered
  <2> QED
    BY <2>3, <2>4, <2>5, <2>6, <2>7 DEF Numbered
<1> QED
  BY <1>5, <1>6, <1>7, <1>8 DEF WriteInv

(* After a failed write() nothing is known of the numbering. *)
LEMMA FailWriteInv == ASSUME WriteInv, WriteNothing PROVE WriteInv'
<1>1. writebuf' = read(writebuf, -1) /\ full' = TRUE /\ accepted' = accepted
  BY DEF WriteNothing
<1>2. writebuf' \in Buffer /\ AssertsHold(writebuf')
  BY <1>1, SMTT(60) DEF WriteInv, Buffer, read, AssertsHold, writer
<1> QED
  BY <1>1, <1>2 DEF WriteInv

(* An empty buffer may be reset: everything accepted was sent. *)
LEMMA ResetWriteInv == ASSUME WriteInv, WriteEnd PROVE WriteInv'
<1>1. writebuf' = Empty /\ UNCHANGED <<full, accepted, wire>>
  BY DEF WriteEnd, readall
<1>2. writebuf' \in Buffer /\ AssertsHold(writebuf')
      /\ writebuf'.bytes = <<>> /\ writebuf'.reader = 0
  BY <1>1 DEF Buffer, Empty, AssertsHold, writer
<1>3. ASSUME Numbered PROVE Numbered'
  <2>1. readable(writebuf) = 0
    BY DEF WriteEnd, Pending, WriteInv, AssertsHold, readable, writer, Buffer
  <2>2. readable(writebuf') = 0 /\ writer(writebuf') = 0
    BY <1>2 DEF readable, writer
  <2> QED
    BY <1>1, <1>2, <1>3, <2>1, <2>2 DEF Numbered
<1> QED
  BY <1>1, <1>2, <1>3 DEF WriteInv

(* A connection starts with an empty buffer. *)
LEMMA InitWriteInv == Init => WriteInv
<1> SUFFICES ASSUME Init PROVE WriteInv
  OBVIOUS
<1>1. /\ writebuf \in Buffer /\ writebuf.bytes = <<>> /\ writebuf.reader = 0
  BY DEF Init, Empty, Buffer
<1>2. wire = <<>> /\ accepted = 0
  BY DEF Init
<1>3. Numbered
  BY <1>1, <1>2 DEF Numbered, readable, writer
<1> QED
  BY <1>1, <1>2, <1>3 DEF WriteInv, AssertsHold, writer
-----------------------------------------------------------------------------
(* The input, and the events watched.                                        *)

(* Only onRead() leaves input in the read buffer that onData_ has not been   *)
(* given; it is still at it, or it closed the connection before errno was    *)
(* ever EAGAIN.                                                              *)
ReadInv ==
    /\ sent \in 0 .. MaxIn /\ received <= sent
    /\ ~open => loop = "poll"
    /\ unseen > 0 /\ open => loop \in {"read", "update"}
    /\ unseen > 0 /\ eagain => loop = "update"

IInv ==
    /\ TypeOK
    /\ WriteInv
    /\ ReadInv
    /\ PendingIsWatched

(* A new connection satisfies the inductive invariant. *)
LEMMA InitIInv == Init => IInv
<1> SUFFICES ASSUME Init PROVE IInv
  OBVIOUS
<1>1. writebuf.bytes = <<>> /\ writebuf.reader = 0
  BY DEF Init, Empty
<1>2. TypeOK
  <2>1. writebuf.reader \in Int /\ writer(writebuf) \in 0 .. BUFFER_SIZE - 1
    BY <1>1 DEF writer
  <2>2. /\ readbuf \in 0 .. BUFFER_SIZE - 1 /\ unseen \in 0 .. readbuf
        /\ room \in 0 .. Window /\ received \in 0 .. MaxIn
    BY DEF Init
  <2>3. /\ event \subseteq {"IN", "OUT"} /\ interest \subseteq {"IN", "OUT"}
        /\ loop = "poll" /\ writing = NoSender
        /\ open \in BOOLEAN /\ eof \in BOOLEAN /\ eagain \in BOOLEAN
        /\ full \in BOOLEAN /\ raced \in BOOLEAN
    BY Zenon DEF Init
  <2> QED
    BY <2>1, <2>2, <2>3 DEF TypeOK
<1>3. PendingIsWatched
  BY <1>1 DEF PendingIsWatched, Pending, readable, writer
<1>4. ReadInv
  BY DEF Init, ReadInv
<1> QED
  BY <1>2, <1>3, <1>4, InitWriteInv DEF IInv

(* A part that grows as its whole does stays a part of it. *)
LEMMA GrowsAlike ==
    ASSUME NEW whole \in Nat, NEW part \in 0 .. whole, NEW bound \in Int,
           NEW grown \in whole .. bound
    PROVE  part + grown - whole \in 0 .. grown
OBVIOUS

(* What readv() moves from the kernel into the read buffer. *)
LEMMA ReadSomeCounts ==
    ASSUME TypeOK, ReadSome
    PROVE  /\ readbuf' \in readbuf .. BUFFER_SIZE - 1
           /\ unseen' \in 0 .. readbuf' /\ received' \in 0 .. received
<1>1. PICK n \in {smaller(received, kBufferEachTimeSize)} :
        /\ received' = received - n
        /\ readbuf' = smaller(readbuf + n, BUFFER_SIZE - 1)
        /\ unseen' = unseen + readbuf' - readbuf
  BY DEF ReadSome
<1>2. /\ received \in Nat /\ readbuf \in 0 .. BUFFER_SIZE - 1
      /\ unseen \in 0 .. readbuf
  BY DEF TypeOK
<1>3. n \in Nat /\ n <= received
  BY <1>2 DEF smaller, ReadSome
<1>4. readbuf' \in readbuf .. BUFFER_SIZE - 1
  BY <1>1, <1>2, <1>3 DEF smaller
<1>5. unseen' \in 0 .. readbuf'
  BY <1>1, <1>2, <1>4, GrowsAlike
<1> QED
  BY <1>1, <1>2, <1>3, <1>4, <1>5

(* The steps of the loop thread that read. *)
LEMMA ReadStep ==
    ASSUME IInv,
           Poll \/ TryRead \/ TryWrite \/ ReadSome \/ ReadNothing \/ ReadEnd \/ Update
    PROVE  IInv'
<1>1. UNCHANGED output
  BY DEF Poll, TryRead, TryWrite, ReadSome, ReadNothing, ReadEnd, Update
<1>2. WriteInv'
  BY <1>1, SameOutput DEF IInv
<1> USE DEF IInv, TypeOK, ReadInv, PendingIsWatched, MutexFree, Pending, writer,
            readable, output, input, NoSender
<1>3. CASE Poll \/ TryRead \/ TryWrite
  BY <1>2, <1>3 DEF Poll, TryRead, TryWrite, Ready
<1>4. CASE ReadSome
  <2>1. /\ readbuf' \in readbuf .. BUFFER_SIZE - 1
        /\ unseen' \in 0 .. readbuf' /\ received' \in 0 .. received
    BY <1>4, ReadSomeCounts
  <2>2. /\ UNCHANGED <<output, open, interest, eof, sent, writing, raced, eagain>>
        /\ loop = "read"
        /\ \/ eagain /\ loop' = "update" /\ event' = {"IN"}
           \/ ~eagain /\ loop' = "read" /\ event' = event
    BY <1>4 DEF ReadSome, ReadNext
  <2>3. TypeOK'
    <3>1. readbuf' \in 0 .. BUFFER_SIZE - 1 /\ received' \in 0 .. MaxIn
      BY <2>1
    <3>2. /\ event' \subseteq {"IN", "OUT"}
          /\ loop' \in {"poll", "tryRead", "read", "update", "tryWrite", "write"}
      BY <2>2
    <3> QED
      BY <2>1, <2>2, <3>1, <3>2
  <2>4. ReadInv'
    BY <2>1, <2>2
  <2>5. PendingIsWatched'
    BY <2>2
  <2> QED
    BY <1>2, <2>3, <2>4, <2>5
<1>5. CASE ReadNothing
  <2>1. /\ UNCHANGED <<input, output, open, interest, writing, raced>>
        /\ loop = "read" /\ eagain' = TRUE
        /\ loop' = "update" /\ event' = {"IN"}
    BY <1>5 DEF ReadNothing, ReadNext
  <2> QED
    BY <1>2, <2>1
<1>7. CASE ReadEnd
  BY <1>2, <1>7 DEF ReadEnd
<1>6. CASE Update
  BY <1>2, <1>6 DEF Update
<1> QED
  BY <1>3, <1>4, <1>5, <1>6, <1>7

(* The steps of the loop thread that write. *)
LEMMA WriteStep ==
    ASSUME IInv, WriteSome \/ WriteNothing \/ WriteEnd
    PROVE  IInv'
<1>1. WriteInv'
  BY SendWriteInv, FailWriteInv, ResetWriteInv DEF IInv, TypeOK
<1>2. writebuf'.reader \in Int /\ writer(writebuf') \in 0 .. BUFFER_SIZE - 1
  BY <1>1 DEF WriteInv, Buffer, AssertsHold, writer
<1>3. room' \in 0 .. Window
  <2>1. CASE WriteSome
    BY <2>1 DEF IInv, TypeOK, WriteSome, smaller, Pending, readable
  <2>2. CASE WriteNothing \/ WriteEnd
    BY <2>2 DEF IInv, TypeOK, WriteNothing, WriteEnd
  <2> QED
    BY <2>1, <2>2
<1>4. /\ UNCHANGED <<input, open, writing, raced>>
      /\ loop = "write" /\ loop' \in {"write", "poll"}
      /\ eagain' \in BOOLEAN /\ full' \in BOOLEAN
      /\ event' \subseteq {"IN", "OUT"} /\ interest' \subseteq {"IN", "OUT"}
  BY DEF IInv, TypeOK, WriteSome, WriteNothing, WriteEnd, WriteNext, Watch
<1>5. TypeOK' /\ ReadInv'
  BY <1>2, <1>3, <1>4 DEF IInv, TypeOK, ReadInv, input
<1>6. PendingIsWatched'
  <2>1. CASE WriteEnd
    BY <2>1 DEF WriteEnd, readall, Empty, PendingIsWatched, Pending, readable, writer
  <2>2. CASE WriteSome \/ WriteNothing
    BY <2>2 DEF IInv, WriteSome, WriteNothing, WriteNext, Watch, PendingIsWatched,
                Pending, MutexFree
  <2> QED
    BY <2>1, <2>2
<1> QED
  BY <1>1, <1>5, <1>6 DEF IInv

(* The steps of the senders and of the peer. *)
LEMMA OtherStep ==
    ASSUME IInv,
           \/ \E s \in Sender : SenderControl(s)
           \/ \E s \in Sender, n \in 1 .. MaxOut : SenderAppend(s, n)
           \/ PeerSends \/ PeerCloses \/ PeerReads
           \/ UNCHANGED vars
    PROVE  IInv'
<1>1. ASSUME NEW s \in Sender, NEW n \in 1 .. MaxOut, SenderAppend(s, n) PROVE IInv'
  <2>1. WriteInv'
    BY <1>1, AppendWriteInv DEF IInv
  <2>2. writebuf'.reader \in Int /\ writer(writebuf') \in 0 .. BUFFER_SIZE - 1
    BY <2>1 DEF WriteInv, Buffer, AssertsHold, writer
  <2>3. /\ UNCHANGED <<input, open, interest, room, loop, eagain, full, raced>>
        /\ event' \subseteq {"IN", "OUT"}
        /\ writing' = writing \/ writing' = {s}
    BY <1>1 DEF IInv, TypeOK, SenderAppend
  <2>4. TypeOK' /\ ReadInv'
    BY <2>2, <2>3 DEF IInv, TypeOK, ReadInv, input
  <2>5. PendingIsWatched'
    BY <1>1 DEF SenderAppend, PendingIsWatched, Pending, MutexFree, NoSender
  <2> QED
    BY <2>1, <2>4, <2>5 DEF IInv
<1>2. ASSUME NEW s \in Sender, SenderControl(s) PROVE IInv'
  <2>1. WriteInv'
    BY <1>2, SameOutput DEF SenderControl, IInv
  <2> QED
    BY <1>2, <2>1 DEF SenderControl, IInv, TypeOK, ReadInv, PendingIsWatched, Pending,
                      MutexFree, NoSender, input, output, readable, writer
<1>3. CASE PeerSends \/ PeerCloses \/ UNCHANGED vars
  <2>1. UNCHANGED output
    BY <1>3 DEF PeerSends, PeerCloses, vars, output
  <2>2. WriteInv'
    BY <2>1, SameOutput DEF IInv
  <2>3. /\ UNCHANGED <<event, readbuf, open, interest, loop, eagain, writing,
                       unseen, raced>>
        /\ eof' \in BOOLEAN
    BY <1>3 DEF PeerSends, PeerCloses, vars, IInv, TypeOK
  <2>6. sent' \in 0 .. MaxIn /\ received' \in 0 .. sent'
    <3>1. sent \in 0 .. MaxIn /\ received \in 0 .. sent
      BY DEF IInv, TypeOK, ReadInv
    <3>2. CASE PeerSends
      BY <3>1, <3>2 DEF PeerSends
    <3>3. CASE PeerCloses \/ UNCHANGED vars
      BY <3>1, <3>3 DEF PeerCloses, vars
    <3> QED
      BY <1>3, <3>2, <3>3
  <2>4. TypeOK' /\ PendingIsWatched'
    BY <2>1, <2>3, <2>6 DEF IInv, TypeOK, PendingIsWatched, Pending, MutexFree, output,
                      readable, writer
  <2>5. ReadInv'
    BY <2>3, <2>6 DEF IInv, ReadInv
  <2> QED
    BY <2>2, <2>4, <2>5 DEF IInv
<1>4. CASE PeerReads
  <2>1. WriteInv'
    BY <1>4 DEF PeerReads, IInv, WriteInv, Numbered, readable, writer, AssertsHold
  <2> QED
    BY <1>4, <2>1 DEF PeerReads, IInv, TypeOK, ReadInv, PendingIsWatched, Pending,
                      MutexFree, input, readable, writer
<1> QED
  BY <1>1, <1>2, <1>3, <1>4

(* The type invariant, and what the buffers and the events say of each other. *)
THEOREM Invariance == Spec => []IInv
<1>1. ASSUME IInv, [Next]_vars PROVE IInv'
  BY <1>1, ReadStep, WriteStep, OtherStep DEF Next, LoopStep
<1> QED
  BY <1>1, InitIInv, PTL DEF Spec

(* The state stays within its types: in particular the read buffer never     *)
(* overflows, whatever the peer sends.                                       *)
THEOREM TypeOKHolds == Spec => []TypeOK
<1>1. IInv => TypeOK
  BY DEF IInv
<1> QED
  BY <1>1, Invariance, PTL

(* The assertions of FixedBuffer.h never fail in the write buffer, although  *)
(* a failed write() moves its reader back.                                   *)
THEOREM BufferAssertsHolds == Spec => []BufferAsserts
<1>1. IInv => BufferAsserts
  <2> SUFFICES ASSUME IInv PROVE AssertsHold(writebuf) /\ (writebuf.reader < 0 => full)
    BY DEF BufferAsserts
  <2>1. writebuf.reader \in Int
    BY DEF IInv, TypeOK
  <2> QED
    BY <2>1 DEF IInv, WriteInv, Numbered
<1> QED
  BY <1>1, Invariance, PTL

(* Until a write() fails with EAGAIN the peer gets what write() accepted, in *)
(* order, each byte once, for any sizes and any interleaving of senders.     *)
THEOREM StreamIntactHolds == Spec => []StreamIntact
<1>1. IInv => StreamIntact
  BY DEF IInv, WriteInv, Numbered, StreamIntact
<1> QED
  BY <1>1, Invariance, PTL

(* Pending output is watched for, unless an update without the mutex has     *)
(* overwritten the interest in it.                                           *)
THEOREM PendingIsWatchedHolds == Spec => []PendingIsWatched
<1>1. IInv => PendingIsWatched
  BY DEF IInv
<1> QED
  BY <1>1, Invariance, PTL

(* Input is lost at the end of the stream only on a thread whose errno was   *)
(* never EAGAIN.                                                             *)
THEOREM LastInputSeenHolds == Spec => []LastInputSeen
<1>1. IInv => LastInputSeen
  BY DEF IInv, ReadInv, LastInputSeen
<1> QED
  BY <1>1, Invariance, PTL

(* Until errno is EAGAIN onWrite() does not leave a drained buffer before it *)
(* has reset it, whatever senders append meanwhile.                          *)
THEOREM DrainedIsResetHolds == Spec => []DrainedIsReset
<1>1. Init => DrainedIsReset
  BY DEF Init, DrainedIsReset, Empty, writer
<1>2. ASSUME IInv, DrainedIsReset, [Next]_vars PROVE DrainedIsReset'
  <2> USE <1>2 DEF DrainedIsReset
  <2>1. ASSUME NEW s \in Sender, NEW n \in 1 .. MaxOut, SenderAppend(s, n)
        PROVE  DrainedIsReset'
    <3> DEFINE m == [i \in 1 .. n |-> accepted + i]
    <3>1. m \in Seq(Int) /\ writebuf \in Buffer /\ AssertsHold(writebuf)
      BY DEF IInv, WriteInv
    <3>2. writebuf' = append(writebuf, m)
      BY <2>1 DEF SenderAppend
    <3> HIDE DEF m
    <3>3. /\ writebuf' \in Buffer /\ writebuf'.reader = writebuf.reader
          /\ writer(writebuf) <= writer(writebuf')
      BY <3>1, <3>2, AppendFits
    <3>4. /\ writer(writebuf) \in Nat /\ writer(writebuf') \in Nat
          /\ writebuf.reader \in Int /\ writebuf.reader <= writer(writebuf)
      BY <3>1, <3>3 DEF writer, Buffer, AssertsHold
    <3>5. UNCHANGED <<open, loop, eagain>>
      BY <2>1 DEF SenderAppend
    <3>6. CASE writer(writebuf') = writer(writebuf)
      BY <3>3, <3>5, <3>6 DEF Pending, readable
    <3>7. CASE writer(writebuf') # writer(writebuf)
      BY <3>3, <3>4, <3>7 DEF Pending, readable
    <3> QED
      BY <3>6, <3>7
  <2>2. CASE WriteSome
    BY <2>2 DEF WriteSome, WriteNext
  <2>3. CASE WriteNothing
    BY <2>3 DEF WriteNothing
  <2>4. CASE WriteEnd
    BY <2>4 DEF WriteEnd, readall, Empty, writer
  <2>5. CASE Poll \/ TryRead \/ TryWrite \/ Update
    BY <2>5 DEF Poll, TryRead, TryWrite, Update, output, Pending, readable, writer
  <2>6. CASE ReadSome \/ ReadNothing \/ ReadEnd
    BY <2>6 DEF ReadSome, ReadNothing, ReadEnd, ReadNext, output, Pending, readable,
                writer
  <2>7. CASE (\E s \in Sender : SenderControl(s)) \/ PeerSends \/ PeerCloses
    BY <2>7 DEF SenderControl, PeerSends, PeerCloses, output, Pending, readable, writer
  <2>8. CASE PeerReads \/ UNCHANGED vars
    BY <2>8 DEF PeerReads, vars, Pending, readable, writer
  <2> QED
    BY <2>1, <2>2, <2>3, <2>4, <2>5, <2>6, <2>7, <2>8 DEF Next, LoopStep
<1> QED
  BY <1>1, <1>2, Invariance, PTL DEF Spec
=============================================================================
