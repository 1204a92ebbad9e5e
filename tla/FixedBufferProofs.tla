--------------------------- MODULE FixedBufferProofs ---------------------------
(* Proofs about FixedBuffer.tla, for every buffer size: what its operations   *)
(* do to the bytes that are still to be read.  Bytes are numbers.             *)
EXTENDS FixedBuffer, SequenceTheorems, TLAPS

USE BufferAssumption

Buffer == [bytes : Seq(Int), reader : Int]

(* The indices are in order, as long as nothing has read outside the buffer. *)
InOrder(b) == 0 <= b.reader /\ b.reader <= writer(b)

(* What a buffer holds that is still to be read.                             *)
unread(b) == SubSeq(b.bytes, b.reader + 1, writer(b))

(* The library's facts about \o and SubSeq, for bytes.                       *)
LEMMA Joined ==
    ASSUME NEW a \in Seq(Int), NEW b \in Seq(Int)
    PROVE  /\ a \o b \in Seq(Int) /\ Len(a \o b) = Len(a) + Len(b)
           /\ \A i \in 1 .. Len(a) : (a \o b)[i] = a[i]
           /\ \A i \in 1 .. Len(b) : (a \o b)[Len(a) + i] = b[i]
<1>1. \A i \in 1 .. Len(a) + Len(b) :
          (a \o b)[i] = IF i <= Len(a) THEN a[i] ELSE b[i - Len(a)]
  BY ConcatProperties
<1>2. Len(a) \in Nat /\ Len(b) \in Nat
  OBVIOUS
<1>3. \A i \in 1 .. Len(b) : (a \o b)[Len(a) + i] = b[i]
  <2> TAKE i \in 1 .. Len(b)
  <2>1. Len(a) + i \in 1 .. Len(a) + Len(b) /\ ~(Len(a) + i <= Len(a))
    BY <1>2
  <2>2. (Len(a) + i) - Len(a) = i
    BY <1>2
  <2> QED
    BY <1>1, <2>1, <2>2
<1> QED
  BY <1>1, <1>2, <1>3, ConcatProperties

LEMMA Associative ==
    ASSUME NEW a \in Seq(Int), NEW b \in Seq(Int), NEW c \in Seq(Int)
    PROVE  a \o (b \o c) = (a \o b) \o c
BY ConcatAssociative, SMTT(60)

LEMMA Piece ==
    ASSUME NEW s \in Seq(Int), NEW m \in Nat, NEW n \in Nat, m <= n, n <= Len(s)
    PROVE  /\ SubSeq(s, m + 1, n) \in Seq(Int) /\ Len(SubSeq(s, m + 1, n)) = n - m
           /\ \A i \in 1 .. n - m : SubSeq(s, m + 1, n)[i] = s[m + i]
<1>1. \A i \in m + 1 .. n : s[i] \in Int
  OBVIOUS
<1>2. m + 1 \in Int /\ n \in Int
  OBVIOUS
<1>3. /\ SubSeq(s, m + 1, n) \in Seq(Int)
      /\ Len(SubSeq(s, m + 1, n)) = IF m + 1 <= n THEN n - (m + 1) + 1 ELSE 0
      /\ \A i \in 1 .. n - (m + 1) + 1 : SubSeq(s, m + 1, n)[i] = s[(m + 1) + i - 1]
  BY <1>1, <1>2, SubSeqProperties
<1> QED
  BY <1>3

(* The sequence b behind a, in the facts where \o is best left as it is. *)
Chain(a, b) == a \o b

LEMMA ChainType ==
    ASSUME NEW a \in Seq(Int), NEW b \in Seq(Int) PROVE Chain(a, b) \in Seq(Int)
BY Joined DEF Chain

LEMMA ChainAssociative ==
    ASSUME NEW a \in Seq(Int), NEW b \in Seq(Int), NEW c \in Seq(Int)
    PROVE  Chain(a, Chain(b, c)) = Chain(Chain(a, b), c)
BY Associative DEF Chain

(* A sequence and its two pieces. *)
LEMMA TwoPieces ==
    ASSUME NEW s \in Seq(Int), NEW n \in Nat, n <= Len(s)
    PROVE  /\ SubSeq(s, 1, n) \in Seq(Int) /\ Len(SubSeq(s, 1, n)) = n
           /\ SubSeq(s, n + 1, Len(s)) \in Seq(Int)
           /\ Chain(SubSeq(s, 1, n), SubSeq(s, n + 1, Len(s))) = s
<1>1. SubSeq(s, 1, n) \in Seq(Int) /\ SubSeq(s, n + 1, Len(s)) \in Seq(Int)
  BY Piece
<1>2. Len(SubSeq(s, 1, n)) = n
  <2>1. Len(SubSeq(s, 0 + 1, n)) = n - 0
    BY Piece
  <2> QED
    BY <2>1
<1>3. SubSeq(s, 1, n) \o SubSeq(s, n + 1, Len(s)) = SubSeq(s, 1, Len(s))
  <2>1. 1 \in 1 .. Len(s) + 1 /\ n \in 1 - 1 .. Len(s) /\ Len(s) \in n .. Len(s)
    OBVIOUS
  <2> QED
    BY <2>1, ConcatAdjacentSubSeq
<1>4. SubSeq(s, 1, Len(s)) = s
  BY SubSeqFull
<1> QED
  BY <1>1, <1>2, <1>3, <1>4 DEF Chain

(* When a piece moves from one place to the one before it, what follows what *)
(* stays the same.                                                           *)
LEMMA MovedAlong ==
    ASSUME NEW a \in Seq(Int), NEW b \in Seq(Int), NEW p \in Seq(Int), NEW q \in Seq(Int)
    PROVE  Chain(Chain(a, Chain(b, p)), q) = Chain(Chain(a, b), Chain(p, q))
BY ChainType, ChainAssociative

(* To take from the front of a sequence leaves what is behind it alone. *)
LEMMA TakenInFront ==
    ASSUME NEW a \in Seq(Int), NEW b \in Seq(Int), NEW n \in Nat, n <= Len(a)
    PROVE  /\ n <= Len(Chain(a, b))
           /\ SubSeq(Chain(a, b), n + 1, Len(Chain(a, b)))
                = Chain(SubSeq(a, n + 1, Len(a)), b)
<1> DEFINE c == SubSeq(a, n + 1, Len(a))
           d == SubSeq(a \o b, n + 1, Len(a \o b))
<1>1. Len(a) \in Nat /\ Len(b) \in Nat
  OBVIOUS
<1>2. /\ a \o b \in Seq(Int) /\ Len(a \o b) = Len(a) + Len(b)
      /\ \A i \in 1 .. Len(a) : (a \o b)[i] = a[i]
      /\ \A i \in 1 .. Len(b) : (a \o b)[Len(a) + i] = b[i]
  BY Joined
<1>3. n <= Len(a \o b)
  BY <1>1, <1>2
<1>4. c \in Seq(Int) /\ Len(c) = Len(a) - n /\ \A i \in 1 .. Len(a) - n : c[i] = a[n + i]
  BY <1>1, Piece
<1>5. /\ d \in Seq(Int) /\ Len(d) = Len(a \o b) - n
      /\ \A i \in 1 .. Len(a \o b) - n : d[i] = (a \o b)[n + i]
  <2> DEFINE s == a \o b
  <2>1. s \in Seq(Int) /\ n <= Len(s) /\ Len(s) \in Nat
    BY <1>1, <1>2, <1>3
  <2> HIDE DEF s
  <2>2. /\ SubSeq(s, n + 1, Len(s)) \in Seq(Int) /\ Len(SubSeq(s, n + 1, Len(s))) = Len(s) - n
        /\ \A i \in 1 .. Len(s) - n : SubSeq(s, n + 1, Len(s))[i] = s[n + i]
    BY <2>1, Piece, SMTT(60)
  <2> QED
    BY <2>2 DEF s
<1> HIDE DEF c, d
<1>6. /\ c \o b \in Seq(Int) /\ Len(c \o b) = Len(c) + Len(b)
      /\ \A i \in 1 .. Len(c) : (c \o b)[i] = c[i]
      /\ \A i \in 1 .. Len(b) : (c \o b)[Len(c) + i] = b[i]
  BY <1>4, Joined
<1>7. ASSUME NEW i \in 1 .. Len(d) PROVE d[i] = (c \o b)[i]
  <2>1. i \in Int /\ 1 <= i /\ i <= Len(a) + Len(b) - n
    BY <1>1, <1>2, <1>5
  <2>2. d[i] = (a \o b)[n + i]
    BY <1>5
  <2>3. CASE i <= Len(a) - n
    <3>1. i \in 1 .. Len(a) - n /\ n + i \in 1 .. Len(a) /\ i \in 1 .. Len(c)
      BY <1>1, <1>4, <2>1, <2>3
    <3> QED
      BY <1>2, <1>4, <1>6, <2>2, <3>1
  <2>4. CASE ~(i <= Len(a) - n)
    <3> DEFINE j == i - (Len(a) - n)
    <3>1. j \in 1 .. Len(b)
      BY <1>1, <2>1, <2>4
    <3>2. Len(c) = Len(a) - n
      BY <1>4
    <3>3. i = Len(c) + j /\ n + i = Len(a) + j
      BY <1>1, <2>1, <3>2
    <3> HIDE DEF j
    <3> QED
      BY <1>2, <1>6, <2>2, <3>1, <3>3
  <2> QED
    BY <2>3, <2>4
<1>8. Len(d) = Len(c \o b)
  BY <1>1, <1>2, <1>4, <1>5, <1>6
<1>9. d = c \o b
  BY <1>5, <1>6, <1>7, <1>8, SeqEqual
<1> QED
  BY <1>3, <1>9 DEF c, d, Chain

-----------------------------------------------------------------------------
(* What is unread, byte by byte. *)
LEMMA Unread ==
    ASSUME NEW b \in Buffer, InOrder(b)
    PROVE  /\ unread(b) \in Seq(Int)
           /\ Len(unread(b)) = readable(b) /\ readable(b) = Len(b.bytes) - b.reader
           /\ \A i \in 1 .. readable(b) : unread(b)[i] = b.bytes[b.reader + i]
BY Piece, SMTT(60) DEF unread, readable, writer, InOrder, Buffer

(* append(), when nothing has to be dropped. *)
LEMMA AppendAll ==
    ASSUME NEW b \in Buffer, InOrder(b),
           NEW s \in Seq(Int), Len(s) <= writable(b)
    PROVE  LET c == append(b, s) IN
           /\ c \in Buffer /\ InOrder(c)
           /\ c.reader = b.reader /\ c.bytes = b.bytes \o s
           /\ unread(c) = unread(b) \o s
<1> DEFINE c == append(b, s)
<1>1. smaller(Len(s), writable(b)) = Len(s)
  <2>1. Len(s) \in Int /\ Len(b.bytes) \in Int
    BY DEF Buffer
  <2>2. writable(b) \in Int
    BY <2>1 DEF writable, writer
  <2> QED
    BY <2>1, <2>2 DEF smaller
<1>2. SubSeq(s, 1, Len(s)) = s
  BY SubSeqFull
<1>3. c = [b EXCEPT !.bytes = b.bytes \o s]
  BY <1>1, <1>2 DEF append
<1>4. /\ b.bytes \in Seq(Int) /\ b.reader \in Nat /\ b.reader <= Len(b.bytes)
      /\ b.bytes \o s \in Seq(Int) /\ Len(b.bytes \o s) = Len(b.bytes) + Len(s)
      /\ \A i \in 1 .. Len(b.bytes) : (b.bytes \o s)[i] = b.bytes[i]
      /\ \A i \in 1 .. Len(s) : (b.bytes \o s)[Len(b.bytes) + i] = s[i]
  <2>1. b.bytes \in Seq(Int) /\ b.reader \in Nat /\ b.reader <= Len(b.bytes)
    BY DEF InOrder, Buffer, writer
  <2> QED
    BY <2>1, Joined
<1> HIDE DEF c
<1>5. c.bytes = b.bytes \o s /\ c.reader = b.reader /\ c \in Buffer
  BY <1>3, <1>4 DEF Buffer
<1>6. InOrder(c)
  BY <1>4, <1>5 DEF InOrder, writer
<1>7. unread(c) = unread(b) \o s
  <2>1. /\ unread(b) \in Seq(Int) /\ Len(unread(b)) = Len(b.bytes) - b.reader
        /\ \A i \in 1 .. Len(b.bytes) - b.reader : unread(b)[i] = b.bytes[b.reader + i]
    BY Unread
  <2>2. /\ unread(c) \in Seq(Int) /\ Len(unread(c)) = Len(c.bytes) - b.reader
        /\ \A i \in 1 .. Len(c.bytes) - b.reader : unread(c)[i] = c.bytes[b.reader + i]
    BY <1>5, <1>6, Unread DEF InOrder
  <2>3. /\ unread(b) \o s \in Seq(Int) /\ Len(unread(b) \o s) = Len(unread(b)) + Len(s)
        /\ \A i \in 1 .. Len(unread(b)) : (unread(b) \o s)[i] = unread(b)[i]
        /\ \A i \in 1 .. Len(s) : (unread(b) \o s)[Len(unread(b)) + i] = s[i]
    BY <2>1, Joined
  <2>4. ASSUME NEW i \in 1 .. Len(unread(c)) PROVE unread(c)[i] = (unread(b) \o s)[i]
    <3>1. /\ i \in Nat /\ i >= 1
          /\ Len(b.bytes) \in Nat /\ Len(s) \in Nat
          /\ b.reader \in Nat /\ b.reader <= Len(b.bytes)
      BY <1>4 DEF writer
    <3>0. /\ Len(unread(b)) = Len(b.bytes) - b.reader
          /\ i <= Len(b.bytes) + Len(s) - b.reader
      BY <1>4, <1>5, <2>1, <2>2
    <3>2. CASE i <= Len(b.bytes) - b.reader
      <4>1. b.reader + i \in 1 .. Len(b.bytes) /\ i \in 1 .. Len(unread(b))
        BY <3>0, <3>1, <3>2, SMTT(60)
      <4>2. c.bytes[b.reader + i] = b.bytes[b.reader + i]
        BY <1>4, <1>5, <4>1
      <4> QED
        BY <2>1, <2>2, <2>3, <4>1, <4>2
    <3>3. CASE ~(i <= Len(b.bytes) - b.reader)
      <4>1. PICK j \in 1 .. Len(s) : b.reader + i = Len(b.bytes) + j
        <5>1. b.reader + i - Len(b.bytes) \in 1 .. Len(s)
          BY <3>0, <3>1, <3>3, SMTT(60)
        <5> QED
          BY <3>1, <5>1, SMTT(60)
      <4>2. i = Len(unread(b)) + j
        <5>1. i = (Len(b.bytes) - b.reader) + j
          BY <3>1, <4>1, SMTT(60)
        <5> QED
          BY <3>0, <5>1
      <4> QED
        BY <1>4, <1>5, <2>2, <2>3, <4>1, <4>2, ZenonT(60)
    <3> QED
      BY <3>2, <3>3
  <2>5. Len(unread(c)) = Len(unread(b) \o s)
    BY <1>4, <1>5, <2>1, <2>2, <2>3, SMTT(60)
  <2> QED
    BY <2>2, <2>3, <2>4, <2>5, SeqEqual
<1> QED
  BY <1>4, <1>5, <1>6, <1>7 DEF c

(* What str() gives is what read() takes. *)
LEMMA StrIsRead ==
    ASSUME NEW b \in Buffer, InOrder(b), NEW n \in Nat, n <= readable(b)
    PROVE  /\ str(b, n) = SubSeq(unread(b), 1, n)
           /\ read(b, n) \in Buffer /\ InOrder(read(b, n))
           /\ read(b, n).bytes = b.bytes
           /\ read(b, n).reader = b.reader + n
           /\ unread(read(b, n)) = SubSeq(unread(b), n + 1, Len(unread(b)))
<1>1. b.bytes \in Seq(Int) /\ b.reader \in Nat /\ Len(b.bytes) \in Nat
  BY DEF InOrder, Buffer
<1>2. b.reader <= Len(b.bytes) /\ n <= Len(b.bytes) - b.reader
  BY <1>1 DEF InOrder, readable, writer
<1>3. /\ unread(b) \in Seq(Int) /\ Len(unread(b)) = Len(b.bytes) - b.reader
      /\ \A i \in 1 .. Len(b.bytes) - b.reader : unread(b)[i] = b.bytes[b.reader + i]
  BY Unread
<1>4. str(b, n) = SubSeq(unread(b), 1, n)
  <2>1. /\ SubSeq(unread(b), 0 + 1, n) \in Seq(Int) /\ Len(SubSeq(unread(b), 0 + 1, n)) = n - 0
        /\ \A i \in 1 .. n - 0 : SubSeq(unread(b), 0 + 1, n)[i] = unread(b)[0 + i]
    BY <1>1, <1>2, <1>3, Piece
  <2>2. str(b, n) = [i \in 1 .. n |-> b.bytes[b.reader + i]]
    BY <1>1, <1>2, SMTT(60) DEF str, writer
  <2>3. \A i \in 1 .. n : b.bytes[b.reader + i] \in Int
    BY <1>1, <1>2, SMTT(60)
  <2>4. str(b, n) \in Seq(Int) /\ Len(str(b, n)) = n
        /\ \A i \in 1 .. n : str(b, n)[i] = b.bytes[b.reader + i]
    BY <1>2, <2>2, <2>3
  <2>5. ASSUME NEW i \in 1 .. n PROVE SubSeq(unread(b), 1, n)[i] = b.bytes[b.reader + i]
    <3>1. i \in 1 .. n - 0 /\ i \in 1 .. Len(b.bytes) - b.reader /\ 0 + i = i
      BY <1>1, <1>2
    <3> QED
      BY <1>3, <2>1, <3>1
  <2> QED
    BY <2>1, <2>4, <2>5, SeqEqual
<1>5. /\ read(b, n) \in Buffer /\ read(b, n).bytes = b.bytes
      /\ read(b, n).reader = b.reader + n
  <2>1. read(b, n) = [b EXCEPT !.reader = b.reader + n] /\ b.reader + n \in Int
    BY <1>1 DEF read
  <2> QED
    BY <2>1 DEF Buffer
<1>6. InOrder(read(b, n))
  BY <1>1, <1>2, <1>5 DEF InOrder, writer
<1>7. unread(read(b, n)) = SubSeq(unread(b), n + 1, Len(unread(b)))
  <2> DEFINE u == unread(read(b, n))
             v == SubSeq(unread(b), n + 1, Len(unread(b)))
  <2>1. /\ u \in Seq(Int) /\ Len(u) = Len(b.bytes) - (b.reader + n)
        /\ \A i \in 1 .. Len(b.bytes) - (b.reader + n) : u[i] = b.bytes[b.reader + n + i]
    <3>1. readable(read(b, n)) = Len(b.bytes) - (b.reader + n)
      BY <1>5 DEF readable, writer
    <3> QED
      BY <1>5, <1>6, <3>1, Unread
  <2>2. /\ v \in Seq(Int) /\ Len(v) = Len(unread(b)) - n
        /\ \A i \in 1 .. Len(unread(b)) - n : v[i] = unread(b)[n + i]
    BY <1>1, <1>2, <1>3, Piece
  <2> HIDE DEF u, v
  <2>3. Len(u) = Len(v)
    BY <1>1, <1>2, <1>3, <2>1, <2>2
  <2>4. ASSUME NEW i \in 1 .. Len(u) PROVE u[i] = v[i]
    <3>0. i \in Nat /\ i >= 1 /\ i <= Len(b.bytes) - (b.reader + n)
      BY <1>1, <1>2, <2>1
    <3>1. n + i \in 1 .. Len(b.bytes) - b.reader /\ i \in 1 .. Len(unread(b)) - n
      BY <1>1, <1>2, <1>3, <3>0, SMTT(60)
    <3>2. b.reader + (n + i) = b.reader + n + i
      BY <1>1
    <3> QED
      BY <1>1, <1>2, <1>3, <2>1, <2>2, <3>1, <3>2
  <2>5. u = v
    BY <2>1, <2>2, <2>3, <2>4, SeqEqual
  <2> QED
    BY <2>5 DEF u, v
<1> QED
  BY <1>4, <1>5, <1>6, <1>7

(* append() copies a prefix of its argument behind what is written, keeps    *)
(* the reader, and never fills the last byte.                                *)
LEMMA AppendFits ==
    ASSUME NEW b \in Buffer, NEW s \in Seq(Int), AssertsHold(b)
    PROVE  LET c == append(b, s) IN
           /\ c \in Buffer /\ AssertsHold(c)
           /\ c.reader = b.reader
           /\ writer(b) <= writer(c) /\ writer(c) <= writer(b) + Len(s)
           /\ \A i \in 1 .. writer(c) :
                c.bytes[i] = IF i <= writer(b) THEN b.bytes[i] ELSE s[i - writer(b)]
<1> DEFINE n == smaller(Len(s), writable(b))
           t == SubSeq(s, 1, n)
           c == append(b, s)
<1>1. n \in 0 .. Len(s) /\ n <= BUFFER_SIZE - 1 - Len(b.bytes)
  BY DEF smaller, writable, writer, AssertsHold, Buffer
<1>2. t \in Seq(Int) /\ Len(t) = n /\ \A i \in 1 .. n : t[i] = s[i]
  <2> HIDE DEF n
  <2>1. \A i \in 1 .. n : s[i] \in Int
    BY <1>1
  <2>2. /\ t \in Seq(Int)
        /\ Len(t) = IF 1 <= n THEN n - 1 + 1 ELSE 0
        /\ \A i \in 1 .. n - 1 + 1 : t[i] = s[1 + i - 1]
    BY <1>1, <2>1, SubSeqProperties
  <2> QED
    BY <1>1, <2>2
<1>3. c = [bytes |-> b.bytes \o t, reader |-> b.reader]
  <2> HIDE DEF t
  <2>1. c = [b EXCEPT !.bytes = b.bytes \o t]
    BY DEF append, t
  <2> QED
    BY <2>1 DEF Buffer
<1> HIDE DEF n, t, c
<1>4. b.bytes \in Seq(Int) /\ c.bytes = b.bytes \o t /\ c.reader = b.reader
  BY <1>3 DEF Buffer
<1>5. /\ c.bytes \in Seq(Int) /\ Len(c.bytes) = Len(b.bytes) + n
      /\ \A i \in 1 .. Len(c.bytes) :
            c.bytes[i] = IF i <= Len(b.bytes) THEN b.bytes[i] ELSE s[i - Len(b.bytes)]
  <2>1. /\ b.bytes \o t \in Seq(Int) /\ Len(b.bytes \o t) = Len(b.bytes) + Len(t)
        /\ \A i \in 1 .. Len(b.bytes) + Len(t) :
             (b.bytes \o t)[i] = IF i <= Len(b.bytes) THEN b.bytes[i]
                                                     ELSE t[i - Len(b.bytes)]
    <3>1. b.bytes \in Seq(Int) /\ t \in Seq(Int)
      BY <1>2, <1>4
    <3> QED
      BY <3>1, ConcatProperties
  <2>2. \A i \in 1 .. Len(b.bytes) + n : ~(i <= Len(b.bytes)) => i - Len(b.bytes) \in 1 .. n
    BY <1>1, <1>4
  <2> QED
    BY <1>1, <1>2, <1>4, <2>1, <2>2
<1>6. /\ c \in Buffer /\ AssertsHold(c) /\ c.reader = b.reader
      /\ writer(b) <= writer(c) /\ writer(c) <= writer(b) + Len(s)
  BY <1>1, <1>3, <1>4, <1>5 DEF AssertsHold, writer, Buffer
<1> QED
  BY <1>5, <1>6 DEF c, writer

(* What write() is given by str() are the next bytes of the buffer.          *)
LEMMA StrInside ==
    ASSUME NEW b \in Buffer, NEW n \in Nat, b.reader >= 0, n <= readable(b)
    PROVE  /\ str(b, n) \in Seq(Int) /\ Len(str(b, n)) = n
           /\ \A i \in 1 .. n : str(b, n)[i] = b.bytes[b.reader + i]
<1>1. \A i \in 1 .. n : b.reader + i \in 1 .. writer(b)
  BY DEF readable, writer, Buffer
<1>2. str(b, n) = [i \in 1 .. n |-> b.bytes[b.reader + i]]
  BY <1>1 DEF str
<1>3. \A i \in 1 .. n : b.bytes[b.reader + i] \in Int
  BY <1>1 DEF writer, Buffer
<1> QED
  BY <1>2, <1>3
-----------------------------------------------------------------------------
(* Frames laid end to end.                                                   *)

Frame == Seq(Int)

(* Frame i of way ends at ends[i].                                           *)
Laid(way, fs, ends) ==
    /\ ends \in [Nat -> Int]
    /\ ends[0] = 0 /\ ends[Len(fs)] = Len(way)
    /\ \A i \in 1 .. Len(fs) : ends[i] = ends[i - 1] + Len(fs[i])
    /\ \A i, j \in 0 .. Len(fs) : i <= j => ends[i] <= ends[j]
    /\ \A i \in 1 .. Len(fs) : \A k \in 1 .. Len(fs[i]) :
           way[ends[i - 1] + k] = fs[i][k]

Framed(way, fs) == \E ends : Laid(way, fs, ends)

LEMMA FramedEmpty == Framed(<<>>, <<>>)
<1>1. Laid(<<>>, <<>>, [i \in Nat |-> 0])
  BY DEF Laid
<1> QED
  BY <1>1 DEF Framed

LEMMA FramedNothing ==
    ASSUME NEW way \in Seq(Int), Framed(way, <<>>) PROVE Len(way) = 0
BY DEF Framed, Laid

(* A frame comes behind the others. *)
LEMMA FramedAppend ==
    ASSUME NEW way \in Seq(Int), NEW fs \in Seq(Frame), Framed(way, fs), NEW f \in Frame
    PROVE  Framed(way \o f, Append(fs, f))
<1>1. PICK ends : Laid(way, fs, ends)
  BY DEF Framed
<1> DEFINE n == Len(fs)
           gs == Append(fs, f)
           w == way \o f
           e == [ends EXCEPT ![n + 1] = Len(way) + Len(f)]
<1>2. n \in Nat /\ Len(way) \in Nat /\ Len(f) \in Nat
  BY DEF Frame
<1>3. /\ Len(gs) = n + 1 /\ gs[n + 1] = f
      /\ \A i \in 1 .. n : gs[i] = fs[i]
  BY AppendProperties
<1>4. /\ Len(w) = Len(way) + Len(f)
      /\ \A i \in 1 .. Len(way) : w[i] = way[i]
      /\ \A i \in 1 .. Len(f) : w[Len(way) + i] = f[i]
  BY Joined DEF Frame
<1> HIDE DEF gs, w
<1>5. /\ e \in [Nat -> Int] /\ e[n + 1] = Len(way) + Len(f)
      /\ \A i \in 0 .. n : e[i] = ends[i]
  BY <1>1, <1>2 DEF Laid
<1>6. ends[0] = 0 /\ ends[n] = Len(way) /\ \A i \in 0 .. n : ends[i] \in Int /\ ends[i] <= ends[n]
  BY <1>1, <1>2 DEF Laid
<1> HIDE DEF e
<1>7. e[0] = 0 /\ e[Len(gs)] = Len(w)
  BY <1>2, <1>3, <1>4, <1>5, <1>6
<1>8. ASSUME NEW i \in 1 .. Len(gs)
      PROVE  /\ e[i] = e[i - 1] + Len(gs[i])
             /\ \A k \in 1 .. Len(gs[i]) : w[e[i - 1] + k] = gs[i][k]
  <2>1. CASE i = n + 1
    <3>1. i - 1 = n /\ n \in 0 .. n
      BY <1>2, <2>1
    <3>2. e[i] = Len(way) + Len(f) /\ e[i - 1] = Len(way) /\ gs[i] = f
      BY <1>3, <1>5, <1>6, <2>1, <3>1
    <3> QED
      BY <1>4, <3>2
  <2>2. CASE i # n + 1
    <3>1. i \in 1 .. n /\ i - 1 \in 0 .. n /\ i \in 0 .. n
      BY <1>2, <1>3, <2>2
    <3>2. ends[i] = ends[i - 1] + Len(fs[i])
      BY <1>1, <3>1 DEF Laid
    <3>3. ASSUME NEW k \in 1 .. Len(fs[i]) PROVE w[ends[i - 1] + k] = fs[i][k]
      <4>1. way[ends[i - 1] + k] = fs[i][k]
        BY <1>1, <3>1 DEF Laid
      <4>2. ends[i - 1] >= 0 /\ ends[i] <= Len(way)
        BY <1>1, <1>2, <1>6, <3>1, SMTT(60) DEF Laid
      <4>3. fs[i] \in Frame /\ Len(fs[i]) \in Nat /\ ends[i - 1] \in Int
        BY <1>6, <3>1, SMTT(60) DEF Frame
      <4>4. ends[i - 1] + k \in 1 .. Len(way)
        BY <1>2, <3>2, <4>2, <4>3, SMTT(60)
      <4> QED
        BY <1>4, <4>1, <4>4
    <3> QED
      BY <1>3, <1>5, <3>1, <3>2, <3>3
  <2> QED
    BY <2>1, <2>2
<1>9. ASSUME NEW i \in 0 .. Len(gs), NEW j \in 0 .. Len(gs), i <= j PROVE e[i] <= e[j]
  <2>1. CASE j = n + 1
    <3>1. CASE i = n + 1
      BY <1>2, <1>5, <2>1, <3>1
    <3>2. CASE i # n + 1
      <4>1. i \in 0 .. n
        BY <1>2, <1>3, <3>2
      <4>2. e[i] <= Len(way) /\ e[i] \in Int
        BY <1>5, <1>6, <4>1
      <4> QED
        BY <1>2, <1>5, <2>1, <4>2
    <3> QED
      BY <3>1, <3>2
  <2>2. CASE j # n + 1
    <3>1. i \in 0 .. n /\ j \in 0 .. n
      BY <1>2, <1>3, <1>9, <2>2
    <3> QED
      BY <1>1, <1>5, <1>9, <3>1 DEF Laid
  <2> QED
    BY <2>1, <2>2
<1>10. Laid(w, gs, e)
  BY <1>5, <1>7, <1>8, <1>9 DEF Laid
<1> QED
  BY <1>10 DEF Framed, w, gs

(* The first frame is taken away. *)
LEMMA FramedHead ==
    ASSUME NEW way \in Seq(Int), NEW fs \in Seq(Frame), fs # <<>>, Framed(way, fs)
    PROVE  /\ fs[1] \in Frame /\ Len(fs[1]) <= Len(way)
           /\ \A k \in 1 .. Len(fs[1]) : way[k] = fs[1][k]
           /\ Framed(SubSeq(way, Len(fs[1]) + 1, Len(way)), Tail(fs))
<1>1. PICK ends : Laid(way, fs, ends)
  BY DEF Framed
<1> DEFINE n == Len(fs)
           f == fs[1]
           gs == Tail(fs)
           w == SubSeq(way, Len(f) + 1, Len(way))
           e == [i \in Nat |-> ends[i + 1] - Len(f)]
<1>2. n \in Nat /\ n >= 1 /\ Len(way) \in Nat
  BY EmptySeq
<1>3. f \in Frame /\ Len(f) \in Nat
  BY <1>2 DEF Frame
<1>4. gs \in Seq(Frame) /\ Len(gs) = n - 1 /\ \A i \in 1 .. n - 1 : gs[i] = fs[i + 1]
  BY HeadTailProperties
<1>5. ends[0] = 0 /\ ends[1] = Len(f) /\ ends[n] = Len(way)
  <2>1. ends[0] = 0 /\ ends[n] = Len(way) /\ ends[1] = ends[1 - 1] + Len(f)
    BY <1>1, <1>2 DEF Laid
  <2> QED
    BY <1>3, <2>1
<1>6. \A i \in 0 .. n : ends[i] \in Int /\ (i >= 1 => Len(f) <= ends[i]) /\ ends[i] <= Len(way)
  <2> TAKE i \in 0 .. n
  <2>1. ends[i] \in Int
    BY <1>1 DEF Laid
  <2>2. i >= 1 => ends[1] <= ends[i]
    BY <1>1, <1>2 DEF Laid
  <2>3. ends[i] <= ends[n]
    BY <1>1, <1>2 DEF Laid
  <2> QED
    BY <1>5, <2>1, <2>2, <2>3
<1>7. Len(f) <= Len(way)
  BY <1>2, <1>5, <1>6
<1>8. \A k \in 1 .. Len(f) : way[k] = f[k]
  <2>1. \A k \in 1 .. Len(f) : way[ends[1 - 1] + k] = f[k]
    BY <1>1, <1>2 DEF Laid
  <2> QED
    BY <1>3, <1>5, <2>1
<1>9. /\ w \in Seq(Int) /\ Len(w) = Len(way) - Len(f)
      /\ \A i \in 1 .. Len(way) - Len(f) : w[i] = way[Len(f) + i]
  <2> HIDE DEF f, gs
  <2> QED
    BY <1>2, <1>3, <1>7, Piece
<1> HIDE DEF f, gs, w
<1>10. e \in [Nat -> Int] /\ \A i \in Nat : e[i] = ends[i + 1] - Len(f)
  BY <1>1, <1>3 DEF Laid
<1> HIDE DEF e
<1>11. e[0] = 0 /\ e[Len(gs)] = Len(w)
  <2>1. e[0] = ends[1] - Len(f)
    <3>1. e[0] = ends[0 + 1] - Len(f)
      BY <1>10
    <3> QED
      BY <3>1
  <2>2. e[n - 1] = ends[n] - Len(f)
    <3>1. n - 1 \in Nat /\ (n - 1) + 1 = n
      BY <1>2
    <3>2. e[n - 1] = ends[(n - 1) + 1] - Len(f)
      BY <1>10, <3>1
    <3> QED
      BY <3>1, <3>2
  <2> QED
    BY <1>2, <1>3, <1>4, <1>5, <1>9, <2>1, <2>2
<1>12. ASSUME NEW i \in 1 .. Len(gs)
       PROVE  /\ e[i] = e[i - 1] + Len(gs[i])
              /\ \A k \in 1 .. Len(gs[i]) : w[e[i - 1] + k] = gs[i][k]
  <2>1. i \in Nat /\ i >= 1 /\ i + 1 \in 1 .. n /\ i - 1 \in Nat /\ (i + 1) - 1 = i
        /\ (i - 1) + 1 = i
    BY <1>2, <1>4
  <2>2. /\ ends[i + 1] = ends[i] + Len(fs[i + 1])
        /\ \A k \in 1 .. Len(fs[i + 1]) : way[ends[i] + k] = fs[i + 1][k]
    BY <1>1, <2>1 DEF Laid
  <2>3. gs[i] = fs[i + 1]
    BY <1>4, <2>1
  <2>4. e[i] = ends[i + 1] - Len(f) /\ e[i - 1] = ends[i] - Len(f)
    BY <1>10, <2>1
  <2>5. /\ ends[i] \in Int /\ ends[i + 1] \in Int /\ Len(fs[i + 1]) \in Nat
        /\ Len(f) <= ends[i] /\ ends[i + 1] <= Len(way)
    BY <1>2, <1>6, <2>1, SMTT(60) DEF Frame
  <2>6. ASSUME NEW k \in 1 .. Len(gs[i]) PROVE w[e[i - 1] + k] = gs[i][k]
    <3>1. (ends[i] - Len(f)) + k \in 1 .. Len(way) - Len(f)
      <4>1. k \in Int /\ k >= 1 /\ k <= Len(fs[i + 1])
        BY <2>3, <2>5
      <4>2. ends[i] + k <= Len(way)
        BY <1>2, <2>2, <2>5, <4>1, SMTT(60)
      <4>3. (ends[i] - Len(f)) + k <= Len(way) - Len(f)
        BY <1>2, <1>3, <2>5, <4>1, <4>2
      <4>4. (ends[i] - Len(f)) + k \in Int /\ 1 <= (ends[i] - Len(f)) + k
        BY <1>3, <2>5, <4>1, SMTT(60)
      <4> QED
        BY <1>2, <1>3, <4>3, <4>4
    <3>2. Len(f) + ((ends[i] - Len(f)) + k) = ends[i] + k
      BY <1>3, <2>5
    <3> QED
      BY <1>9, <2>2, <2>3, <2>4, <3>1, <3>2
  <2> QED
    BY <1>3, <2>2, <2>3, <2>4, <2>5, <2>6, SMTT(60)
<1>13. ASSUME NEW i \in 0 .. Len(gs), NEW j \in 0 .. Len(gs), i <= j PROVE e[i] <= e[j]
  <2>1. i \in Nat /\ j \in Nat /\ i + 1 \in 0 .. n /\ j + 1 \in 0 .. n /\ i + 1 <= j + 1
    BY <1>2, <1>4, <1>13
  <2>2. ends[i + 1] <= ends[j + 1]
    BY <1>1, <2>1 DEF Laid
  <2>3. ends[i + 1] \in Int /\ ends[j + 1] \in Int
    BY <1>6, <2>1
  <2>4. e[i] = ends[i + 1] - Len(f) /\ e[j] = ends[j + 1] - Len(f)
    BY <1>10, <2>1
  <2> QED
    BY <1>3, <2>2, <2>3, <2>4
<1>14. Laid(w, gs, e)
  BY <1>10, <1>11, <1>12, <1>13 DEF Laid
<1> QED
  BY <1>3, <1>7, <1>8, <1>14 DEF Framed, f, w, gs

(* The last frame is continued. *)
LEMMA FramedExtend ==
    ASSUME NEW way \in Seq(Int), NEW fs \in Seq(Frame), NEW f \in Frame, NEW g \in Frame,
           Framed(way, Append(fs, f))
    PROVE  Framed(way \o g, Append(fs, f \o g))
<1>1. PICK ends : Laid(way, Append(fs, f), ends)
  BY DEF Framed
<1> DEFINE n == Len(fs)
           hs == Append(fs, f)
           gs == Append(fs, f \o g)
           w == way \o g
           e == [ends EXCEPT ![n + 1] = Len(way) + Len(g)]
<1>2. n \in Nat /\ Len(way) \in Nat /\ Len(f) \in Nat /\ Len(g) \in Nat
  BY DEF Frame
<1>3. /\ f \o g \in Frame /\ Len(f \o g) = Len(f) + Len(g)
      /\ \A i \in 1 .. Len(f) : (f \o g)[i] = f[i]
      /\ \A i \in 1 .. Len(g) : (f \o g)[Len(f) + i] = g[i]
  BY Joined DEF Frame
<1>4. /\ Len(w) = Len(way) + Len(g)
      /\ \A i \in 1 .. Len(way) : w[i] = way[i]
      /\ \A i \in 1 .. Len(g) : w[Len(way) + i] = g[i]
  BY Joined DEF Frame
<1>5. /\ Len(hs) = n + 1 /\ hs[n + 1] = f /\ \A i \in 1 .. n : hs[i] = fs[i]
  BY AppendProperties
<1>6. /\ Len(gs) = n + 1 /\ gs[n + 1] = f \o g /\ \A i \in 1 .. n : gs[i] = fs[i]
  BY <1>3, AppendProperties
<1> HIDE DEF gs, hs, w
<1>7. /\ e \in [Nat -> Int] /\ e[n + 1] = Len(way) + Len(g)
      /\ \A i \in 0 .. n : e[i] = ends[i]
  BY <1>1, <1>2, SMTT(60) DEF Laid
<1>8. Laid(way, hs, ends)
  BY <1>1 DEF hs
<1>9. /\ ends[0] = 0 /\ ends[n + 1] = Len(way) /\ ends[n + 1] = ends[n] + Len(f)
      /\ \A i \in 0 .. n : ends[i] \in Int /\ 0 <= ends[i] /\ ends[i] <= ends[n]
  <2>1. ends[0] = 0 /\ ends[n + 1] = Len(way)
    BY <1>5, <1>8 DEF Laid
  <2>2. ends[n + 1] = ends[n] + Len(hs[n + 1])
    <3>1. n + 1 \in 1 .. Len(hs) /\ (n + 1) - 1 = n
      BY <1>2, <1>5
    <3>2. ends[n + 1] = ends[(n + 1) - 1] + Len(hs[n + 1])
      BY <1>8, <3>1 DEF Laid
    <3> QED
      BY <3>1, <3>2
  <2>3. ASSUME NEW i \in 0 .. n PROVE ends[i] \in Int /\ ends[0] <= ends[i] /\ ends[i] <= ends[n]
    <3>1. i \in 0 .. Len(hs) /\ 0 \in 0 .. Len(hs) /\ n \in 0 .. Len(hs) /\ 0 <= i /\ i <= n
      BY <1>2, <1>5
    <3> QED
      BY <1>8, <3>1 DEF Laid
  <2> QED
    BY <1>2, <1>5, <2>1, <2>2, <2>3
<1> HIDE DEF e
<1>10. e[0] = 0 /\ e[Len(gs)] = Len(w)
  BY <1>2, <1>4, <1>6, <1>7, <1>9, SMTT(60)
<1>11. ASSUME NEW i \in 1 .. Len(gs)
       PROVE  /\ e[i] = e[i - 1] + Len(gs[i])
              /\ \A k \in 1 .. Len(gs[i]) : w[e[i - 1] + k] = gs[i][k]
  <2>1. CASE i = n + 1
    <3>1. e[i - 1] = ends[n] /\ ends[n] \in Int /\ 0 <= ends[n] /\ ends[n] = Len(way) - Len(f)
      BY <1>2, <1>7, <1>9, <2>1, SMTT(60)
    <3>2. e[i] = e[i - 1] + Len(gs[i])
      BY <1>2, <1>3, <1>6, <1>7, <2>1, <3>1, SMTT(60)
    <3>3. ASSUME NEW k \in 1 .. Len(f) + Len(g) PROVE w[ends[n] + k] = (f \o g)[k]
      <4>1. CASE k <= Len(f)
        <5>1. k \in 1 .. Len(f) /\ ends[n] + k \in 1 .. Len(way)
          BY <1>2, <3>1, <4>1
        <5>2. n + 1 \in 1 .. Len(hs) /\ (n + 1) - 1 = n /\ k \in 1 .. Len(hs[n + 1])
          BY <1>2, <1>5, <5>1
        <5>3. way[ends[(n + 1) - 1] + k] = hs[n + 1][k]
          BY <1>8, <5>2 DEF Laid
        <5> QED
          BY <1>3, <1>4, <1>5, <5>1, <5>2, <5>3
      <4>2. CASE ~(k <= Len(f))
        <5>1. k - Len(f) \in 1 .. Len(g) /\ k = Len(f) + (k - Len(f))
              /\ ends[n] + k = Len(way) + (k - Len(f))
          BY <1>2, <3>1, <4>2
        <5>2. (f \o g)[Len(f) + (k - Len(f))] = g[k - Len(f)]
          BY <1>3, <5>1
        <5>3. w[Len(way) + (k - Len(f))] = g[k - Len(f)]
          BY <1>4, <5>1
        <5> QED
          BY <5>1, <5>2, <5>3
      <4> QED
        BY <4>1, <4>2
    <3> QED
      BY <1>3, <1>6, <2>1, <3>1, <3>2, <3>3
  <2>2. CASE i # n + 1
    <3>1. i \in 1 .. n /\ i - 1 \in 0 .. n /\ i \in 0 .. n /\ i \in 1 .. Len(hs)
      BY <1>2, <1>5, <1>6, <2>2
    <3>2. ends[i] = ends[i - 1] + Len(hs[i])
      BY <1>8, <3>1 DEF Laid
    <3>3. ASSUME NEW k \in 1 .. Len(fs[i]) PROVE w[ends[i - 1] + k] = fs[i][k]
      <4>1. way[ends[i - 1] + k] = fs[i][k]
        BY <1>5, <1>8, <3>1, ZenonT(60) DEF Laid
      <4>2. ends[i - 1] \in Int /\ ends[i - 1] >= 0 /\ ends[i] <= ends[n]
        BY <1>9, <3>1
      <4>3. Len(fs[i]) \in Nat /\ ends[i] \in Int
        BY <1>9, <3>1, SMTT(60) DEF Frame
      <4>4. ends[n] \in Int /\ ends[n] <= Len(way)
        <5>1. n \in 0 .. n
          BY <1>2
        <5>2. ends[n] \in Int
          BY <1>9, <5>1
        <5> QED
          BY <1>2, <1>9, <5>2
      <4>5. ends[i] = ends[i - 1] + Len(fs[i])
        BY <1>5, <3>1, <3>2
      <4>6. ends[i - 1] + k \in 1 .. Len(way)
        <5>1. k \in Int /\ 1 <= k /\ k <= Len(fs[i])
          BY <4>3
        <5>2. ends[i - 1] + k <= Len(way)
          BY <1>2, <4>2, <4>3, <4>4, <4>5, <5>1, SMTT(60)
        <5>3. ends[i - 1] + k \in Int /\ 1 <= ends[i - 1] + k
          BY <4>2, <5>1
        <5> QED
          BY <1>2, <5>2, <5>3
      <4> QED
        BY <1>4, <4>1, <4>6
    <3> QED
      BY <1>5, <1>6, <1>7, <3>1, <3>2, <3>3
  <2> QED
    BY <2>1, <2>2
<1>12. ASSUME NEW i \in 0 .. Len(gs), NEW j \in 0 .. Len(gs), i <= j PROVE e[i] <= e[j]
  <2>1. CASE j = n + 1
    <3>1. CASE i = n + 1
      BY <1>2, <1>7, <2>1, <3>1
    <3>2. CASE i # n + 1
      <4>1. i \in 0 .. n
        BY <1>2, <1>6, <3>2
      <4>0. n \in 0 .. n
        BY <1>2
      <4>2. e[i] \in Int /\ e[i] <= ends[n] /\ ends[n] \in Int
        BY <1>7, <1>9, <4>0, <4>1
      <4>3. ends[n] <= Len(way)
        BY <1>2, <1>9, <4>2
      <4> QED
        BY <1>2, <1>7, <2>1, <4>2, <4>3, SMTT(60)
    <3> QED
      BY <3>1, <3>2
  <2>2. CASE j # n + 1
    <3>1. i \in 0 .. n /\ j \in 0 .. n /\ i \in 0 .. Len(hs) /\ j \in 0 .. Len(hs)
      BY <1>2, <1>5, <1>6, <1>12, <2>2
    <3> QED
      BY <1>7, <1>8, <1>12, <3>1 DEF Laid
  <2> QED
    BY <2>1, <2>2
<1>13. Laid(w, gs, e)
  BY <1>7, <1>10, <1>11, <1>12 DEF Laid
<1> QED
  BY <1>13 DEF Framed, w, gs
=============================================================================
