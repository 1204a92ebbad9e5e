---------------------------- MODULE RpcStreamProofs ----------------------------
(* Proofs about LengthCoder.tla and RpcStream.tla, for every buffer size, any *)
(* base and length of the header, any threads and any set of messages.       *)
EXTENDS RpcStream, FixedBufferProofs, WellFoundedInduction

USE HeaderAssumption
-----------------------------------------------------------------------------
(* Induction over an interval, stated of a set: what the library states of   *)
(* an operator cannot be instantiated.                                       *)
LEMMA Least ==
    ASSUME NEW T, T \subseteq Nat, T # {}
    PROVE  \E n \in T : \A m \in T : n <= m
<1> DEFINE R == {p \in Nat \X Nat : p[1] < p[2]}
<1>1. IsWellFoundedOn(R, Nat)
  BY NatLessThanWellFounded DEF OpToRel
<1>2. \A m, n \in Nat : ~ <<m, n>> \in R => n <= m
  OBVIOUS
<1> HIDE DEF R
<1>3. \E n \in T : \A m \in T : ~ <<m, n>> \in R
  BY <1>1, WFMin
<1> QED
  BY <1>2, <1>3

LEMMA IntervalInduction ==
    ASSUME NEW h \in Nat, NEW S, 0 \in S, \A i \in 1 .. h : i - 1 \in S => i \in S
    PROVE  0 .. h \subseteq S
<1> DEFINE T == (0 .. h) \ S
<1>1. SUFFICES ASSUME T # {} PROVE FALSE
  OBVIOUS
<1>2. PICK n \in T : \A m \in T : n <= m
  <2>1. T \subseteq Nat
    OBVIOUS
  <2> HIDE DEF T
  <2> QED
    BY <1>1, <2>1, Least
<1>3. n \in 1 .. h /\ n - 1 \in 0 .. h /\ ~(n <= n - 1)
  OBVIOUS
<1>4. n - 1 \in S
  BY <1>2, <1>3
<1> QED
  BY <1>3, <1>4

(* A function that is defined by recursion over an interval exists.          *)
LEMMA RecursionExists ==
    ASSUME NEW h \in Nat, NEW start \in Int, NEW G \in [(1 .. h) \X Int -> Int]
    PROVE  \E f \in [0 .. h -> Int] :
              f[0] = start /\ \A i \in 1 .. h : f[i] = G[<<i, f[i - 1]>>]
<1> DEFINE Good(n, f) == /\ f \in [0 .. n -> Int] /\ f[0] = start
                         /\ \A i \in 1 .. n : f[i] = G[<<i, f[i - 1]>>]
           S == {n \in 0 .. h : \E f : Good(n, f)}
<1>1. 0 \in S
  <2>1. Good(0, [n \in 0 .. 0 |-> start])
    OBVIOUS
  <2> HIDE DEF Good
  <2> QED
    BY <2>1
<1>2. ASSUME NEW i \in 1 .. h, i - 1 \in S PROVE i \in S
  <2>1. PICK f : Good(i - 1, f)
    BY <1>2
  <2> DEFINE g == [n \in 0 .. i |-> IF n = i THEN G[<<i, f[i - 1]>>] ELSE f[n]]
  <2>2. i - 1 \in 0 .. i - 1 /\ f[i - 1] \in Int
    BY <2>1
  <2>3. G[<<i, f[i - 1]>>] \in Int
    BY <2>2
  <2>4. g \in [0 .. i -> Int] /\ g[0] = start /\ g[i] = G[<<i, f[i - 1]>>]
    BY <2>1, <2>3
  <2>5. \A n \in 0 .. i - 1 : g[n] = f[n]
    OBVIOUS
  <2>6. ASSUME NEW j \in 1 .. i PROVE g[j] = G[<<j, g[j - 1]>>]
    <3>1. CASE j = i
      BY <2>2, <2>4, <2>5, <3>1
    <3>2. CASE j # i
      <4>1. j \in 1 .. i - 1 /\ j \in 0 .. i - 1 /\ j - 1 \in 0 .. i - 1
        BY <3>2
      <4> QED
        BY <2>1, <2>5, <4>1
    <3> QED
      BY <3>1, <3>2
  <2>7. Good(i, g)
    BY <2>4, <2>6
  <2> HIDE DEF Good, g
  <2> QED
    BY <2>7
<1> HIDE DEF S
<1>3. 0 .. h \subseteq S
  BY <1>1, <1>2, IntervalInduction
<1>4. h \in S
  BY <1>3
<1> QED
  BY <1>4 DEF S
-----------------------------------------------------------------------------
(* Lengths.                                                                  *)

LEMMA PowerDefined ==
    /\ power \in [0 .. HEADER -> Int]
    /\ power[0] = 1
    /\ \A n \in 1 .. HEADER : power[n] = Digit * power[n - 1]
<1> DEFINE G == [p \in (1 .. HEADER) \X Int |-> Digit * p[2]]
           Def(f) == [n \in 0 .. HEADER |-> IF n = 0 THEN 1 ELSE Digit * f[n - 1]]
<1>1. G \in [(1 .. HEADER) \X Int -> Int]
  OBVIOUS
<1>2. PICK f \in [0 .. HEADER -> Int] :
        f[0] = 1 /\ \A i \in 1 .. HEADER : f[i] = G[<<i, f[i - 1]>>]
  <2>1. HEADER \in Nat /\ 1 \in Int
    OBVIOUS
  <2> HIDE DEF G, Def
  <2> HIDE HeaderAssumption
  <2> QED
    BY <1>1, <2>1, RecursionExists
<1>3. ASSUME NEW i \in 1 .. HEADER PROVE f[i] = Digit * f[i - 1]
  <2>1. f[i - 1] \in Int
    BY <1>2
  <2>2. G[<<i, f[i - 1]>>] = Digit * f[i - 1]
    BY <2>1
  <2> QED
    BY <1>2, <2>2
<1>4. f = Def(f)
  BY <1>2, <1>3
<1>5. power = Def(power)
  <2>1. power = CHOOSE g : g = Def(g)
    BY DEF power
  <2> QED
    BY <1>4, <2>1
<1>6. power[0] = 1 /\ \A n \in 1 .. HEADER : power[n] = Digit * power[n - 1]
  BY <1>5
<1> DEFINE S == {n \in 0 .. HEADER : power[n] \in Int}
<1>7. 0 \in S /\ \A i \in 1 .. HEADER : i - 1 \in S => i \in S
  BY <1>6, SMTT(60)
<1>8. 0 .. HEADER \subseteq S
  BY <1>7, IntervalInduction
<1> QED
  BY <1>5, <1>6, <1>8

LEMMA PowerType == \A n \in 0 .. HEADER : power[n] \in Nat /\ power[n] > 0
<1> DEFINE S == {n \in 0 .. HEADER : power[n] \in Nat /\ power[n] > 0}
<1>1. 0 \in S
  BY PowerDefined
<1>2. ASSUME NEW i \in 1 .. HEADER, i - 1 \in S PROVE i \in S
  <2>1. power[i - 1] \in Nat /\ power[i - 1] > 0 /\ i \in 0 .. HEADER
    BY <1>2
  <2>2. power[i] = Digit * power[i - 1]
    BY PowerDefined
  <2> QED
    BY <2>1, <2>2
<1>3. 0 .. HEADER \subseteq S
  <2> HIDE DEF S
  <2> QED
    BY <1>1, <1>2, IntervalInduction
<1> QED
  BY <1>3

(* Division. *)
LEMMA DivMod ==
    ASSUME NEW m \in Nat, NEW p \in Nat, p > 0
    PROVE  m \div p \in Nat /\ m % p \in 0 .. p - 1 /\ m = p * (m \div p) + (m % p)
OBVIOUS

LEMMA Monotonic ==
    ASSUME NEW p \in Nat, NEW a \in Int, NEW b \in Int, a <= b PROVE p * a <= p * b
OBVIOUS

LEMMA QuotientUnique ==
    ASSUME NEW p \in Nat, p > 0, NEW a \in Int, NEW b \in Int,
           NEW r \in 0 .. p - 1, NEW s \in 0 .. p - 1, p * a + r = p * b + s
    PROVE  a = b
<1>1. CASE a < b
  <2>1. p * (a + 1) <= p * b
    BY <1>1, Monotonic
  <2>2. p * (a + 1) = p * a + p
    OBVIOUS
  <2>3. p * a \in Int /\ p * b \in Int
    OBVIOUS
  <2> QED
    BY <2>1, <2>2, <2>3
<1>2. CASE b < a
  <2>1. p * (b + 1) <= p * a
    BY <1>2, Monotonic
  <2>2. p * (b + 1) = p * b + p
    OBVIOUS
  <2>3. p * a \in Int /\ p * b \in Int
    OBVIOUS
  <2> QED
    BY <2>1, <2>2, <2>3
<1> QED
  BY <1>1, <1>2

LEMMA SmallMod ==
    ASSUME NEW p \in Nat, NEW m \in Nat, m < p PROVE m % p = m
OBVIOUS

(* To divide twice is to divide by the product. *)
LEMMA DivOfDiv ==
    ASSUME NEW m \in Nat, NEW p \in Nat, p > 0, NEW d \in Nat, d > 0
    PROVE  (m \div p) \div d = m \div (d * p)
<1> DEFINE q == m \div p
           r == m % p
           k == q \div d
           s == q % d
<1>1. q \in Nat /\ r \in 0 .. p - 1 /\ m = p * q + r
  BY DivMod
<1> HIDE DEF q, r
<1>2. k \in Nat /\ s \in 0 .. d - 1 /\ q = d * k + s
  BY <1>1, DivMod
<1> HIDE DEF k, s
<1>3. d * p \in Nat /\ d * p > 0
  OBVIOUS
<1>4. /\ m \div (d * p) \in Nat /\ m % (d * p) \in 0 .. (d * p) - 1
      /\ m = (d * p) * (m \div (d * p)) + (m % (d * p))
  BY <1>3, DivMod
<1>5. m = (d * p) * k + (p * s + r)
  BY <1>1, <1>2
<1>6. p * s + r \in 0 .. (d * p) - 1
  <2>1. p * s <= p * (d - 1)
    BY <1>2, Monotonic
  <2>2. p * (d - 1) = d * p - p
    OBVIOUS
  <2>3. p * 0 <= p * s
    BY <1>2, Monotonic
  <2>4. p * s \in Int
    BY <1>2
  <2> QED
    BY <1>1, <1>3, <2>1, <2>2, <2>3, <2>4
<1>7. k = m \div (d * p)
  <2> DEFINE e == d * p
             f == m \div e
             t == m % e
             u == p * s + r
  <2>1. e \in Nat /\ e > 0 /\ f \in Int /\ k \in Int /\ t \in 0 .. e - 1 /\ u \in 0 .. e - 1
    BY <1>2, <1>3, <1>4, <1>6
  <2>2. e * k + u = e * f + t
    BY <1>4, <1>5
  <2> HIDE DEF e, f, t, u
  <2>3. k = f
    BY <2>1, <2>2, QuotientUnique
  <2> QED
    BY <2>3 DEF e, f
<1> QED
  BY <1>7 DEF k, q

(* What AppendInt32() appends. *)
LEMMA Encoded ==
    ASSUME NEW m \in Nat
    PROVE  /\ encode(m) \in Seq(Int) /\ Len(encode(m)) = HEADER
           /\ \A i \in 1 .. HEADER : encode(m)[i] = (m \div power[HEADER - i]) % Digit
<1>1. ASSUME NEW i \in 1 .. HEADER PROVE (m \div power[HEADER - i]) % Digit \in Int
  <2>1. HEADER - i \in 0 .. HEADER
    OBVIOUS
  <2>2. power[HEADER - i] \in Nat /\ power[HEADER - i] > 0
    BY <2>1, PowerType
  <2>3. m \div power[HEADER - i] \in Nat
    BY <2>2, DivMod
  <2> QED
    BY <2>3, DivMod
<1> QED
  BY <1>1 DEF encode

(* decode() reads the number that was encoded, as long as it fits into the   *)
(* header: after i digits it has the number but for its last HEADER - i      *)
(* digits.                                                                   *)
THEOREM DecodeEncode ==
    ASSUME NEW m \in Nat, m < power[HEADER],
           NEW b, \A i \in 1 .. HEADER : str(b, HEADER)[i] = encode(m)[i]
    PROVE  value(b) = m
<1> DEFINE c == str(b, HEADER)
           Def(f) == [i \in 0 .. HEADER |-> IF i = 0 THEN 0 ELSE f[i - 1] * Digit + c[i]]
           G == [p \in (1 .. HEADER) \X Int |-> p[2] * Digit + c[p[1]]]
           sum == CHOOSE f : f = Def(f)
<1>1. \A i \in 1 .. HEADER : c[i] = (m \div power[HEADER - i]) % Digit /\ c[i] \in Int
  <2>1. ASSUME NEW i \in 1 .. HEADER PROVE encode(m)[i] \in Int
    BY Encoded
  <2> QED
    BY <2>1, Encoded
<1>2. value(b) = sum[HEADER]
  BY DEF value
<1> HIDE DEF c
<1>3. G \in [(1 .. HEADER) \X Int -> Int]
  BY <1>1
<1>4. PICK f \in [0 .. HEADER -> Int] :
        f[0] = 0 /\ \A i \in 1 .. HEADER : f[i] = G[<<i, f[i - 1]>>]
  <2>1. HEADER \in Nat /\ 0 \in Int
    OBVIOUS
  <2> HIDE DEF G, Def
  <2> HIDE HeaderAssumption
  <2> QED
    BY <1>3, <2>1, RecursionExists
<1>5. ASSUME NEW i \in 1 .. HEADER PROVE f[i] = f[i - 1] * Digit + c[i]
  <2>1. f[i - 1] \in Int
    BY <1>4
  <2>2. G[<<i, f[i - 1]>>] = f[i - 1] * Digit + c[i]
    BY <2>1
  <2> QED
    BY <1>4, <2>2
<1>6. f = Def(f)
  BY <1>4, <1>5
<1>7. sum = Def(sum)
  BY <1>6
<1> HIDE DEF sum
<1>8. sum[0] = 0 /\ \A i \in 1 .. HEADER : sum[i] = sum[i - 1] * Digit + c[i]
  BY <1>7
<1> DEFINE S == {i \in 0 .. HEADER : sum[i] = m \div power[HEADER - i]}
<1>9. 0 \in S
  <2>1. power[HEADER] \in Nat
    BY PowerType
  <2>2. m \div power[HEADER] = 0
    BY <2>1, SMTT(60)
  <2>3. HEADER - 0 = HEADER
    OBVIOUS
  <2> QED
    BY <1>8, <2>2, <2>3
<1>10. ASSUME NEW i \in 1 .. HEADER, i - 1 \in S PROVE i \in S
  <2> DEFINE p == power[HEADER - i]
             q == m \div p
  <2>1. HEADER - i \in 0 .. HEADER /\ HEADER - (i - 1) \in 1 .. HEADER
        /\ (HEADER - (i - 1)) - 1 = HEADER - i
    OBVIOUS
  <2>2. p \in Nat /\ p > 0 /\ power[HEADER - (i - 1)] = Digit * p
    BY <2>1, PowerType, PowerDefined
  <2>3. sum[i - 1] = m \div (Digit * p)
    BY <1>10, <2>2
  <2>4. sum[i] = sum[i - 1] * Digit + (q % Digit)
    BY <1>1, <1>8
  <2> HIDE DEF p
  <2>5. q \in Nat /\ q \div Digit = m \div (Digit * p)
    <3>1. Digit \in Nat /\ Digit > 0
      OBVIOUS
    <3>2. m \div p \in Nat
      BY <2>2, DivMod
    <3>3. (m \div p) \div Digit = m \div (Digit * p)
      BY <2>2, <3>1, DivOfDiv
    <3> QED
      BY <3>2, <3>3
  <2> HIDE DEF q
  <2> DEFINE k == q \div Digit
             d == q % Digit
  <2>6. k \in Nat /\ d \in 0 .. Digit - 1 /\ q = Digit * k + d
    <3>1. Digit \in Nat /\ Digit > 0
      OBVIOUS
    <3> QED
      BY <2>5, <3>1, DivMod
  <2>7. sum[i] = k * Digit + d
    BY <2>3, <2>4, <2>5
  <2> HIDE DEF k, d
  <2>8. sum[i] = q
    BY <2>6, <2>7
  <2> QED
    BY <2>8 DEF p, q
<1>11. 0 .. HEADER \subseteq S
  <2> HIDE DEF S
  <2> QED
    BY <1>9, <1>10, IntervalInduction
<1>12. sum[HEADER] = m \div power[0]
  <2>1. HEADER \in S /\ HEADER - HEADER = 0
    BY <1>11
  <2> QED
    BY <2>1
<1> QED
  BY <1>2, <1>12, PowerDefined
-----------------------------------------------------------------------------
(* The stream of messages.                                                   *)
USE MsgAssumption

(* A message behind its header. *)
framed(m) == encode(m) \o Body(m)

(* The bytes that were sent and not taken, from the receiver back to the     *)
(* sender ...                                                                *)
OnTheWay == Chain(Chain(readbuf.bytes, wire), unread(writebuf))

(* ... and what they should be, but for a header whose body is still to come.*)
Coming == [i \in 1 .. Len(sent) - Len(got) |-> framed(sent[Len(got) + i])]

StreamTypeOK ==
    /\ writebuf \in Buffer /\ InOrder(writebuf)
    /\ readbuf \in Buffer /\ readbuf.reader = 0
    /\ wire \in Seq(Int)
    /\ sending \in [Writer -> Msg \cup {NoMsg}]
    /\ sent \in Seq(Msg) /\ got \in Seq(Seq(Int))

(* As long as nothing is spoiled, threads take turns. *)
OneSends == \A v, w \in Writer : ~Idle(v) /\ ~Idle(w) => v = w

NothingToReset == loop = "reset" => unread(writebuf) = <<>>

FramesOnTheWay ==
    /\ (\A w \in Writer : Idle(w)) => Framed(OnTheWay, Coming)
    /\ \A w \in Writer :
          ~Idle(w) => Framed(OnTheWay, Append(Coming, encode(sending[w])))

StreamInv ==
    spoiled = {} => /\ StreamTypeOK /\ OneSends /\ NothingToReset
                    /\ FramesIntact /\ FramesOnTheWay

LEMMA MsgFacts ==
    ASSUME NEW m \in Msg
    PROVE  /\ m \in Nat /\ m > 0 /\ m # NoMsg
           /\ m + HEADER < power[HEADER] /\ m < power[HEADER]
           /\ encode(m) \in Seq(Int) /\ Len(encode(m)) = HEADER
           /\ Body(m) \in Seq(Int) /\ Len(Body(m)) = m
           /\ framed(m) \in Seq(Int) /\ Len(framed(m)) = HEADER + m
           /\ \A i \in 1 .. HEADER : framed(m)[i] = encode(m)[i]
           /\ \A i \in 1 .. m : framed(m)[HEADER + i] = Body(m)[i]
<1>1. m \in Nat /\ m > 0 /\ m # NoMsg
  BY DEF NoMsg
<1>2. m + HEADER < power[HEADER] /\ m < power[HEADER]
  <2>1. power[HEADER] \in Nat
    BY PowerType
  <2> QED
    BY <1>1, <2>1
<1>3. encode(m) \in Seq(Int) /\ Len(encode(m)) = HEADER
  BY <1>1, Encoded
<1>4. Body(m) \in Seq(Int) /\ Len(Body(m)) = m
  BY <1>1 DEF Body
<1>5. /\ framed(m) \in Seq(Int) /\ Len(framed(m)) = Len(encode(m)) + Len(Body(m))
      /\ \A i \in 1 .. Len(encode(m)) : framed(m)[i] = encode(m)[i]
      /\ \A i \in 1 .. Len(Body(m)) : framed(m)[Len(encode(m)) + i] = Body(m)[i]
  BY <1>3, <1>4, Joined DEF framed
<1> QED
  BY <1>1, <1>2, <1>3, <1>4, <1>5

LEMMA ComingType ==
    ASSUME StreamTypeOK, Len(got) <= Len(sent)
    PROVE  /\ Coming \in Seq(Frame) /\ Len(Coming) = Len(sent) - Len(got)
           /\ \A i \in 1 .. Len(sent) - Len(got) :
                 /\ Len(got) + i \in 1 .. Len(sent)
                 /\ Coming[i] = framed(sent[Len(got) + i])
<1>1. Len(got) \in Nat /\ Len(sent) \in Nat
  BY DEF StreamTypeOK
<1> DEFINE n == Len(sent) - Len(got)
<1>2. n \in Nat
  BY <1>1
<1>3. ASSUME NEW i \in 1 .. n PROVE Len(got) + i \in 1 .. Len(sent)
  BY <1>1, <1>2
<1>4. \A i \in 1 .. n : framed(sent[Len(got) + i]) \in Frame
  <2>1. \A i \in 1 .. n : sent[Len(got) + i] \in Msg
    BY <1>3 DEF StreamTypeOK
  <2> QED
    BY <2>1, MsgFacts DEF Frame
<1>5. Coming = [i \in 1 .. n |-> framed(sent[Len(got) + i])]
  BY DEF Coming
<1> HIDE DEF n
<1>6. /\ Coming \in Seq(Frame) /\ Len(Coming) = n
      /\ \A i \in 1 .. n : Coming[i] = framed(sent[Len(got) + i])
  BY <1>2, <1>4, <1>5
<1> QED
  BY <1>3, <1>6 DEF n

(* Nothing is on its way at first. *)
LEMMA InitStreamInv == Init => StreamInv
<1> SUFFICES ASSUME Init PROVE StreamInv
  OBVIOUS
<1>1. /\ writebuf = Empty /\ readbuf = Empty /\ wire = <<>>
      /\ sent = <<>> /\ got = <<>> /\ loop = "idle"
      /\ sending = [w \in Writer |-> NoMsg]
  BY DEF Init
<1>2. StreamTypeOK
  BY <1>1 DEF StreamTypeOK, Empty, Buffer, InOrder, writer
<1>3. FramesIntact
  BY <1>1 DEF FramesIntact
<1>4. OnTheWay = <<>>
  <2>1. unread(writebuf) = <<>>
    BY <1>1, SubSeqEmpty DEF unread, Empty, writer
  <2> QED
    BY <1>1, <2>1 DEF OnTheWay, Empty, Chain
<1>5. Coming = <<>>
  BY <1>1 DEF Coming
<1>6. OneSends /\ NothingToReset /\ \A w \in Writer : Idle(w)
  BY <1>1 DEF OneSends, NothingToReset, Idle
<1> QED
  BY <1>2, <1>3, <1>4, <1>5, <1>6, FramedEmpty DEF StreamInv, FramesOnTheWay

(* Bytes that move on, and steps that move none, leave it as it is. *)
LEMMA SameStream ==
    ASSUME StreamInv, UNCHANGED <<sending, sent, got>>, spoiled' = {} => spoiled = {},
           spoiled' = {} => StreamTypeOK' /\ NothingToReset' /\ OnTheWay' = OnTheWay
    PROVE  StreamInv'
<1> SUFFICES ASSUME spoiled' = {}
             PROVE  OneSends' /\ FramesIntact' /\ FramesOnTheWay'
  BY DEF StreamInv
<1>1. OneSends /\ FramesIntact /\ FramesOnTheWay /\ spoiled = {}
  BY DEF StreamInv
<1>2. Coming' = Coming /\ OnTheWay' = OnTheWay /\ UNCHANGED <<sending, sent, got>>
  BY DEF Coming
<1> QED
  BY <1>1, <1>2 DEF OneSends, FramesIntact, FramesOnTheWay, Idle

(* What append() puts into the write buffer comes last. *)
LEMMA PutBehind ==
    ASSUME StreamTypeOK, NEW s \in Seq(Int), ~TooLong(writebuf, s),
           writebuf' = append(writebuf, s), UNCHANGED <<wire, readbuf>>
    PROVE  /\ writebuf' \in Buffer /\ InOrder(writebuf')
           /\ OnTheWay \in Seq(Int) /\ OnTheWay' = OnTheWay \o s
<1>1. Len(s) <= writable(writebuf)
  <2>1. Len(writebuf.bytes) \in Int /\ Len(s) \in Int
    BY DEF StreamTypeOK, Buffer
  <2>2. writable(writebuf) \in Int
    BY <2>1, BufferAssumption DEF writable, writer
  <2> QED
    BY <2>1, <2>2 DEF TooLong
<1>2. /\ writebuf' \in Buffer /\ InOrder(writebuf')
      /\ unread(writebuf') = unread(writebuf) \o s
      /\ unread(writebuf) \in Seq(Int)
  BY <1>1, AppendAll, Unread DEF StreamTypeOK
<1> DEFINE before == Chain(readbuf.bytes, wire)
           d == unread(writebuf)
<1>3. before \in Seq(Int)
  BY ChainType DEF StreamTypeOK, Buffer
<1>4. OnTheWay = Chain(before, d) /\ OnTheWay' = Chain(before, Chain(d, s))
  BY <1>2 DEF OnTheWay, Chain
<1>5. d \in Seq(Int)
  BY <1>2
<1> HIDE DEF before, d
<1>6. OnTheWay' = Chain(OnTheWay, s) /\ OnTheWay \in Seq(Int)
  BY <1>3, <1>4, <1>5, ChainAssociative, ChainType
<1> QED
  BY <1>2, <1>6 DEF Chain

(* A header, put behind messages that are complete. *)
LEMMA AppendInt32StreamInv ==
    ASSUME StreamInv, NEW w \in Writer, NEW m \in Msg, AppendInt32(w, m) PROVE StreamInv'
<1> SUFFICES ASSUME spoiled' = {} PROVE StreamInv'
  BY DEF StreamInv
<1>1. /\ writebuf' = append(writebuf, encode(m)) /\ sending' = [sending EXCEPT ![w] = m]
      /\ UNCHANGED <<loop, wire, readbuf, sent, got>>
  BY DEF AppendInt32
<1>2. /\ spoiled = {} /\ (\A v \in Writer : Idle(v)) /\ loop # "reset"
      /\ ~TooLong(writebuf, encode(m))
  BY DEF AppendInt32, Reason
<1>3. StreamTypeOK /\ FramesIntact /\ Framed(OnTheWay, Coming)
  BY <1>2 DEF StreamInv, FramesOnTheWay
<1>4. encode(m) \in Seq(Int)
  BY MsgFacts
<1>5. /\ writebuf' \in Buffer /\ InOrder(writebuf')
      /\ OnTheWay \in Seq(Int) /\ OnTheWay' = OnTheWay \o encode(m)
  BY <1>1, <1>2, <1>3, <1>4, PutBehind
<1>6. StreamTypeOK'
  BY <1>1, <1>3, <1>5 DEF StreamTypeOK
<1>7. sending'[w] = m /\ \A v \in Writer \ {w} : sending'[v] = NoMsg
  BY <1>1, <1>2, <1>3 DEF StreamTypeOK, Idle
<1>8. OneSends' /\ NothingToReset' /\ FramesIntact'
  BY <1>1, <1>2, <1>3, <1>7 DEF OneSends, NothingToReset, FramesIntact, Idle
<1>9. Framed(OnTheWay', Append(Coming', encode(m)))
  <2>1. Len(got) <= Len(sent)
    BY <1>2, <1>3 DEF FramesIntact
  <2>2. Coming' = Coming /\ Coming \in Seq(Frame) /\ encode(m) \in Frame
    BY <1>1, <1>3, <1>4, <2>1, ComingType DEF Coming, Frame
  <2> QED
    BY <1>3, <1>5, <2>2, FramedAppend
<1>10. FramesOnTheWay'
  <2>1. m # NoMsg
    BY MsgFacts
  <2> QED
    BY <1>7, <1>9, <2>1 DEF FramesOnTheWay, Idle
<1> QED
  BY <1>6, <1>8, <1>10 DEF StreamInv

(* ... and its body, behind the header. *)
LEMMA SendStreamInv ==
    ASSUME StreamInv, NEW w \in Writer, send(w) PROVE StreamInv'
<1> SUFFICES ASSUME spoiled' = {} PROVE StreamInv'
  BY DEF StreamInv
<1> DEFINE m == sending[w]
<1>1. /\ writebuf' = append(writebuf, c_str(m)) /\ sent' = Append(sent, m)
      /\ sending' = [sending EXCEPT ![w] = NoMsg]
      /\ UNCHANGED <<loop, wire, readbuf, got>>
      /\ ~Idle(w) /\ loop = "idle"
  BY DEF send
<1>2. spoiled = {} /\ c_str(m) = Body(m) /\ ~TooLong(writebuf, Body(m))
  BY DEF send, Reason
<1>3. /\ StreamTypeOK /\ OneSends /\ FramesIntact
      /\ Framed(OnTheWay, Append(Coming, encode(m)))
  BY <1>1, <1>2 DEF StreamInv, FramesOnTheWay
<1>4. m \in Msg
  BY <1>1, <1>3 DEF StreamTypeOK, Idle
<1>5. \A v \in Writer : sending'[v] = NoMsg
  BY <1>1, <1>3 DEF StreamTypeOK, OneSends, Idle
<1>6. sending' \in [Writer -> Msg \cup {NoMsg}]
  BY <1>1, <1>3 DEF StreamTypeOK
<1> HIDE DEF m
<1>7. encode(m) \in Seq(Int) /\ Body(m) \in Seq(Int) /\ framed(m) \in Seq(Int)
  BY <1>4, MsgFacts
<1>8. /\ writebuf' \in Buffer /\ InOrder(writebuf')
      /\ OnTheWay \in Seq(Int) /\ OnTheWay' = OnTheWay \o Body(m)
  BY <1>1, <1>2, <1>3, <1>7, PutBehind
<1>9. /\ sent' \in Seq(Msg) /\ Len(sent') = Len(sent) + 1 /\ sent'[Len(sent) + 1] = m
      /\ \A i \in 1 .. Len(sent) : sent'[i] = sent[i]
  BY <1>1, <1>3, <1>4, AppendProperties DEF StreamTypeOK
<1>10. StreamTypeOK'
  BY <1>1, <1>3, <1>6, <1>8, <1>9 DEF StreamTypeOK
<1>11. Len(got) \in Nat /\ Len(sent) \in Nat /\ Len(got) <= Len(sent)
  BY <1>2, <1>3 DEF StreamTypeOK, FramesIntact
<1>12. FramesIntact'
  BY <1>1, <1>2, <1>3, <1>9, <1>11 DEF FramesIntact
<1>13. Coming \in Seq(Frame) /\ Coming' = Append(Coming, framed(m))
  <2> DEFINE n == Len(sent) - Len(got)
             cs == Append(Coming, framed(m))
  <2>1. n \in Nat
    BY <1>11
  <2>2. /\ Coming \in Seq(Frame) /\ Len(Coming) = n
        /\ \A i \in 1 .. n : /\ Len(got) + i \in 1 .. Len(sent)
                            /\ Coming[i] = framed(sent[Len(got) + i])
    BY <1>3, <1>11, ComingType
  <2>3. /\ cs \in Seq(Frame) /\ Len(cs) = n + 1
        /\ \A i \in 1 .. n : cs[i] = Coming[i]
        /\ cs[n + 1] = framed(m)
    <3>1. framed(m) \in Frame
      BY <1>7 DEF Frame
    <3> HIDE DEF n
    <3> QED
      BY <2>1, <2>2, <3>1, AppendProperties
  <2> HIDE DEF cs
  <2>4. Coming' = [i \in 1 .. n + 1 |-> framed(sent'[Len(got) + i])]
    <3>1. Len(sent') - Len(got') = n + 1
      BY <1>1, <1>9, <1>11
    <3> QED
      BY <1>1, <3>1 DEF Coming
  <2>5. ASSUME NEW i \in 1 .. n + 1 PROVE framed(sent'[Len(got) + i]) = cs[i]
    <3>1. CASE i = n + 1
      BY <1>9, <1>11, <2>3, <3>1
    <3>2. CASE i # n + 1
      <4>1. i \in 1 .. n
        BY <2>1, <3>2
      <4> QED
        BY <1>9, <2>2, <2>3, <4>1
    <3> QED
      BY <3>1, <3>2
  <2>6. cs = [i \in 1 .. n + 1 |-> cs[i]]
    <3>1. cs \in [1 .. n + 1 -> Frame]
      BY <2>3, LenProperties
    <3> QED
      BY <3>1
  <2>7. Coming' = cs
    BY <2>4, <2>5, <2>6
  <2> QED
    BY <2>2, <2>7 DEF cs
<1>14. Framed(OnTheWay', Coming')
  BY <1>3, <1>7, <1>8, <1>13, FramedExtend DEF Frame, framed
<1> QED
  BY <1>1, <1>5, <1>10, <1>12, <1>14
     DEF StreamInv, OneSends, NothingToReset, FramesOnTheWay, Idle

(* The sender's loop thread writes, and resets the buffer. *)
LEMMA LoopStreamInv ==
    ASSUME StreamInv, LoopStep, spoiled = {} PROVE StreamInv'
<1>1. StreamTypeOK /\ NothingToReset /\ UNCHANGED <<sending, readbuf, sent, got, spoiled>>
  BY DEF StreamInv, LoopStep, WriteSome, WriteNothing, Reset
<1> SUFFICES StreamTypeOK' /\ NothingToReset' /\ OnTheWay' = OnTheWay
  BY <1>1, SameStream
<1> DEFINE a == readbuf.bytes
           d == unread(writebuf)
<1>2. a \in Seq(Int) /\ wire \in Seq(Int) /\ d \in Seq(Int) /\ Len(d) = readable(writebuf)
  BY <1>1, Unread DEF StreamTypeOK, Buffer
<1>3. CASE WriteSome
  <2>1. PICK n \in 1 .. smaller(readable(writebuf), Chunk) :
          wire' = wire \o str(writebuf, n) /\ writebuf' = read(writebuf, n)
    BY <1>3 DEF WriteSome
  <2>2. n \in Nat /\ n <= readable(writebuf)
    <3>1. readable(writebuf) \in Nat /\ Chunk \in Nat
      BY <1>2
    <3> QED
      BY <2>1, <3>1 DEF smaller
  <2>3. /\ str(writebuf, n) = SubSeq(d, 1, n)
        /\ writebuf' \in Buffer /\ InOrder(writebuf')
        /\ unread(writebuf') = SubSeq(d, n + 1, Len(d))
    BY <1>1, <2>1, <2>2, StrIsRead DEF StreamTypeOK
  <2> DEFINE p == SubSeq(d, 1, n)
             q == SubSeq(d, n + 1, Len(d))
  <2>4. p \in Seq(Int) /\ q \in Seq(Int) /\ Chain(p, q) = d
    BY <1>2, <2>2, TwoPieces
  <2>5. wire' = Chain(wire, p) /\ wire' \in Seq(Int)
    BY <1>2, <2>1, <2>3, <2>4, Joined DEF Chain
  <2>6. /\ OnTheWay = Chain(Chain(a, wire), d)
        /\ OnTheWay' = Chain(Chain(a, Chain(wire, p)), q)
    BY <1>1, <2>3, <2>5 DEF OnTheWay
  <2> HIDE DEF a, d, p, q
  <2>7. OnTheWay' = OnTheWay
    BY <1>2, <2>4, <2>6, MovedAlong
  <2>8. loop' # "reset"
    BY <1>3 DEF WriteSome
  <2> QED
    BY <1>1, <2>3, <2>5, <2>7, <2>8 DEF StreamTypeOK, NothingToReset
<1>4. CASE WriteNothing
  <2>1. UNCHANGED <<writebuf, wire>> /\ d = <<>>
    <3>1. UNCHANGED <<writebuf, wire>> /\ Len(d) = 0
      BY <1>2, <1>4 DEF WriteNothing
    <3> QED
      BY <1>2, <3>1, EmptySeq
  <2>2. OnTheWay' = OnTheWay /\ unread(writebuf') = unread(writebuf)
    BY <1>1, <2>1 DEF OnTheWay
  <2> QED
    BY <1>1, <2>1, <2>2 DEF StreamTypeOK, NothingToReset
<1>5. CASE Reset
  <2>1. writebuf' = Empty /\ wire' = wire /\ d = <<>> /\ loop' # "reset"
    BY <1>1, <1>5 DEF Reset, readall, NothingToReset
  <2>2. writebuf' \in Buffer /\ InOrder(writebuf') /\ unread(writebuf') = <<>>
    <3>1. Empty \in Buffer /\ InOrder(Empty) /\ unread(Empty) = <<>>
      BY SubSeqEmpty DEF Empty, Buffer, InOrder, writer, unread
    <3> QED
      BY <2>1, <3>1
  <2>3. OnTheWay' = OnTheWay
    BY <1>1, <2>1, <2>2 DEF OnTheWay
  <2> QED
    BY <1>1, <2>1, <2>2, <2>3 DEF StreamTypeOK, NothingToReset
<1> QED
  BY <1>3, <1>4, <1>5 DEF LoopStep

(* onRead() takes over what arrived. *)
LEMMA ReadStreamInv == ASSUME StreamInv, ReadSome PROVE StreamInv'
<1> SUFFICES ASSUME spoiled' = {}
             PROVE  StreamTypeOK' /\ NothingToReset' /\ OnTheWay' = OnTheWay
  BY SameStream DEF ReadSome
<1>1. PICK n \in 1 .. smaller(Len(wire), Chunk) :
        /\ readbuf' = append(readbuf, SubSeq(wire, 1, n))
        /\ wire' = SubSeq(wire, n + 1, Len(wire))
        /\ spoiled' = spoiled \cup Reason(TooLong(readbuf, SubSeq(wire, 1, n)), "full")
  BY DEF ReadSome
<1> DEFINE a == readbuf.bytes
           s == SubSeq(wire, 1, n)
           t == SubSeq(wire, n + 1, Len(wire))
<1>2. spoiled = {} /\ ~TooLong(readbuf, s)
  BY <1>1 DEF Reason
<1>3. StreamTypeOK /\ NothingToReset /\ UNCHANGED <<writebuf, loop, sending, sent, got>>
  BY <1>2 DEF StreamInv, ReadSome
<1>4. /\ readbuf \in Buffer /\ InOrder(readbuf) /\ a \in Seq(Int) /\ wire \in Seq(Int)
      /\ n \in Nat /\ n <= Len(wire)
  <2>1. wire \in Seq(Int) /\ Len(wire) \in Nat /\ Chunk \in Nat
    BY <1>3 DEF StreamTypeOK
  <2>2. n \in Nat /\ n <= Len(wire)
    BY <1>1, <2>1 DEF smaller
  <2> QED
    BY <1>3, <2>1, <2>2 DEF StreamTypeOK, Buffer, InOrder, writer
<1>5. s \in Seq(Int) /\ Len(s) = n /\ t \in Seq(Int) /\ Chain(s, t) = wire
  BY <1>4, TwoPieces
<1>6. Len(s) <= writable(readbuf)
  <2>1. Len(readbuf.bytes) \in Int
    BY <1>4
  <2>2. writable(readbuf) \in Int
    BY <2>1, BufferAssumption DEF writable, writer
  <2> QED
    BY <1>2, <1>4, <1>5, <2>2 DEF TooLong
<1>7. readbuf' = append(readbuf, s) /\ wire' = t
  BY <1>1
<1> HIDE DEF s, t
<1>8. /\ readbuf' \in Buffer /\ readbuf'.reader = readbuf.reader
      /\ readbuf'.bytes = Chain(a, s)
  BY <1>4, <1>5, <1>6, <1>7, AppendAll DEF Chain
<1> DEFINE d == unread(writebuf)
<1>9. OnTheWay = Chain(Chain(a, wire), d) /\ OnTheWay' = Chain(Chain(Chain(a, s), t), d)
  BY <1>3, <1>7, <1>8 DEF OnTheWay
<1> HIDE DEF a, d
<1>10. OnTheWay' = OnTheWay
  BY <1>4, <1>5, <1>9, ChainAssociative
<1> QED
  BY <1>3, <1>5, <1>7, <1>8, <1>10 DEF StreamTypeOK, NothingToReset

(* The receiver.                                                             *)

(* With a header at the front of the buffer decode() knows the length.       *)
LEMMA HeaderRead ==
    ASSUME NEW b \in Buffer, b.reader = 0, NEW m \in Msg, HEADER <= Len(b.bytes),
           \A k \in 1 .. HEADER : b.bytes[k] = encode(m)[k]
    PROVE  value(b) = m /\ whole(b) = m + HEADER
<1>1. m \in Nat /\ m + HEADER < power[HEADER] /\ m < power[HEADER] /\ power[HEADER] \in Nat
  BY MsgFacts, PowerType, SMTT(60)
<1>2. value(b) = m
  <2>1. Len(b.bytes) \in Nat
    BY DEF Buffer
  <2>2. ASSUME NEW i \in 1 .. HEADER PROVE str(b, HEADER)[i] = encode(m)[i]
    <3>1. b.reader + i = i /\ i \in 1 .. writer(b)
      BY <2>1 DEF writer
    <3> QED
      BY <3>1 DEF str
  <2> QED
    BY <1>1, <2>2, DecodeEncode
<1>3. whole(b) = (m + HEADER) % power[HEADER]
  BY <1>2 DEF whole
<1>4. m + HEADER \in Nat
  BY <1>1
<1> QED
  BY <1>1, <1>2, <1>3, <1>4, SmallMod

(* The read buffer is the beginning of what is on its way. *)
LEMMA BufferFirst ==
    ASSUME StreamTypeOK
    PROVE  /\ OnTheWay \in Seq(Int) /\ Len(readbuf.bytes) <= Len(OnTheWay)
           /\ \A i \in 1 .. Len(readbuf.bytes) : OnTheWay[i] = readbuf.bytes[i]
<1> DEFINE a == readbuf.bytes
           b == Chain(a, wire)
           d == unread(writebuf)
<1>1. a \in Seq(Int) /\ wire \in Seq(Int) /\ d \in Seq(Int) /\ OnTheWay = Chain(b, d)
  BY Unread DEF StreamTypeOK, Buffer, OnTheWay
<1> HIDE DEF a, d
<1>2. /\ b \in Seq(Int) /\ Len(b) = Len(a) + Len(wire)
      /\ \A i \in 1 .. Len(a) : b[i] = a[i]
  BY <1>1, Joined DEF Chain
<1> HIDE DEF b
<1>3. /\ OnTheWay \in Seq(Int) /\ Len(OnTheWay) = Len(b) + Len(d)
      /\ \A i \in 1 .. Len(b) : OnTheWay[i] = b[i]
  BY <1>1, <1>2, Joined, ZenonT(60) DEF Chain
<1>4. Len(a) \in Nat /\ Len(wire) \in Nat /\ Len(d) \in Nat /\ Len(b) \in Nat
  BY <1>1, <1>2
<1>5. Len(a) <= Len(b) /\ Len(b) <= Len(OnTheWay)
  BY <1>2, <1>3, <1>4
<1>6. ASSUME NEW i \in 1 .. Len(a) PROVE OnTheWay[i] = a[i]
  <2>1. i \in 1 .. Len(b)
    BY <1>4, <1>5
  <2> QED
    BY <1>2, <1>3, <2>1
<1>7. Len(a) <= Len(OnTheWay)
  BY <1>3, <1>4, <1>5
<1> QED
  BY <1>3, <1>6, <1>7 DEF a

(* A header whose body is still to come is not taken for a message.          *)
LEMMA HeaderAlone ==
    ASSUME StreamTypeOK, NEW m \in Msg, Framed(OnTheWay, <<encode(m)>>)
    PROVE  ~Decodable(readbuf)
<1> DEFINE a == readbuf.bytes
           fs == <<encode(m)>>
<1>1. /\ a \in Seq(Int) /\ Len(a) \in Nat /\ readable(readbuf) = Len(a)
      /\ readbuf \in Buffer /\ readbuf.reader = 0
  BY DEF StreamTypeOK, Buffer, readable, writer
<1>2. m \in Nat /\ m > 0 /\ encode(m) \in Seq(Int) /\ Len(encode(m)) = HEADER
  BY MsgFacts
<1>3. /\ OnTheWay \in Seq(Int) /\ Len(a) <= Len(OnTheWay)
      /\ \A i \in 1 .. Len(a) : OnTheWay[i] = a[i]
  BY BufferFirst
<1>4. fs \in Seq(Frame) /\ fs # <<>> /\ fs[1] = encode(m) /\ Tail(fs) = <<>>
  BY <1>2 DEF Frame
<1>5. Framed(OnTheWay, fs)
  OBVIOUS
<1> HIDE DEF a, fs
<1>6. /\ Len(fs[1]) <= Len(OnTheWay)
      /\ \A k \in 1 .. Len(fs[1]) : OnTheWay[k] = fs[1][k]
      /\ Framed(SubSeq(OnTheWay, Len(fs[1]) + 1, Len(OnTheWay)), Tail(fs))
  BY <1>3, <1>4, <1>5, FramedHead
<1>7. Len(OnTheWay) = HEADER
  <2> DEFINE t == SubSeq(OnTheWay, HEADER + 1, Len(OnTheWay))
  <2>1. Len(OnTheWay) \in Nat /\ HEADER <= Len(OnTheWay)
    BY <1>2, <1>3, <1>4, <1>6
  <2>2. t \in Seq(Int) /\ Len(t) = Len(OnTheWay) - HEADER
    BY <1>3, <2>1, Piece
  <2>3. Framed(t, <<>>)
    BY <1>2, <1>4, <1>6
  <2> HIDE DEF t
  <2>4. Len(t) = 0
    BY <2>2, <2>3, FramedNothing
  <2> QED
    BY <2>1, <2>2, <2>4
<1>8. SUFFICES ASSUME HEADER <= Len(a), whole(readbuf) <= Len(a) PROVE FALSE
  BY <1>1 DEF Decodable
<1>9. \A k \in 1 .. HEADER : a[k] = encode(m)[k]
  <2>1. ASSUME NEW k \in 1 .. HEADER PROVE a[k] = encode(m)[k]
    <3>1. k \in 1 .. Len(a) /\ k \in 1 .. Len(fs[1])
      BY <1>1, <1>2, <1>4, <1>8
    <3> QED
      BY <1>3, <1>4, <1>6, <3>1
  <2> QED
    BY <2>1
<1>10. whole(readbuf) = m + HEADER
  BY <1>1, <1>8, <1>9, HeaderRead DEF a
<1> QED
  BY <1>1, <1>2, <1>3, <1>7, <1>8, <1>10

(* decode() takes the message at the front.                                  *)
LEMMA TakesFirst ==
    ASSUME StreamTypeOK, NEW fs \in Seq(Frame), fs # <<>>, Framed(OnTheWay, fs),
           NEW m \in Msg, fs[1] = framed(m), Decodable(readbuf)
    PROVE  /\ Message(readbuf) = Body(m)
           /\ Decoded(readbuf) \in Buffer /\ Decoded(readbuf).reader = 0
           /\ Decoded(readbuf).bytes
                = SubSeq(readbuf.bytes, (HEADER + m) + 1, Len(readbuf.bytes))
           /\ HEADER + m <= Len(readbuf.bytes)
<1> DEFINE a == readbuf.bytes
           n == HEADER + m
<1>1. /\ a \in Seq(Int) /\ Len(a) \in Nat /\ readable(readbuf) = Len(a)
      /\ readbuf \in Buffer /\ readbuf.reader = 0 /\ InOrder(readbuf)
  BY DEF StreamTypeOK, Buffer, readable, writer, InOrder
<1>2. /\ m \in Nat /\ framed(m) \in Seq(Int) /\ Len(framed(m)) = n
      /\ \A i \in 1 .. HEADER : framed(m)[i] = encode(m)[i]
      /\ Body(m) \in Seq(Int) /\ Len(Body(m)) = m
      /\ \A i \in 1 .. m : framed(m)[HEADER + i] = Body(m)[i]
  BY MsgFacts
<1>3. /\ OnTheWay \in Seq(Int) /\ Len(a) <= Len(OnTheWay)
      /\ \A i \in 1 .. Len(a) : OnTheWay[i] = a[i]
  BY BufferFirst
<1>4. n <= Len(OnTheWay) /\ \A k \in 1 .. n : OnTheWay[k] = framed(m)[k]
  <2>1. /\ Len(fs[1]) <= Len(OnTheWay)
        /\ \A k \in 1 .. Len(fs[1]) : OnTheWay[k] = fs[1][k]
    BY <1>3, FramedHead
  <2>2. Len(fs[1]) = n
    BY <1>2
  <2> HIDE DEF n
  <2> QED
    BY <2>1, <2>2
<1>5. HEADER <= Len(a) /\ whole(readbuf) <= Len(a)
  BY <1>1 DEF Decodable
<1> HIDE DEF a
<1>6. ASSUME NEW k \in 1 .. Len(a), k <= n PROVE a[k] = framed(m)[k]
  <2>1. k \in 1 .. n
    BY <1>1, <1>2, <1>6
  <2> QED
    BY <1>3, <1>4, <2>1
<1>7. value(readbuf) = m /\ whole(readbuf) = n
  <2>1. ASSUME NEW k \in 1 .. HEADER PROVE a[k] = encode(m)[k]
    <3>1. k \in 1 .. Len(a) /\ k <= n
      BY <1>1, <1>2, <1>5
    <3> QED
      BY <1>2, <1>6, <3>1
  <2>2. value(readbuf) = m /\ whole(readbuf) = m + HEADER
    BY <1>1, <1>5, <2>1, HeaderRead DEF a
  <2> QED
    BY <1>2, <2>2
<1>8. n \in Nat /\ n <= Len(a)
  BY <1>1, <1>2, <1>5, <1>7
<1>9. read(readbuf, HEADER).bytes = a /\ read(readbuf, HEADER).reader = HEADER
  <2>1. read(readbuf, HEADER) = [readbuf EXCEPT !.reader = 0 + HEADER]
    BY <1>1 DEF read
  <2> QED
    BY <1>1, <2>1 DEF a, Buffer
<1>10. Message(readbuf) = Body(m)
  <2>1. Message(readbuf) = str(read(readbuf, HEADER), m)
    BY <1>7 DEF Message
  <2>2. Message(readbuf) = [i \in 1 .. m |-> IF HEADER + i \in 1 .. Len(a)
                                               THEN a[HEADER + i] ELSE Garbage]
    BY <1>9, <2>1 DEF str, writer
  <2>3. ASSUME NEW i \in 1 .. m
        PROVE  HEADER + i \in 1 .. Len(a) /\ a[HEADER + i] = Body(m)[i]
    <3>1. HEADER + i \in 1 .. Len(a) /\ HEADER + i <= n
      BY <1>1, <1>2, <1>8
    <3> QED
      BY <1>2, <1>6, <3>1
  <2>4. Message(readbuf) = [i \in 1 .. m |-> Body(m)[i]]
    BY <2>2, <2>3
  <2> QED
    BY <2>4 DEF Body
<1>11. /\ Decoded(readbuf) = [bytes |-> SubSeq(a, n + 1, Len(a)), reader |-> 0]
       /\ SubSeq(a, n + 1, Len(a)) \in Seq(Int)
  <2>1. read(readbuf, n) = [readbuf EXCEPT !.reader = 0 + n]
    BY <1>1 DEF read
  <2>2. read(readbuf, n).bytes = a /\ read(readbuf, n).reader = n
    BY <1>1, <1>8, <2>1, SMTT(60) DEF a, Buffer
  <2>3. SubSeq(a, n + 1, Len(a)) \in Seq(Int)
    <3> HIDE DEF n
    <3> QED
      BY <1>1, <1>8, Piece
  <2> QED
    BY <1>7, <2>2, <2>3 DEF Decoded, move, writer
<1> QED
  BY <1>8, <1>10, <1>11 DEF a, Buffer

LEMMA DecodeStreamInv ==
    ASSUME StreamInv, decode, spoiled = {} PROVE StreamInv'
<1>1. /\ StreamTypeOK /\ OneSends /\ NothingToReset /\ FramesIntact /\ FramesOnTheWay
      /\ UNCHANGED <<writebuf, sending, loop, wire, sent, spoiled>>
  BY DEF StreamInv, decode
<1>2. CASE ~Decodable(readbuf)
  <2>1. UNCHANGED <<readbuf, got>>
    BY <1>2 DEF decode
  <2>2. StreamTypeOK' /\ NothingToReset' /\ OnTheWay' = OnTheWay
    BY <1>1, <2>1 DEF StreamTypeOK, NothingToReset, OnTheWay
  <2> QED
    BY <1>1, <2>1, <2>2, SameStream
<1>3. CASE Decodable(readbuf)
  <2>1. /\ got' = Append(got, Message(readbuf)) /\ readbuf' = Decoded(readbuf)
    BY <1>3 DEF decode
  <2>2. Len(got) \in Nat /\ Len(sent) \in Nat /\ Len(got) <= Len(sent)
    BY <1>1 DEF StreamTypeOK, FramesIntact
  <2>3. /\ Coming \in Seq(Frame) /\ Len(Coming) = Len(sent) - Len(got)
        /\ \A i \in 1 .. Len(sent) - Len(got) :
                 /\ Len(got) + i \in 1 .. Len(sent)
                 /\ Coming[i] = framed(sent[Len(got) + i])
    BY <1>1, <2>2, ComingType
  <2>4. OnTheWay \in Seq(Int) /\ Len(readbuf.bytes) <= Len(OnTheWay)
    BY <1>1, BufferFirst
  <2>5. ASSUME NEW w \in Writer, ~Idle(w)
        PROVE  /\ encode(sending[w]) \in Frame /\ sending[w] \in Msg
               /\ Framed(OnTheWay, Append(Coming, encode(sending[w])))
    <3>1. sending[w] \in Msg
      BY <1>1, <2>5 DEF StreamTypeOK, Idle
    <3> QED
      BY <1>1, <2>5, <3>1, MsgFacts DEF FramesOnTheWay, Frame
  <2>6. Coming # <<>>
    <3>1. SUFFICES ASSUME Coming = <<>> PROVE FALSE
      OBVIOUS
    <3>2. CASE \A w \in Writer : Idle(w)
      <4>1. Len(OnTheWay) = 0
        BY <1>1, <2>4, <3>1, <3>2, FramedNothing DEF FramesOnTheWay
      <4>2. HEADER <= Len(readbuf.bytes) - 0 /\ Len(readbuf.bytes) \in Nat
        BY <1>1, <1>3 DEF StreamTypeOK, Buffer, Decodable, readable, writer
      <4> QED
        BY <2>4, <4>1, <4>2
    <3>3. CASE \E w \in Writer : ~Idle(w)
      <4>1. PICK w \in Writer : ~Idle(w)
        BY <3>3
      <4>2. Framed(OnTheWay, <<encode(sending[w])>>)
        <5>1. Append(<<>>, encode(sending[w])) = <<encode(sending[w])>>
          OBVIOUS
        <5> QED
          BY <2>5, <3>1, <4>1, <5>1
      <4> QED
        BY <1>1, <1>3, <2>5, <4>1, <4>2, HeaderAlone
    <3> QED
      BY <3>2, <3>3
  <2>7. Len(got) < Len(sent)
    <3>1. Len(Coming) # 0
      BY <2>3, <2>6
    <3> QED
      BY <2>2, <2>3, <3>1
  <2> DEFINE m == sent[Len(got) + 1]
             n == HEADER + m
             a == readbuf.bytes
  <2>8. m \in Msg /\ Coming[1] = framed(m)
    <3>1. 1 \in 1 .. Len(sent) - Len(got)
      BY <2>2, <2>7
    <3> QED
      BY <1>1, <2>3, <3>1 DEF StreamTypeOK
  <2> HIDE DEF m
  <2>9. m \in Nat /\ n \in Nat /\ Len(framed(m)) = n /\ Body(m) \in Seq(Int)
    BY <2>8, MsgFacts
  <2>10. ASSUME NEW w \in Writer, ~Idle(w)
         PROVE  LET fs == Append(Coming, encode(sending[w])) IN
                /\ fs \in Seq(Frame) /\ fs # <<>> /\ fs[1] = framed(m)
                /\ Tail(fs) = Append(Tail(Coming), encode(sending[w]))
    <3> DEFINE e == encode(sending[w])
               k == Len(Coming)
    <3>1. e \in Frame
      BY <2>5, <2>10
    <3>2. k \in Nat /\ k >= 1
      BY <2>2, <2>3, <2>7
    <3> HIDE DEF e
    <3>3. /\ Append(Coming, e) \in Seq(Frame) /\ Len(Append(Coming, e)) = k + 1
          /\ Append(Coming, e)[k + 1] = e /\ \A i \in 1 .. k : Append(Coming, e)[i] = Coming[i]
      BY <2>3, <3>1, AppendProperties
    <3>4. Append(Coming, e) # <<>> /\ Append(Coming, e)[1] = framed(m)
      BY <2>8, <3>2, <3>3
    <3>5. /\ Tail(Append(Coming, e)) \in Seq(Frame) /\ Len(Tail(Append(Coming, e))) = k
          /\ \A i \in 1 .. k : Tail(Append(Coming, e))[i] = Append(Coming, e)[i + 1]
      BY <3>2, <3>3, <3>4, HeadTailProperties
    <3>6. /\ Tail(Coming) \in Seq(Frame) /\ Len(Tail(Coming)) = k - 1
          /\ \A i \in 1 .. k - 1 : Tail(Coming)[i] = Coming[i + 1]
      BY <2>3, <2>6, <3>2, HeadTailProperties
    <3>7. /\ Append(Tail(Coming), e) \in Seq(Frame) /\ Len(Append(Tail(Coming), e)) = k
          /\ Append(Tail(Coming), e)[k] = e
          /\ \A i \in 1 .. k - 1 : Append(Tail(Coming), e)[i] = Tail(Coming)[i]
      BY <3>1, <3>2, <3>6, AppendProperties
    <3> HIDE DEF k
    <3>8. ASSUME NEW i \in 1 .. k
          PROVE  Tail(Append(Coming, e))[i] = Append(Tail(Coming), e)[i]
      <4>1. CASE i = k
        BY <3>2, <3>3, <3>5, <3>7, <4>1
      <4>2. CASE i # k
        <5>1. i \in 1 .. k - 1 /\ i + 1 \in 1 .. k
          BY <3>2, <4>2
        <5> QED
          BY <3>3, <3>5, <3>6, <3>7, <5>1
      <4> QED
        BY <4>1, <4>2
    <3>9. Tail(Append(Coming, e)) = Append(Tail(Coming), e)
      BY <3>5, <3>7, <3>8, SeqEqual
    <3> QED
      BY <3>3, <3>4, <3>9 DEF e
  <2>11. /\ Message(readbuf) = Body(m)
         /\ Decoded(readbuf) \in Buffer /\ Decoded(readbuf).reader = 0
         /\ Decoded(readbuf).bytes = SubSeq(a, n + 1, Len(a)) /\ n <= Len(a)
    <3>1. CASE \A w \in Writer : Idle(w)
      BY <1>1, <1>3, <2>3, <2>6, <2>8, <3>1, TakesFirst DEF FramesOnTheWay
    <3>2. CASE \E w \in Writer : ~Idle(w)
      <4>1. PICK w \in Writer : ~Idle(w)
        BY <3>2
      <4> DEFINE fs == Append(Coming, encode(sending[w]))
      <4>2. fs \in Seq(Frame) /\ fs # <<>> /\ fs[1] = framed(m) /\ Framed(OnTheWay, fs)
        BY <2>5, <2>10, <4>1
      <4> HIDE DEF fs
      <4> QED
        BY <1>1, <1>3, <2>8, <4>2, TakesFirst
    <3> QED
      BY <3>1, <3>2
  <2>12. /\ got' \in Seq(Seq(Int)) /\ Len(got') = Len(got) + 1
         /\ got'[Len(got) + 1] = Body(m)
         /\ \A i \in 1 .. Len(got) : got'[i] = got[i]
    BY <1>1, <2>1, <2>9, <2>11, AppendProperties DEF StreamTypeOK
  <2>13. StreamTypeOK' /\ NothingToReset' /\ OneSends'
    BY <1>1, <2>1, <2>11, <2>12 DEF StreamTypeOK, NothingToReset, OneSends, Idle
  <2>14. FramesIntact'
    <3>1. Len(got') <= Len(sent')
      BY <1>1, <2>2, <2>7, <2>12
    <3>2. ASSUME NEW i \in 1 .. Len(got') PROVE got'[i] = Body(sent'[i])
      <4>1. CASE i = Len(got) + 1
        BY <1>1, <2>12, <4>1 DEF m
      <4>2. CASE i # Len(got) + 1
        <5>1. i \in 1 .. Len(got)
          BY <2>2, <2>12, <4>2
        <5> QED
          BY <1>1, <2>12, <5>1 DEF FramesIntact
      <4> QED
        BY <4>1, <4>2
    <3> QED
      BY <3>1, <3>2 DEF FramesIntact
  <2>15. OnTheWay' = SubSeq(OnTheWay, n + 1, Len(OnTheWay))
    <3> DEFINE d == unread(writebuf)
               e == SubSeq(a, n + 1, Len(a))
               b == Chain(a, wire)
    <3>1. a \in Seq(Int) /\ wire \in Seq(Int) /\ d \in Seq(Int)
      BY <1>1, Unread DEF StreamTypeOK, Buffer
    <3>2. OnTheWay = Chain(b, d) /\ OnTheWay' = Chain(Chain(e, wire), d)
      BY <1>1, <2>1, <2>11 DEF OnTheWay
    <3> HIDE DEF n, a, d
    <3>3. b \in Seq(Int) /\ n <= Len(b) /\ SubSeq(b, n + 1, Len(b)) = Chain(e, wire)
      BY <2>9, <2>11, <3>1, ChainType, TakenInFront, SMTT(60)
    <3> HIDE DEF b, e
    <3>4. SubSeq(Chain(b, d), n + 1, Len(Chain(b, d))) = Chain(SubSeq(b, n + 1, Len(b)), d)
      BY <2>9, <3>1, <3>3, TakenInFront
    <3> QED
      BY <3>2, <3>3, <3>4
  <2>16. Coming' = Tail(Coming)
    <3> DEFINE k == Len(sent) - Len(got) - 1
    <3>1. k \in Nat
      BY <2>2, <2>7
    <3>2. /\ Tail(Coming) \in Seq(Frame) /\ Len(Tail(Coming)) = k
          /\ \A i \in 1 .. k : Tail(Coming)[i] = Coming[i + 1]
      BY <2>2, <2>3, <2>6, HeadTailProperties
    <3>3. Coming' = [i \in 1 .. k |-> framed(sent[(Len(got) + 1) + i])]
      <4>1. Len(sent') - Len(got') = k
        BY <1>1, <2>2, <2>12
      <4> QED
        BY <1>1, <2>12, <4>1 DEF Coming
    <3> HIDE DEF k
    <3>4. ASSUME NEW i \in 1 .. k
          PROVE  framed(sent[(Len(got) + 1) + i]) = Tail(Coming)[i]
      <4>1. /\ i + 1 \in 1 .. Len(sent) - Len(got)
            /\ Len(got) + (i + 1) = (Len(got) + 1) + i
        BY <2>2, <3>1 DEF k
      <4>2. Coming[i + 1] = framed(sent[Len(got) + (i + 1)])
        BY <2>3, <4>1
      <4> QED
        BY <3>2, <4>1, <4>2
    <3>5. Tail(Coming) = [i \in 1 .. k |-> Tail(Coming)[i]]
      <4>1. Tail(Coming) \in [1 .. k -> Frame]
        BY <3>2, LenProperties
      <4> QED
        BY <4>1
    <3> QED
      BY <3>3, <3>4, <3>5
  <2>17. FramesOnTheWay'
    <3>1. ASSUME \A w \in Writer : Idle(w)' PROVE Framed(OnTheWay', Coming')
      <4>1. Framed(OnTheWay, Coming)
        BY <1>1, <3>1 DEF FramesOnTheWay, Idle
      <4>2. Framed(SubSeq(OnTheWay, Len(Coming[1]) + 1, Len(OnTheWay)), Tail(Coming))
        BY <2>3, <2>4, <2>6, <4>1, FramedHead
      <4> QED
        BY <2>8, <2>9, <2>15, <2>16, <4>2
    <3>2. ASSUME NEW w \in Writer, ~Idle(w)'
          PROVE  Framed(OnTheWay', Append(Coming', encode(sending'[w])))
      <4> DEFINE fs == Append(Coming, encode(sending[w]))
      <4>1. ~Idle(w)
        BY <1>1, <3>2 DEF Idle
      <4>2. /\ fs \in Seq(Frame) /\ fs # <<>> /\ fs[1] = framed(m) /\ Framed(OnTheWay, fs)
            /\ Tail(fs) = Append(Tail(Coming), encode(sending[w]))
        BY <2>5, <2>10, <4>1
      <4> HIDE DEF fs
      <4>3. Framed(SubSeq(OnTheWay, Len(fs[1]) + 1, Len(OnTheWay)), Tail(fs))
        BY <2>4, <4>2, FramedHead
      <4> QED
        BY <1>1, <2>9, <2>15, <2>16, <4>2, <4>3
    <3> QED
      BY <3>1, <3>2 DEF FramesOnTheWay
  <2> QED
    BY <2>13, <2>14, <2>17 DEF StreamInv
<1> QED
  BY <1>2, <1>3

LEMMA NextStreamInv == StreamInv /\ [Next]_vars => StreamInv'
<1> SUFFICES ASSUME StreamInv, [Next]_vars PROVE StreamInv'
  OBVIOUS
<1>1. CASE spoiled = {} /\ \E w \in Writer, m \in Msg : AppendInt32(w, m)
  BY <1>1, AppendInt32StreamInv
<1>2. CASE spoiled = {} /\ \E w \in Writer : send(w)
  BY <1>2, SendStreamInv
<1>3. CASE spoiled = {} /\ LoopStep
  BY <1>3, LoopStreamInv
<1>4. CASE spoiled = {} /\ ReceiverStep
  <2>1. CASE ReadSome
    BY <2>1, ReadStreamInv
  <2>2. CASE ReadDone
    BY <2>2 DEF ReadDone, StreamInv, StreamTypeOK, OneSends, NothingToReset, FramesIntact,
                FramesOnTheWay, Idle, OnTheWay, Coming
  <2>3. CASE decode
    BY <1>4, <2>3, DecodeStreamInv
  <2> QED
    BY <1>4, <2>1, <2>2, <2>3 DEF ReceiverStep
<1>5. CASE UNCHANGED vars
  BY <1>5 DEF vars, StreamInv, StreamTypeOK, OneSends, NothingToReset, FramesIntact,
              FramesOnTheWay, Idle, OnTheWay, Coming
<1> QED
  BY <1>1, <1>2, <1>3, <1>4, <1>5 DEF Next

(* The receiver takes the messages as they were sent, in whatever pieces     *)
(* they travel, as long as threads take turns, none writes a header into a   *)
(* buffer that is being reset, no message has a zero byte and no buffer is   *)
(* full.                                                                     *)
THEOREM FramesIntactHolds == Spec => []FramesIntact
<1>1. StreamInv => FramesIntact
  BY DEF StreamInv, FramesIntact
<1> QED
  BY <1>1, InitStreamInv, NextStreamInv, PTL DEF Spec
-----------------------------------------------------------------------------
(* The refinement.                                                           *)

(* What send() puts in is the message that it was called with.               *)
LEMMA SendPuts ==
    ASSUME StreamTypeOK, spoiled = {}, NEW w \in Writer, send(w), spoiled' = {}
    PROVE  Stream!Next
<1> DEFINE put == [i \in 1 .. Len(sent) |-> Body(sent[i])]
           b == Body(sending[w])
<1>1. /\ sending[w] \in Msg /\ sent \in Seq(Msg) /\ Len(sent) \in Nat
      /\ sent' = Append(sent, sending[w]) /\ got' = got
  BY DEF send, StreamTypeOK, Idle
<1>2. put \in Seq(Seq(Int)) /\ Len(put) = Len(sent) /\ b \in Seq(Int)
  <2>1. \A i \in 1 .. Len(sent) : Body(sent[i]) \in Seq(Int)
    <3>1. \A i \in 1 .. Len(sent) : sent[i] \in Msg
      BY <1>1
    <3> QED
      BY <3>1, MsgFacts
  <2> DEFINE n == Len(sent)
             S == Seq(Int)
  <2>2. n \in Nat /\ \A i \in 1 .. n : Body(sent[i]) \in S
    BY <1>1, <2>1
  <2> HIDE DEF n, S
  <2>3. [i \in 1 .. n |-> Body(sent[i])] \in Seq(S) /\ Len([i \in 1 .. n |-> Body(sent[i])]) = n
    BY <2>2
  <2> QED
    BY <1>1, <2>3, MsgFacts DEF n, S
<1>3. /\ Append(put, b) \in Seq(Seq(Int)) /\ Len(Append(put, b)) = Len(sent) + 1
      /\ Append(put, b)[Len(sent) + 1] = b
      /\ \A i \in 1 .. Len(sent) : Append(put, b)[i] = put[i]
  <2> HIDE DEF put, b
  <2> QED
    BY <1>2, AppendProperties
<1>4. /\ Len(sent') = Len(sent) + 1 /\ sent'[Len(sent) + 1] = sending[w]
      /\ \A i \in 1 .. Len(sent) : sent'[i] = sent[i]
  BY <1>1, AppendProperties
<1>5. put' = Append(put, b)
  <2> DEFINE q == Append(put, b)
  <2>1. q = [i \in 1 .. Len(sent) + 1 |-> q[i]]
    BY <1>1, <1>3
  <2>2. ASSUME NEW i \in 1 .. Len(sent) + 1 PROVE q[i] = Body(sent'[i])
    <3>1. CASE i = Len(sent) + 1
      BY <1>3, <1>4, <3>1
    <3>2. CASE i # Len(sent) + 1
      <4>1. i \in 1 .. Len(sent)
        BY <1>1, <3>2
      <4> QED
        BY <1>3, <1>4, <4>1
    <3> QED
      BY <3>1, <3>2
  <2> HIDE DEF q
  <2> QED
    BY <1>4, <2>1, <2>2 DEF q
<1>6. Stream!Put(b)
  BY <1>1, <1>5 DEF Stream!Put
<1> QED
  BY <1>1, <1>6 DEF Stream!Next

(* What decode() takes out is the next of them.                              *)
LEMMA DecodeTakes ==
    ASSUME StreamInv, StreamInv', spoiled = {}, decode, Decodable(readbuf)
    PROVE  Stream!Next
<1> DEFINE put == [i \in 1 .. Len(sent) |-> Body(sent[i])]
<1>1. /\ got \in Seq(Seq(Int)) /\ Len(got) \in Nat /\ Len(sent) \in Nat
      /\ got' \in Seq(Seq(Int))
      /\ got' = Append(got, Message(readbuf)) /\ UNCHANGED <<sent, spoiled>>
      /\ FramesIntact'
  BY DEF decode, StreamInv, StreamTypeOK
<1>2. Len(got') = Len(got) + 1 /\ got'[Len(got) + 1] = Message(readbuf)
  BY <1>1
<1>3. /\ Len(got) + 1 <= Len(sent) /\ Message(readbuf) = Body(sent[Len(got) + 1])
  BY <1>1, <1>2 DEF FramesIntact
<1>4. Len(put) = Len(sent) /\ put[Len(got) + 1] = Message(readbuf) /\ put' = put
  BY <1>1, <1>3
<1>5. Stream!Take
  <2> HIDE DEF put
  <2>1. Len(got) < Len(put) /\ got' = Append(got, put[Len(got) + 1])
    BY <1>1, <1>3, <1>4
  <2> QED
    BY <1>1, <1>4, <2>1 DEF Stream!Take, put
<1> QED
  BY <1>5 DEF Stream!Next

(* Sending and decoding are steps of MessageStream, spoiling breaks it, and  *)
(* the pieces in which bytes travel do not show.                             *)
LEMMA NextImplements ==
    StreamInv /\ StreamInv' /\ [Next]_vars => [Stream!Next]_(Stream!vars)
<1> SUFFICES ASSUME StreamInv, StreamInv', [Next]_vars
             PROVE  [Stream!Next]_(Stream!vars)
  OBVIOUS
<1>1. ASSUME UNCHANGED <<sent, got, spoiled>> PROVE [Stream!Next]_(Stream!vars)
  BY <1>1 DEF Stream!vars
<1>2. CASE spoiled' # {}
  <2>1. Stream!Break
    BY <1>2 DEF Stream!Break
  <2> QED
    BY <2>1 DEF Stream!Next
<1>3. CASE spoiled' = {} /\ Next
  <2>1. spoiled = {} /\ StreamTypeOK
    BY <1>3 DEF Next, StreamInv
  <2>2. CASE \E w \in Writer, m \in Msg : AppendInt32(w, m)
    BY <1>1, <1>3, <2>1, <2>2 DEF AppendInt32
  <2>3. CASE \E w \in Writer : send(w)
    BY <1>3, <2>1, <2>3, SendPuts
  <2>4. CASE LoopStep
    BY <1>1, <2>4 DEF LoopStep, WriteSome, WriteNothing, Reset
  <2>5. CASE ReadSome \/ ReadDone
    BY <1>1, <1>3, <2>1, <2>5 DEF ReadSome, ReadDone
  <2>6. CASE decode
    <3>1. CASE Decodable(readbuf)
      BY <2>1, <2>6, <3>1, DecodeTakes
    <3>2. CASE ~Decodable(readbuf)
      BY <1>1, <2>6, <3>2 DEF decode
    <3> QED
      BY <3>1, <3>2
  <2> QED
    BY <1>3, <2>2, <2>3, <2>4, <2>5, <2>6 DEF Next, ReceiverStep
<1>4. CASE UNCHANGED vars
  BY <1>1, <1>4 DEF vars
<1> QED
  BY <1>2, <1>3, <1>4

(* The sending threads, the two loop threads and the buffers between them    *)
(* are, to those who use them, a sequence of messages that is taken from its *)
(* front, until it is spoiled.                                               *)
THEOREM ImplementsSafelyHolds == Spec => ImplementsSafely
<1>1. Init => Stream!Init
  BY DEF Init, Stream!Init
<1>2. [](StreamInv) /\ [][Next]_vars => [][Stream!Next]_(Stream!vars)
  BY NextImplements, PTL
<1> QED
  BY <1>1, <1>2, InitStreamInv, NextStreamInv, PTL DEF Spec, ImplementsSafely, Stream!SafeSpec
=============================================================================
