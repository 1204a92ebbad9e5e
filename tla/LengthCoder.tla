----------------------------- MODULE LengthCoder -----------------------------
(* net/TcpLengthCoder.h: messages behind their length, in FixedBuffers.      *)
(* A length is HEADER digits in base Digit, the most significant first, and  *)
(* is computed with modulo power[HEADER], as uint32_t is.                    *)
EXTENDS FixedBuffer

CONSTANTS
    HEADER,     \* bytes of the header
    Digit       \* how many values a byte has

ASSUME HeaderAssumption == HEADER \in Nat \ {0} /\ Digit \in Nat \ {0, 1}

(* The powers of Digit. *)
power[n \in 0 .. HEADER] == IF n = 0 THEN 1 ELSE Digit * power[n - 1]

(* HostToNetwork32() *)
encode(length) == [i \in 1 .. HEADER |-> (length \div power[HEADER - i]) % Digit]

(* NetworkToHost32() of the bytes at str() *)
value(b) ==
    LET sum[i \in 0 .. HEADER] ==
            IF i = 0 THEN 0 ELSE sum[i - 1] * Digit + str(b, HEADER)[i]
    IN  sum[HEADER]

(* The length of the whole message; the sum of two uint32_t. *)
whole(b) == (value(b) + HEADER) % power[HEADER]

(* decode() finds a message that has arrived whole. *)
Decodable(b) == readable(b) >= HEADER /\ readable(b) >= whole(b)

(* The message it returns, and the buffer it leaves. *)
Message(b) == str(read(b, HEADER), value(b))

(* Mutant: the header stays in the buffer. *)
DecodedBody(b) == move(read(b, value(b)))

Decoded(b) == move(read(b, whole(b)))
=============================================================================
