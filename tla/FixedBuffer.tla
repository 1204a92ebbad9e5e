---------------------------- MODULE FixedBuffer ----------------------------
(* base/FixedBuffer.h: a buffer of BUFFER_SIZE bytes with two indices.  A    *)
(* buffer is a record: bytes holds buffer_[0 .. writer_ - 1], and reader is  *)
(* reader_, which nothing in the class keeps between 0 and writer_.          *)
EXTENDS Integers, Sequences

CONSTANTS
    BUFFER_SIZE,
    Garbage         \* what lies outside the bytes written

ASSUME BufferAssumption == BUFFER_SIZE \in Nat \ {0}

Empty == [bytes |-> <<>>, reader |-> 0]

writer(b) == Len(b.bytes)

readable(b) == writer(b) - b.reader

(* One byte is kept for the terminating zero. *)
writable(b) == BUFFER_SIZE - 1 - writer(b)

smaller(m, n) == IF m < n THEN m ELSE n

(* Mutant: the byte for the terminating zero is given away. *)
appendTooMuch(b, s) ==
    [b EXCEPT !.bytes = @ \o SubSeq(s, 1, smaller(Len(s), writable(b) + 1))]

(* What does not fit is dropped.  With no room at all the function ends      *)
(* without a return statement: nothing is written and the result, which only *)
(* decides about a log line, is anything.                                    *)
append(b, s) ==
    [b EXCEPT !.bytes = @ \o SubSeq(s, 1, smaller(Len(s), writable(b)))]

(* read() checks nothing: len may be negative, or more than readable(). *)
read(b, len) == [b EXCEPT !.reader = @ + len]

readall(b) == Empty

(* The readable bytes go to the front.  memcpy() is called on regions that    *)
(* may overlap, which C leaves undefined; glibc's moves them intact.          *)
move(b) == [bytes |-> SubSeq(b.bytes, b.reader + 1, writer(b)), reader |-> 0]

(* The n bytes at str(). *)
str(b, n) ==
    [i \in 1 .. n |-> IF b.reader + i \in 1 .. writer(b)
                        THEN b.bytes[b.reader + i]
                        ELSE Garbage]

(* The assertions of readable(), writable() and write(). *)
AssertsHold(b) == b.reader <= writer(b) /\ writer(b) < BUFFER_SIZE
=============================================================================
