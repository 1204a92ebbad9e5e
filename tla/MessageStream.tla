---------------------------- MODULE MessageStream ----------------------------
(* What the two ends of a connection promise their users, without buffers,   *)
(* headers, pieces or threads: messages are taken out in the order they were *)
(* put in, each once and whole, and each of them is, as long as the stream   *)
(* holds.  Of one that is broken nothing is promised.                        *)
EXTENDS Sequences, Naturals

CONSTANT Payload

VARIABLES
    put,        \* the messages that were sent, in this order
    taken,      \* the messages that were received, in this order
    stream      \* "whole" or "broken"

vars == <<put, taken, stream>>

Init == put = <<>> /\ taken = <<>> /\ stream = "whole"

Put(m) ==
    /\ stream = "whole"
    /\ put' = Append(put, m)
    /\ UNCHANGED <<taken, stream>>

Take ==
    /\ stream = "whole"
    /\ Len(taken) < Len(put)
    /\ taken' = Append(taken, put[Len(taken) + 1])
    /\ UNCHANGED <<put, stream>>

Break == stream' = "broken"

Next == (\E m \in Payload : Put(m)) \/ Take \/ Break

SafeSpec == Init /\ [][Next]_vars

IsIn(m, s) == \E i \in 1 .. Len(s) : s[i] = m

Delivery == \A m \in Payload : IsIn(m, put) ~> IsIn(m, taken) \/ stream = "broken"

Spec == SafeSpec /\ Delivery
=============================================================================
