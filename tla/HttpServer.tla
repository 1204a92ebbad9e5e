----------------------------- MODULE HttpServer -----------------------------
(* net/http/HttpServer.cpp with onRead() of TcpServer.cpp: how the server    *)
(* takes requests out of what one connection brings.  A request ends with an *)
(* empty line; what the server would do with a request is a comment in the   *)
(* code.                                                                     *)
EXTENDS FixedBuffer

CONSTANTS
    CR, LF,     \* "\r\n\r\n", in two pieces
    Block       \* the most that one read() moves

ASSUME EndAssumption == CR \in Nat /\ LF \in Nat /\ CR # LF /\ Block \in Nat \ {0}

End == <<CR, LF>>

VARIABLES
    received,   \* bytes received and not read
    readbuf,    \* readbuf_
    server,     \* "idle", "reading", "taking" or "closed"
    shut,       \* the server has shut its side down
    requests,   \* history: the requests taken
    dropped     \* history: bytes have been dropped

serverVars == <<received, readbuf, server, shut, requests, dropped>>

ServerInit ==
    /\ received = <<>> /\ readbuf = Empty /\ server = "idle" /\ shut = FALSE
    /\ requests = <<>> /\ dropped = FALSE

(* onRead() reads, and what does not fit into the buffer is dropped. *)
ReadSome ==
    /\ server \in {"idle", "reading"} /\ received # <<>>
    /\ \E n \in {smaller(Len(received), Block)} :
        /\ received' = SubSeq(received, n + 1, Len(received))
        /\ readbuf' = append(readbuf, SubSeq(received, 1, n))
        /\ dropped' = (dropped \/ n > writable(readbuf))
    /\ server' = "reading"
    /\ UNCHANGED <<shut, requests>>

(* ... until errno is EAGAIN, from this read() or from an earlier call. *)
ReadDone ==
    /\ server = "reading"
    /\ server' = "taking"
    /\ UNCHANGED <<received, readbuf, shut, requests, dropped>>

(* read() returns 0: onClose(). *)
ReadEnd(ended) ==
    /\ server \in {"idle", "reading"} /\ received = <<>> /\ ended
    /\ server' = "closed"
    /\ UNCHANGED <<received, readbuf, shut, requests, dropped>>

text == str(readbuf, readable(readbuf))

(* strstr() finds the first empty line after len bytes. *)
EndsAt(len) == SubSeq(text, len + 1, len + 2) = End

FirstEnd(len) == EndsAt(len) /\ \A k \in 0 .. len - 1 : ~EndsAt(k)

(* Mutant: the empty line stays in the buffer. *)
TakeWithoutEnd ==
    /\ server = "taking"
    /\ \E len \in 0 .. Len(text) - 2 :
        /\ FirstEnd(len)
        /\ requests' = Append(requests, SubSeq(text, 1, len))
        /\ readbuf' = move(read(readbuf, len))
    /\ UNCHANGED <<received, server, shut, dropped>>

(* An iteration of onMessage() takes a request. *)
Take ==
    /\ server = "taking"
    /\ \E len \in 0 .. Len(text) - 2 :
        /\ FirstEnd(len)
        /\ requests' = Append(requests, SubSeq(text, 1, len))
        /\ readbuf' = move(read(readbuf, len + 2))
    /\ UNCHANGED <<received, server, shut, dropped>>

(* shutdown(SHUT_WR), which may be called again. *)
Shut == shut' = TRUE

(* Mutant: a full buffer is left alone. *)
TakenNotShut ==
    /\ server = "taking"
    /\ \A len \in 0 .. Len(text) - 2 : ~EndsAt(len)
    /\ server' = "idle"
    /\ UNCHANGED <<received, readbuf, shut, requests, dropped>>

(* onMessage() finds no more; if the buffer is full it calls shut(). *)
Taken ==
    /\ server = "taking"
    /\ \A len \in 0 .. Len(text) - 2 : ~EndsAt(len)
    /\ IF writable(readbuf) = 0 THEN Shut ELSE UNCHANGED shut
    /\ server' = "idle"
    /\ UNCHANGED <<received, readbuf, requests, dropped>>

ServerLoop(ended) ==
    \/ ReadSome
    \/ ReadDone
    \/ ReadEnd(ended)
    \/ Take
    \/ Taken
=============================================================================
