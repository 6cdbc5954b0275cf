----------------------------- MODULE PrefixStream -----------------------------
(***************************************************************************)
(* What a listener is promised, whatever queues and goroutines stand       *)
(* between the PTY and its socket: it receives the output stream from the  *)
(* offset at which it attached, in order, with nothing skipped, repeated   *)
(* or altered, until its delivery is closed for good.                      *)
(*                                                                         *)
(* A byte of the stream is represented by its offset.                      *)
(***************************************************************************)
EXTENDS Integers, Sequences

VARIABLES
    base,      \* offset at which the listener attached
    end,       \* end of the stream: bytes produced so far
    delivered, \* bytes handed to the socket, in order
    closed     \* no byte will ever be delivered again

svars == <<base, end, delivered, closed>>

\* The n bytes of the stream that start at offset `from`.
Bytes(from, n) == [i \in 1..n |-> from + i - 1]

Init ==
    /\ base \in Nat
    /\ end = base
    /\ delivered = << >>
    /\ closed = FALSE

Produce ==
    /\ end' \in Nat
    /\ end' > end
    /\ UNCHANGED <<base, delivered, closed>>

Deliver ==
    /\ ~closed
    /\ \E n \in Len(delivered)+1 .. end - base : delivered' = Bytes(base, n)
    /\ UNCHANGED <<base, end, closed>>

Close ==
    /\ ~closed
    /\ closed' = TRUE
    /\ UNCHANGED <<base, end, delivered>>

\* The delivery that fails may fail after its last bytes went out.
DeliverAndClose ==
    /\ ~closed
    /\ closed' = TRUE
    /\ \E n \in Len(delivered)+1 .. end - base : delivered' = Bytes(base, n)
    /\ UNCHANGED <<base, end>>

Next == Produce \/ Deliver \/ Close \/ DeliverAndClose

Spec == Init /\ [][Next]_svars
=============================================================================
