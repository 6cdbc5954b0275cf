---------------------------- MODULE TrailingWindow ----------------------------
(***************************************************************************)
(* What the replay ring is for the rest of the program, and for Resume:    *)
(* the last Capacity bytes of everything appended.                         *)
(*                                                                         *)
(* A byte of the stream is represented by its offset.                      *)
(***************************************************************************)
EXTENDS Integers, Sequences

CONSTANT Capacity

VARIABLES
    end,   \* bytes ever appended
    window \* the bytes retained

\* The last n elements of a sequence, or all of it.
Last(s, n) == IF Len(s) <= n THEN s ELSE SubSeq(s, Len(s) - n + 1, Len(s))

Init == end = 0 /\ window = << >>

Grow(n) ==
    /\ end' = end + n
    /\ window' = Last(window \o [i \in 1..n |-> end + i - 1], Capacity)

Next == end' \in Nat /\ end' > end /\ Grow(end' - end)

Spec == Init /\ [][Next]_<<end, window>>
=============================================================================
