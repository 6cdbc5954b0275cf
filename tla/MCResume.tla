------------------------------- MODULE MCResume -------------------------------
(***************************************************************************)
(* Small instances of Resume.  The stream is longer than the ring, the     *)
(* ring no shorter than the tail, so that a reconnecting client finds all, *)
(* some or none of what it missed; the queue overflows with two chunks, or *)
(* three; two connections let a client come back to what it left.  The run *)
(* of ScreenIsTheStream stops where that says nothing more (Judged).       *)
(***************************************************************************)
EXTENDS Resume
=============================================================================
