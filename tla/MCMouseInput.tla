----------------------------- MODULE MCMouseInput -----------------------------
(***************************************************************************)
(* Small instance of MouseInput: two columns and three rows of positions   *)
(* over a terminal of two by two cells, so that the finger may leave the   *)
(* slop sideways only, swipe twice, and leave the terminal; two fingers.   *)
(***************************************************************************)
EXTENDS MouseInput
=============================================================================
