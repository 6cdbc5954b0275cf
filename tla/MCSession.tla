------------------------------ MODULE MCSession -------------------------------
(***************************************************************************)
(* Small instances of Session: one session (sessions share nothing but the *)
(* store's map) and three listeners, so that two clients are attached at   *)
(* once and a third comes back after them; an idle grace of two ticks and  *)
(* a close grace of one, so that the two can be told apart.                *)
(***************************************************************************)
EXTENDS Session
=============================================================================
