----------------------------- MODULE MCServeWS -----------------------------
(* Two sessions and two hellos, one more than the browser client sends: the *)
(* second replaces the first or finds it failing.  The sizes are on both    *)
(* sides of the limits; the last one fits them only once truncated.         *)
EXTENDS ServeWS

MCSizes == {<<2, 1>>, <<1000, 1000>>, <<1, 5>>, <<2, 1001>>, <<65538, 5>>}
=============================================================================
