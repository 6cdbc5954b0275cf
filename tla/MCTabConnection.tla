-------------------------- MODULE MCTabConnection --------------------------
(***************************************************************************)
(* A pong timeout of two intervals instead of three: the pongs of one or   *)
(* two pings may be late.  Two connections: the one in use and one the     *)
(* server still believes in.  Two ids: the tab's, and an orphan's.         *)
(***************************************************************************)
EXTENDS TabConnection
=============================================================================
