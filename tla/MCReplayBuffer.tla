---------------------------- MODULE MCReplayBuffer ----------------------------
(***************************************************************************)
(* Small instance of ReplayBuffer: a ring of three bytes, chunks of one to *)
(* four (larger than the ring), streams of up to seven bytes with every    *)
(* placement of newlines and continuation bytes.                           *)
(***************************************************************************)
EXTENDS ReplayBuffer
=============================================================================
