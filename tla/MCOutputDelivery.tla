--------------------------- MODULE MCOutputDelivery ---------------------------
(***************************************************************************)
(* Small instance of OutputDelivery: a queue of two bytes, chunks of one to *)
(* three bytes (a single chunk can overflow the queue), streams of up to    *)
(* seven bytes (two full batches and an overflow).                          *)
(***************************************************************************)
EXTENDS OutputDelivery
=============================================================================
