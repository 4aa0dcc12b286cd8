----------------------------- MODULE MCSession -----------------------------
(* Two connections of one session. *)
EXTENDS Session

CONSTANTS t1, t2
MCTransports == <<t1, t2>>
=============================================================================
