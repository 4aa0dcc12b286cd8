------------------------------- MODULE MCTMin -------------------------------
(* Small instances of TMin for TLC.                                        *)
EXTENDS TMin
=============================================================================
