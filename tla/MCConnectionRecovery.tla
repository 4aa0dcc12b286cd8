------------------------ MODULE MCConnectionRecovery ------------------------
(* A small instance of ConnectionRecovery; its cfgs give the constants.    *)
EXTENDS ConnectionRecovery
=============================================================================
