------------------------------ MODULE MCProfet ------------------------------
(* Profet on a scale of 1:10 000 for currents and 2 for the duty.           *)
EXTENDS Profet

MCSources == {0}
MCReadings == {0, 2, 7}
MCTemps == {25, 150}
MCDuties == {0, 1, 2, 3}
=============================================================================
