---------------------------- MODULE MCProfetSense ----------------------------
(* A dead, a light, a mid-range and a saturated sense pin; 1861 is 1.5 V.   *)
EXTENDS ProfetSense

MCSamples == {0, 1, 1861, 4095}
=============================================================================
