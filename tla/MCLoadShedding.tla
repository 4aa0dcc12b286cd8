--------------------------- MODULE MCLoadShedding ---------------------------
(* Small instances of LoadShedding.  Currents are on a scale at which the   *)
(* 4-sample filter has two values (readings 0 and 4 settle at 0 and 1), so  *)
(* that the state space is that of the control and not of the filter.       *)
EXTENDS LoadShedding, TLC

\* Two expendable outputs of different priority and a critical one.
MCSources == 0 .. 2
MCPriority == (0 :> 1) @@ (1 :> 2) @@ (2 :> 0)
MCEnabled == 0 .. 2
MCReadings == {0, 4}
MCTemps == {25}
MCDuties == {2}
MCVoltages == {12}
MCBoardTemps == {25}

\* One output, with the faults that lock it out.
OneSource == {0}
OnePriority == 0 :> 1
OneEnabled == {0}
HotOrCold == {25, 150}

\* Volts and degrees on both sides of every threshold of the monitors.
SomeVoltages == {5, 12, 23}
SomeBoardTemps == {25, 130}
=============================================================================
