--------------------------- MODULE MCChannelExec ---------------------------
(* Small instances of ChannelExec and NodeConfig.                          *)
EXTENDS ChannelExec, TLC

None == "none"
MCIds == {"gate", "pulse"}
MCInputs == {"din"}
MCSizeOf == ("LOGIC" :> 2) @@ ("TIMER" :> 1) @@ ("OTHER" :> 1)

Virtual(id, type, rule, source, delay) ==
    [id |-> id, type |-> type, rule |-> rule, source |-> source, delay |-> delay, hw |-> 0]
Output(source, hw) ==
    [id |-> None, type |-> "POWER_OUTPUT", rule |-> "NONE", source |-> source, delay |-> 0, hw |-> hw]
Named(e, id) == [e EXCEPT !.id = id]

Gate == Virtual("gate", "LOGIC", "IS_TRUE", "din", 0)
Pulse == Virtual("pulse", "TIMER", "PULSE", "gate", 2)
Countdown == Virtual("pulse", "TIMER", "COUNT_DOWN", "din", 2)

\* A gated pulse, and a count-down above the pins in a blob that was cut off.
MCBlobs ==
    {[count |-> 3, entries |-> <<Pulse, Gate, Named(Output("pulse", 0), "gate")>>],
     [count |-> 3, entries |-> <<Countdown, Named(Output("pulse", 1), "gate")>>]}
=============================================================================
