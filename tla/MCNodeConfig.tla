---------------------------- MODULE MCNodeConfig ----------------------------
(* A small instance of NodeConfig: two configurations, of two words and of *)
(* one, and a payload too short to be one.                                 *)
EXTENDS NodeConfig, TLC

None == "none"
MCIds == {"gate", "pulse"}
MCInputs == {"din"}
MCSizeOf == [t \in VirtualTypes |-> 1]

Channel1(id, type, rule, source, delay) ==
    [id |-> id, type |-> type, rule |-> rule, source |-> source, delay |-> delay, hw |-> 0]
Output1(source, hw) ==
    [id |-> "gate", type |-> "POWER_OUTPUT", rule |-> "NONE", source |-> source, delay |-> 0, hw |-> hw]

Pulsed == [count |-> 2, entries |-> <<Channel1("pulse", "TIMER", "PULSE", "din", 2), Output1("pulse", 1)>>]
Gated == [count |-> 3, entries |-> <<Channel1("gate", "LOGIC", "IS_FALSE", "din", 0), Output1("gate", 0)>>]

MCBlobs == {Pulsed, Gated}
MCStubs == {[count |-> 0, entries |-> <<>>]}
MCWordsOf == [b \in MCBlobs \cup MCStubs |-> IF b = Pulsed THEN 2 ELSE 1]
=============================================================================
