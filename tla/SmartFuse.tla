------------------------------ MODULE SmartFuse ------------------------------
(***************************************************************************)
(* What a power output promises its users, whatever the driver does        *)
(* inside: it is switched on and off, it may trip, and a tripped output    *)
(* feeds its load again only after a reset and a fresh command.            *)
(***************************************************************************)
CONSTANT Outputs

VARIABLE mode          \* "off", "on" or "tripped" for every output

Modes == {"off", "on", "tripped"}

Init == mode = [c \in Outputs |-> "off"]

Switch(c) ==
    /\ mode[c] # "tripped"
    /\ \E m \in {"off", "on"} : mode' = [mode EXCEPT ![c] = m]

Trip(c) ==
    /\ mode[c] # "tripped"
    /\ mode' = [mode EXCEPT ![c] = "tripped"]

Reset(c) ==
    /\ mode[c] = "tripped"
    /\ mode' = [mode EXCEPT ![c] = "off"]

Next == \E c \in Outputs : Switch(c) \/ Trip(c) \/ Reset(c)

Spec == Init /\ [][Next]_mode
=============================================================================
