--------------------------- MODULE MCLogicExecutor ---------------------------
(* Small configurations of the logic executor: mostly one block under all  *)
(* the inputs of a small set, at regular and irregular cycles, and chains. *)
EXTENDS LogicExecutor

(* A configuration of one channel "c" that reads the given inputs.         *)
One(c, inputs, steps, until, resets) ==
    [channels |-> <<[id |-> "c"] @@ c>>, inputs |-> inputs, steps |-> steps,
     until |-> until, resets |-> resets]
Single(c, values, steps, until) == One([in |-> <<"x">>] @@ c, [x |-> values], steps, until, TRUE)

Filters ==
    {Single([type |-> "SMA", window |-> w], {0, 1, 3}, {1}, 5) : w \in {0, 3}} \cup
    {Single([type |-> "MEDIAN", window |-> w], {-2, 0, 1}, {1}, 5) : w \in {2, 4}} \cup
    {Single([type |-> "EMA", alpha |-> a], {-1, 0, 9}, {1}, 5) : a \in {0, 100, 300}} \cup
    {Single([type |-> "LOWPASS", ms |-> ms], {-5, 0, 7}, {1, 3}, 8) : ms \in {0, 4}} \cup
    {Single([type |-> "RATE_LIMIT", ms |-> ms], {-5, 0, 7}, {1, 3}, 8) : ms \in {0, 1500}} \cup
    {Single([type |-> "DEBOUNCE", ms |-> 4], {0, 1, 2}, {1, 2}, 8)}

Timers ==
    {Single([type |-> "TIMER", mode |-> m, trigger |-> t, ms |-> 3, on |-> 2, off |-> 1, autoReset |-> a],
            {0, 1}, {1, 2}, 7) :
        m \in {"DELAY_ON", "DELAY_OFF", "PULSE", "BLINK", "ONESHOT", "RETRIGGERABLE", "MONOSTABLE"},
        t \in {"LEVEL", "RISING_EDGE", "FALLING_EDGE", "ANY_EDGE"}, a \in BOOLEAN}

Counters ==
    {One([type |-> "COUNTER", in |-> <<"inc", "dec", "reset">>, initial |-> 1, min |-> 0, max |-> 2,
          step |-> by, wrap |-> w, edge |-> e],
         [inc |-> {0, 1}, dec |-> {0, 1}, reset |-> {0, 1}], {1}, 4, TRUE) : by \in {-1, 1}, w, e \in BOOLEAN}

Comparators ==
    {Single([type |-> "HYSTERESIS", high |-> 3, low |-> 1, invert |-> i], 0..4, {1}, 4) : i \in BOOLEAN} \cup
    {Single([type |-> "WINDOW", high |-> 5, low |-> 1, band |-> 1, invert |-> FALSE], -1..7, {1}, 4)} \cup
    {Single([type |-> "MULTILEVEL", up |-> <<2, 4, 6>>, down |-> <<1, 3, 4>>], 0..7, {1}, 4)}

FlipFlops ==
    {One([type |-> t, in |-> <<"x", "clk">>], [x |-> {0, 1}, clk |-> {0, 1}], {1}, 5, TRUE) :
        t \in {"SR_LATCH", "D_LATCH", "D", "T"}} \cup
    {One([type |-> "JK", in |-> <<"j", "k", "clk">>], [j |-> {0, 1}, k |-> {0, 1}, clk |-> {0, 1}], {1}, 4, TRUE),
     Single([type |-> "TOGGLE"], {0, 1}, {1}, 6)}

Tables ==
    {Single([type |-> "TABLE_2D", x |-> <<0, 3, 5, 9>>, y |-> y], -1..10, {1}, 1) :
        y \in {<<0, 7, 5, 6>>, <<4, 3, -3, 8>>}} \cup
    {One([type |-> "TABLE_3D", in |-> <<"x", "y">>, x |-> <<0, 3, 5>>, y |-> <<0, 4>>,
          z |-> <<<<0, 5, -2>>, <<9, 1, 4>>>>], [x |-> -1..6, y |-> -1..5], {1}, 1, FALSE)} \cup
    {Single([type |-> "SWITCH", mode |-> m, default |-> 9,
             cases |-> <<[from |-> 1, to |-> 2, result |-> 5], [from |-> 2, to |-> 3, result |-> 6]>>], -1..4, {1}, 1) :
        m \in {"value", "range", "index"}}

Ops == {"ADD", "SUB", "MUL", "DIV", "MOD", "ABS", "NEG", "MIN", "MAX", "AVG", "CLAMP", "MAP", "SCALE"}
MathBlocks ==
    {One([type |-> "MATH", op |-> o, in |-> <<"a", "b">>, min |-> IntMin, max |-> IntMax, num |-> 3, den |-> d],
         [a |-> IntMin..IntMax, b |-> {IntMin, -1, 0, 1, 3, IntMax}], {1}, 1, FALSE) : o \in Ops, d \in {0, 1, 2}}

Pids ==
    {One([type |-> "PID", in |-> <<"setpoint", "feedback">>, kp |-> 1000, ki |-> 250000, kd |-> d, deadband |-> 1,
          min |-> 0, max |-> 4, imin |-> 0, imax |-> 4, onMeasurement |-> TRUE],
         [setpoint |-> {5}, feedback |-> {0, 7, 9}], {1000}, 7000, TRUE) : d \in {0, 1000}}

(* A bouncing press is debounced, counted, compared and timed.             *)
Chains ==
    {[channels |-> <<
        [id |-> "clean", type |-> "DEBOUNCE", in |-> <<"x">>, ms |-> 2],
        [id |-> "presses", type |-> "COUNTER", in |-> <<"clean", None, "done">>, initial |-> 0, min |-> 0, max |-> 3,
         step |-> 1, wrap |-> FALSE, edge |-> TRUE],
        [id |-> "enough", type |-> "LOGIC", op |-> "GTE", in |-> <<"presses">>, value |-> 2, invert |-> FALSE],
        [id |-> "done", type |-> "TIMER", mode |-> "PULSE", trigger |-> "RISING_EDGE", in |-> <<"enough">>, ms |-> 3,
         on |-> 1, off |-> 1, autoReset |-> TRUE],
        [id |-> "limit", type |-> "NUMBER", in |-> <<None>>, readonly |-> TRUE, value |-> 2]>>,
      inputs |-> [x |-> {0, 1}], steps |-> {1}, until |-> 14, resets |-> FALSE]}

LogicOps == {"AND", "OR", "XOR", "NAND", "NOR", "NOT", "GT", "GTE", "LT", "LTE", "EQ", "NEQ", "IN_RANGE", "OUTSIDE_RANGE"}
Gates ==
    {One([type |-> "LOGIC", op |-> o, in |-> <<"a", "b">>, value |-> 1, invert |-> FALSE],
         [a |-> 0..2, b |-> 0..1], {1}, 1, FALSE) : o \in LogicOps}

MCConfigs == Filters \cup Timers \cup Counters \cup Comparators \cup FlipFlops \cup Tables
                 \cup MathBlocks \cup Pids \cup Chains \cup Gates
=============================================================================
