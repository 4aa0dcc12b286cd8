---------------------------- MODULE LogicExecutor ----------------------------
(***************************************************************************)
(* The channel executor of the configurator, shared/python/                *)
(* channel_executor.py: every cycle takes the time, then processes the     *)
(* channels of the configuration in order; each reads the values of its    *)
(* input channels, those before it already new, those after it of the last *)
(* cycle, and keeps the state of its block.                                *)
(*                                                                         *)
(* Library holds the blocks of the engine that no working branch of the    *)
(* executor reaches: it has none for flip-flops, windows, levels and 3D    *)
(* tables, and its branch for filters ends in a NameError (FilterType is   *)
(* defined nowhere), so that no channel here is of its FILTER type.  A     *)
(* program that uses them calls them itself, in the cycle that drives the  *)
(* executor's channels and with its times: that is what the model does.    *)
(*                                                                         *)
(* log is a history: what each channel read and gave in each cycle since   *)
(* its state was fresh, against which the promise of each block is stated. *)
(***************************************************************************)
EXTENDS LogicEngine, SequencesExt

CONSTANTS Configs   \* bound: configurations, with inputs, steps and cycles

(* A channel has an id of its own and reads channels and inputs that there *)
(* are, as many as its block looks at; time does not run back, and the     *)
(* settings are those channel_validation.py accepts: limits are in order,  *)
(* a counter's step is not 0, times are unsigned, results fit int32.       *)
None == "none"      \* CH_REF_NONE, which reads as 0
Blocks == {"SMA", "MEDIAN", "EMA", "LOWPASS", "RATE_LIMIT", "DEBOUNCE", "TIMER", "COUNTER", "PID",
           "HYSTERESIS", "WINDOW", "MULTILEVEL", "SR_LATCH", "D_LATCH", "D", "T", "TOGGLE", "JK",
           "TABLE_2D", "TABLE_3D", "SWITCH", "LOGIC", "NUMBER", "MATH"}
Arity(c) ==
    CASE c.type \in {"COUNTER", "JK"} -> 3
      [] c.type \in {"PID", "SR_LATCH", "D_LATCH", "D", "T", "TABLE_3D"} -> 2
      [] OTHER -> 1
Accepted(c) ==
    /\ c.type \in Blocks
    /\ c.type \in {"SMA", "MEDIAN"} => c.window \in Int
    /\ c.type = "EMA" => c.alpha \in Int
    /\ c.type \in {"LOWPASS", "RATE_LIMIT", "DEBOUNCE", "TIMER"} => c.ms \in Nat
    /\ c.type = "TIMER" => c.trigger \in {"LEVEL", "RISING_EDGE", "FALLING_EDGE", "ANY_EDGE"}
    /\ c.type = "COUNTER" => /\ {c.min, c.max, c.initial} \subseteq Int /\ c.min <= c.max
                             /\ c.step \in Int \ {0} /\ {c.edge, c.wrap} \subseteq BOOLEAN
    /\ c.type = "PID" => /\ {c.kp, c.ki, c.kd, c.deadband, c.min, c.max, c.imin, c.imax} \subseteq Int
                         /\ c.min < c.max /\ c.imin < c.imax
    /\ c.type \in {"HYSTERESIS", "WINDOW"} => {c.low, c.high} \subseteq Int
    /\ c.type = "WINDOW" => c.band \in Int
    /\ c.type = "MULTILEVEL" => c.up \in Seq(Int) /\ c.down \in Seq(Int) /\ Len(c.up) = Len(c.down)
    /\ c.type \in {"TABLE_2D", "TABLE_3D"} => c.x \in Seq(Int) /\ c.y \in Seq(Int) /\ <<>> \notin {c.x, c.y}
    /\ c.type = "TABLE_2D" => Len(c.x) = Len(c.y)
    /\ c.type = "TABLE_3D" => c.z \in [DOMAIN c.y -> [DOMAIN c.x -> Int]]
    /\ c.type = "SWITCH" => /\ c.default \in Int /\ c.cases \in Seq(ToSet(c.cases))
                            /\ \A i \in DOMAIN c.cases : c.cases[i].result \in Int
    /\ c.type = "NUMBER" => c.value \in Int
    /\ c.type = "MATH" => /\ {c.min, c.max} \subseteq IntMin..IntMax /\ {c.num, c.den} \subseteq Int
ConfigsAssumption ==
    \A g \in Configs :
        /\ g.steps \subseteq Nat /\ g.until \in Nat
        /\ \A i \in DOMAIN g.inputs : g.inputs[i] \subseteq Int
        /\ g.channels \in Seq(ToSet(g.channels))
        /\ \A i, j \in DOMAIN g.channels : g.channels[i].id = g.channels[j].id => i = j
        /\ \A c \in ToSet(g.channels) :
             /\ c.in \in Seq(DOMAIN g.inputs \cup {None} \cup {d.id : d \in ToSet(g.channels)})
             /\ Len(c.in) >= Arity(c)
             /\ Accepted(c)
ASSUME ConfigsAssumption

VARIABLES config, now, last, dt,
          val,   \* value of every channel and hardware input
          st,    \* state of every channel's block
          log    \* cycles of every channel since its state was fresh

vars == <<config, now, last, dt, val, st, log>>

Sources == DOMAIN config.inputs \cup {None}
Ids == {config.channels[i].id : i \in DOMAIN config.channels}

Fresh(c) ==
    CASE c.type = "SMA"      -> Ring(SmaWindow(c))
      [] c.type = "MEDIAN"   -> Ring(MedianWindow(c))
      [] c.type \in {"EMA", "LOWPASS", "RATE_LIMIT"} -> Follower
      [] c.type = "DEBOUNCE" -> Bouncing
      [] c.type = "TIMER"    -> Idle
      [] c.type = "COUNTER"  -> Zeroed
      [] c.type = "PID"      -> AtRest
      [] c.type \in {"HYSTERESIS", "WINDOW", "MULTILEVEL"} -> Comparator
      [] OTHER               -> FlipFlop

(* One block of the library, by whoever calls it: the arguments are the    *)
(* values of the channels in c.in.                                         *)
Library(c, s, in) ==
    CASE c.type = "SMA"        -> SmaUpdate(s, c, in[1])
      [] c.type = "MEDIAN"     -> MedianUpdate(s, c, in[1])
      [] c.type = "EMA"        -> EmaUpdate(s, c, in[1])
      [] c.type = "LOWPASS"    -> LpfUpdate(s, c, in[1], dt')
      [] c.type = "RATE_LIMIT" -> RateUpdate(s, c, in[1], dt')
      [] c.type = "DEBOUNCE"   -> DebounceUpdate(s, c, in[1], dt')
      [] c.type = "WINDOW"     -> WindowUpdate(s, c, in[1])
      [] c.type = "MULTILEVEL" -> MultilevelUpdate(s, c, in[1])
      [] c.type = "SR_LATCH"   -> SrLatch(s, in[1], in[2])
      [] c.type = "D_LATCH"    -> DLatch(s, in[1], in[2])
      [] c.type = "D"          -> DFlipFlop(s, in[1], in[2])
      [] c.type = "T"          -> TFlipFlop(s, in[1], in[2])
      [] c.type = "TOGGLE"     -> Toggle(s, in[1])
      [] c.type = "JK"         -> JkFlipFlop(s, in[1], in[2], in[3])
      [] c.type = "TABLE_3D"   -> Result(s, Lookup3d(c, in[1], in[2]))

(* The branches of the executor that work.                                 *)
Exec(c, s, in, old) ==
    CASE c.type = "TIMER"      -> TimerUpdate(s, c, in[1], now')
      [] c.type = "COUNTER"    -> CounterUpdate(s, c, in[1], in[2], in[3])
      [] c.type = "PID"        -> PidUpdate(s, c, in[1], in[2], dt')
      [] c.type = "HYSTERESIS" -> HysteresisUpdate(s, c, in[1])
      [] c.type = "TABLE_2D"   -> Result(s, Lookup2d(c, in[1]))
      [] c.type = "SWITCH"     -> Result(s, SwitchOf(c, in[1]))
      [] c.type = "LOGIC"      -> LET y == LogicOf(c.op, c, in) IN Result(s, IF c.invert THEN 1 - y ELSE y)
      [] c.type = "NUMBER"     -> Result(s, IF c.readonly THEN c.value ELSE old)
      [] c.type = "MATH"       -> Result(s, MathResult(c, in))
      [] OTHER                 -> Library(c, s, in)

(* process_channel: what a channel reads is recorded with what it gives.   *)
Process(e, c) ==
    LET in == [i \in DOMAIN c.in |-> e.val[c.in[i]]]
        r == Exec(c, e.st[c.id], in, e.val[c.id])
    IN  [val |-> [e.val EXCEPT ![c.id] = r.y],
         st |-> [e.st EXCEPT ![c.id] = r.s],
         log |-> [e.log EXCEPT ![c.id] = Append(@, [at |-> now', dt |-> dt', in |-> in, out |-> r.y])]]
-----------------------------------------------------------------------------
Init ==
    /\ config \in Configs
    /\ now = 0 /\ last = 0 /\ dt = 0
    /\ val = [i \in Sources \cup Ids |-> 0]
    /\ st = [i \in Ids |-> LET n == CHOOSE n \in DOMAIN config.channels : config.channels[n].id = i
                           IN  Fresh(config.channels[n])]
    /\ log = [i \in Ids |-> <<>>]

(* update_time: the difference is taken from the time before the one that  *)
(* was last set.                                                           *)
UpdateTime(step) ==
    /\ now' = now + step
    /\ last' = now
    /\ dt' = IF last > 0 THEN now' - last ELSE 0

Cycle(step) ==
    /\ now + step <= config.until
    /\ UpdateTime(step)
    /\ \E x \in [DOMAIN config.inputs -> UNION {config.inputs[i] : i \in DOMAIN config.inputs}] :
         /\ \A i \in DOMAIN x : x[i] \in config.inputs[i]
         /\ LET read == [i \in DOMAIN val |-> IF i \in DOMAIN x THEN x[i] ELSE val[i]]
                e == FoldLeft(Process, [val |-> read, st |-> st, log |-> log], config.channels)
            IN  val' = e.val /\ st' = e.st /\ log' = e.log
    /\ UNCHANGED config

(* reset_channel_state: a counter, a comparator or a flip-flop keeps its   *)
(* state, only its value is cleared until the next cycle; a filter is      *)
(* given a new state.                                                      *)
Resets(c) == c.type \in {"SMA", "MEDIAN", "EMA", "LOWPASS", "RATE_LIMIT", "DEBOUNCE", "PID", "TIMER"}
ResetChannel(c) ==
    /\ config.resets /\ log[c.id] # <<>>
    /\ val' = [val EXCEPT ![c.id] = 0]
    /\ st' = [st EXCEPT ![c.id] = IF c.type = "TIMER" THEN TimerReset(@)
                                  ELSE IF Resets(c) THEN Fresh(c) ELSE @]
    /\ log' = [log EXCEPT ![c.id] = IF Resets(c) THEN <<>> ELSE @]
    /\ UNCHANGED <<config, now, last, dt>>

Next == \/ \E step \in config.steps : Cycle(step)
        \/ \E i \in DOMAIN config.channels : ResetChannel(config.channels[i])

Spec == Init /\ [][Next]_vars
-----------------------------------------------------------------------------
(* The history of the channels of the given types, and reading it.         *)
Of(types) == {c \in ToSet(config.channels) : c.type \in types /\ log[c.id] # <<>>}
In(c, k) == log[c.id][k].in[1]
Out(c, k) == IF k = 0 THEN 0 ELSE log[c.id][k].out
At(c, k) == log[c.id][k].at
Cycles(c) == DOMAIN log[c.id]
End(c) == Len(log[c.id])
Rises(c, n) == {k \in Cycles(c) : /\ High(log[c.id][k].in[n])
                                  /\ k > 1 => ~High(log[c.id][k - 1].in[n])}
Latest(S) == Max(S \cup {0})

(* The ranges of rings, timers and comparators.                            *)
ExecutorTypeOK ==
    /\ now \in 0..config.until /\ last \in 0..now /\ dt \in 0..now
    /\ \A c \in ToSet(config.channels) :
         /\ c.type \in {"SMA", "MEDIAN"} =>
              /\ st[c.id].index \in DOMAIN st[c.id].samples
              /\ st[c.id].count <= Cardinality(DOMAIN st[c.id].samples)
         /\ c.type = "TIMER" =>
              /\ st[c.id].state \in {"IDLE", "RUNNING", "EXPIRED"}
              /\ st[c.id].start <= now /\ st[c.id].elapsed \in 0..now

(* The average is that of the last samples, as many as the window holds,   *)
(* and the median is one of them or lies between the two in the middle.    *)
Ranked(t, r, v) == /\ Cardinality({i \in DOMAIN t : t[i] < v}) < r
                   /\ Cardinality({i \in DOMAIN t : t[i] <= v}) >= r
WindowFiltersExact ==
    \A c \in Of({"SMA", "MEDIAN"}) :
        LET w == IF c.type = "SMA" THEN SmaWindow(c) ELSE MedianWindow(c)
            first == Max({1, End(c) - w + 1})
            t == [k \in 1..(End(c) - first + 1) |-> In(c, first + k - 1)]
            n == Len(t)
            y == Out(c, End(c))
        IN  IF c.type = "SMA" THEN y = SumFunction(t) \div n
            ELSE \E a, b \in {t[k] : k \in 1..n} :
                    /\ Ranked(t, (n + 1) \div 2, a) /\ Ranked(t, (n + 2) \div 2, b)
                    /\ y = (a + b) \div 2

(* Rounding, irregular cycles and cycles without elapsed time never make a *)
(* filter leave the range of what it was given since it was reset.         *)
StaysWithinInputs ==
    \A c \in Of({"SMA", "MEDIAN", "EMA", "LOWPASS", "RATE_LIMIT", "DEBOUNCE"}) :
        LET seen == {In(c, k) : k \in Cycles(c)} IN Out(c, End(c)) \in Min(seen)..Max(seen)

(* A debounced value changes only to one read in two cycles running, and a *)
(* value that was steady for the debounce time is taken (if the cycle that *)
(* preceded it was not at time 0, which the executor takes for no time).   *)
DebounceTakesSteady ==
    \A c \in Of({"DEBOUNCE"}) :
        /\ \A k \in Cycles(c) : k > 1 /\ Out(c, k) # Out(c, k - 1) =>
              Out(c, k) = In(c, k) /\ In(c, k - 1) = In(c, k)
        /\ \A j \in Cycles(c) :
              /\ j < End(c) /\ At(c, End(c)) - At(c, j) >= c.ms
              /\ j > 1 => At(c, j - 1) > 0
              /\ \A k \in j..End(c) : In(c, k) = In(c, j)
              => Out(c, End(c)) = In(c, j)

(* A delay raises the output only when its trigger is the delay past and,  *)
(* if it is a level, has held meanwhile, and drops it only when there was  *)
(* no trigger for the delay; a pulse lasts as long as the delay after a    *)
(* trigger and not longer, whatever edge triggers it.  With a delay of 0   *)
(* the trigger itself raises a pulse for one cycle.  Of a one-shot it is   *)
(* only said that it lasts for the delay and, without auto reset, that     *)
(* there is one until it is reset: timer.py:18 has it stay high until the  *)
(* reset, timer.h:31 has it pulse, and the code pulses.                    *)
Pulses == {"PULSE", "ONESHOT", "MONOSTABLE", "RETRIGGERABLE"}
TimerKeepsTime ==
    \A c \in Of({"TIMER"}) : \A k \in Cycles(c) :
        LET rose == Out(c, k) = 1 /\ Out(c, k - 1) = 0
            fell == Out(c, k) = 0 /\ Out(c, k - 1) = 1
            Within(j) == At(c, k) - At(c, j) < c.ms
            \* After a reset the input of the cycle before is not known.
            Hit(j) == Triggered(c, IF j = 1 THEN Bit(~High(In(c, j))) ELSE In(c, j - 1), In(c, j))
        IN  /\ c.mode = "DELAY_ON" /\ rose =>
                  \E j \in 1..k : /\ ~Within(j) /\ Hit(j)
                                  /\ c.trigger = "LEVEL" => \A i \in j..k : Hit(i)
            /\ c.mode = "DELAY_OFF" /\ fell => \A j \in 1..k : Within(j) => ~Hit(j)
            /\ c.mode \in Pulses \ {"ONESHOT"} /\ Out(c, k) = 1 =>
                  \E j \in 1..k : Hit(j) /\ (j = k \/ Within(j))
            /\ c.mode \in Pulses /\ rose =>
                  \A i \in k..End(c) : At(c, i) - At(c, k) < c.ms => Out(c, i) = 1
            /\ c.mode = "ONESHOT" /\ ~c.autoReset /\ rose => \A i \in 1..k - 1 : Out(c, i) = 0

(* A press is counted at most once, however long it lasts and whatever     *)
(* resets happen, and at once when no reset interferes; the count stays    *)
(* within its limits once it has counted, to which a press of the other    *)
(* button may bring the 0 it starts from.  A negative step counts down.    *)
Stepped(c, was, is) ==
    IF c.step > 0 THEN is > was /\ is > c.min ELSE is < was /\ is < c.max
CountsEachEdgeOnce ==
    \A c \in Of({"COUNTER"}) : c.edge =>
        LET reset == {k \in Cycles(c) : High(log[c.id][k].in[3])}
            down == {k \in Cycles(c) : High(log[c.id][k].in[2])}
            ups == {k \in Cycles(c) \ reset : Stepped(c, Out(c, k - 1), Out(c, k))}
        IN  /\ ~c.wrap => Cardinality(ups) <= Cardinality(Rises(c, 1))
            /\ \A k \in Rises(c, 1) \ (reset \cup down) :
                  k - 1 \notin reset /\ Out(c, k - 1) + c.step \in c.min..c.max =>
                      Out(c, k) = Out(c, k - 1) + c.step
            /\ Out(c, End(c)) \in (c.min..c.max) \cup {0, c.initial}

(* Between two changes of a comparator's output its input crosses the      *)
(* whole band, and a level fits the thresholds next to it, if each level   *)
(* is left below where it is entered.                                      *)
NoChatter ==
    /\ \A c \in Of({"HYSTERESIS", "WINDOW"}) :
         LET changes == {k \in Cycles(c) : k > 1 /\ Out(c, k) # Out(c, k - 1)}
             gap == IF c.type = "HYSTERESIS" THEN c.high - c.low ELSE 2 * c.band
         IN  \A j, k \in changes : j < k /\ changes \cap (j + 1..k - 1) = {} =>
                (In(c, k) - In(c, j)) \notin (1 - gap)..(gap - 1)
    /\ \A c \in Of({"MULTILEVEL"}) : (\A i \in DOMAIN c.up : c.down[i] < c.up[i]) =>
         LET l == Out(c, End(c))  x == In(c, End(c))
         IN  /\ l > 0 => x > c.down[l]
             /\ l < Len(c.up) => x < c.up[l + 1]

(* A flip-flop is what the edges of its clock made of it, each seen once.  *)
FlipFlopsFollowEdges ==
    \A c \in Of({"D", "T", "TOGGLE", "JK"}) :
        LET q == Out(c, End(c))
            Read(k, n) == High(log[c.id][k].in[n])
            edges == Rises(c, CASE c.type = "TOGGLE" -> 1 [] c.type = "JK" -> 3 [] OTHER -> 2)
            sets == {k \in edges : Read(k, 1) # Read(k, 2)}
            flips == {k \in edges : k > Latest(sets) /\ Read(k, 1)}
        IN  CASE c.type = "D" -> q = Bit(edges # {} /\ Read(Latest(edges), 1))
              [] c.type = "TOGGLE" -> q = Cardinality(edges) % 2
              [] c.type = "T" -> q = Cardinality({k \in edges : Read(k, 1)}) % 2
              [] c.type = "JK" -> q = (Cardinality(flips)
                                        + Bit(sets # {} /\ Read(Latest(sets), 1))) % 2

(* A table whose axes increase gives its own points exactly and, between   *)
(* them, nothing outside the values of the neighbours.                     *)
Increasing(xs) == \A i, j \in DOMAIN xs : i < j => xs[i] < xs[j]
Neighbours(xs, x) == {Max({i \in DOMAIN xs : xs[i] <= x} \cup {1}),
                      Min({i \in DOMAIN xs : xs[i] >= x} \cup {Len(xs)})}
TableInterpolates ==
    \A c \in Of({"TABLE_2D", "TABLE_3D"}) :
        LET in == log[c.id][End(c)].in
            near == IF c.type = "TABLE_2D" THEN {c.y[i] : i \in Neighbours(c.x, in[1])}
                    ELSE {c.z[p[2]][p[1]] : p \in Neighbours(c.x, in[1]) \X Neighbours(c.y, in[2])}
        IN  Increasing(c.x) /\ (c.type = "TABLE_3D" => Increasing(c.y)) =>
                Out(c, End(c)) \in Min(near)..Max(near)

(* No operation and no division by zero leaves the range of int32.         *)
MathFitsInt == \A c \in Of({"MATH"}) : Out(c, End(c)) \in IntMin..IntMax

(* A controller driven into its limit for long leaves it as soon as the    *)
(* error has changed its sign, if its integral is limited to its range.    *)
PidLeavesSaturation ==
    \A c \in Of({"PID"}) :
        LET r == log[c.id][End(c)]
            p == (c.kp * Deadband(r.in[1] - r.in[2], c.deadband)) \div Scale
        IN  c.kd = 0 /\ r.dt > 0 /\ c.min <= c.imin /\ c.imax <= c.max =>
                (p < 0 => r.out < c.max) /\ (p > 0 => r.out > c.min)

(* Filters, by whoever calls them: exact over their window, never outside  *)
(* what they were given, and settled once the input is (filter.py).        *)
FiltersFaithful == WindowFiltersExact /\ StaysWithinInputs /\ DebounceTakesSteady

(* An edge is taken exactly once by whatever block waits for it, through   *)
(* levels that last, resets and irregular cycles (counter.py, flipflop.py).*)
EdgesTakenOnce == CountsEachEdgeOnce /\ FlipFlopsFollowEdges

(* Values stay where their configuration puts them: state in its ranges,   *)
(* comparators outside their bands, tables between their points, results   *)
(* in int32, controllers off a limit the error points away from.           *)
ValuesInBounds ==
    ExecutorTypeOK /\ NoChatter /\ TableInterpolates /\ MathFitsInt /\ PidLeavesSaturation
=============================================================================
