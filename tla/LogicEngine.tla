----------------------------- MODULE LogicEngine -----------------------------
(***************************************************************************)
(* The function blocks of shared/python/engine: each update function takes *)
(* the state of its block, its configuration and its inputs, and returns   *)
(* the new state s and the output y.  Values are integers (Python's //     *)
(* rounds down, as \div does here) and levels are 0 and 1.                 *)
(***************************************************************************)
EXTENDS Integers, Sequences, FiniteSetsExt, Functions, TLC

CONSTANTS IntMax,           \* the largest int32
          FilterMax,        \* FILTER_MAX_SAMPLES (16)
          AlphaScale,       \* FILTER_ALPHA_SCALE (256)
          Scale             \* scale of filters and PID gains (1000)

(* The scales divide, and a window of three samples fits a ring.           *)
ASSUME EngineAssumption ==
    /\ {IntMax, FilterMax, AlphaScale, Scale} \subseteq Nat
    /\ FilterMax >= 3 /\ AlphaScale >= 2 /\ Scale >= 1

IntMin == -IntMax - 1
Result(s, y) == [s |-> s, y |-> y]
Bit(b) == IF b THEN 1 ELSE 0
High(x) == x # 0
Clamp(x, lo, hi) == IF x < lo THEN lo ELSE IF x > hi THEN hi ELSE x
AtLeastOne(x) == IF x < 1 THEN 1 ELSE x

(* Filters over the last samples: a ring of them and how many it holds.    *)
Ring(w) == [samples |-> [i \in 0..w - 1 |-> 0], index |-> 0, count |-> 0, total |-> 0]
SmaWindow(c) == Clamp(c.window, 1, FilterMax)
MedianWindow(c) == Clamp(c.window, 3, FilterMax)
Pushed(s, w, x) ==
    [s EXCEPT !.samples[s.index] = x, !.index = (@ + 1) % w,
              !.count = IF @ < w THEN @ + 1 ELSE @]

(* What leaves the sum: the oldest sample, once the ring is full.          *)
Leaving(s, w) == IF s.count >= w THEN s.samples[s.index] ELSE 0
SmaUpdate(s, c, x) ==
    LET w == SmaWindow(c)
        t == [Pushed(s, w, x) EXCEPT !.total = @ + x - Leaving(s, w)]
    IN  Result(t, t.total \div t.count)

Sorted(t) ==
    LET p == CHOOSE p \in Bijection(DOMAIN t, DOMAIN t) :
                \A i, j \in DOMAIN t : i < j => t[p[i]] <= t[p[j]]
    IN  [i \in DOMAIN t |-> t[p[i]]]
MedianUpdate(s, c, x) ==
    LET t == Pushed(s, MedianWindow(c), x)
        sorted == Sorted([i \in 1..t.count |-> t.samples[i - 1]])
        mid == t.count \div 2
    IN  Result(t, IF t.count % 2 = 1 THEN sorted[mid + 1]
                  ELSE (sorted[mid] + sorted[mid + 1]) \div 2)

\* Mutant: the filter starts at 0 instead of at its first sample.
FollowerAtZero == [value |-> 0, ready |-> TRUE]

(* Filters that follow the input: the first sample sets the value.         *)
Follower == [value |-> 0, ready |-> FALSE]
EmaUpdate(s, c, x) ==
    LET a == Clamp(c.alpha, 1, AlphaScale - 1)
        y == IF s.ready THEN (a * x + (AlphaScale - a) * s.value) \div AlphaScale ELSE x
    IN  Result([value |-> y, ready |-> TRUE], y)

LpfUpdate(s, c, x, dt) ==
    LET tau == AtLeastOne(c.ms)
        v == IF s.ready THEN (dt * x * Scale + tau * s.value) \div (tau + dt) ELSE x * Scale
    IN  IF dt = 0 THEN Result(s, IF s.ready THEN s.value \div Scale ELSE x)
        ELSE Result([value |-> v, ready |-> TRUE], v \div Scale)

RateUpdate(s, c, x, dt) ==
    LET most == AtLeastOne((c.ms * dt) \div 1000)
        y == IF ~s.ready THEN x
             ELSE IF dt = 0 THEN s.value
             ELSE Clamp(x, s.value - most, s.value + most)
    IN  Result([value |-> y, ready |-> TRUE], y)

Bouncing == [stable |-> 0, pending |-> 0, time |-> 0, ready |-> FALSE]
Restarted(s) == [s EXCEPT !.pending = s.stable, !.time = 0]
(* The hysteresis of exec_filter is 0: any other value is a change.        *)
DebounceUpdate(s, c, x, dt) ==
    LET held == IF x = s.pending THEN s.time + dt ELSE dt
        t == IF ~s.ready THEN [stable |-> x, pending |-> x, time |-> 0, ready |-> TRUE]
             ELSE IF x = s.stable THEN Restarted(s)
             ELSE IF x = s.pending /\ held >= c.ms THEN [s EXCEPT !.stable = x, !.time = 0]
             ELSE [s EXCEPT !.pending = x, !.time = held]
    IN  Result(t, t.stable)
-----------------------------------------------------------------------------
(* The timer: started by a trigger, timed by the clock of the executor.    *)
Idle == [state |-> "IDLE", out |-> 0, last |-> 0, start |-> 0, elapsed |-> 0]
TimerReset(s) == [s EXCEPT !.state = "IDLE", !.out = 0, !.elapsed = 0]

Triggered(c, was, x) ==
    CASE c.trigger = "LEVEL"        -> High(x)
      [] c.trigger = "RISING_EDGE"  -> High(x) /\ ~High(was)
      [] c.trigger = "FALLING_EDGE" -> ~High(x) /\ High(was)
      [] c.trigger = "ANY_EDGE"     -> High(x) # High(was)

Started(s, c, now) ==
    [s EXCEPT !.state = "RUNNING", !.start = now, !.elapsed = 0,
              !.out = Bit(c.mode \notin {"DELAY_ON", "DELAY_OFF"})]
Expired(s, y) == [s EXCEPT !.state = "EXPIRED", !.out = y]

\* Mutant: a released level does not stop the timer.
ReleasedNever(c, hit) == FALSE

Released(c, hit) == c.trigger = "LEVEL" /\ ~hit

(* A retriggered timer starts again before its time is looked at.          *)
Running(s, c, hit, now) ==
    LET again == hit /\ c.mode = "RETRIGGERABLE"
        t == [s EXCEPT !.start = IF again THEN now ELSE @,
                       !.elapsed = IF again THEN 0 ELSE now - s.start,
                       !.out = IF again THEN 1 ELSE @]
        due == t.elapsed >= c.ms
    IN  CASE c.mode = "DELAY_ON" ->
               IF Released(c, hit) THEN TimerReset(t) ELSE IF due THEN Expired(t, 1) ELSE [t EXCEPT !.out = 0]
          [] c.mode = "DELAY_OFF" ->
               IF hit THEN [t EXCEPT !.out = 1, !.start = now] ELSE IF due THEN Expired(t, 0) ELSE t
          [] c.mode = "BLINK" ->
               IF Released(c, hit) THEN TimerReset(t)
               ELSE [t EXCEPT !.out = Bit(t.elapsed % (c.on + c.off) < c.on)]
          [] OTHER -> IF due THEN Expired(t, 0) ELSE t

TimerUpdate(s0, c, x, now) ==
    LET hit == Triggered(c, s0.last, x)
        s == [s0 EXCEPT !.last = Bit(High(x))]
        t == CASE s.state = "IDLE"    -> IF hit THEN Started(s, c, now) ELSE s
               [] s.state = "RUNNING" -> Running(s, c, hit, now)
               [] s.state = "EXPIRED" ->
                    IF c.autoReset THEN [s EXCEPT !.state = "IDLE", !.out = Bit(c.mode = "DELAY_ON")]
                    ELSE s
    IN  Result(t, t.out)
-----------------------------------------------------------------------------
(* The counter: a reset ends the update, and what the other inputs do      *)
(* meanwhile is not looked at.                                             *)
Zeroed == [value |-> 0, inc |-> 0, dec |-> 0, reset |-> 0]

(* Wraps as often as it takes, or stops at the limit.                      *)
Limited(v, c) ==
    LET size == c.max - c.min + 1
    IN  IF ~c.wrap THEN LET low == IF v < c.min THEN c.min ELSE v
                        IN  IF low > c.max THEN c.max ELSE low
        ELSE IF size <= 0 \/ v \in c.min..c.max THEN v
        ELSE c.min + ((v - c.min) % size)

CountsOn(s, c, x, field) == High(x) /\ (c.edge => ~High(s[field]))
Counted(s, c, x, field, by) ==
    [s EXCEPT ![field] = Bit(High(x)),
              !.value = IF CountsOn(s, c, x, field) THEN Limited(@ + by, c) ELSE @]

CounterUpdate(s, c, inc, dec, reset) ==
    LET resets == High(reset) /\ (c.edge => ~High(s.reset))
        r == IF c.edge THEN [s EXCEPT !.reset = Bit(High(reset))] ELSE s
        t == Counted(Counted(r, c, inc, "inc", c.step), c, dec, "dec", -c.step)
    IN  IF resets THEN Result([r EXCEPT !.value = c.initial], c.initial) ELSE Result(t, t.value)
-----------------------------------------------------------------------------
(* Comparators with hysteresis.                                            *)
Comparator == [out |-> 0, ready |-> FALSE]
Compared(c, out) == Result([out |-> out, ready |-> TRUE], IF c.invert THEN 1 - out ELSE out)

HysteresisUpdate(s, c, x) ==
    Compared(c, IF ~s.ready THEN Bit(x >= (c.high + c.low) \div 2)
                ELSE IF s.out = 1 THEN Bit(x > c.low)
                ELSE Bit(x >= c.high))

WindowUpdate(s, c, x) ==
    Compared(c, IF ~s.ready THEN Bit(x \in c.low..c.high)
                ELSE IF s.out = 1 THEN Bit(x \in (c.low - c.band)..(c.high + c.band))
                ELSE Bit(x \in (c.low + c.band)..(c.high - c.band)))

(* Levels 0..Len(up): up[i] is reached to enter level i, down[i] leaves it *)
MultilevelUpdate(s, c, x) ==
    LET top == Len(c.up)
        Climbed(from) == Max({from} \cup {l \in from + 1..top : \A i \in from + 1..l : x >= c.up[i]})
        Fallen(from) == Min({from} \cup {l \in 0..from - 1 : \A i \in l + 1..from : x <= c.down[i]})
        level == IF ~s.ready THEN Climbed(0) ELSE Fallen(Climbed(s.out))
    IN  Result([out |-> level, ready |-> TRUE], level)

Deadband(x, band) ==
    IF band <= 0 THEN x
    ELSE IF x \in -band..band THEN 0
    ELSE IF x > 0 THEN x - band ELSE x + band

(* The PID controller with gains scaled by Scale.                          *)
AtRest == [integral |-> 0, error |-> 0, measured |-> 0, out |-> 0, ready |-> FALSE]

\* Mutant: the integral is not limited.
IntegralUnlimited(v, c) == v

IntegralLimited(v, c) == Clamp(v, c.imin * Scale, c.imax * Scale)
PidUpdate(s, c, setpoint, x, dt) ==
    LET error == Deadband(setpoint - x, c.deadband)
        integral == IntegralLimited(s.integral + ((c.ki * error * dt) \div Scale) \div 1000, c)
        moved == IF ~s.ready THEN 0 ELSE IF c.onMeasurement THEN x - s.measured ELSE error - s.error
        d == ((IF c.onMeasurement THEN -(c.kd * moved * 1000) ELSE c.kd * moved * 1000)
                 \div (Scale * dt))
        y == Clamp((c.kp * error) \div Scale + integral \div Scale + d, c.min, c.max)
    IN  IF dt = 0 THEN Result(s, s.out)
        ELSE Result([integral |-> integral, error |-> error, measured |-> x, out |-> y, ready |-> TRUE], y)
-----------------------------------------------------------------------------
(* Flip-flops: latches look at levels, the others at the clock's edge.     *)
FlipFlop == [q |-> 0, clk |-> 0]
Latch(s, q) == Result([s EXCEPT !.q = q], q)

\* Mutant: a high clock counts as an edge in every cycle.
ClockedByLevel(s, clk, q) ==
    LET t == [q |-> IF High(clk) THEN q ELSE s.q, clk |-> Bit(High(clk))] IN Result(t, t.q)

Clocked(s, clk, q) ==
    LET t == [q |-> IF High(clk) /\ ~High(s.clk) THEN q ELSE s.q, clk |-> Bit(High(clk))] IN Result(t, t.q)

SrLatch(s, set, reset) == Latch(s, IF High(reset) THEN 0 ELSE IF High(set) THEN 1 ELSE s.q)
DLatch(s, d, enable) == Latch(s, IF High(enable) THEN Bit(High(d)) ELSE s.q)
DFlipFlop(s, d, clk) == Clocked(s, clk, Bit(High(d)))
TFlipFlop(s, t, clk) == Clocked(s, clk, IF High(t) THEN 1 - s.q ELSE s.q)
Toggle(s, trigger) == Clocked(s, trigger, 1 - s.q)
JkFlipFlop(s, j, k, clk) ==
    Clocked(s, clk, IF High(j) /\ High(k) THEN 1 - s.q ELSE IF High(j) THEN 1 ELSE IF High(k) THEN 0 ELSE s.q)

(* Tables: the pair of neighbours is found by bisection.                   *)
FindIndex(xs, x) ==
    LET n == Len(xs)
        bisect[p \in (1..n) \X (1..n)] ==
            LET mid == (p[1] + p[2]) \div 2
            IN  IF p[2] - p[1] <= 1 THEN p
                ELSE IF xs[mid] <= x THEN bisect[<<mid, p[2]>>] ELSE bisect[<<p[1], mid>>]
    IN  IF x <= xs[1] THEN <<1, 1>> ELSE IF x >= xs[n] THEN <<n, n>> ELSE bisect[<<1, n>>]

Interpolate(x, x0, x1, y0, y1) == IF x1 = x0 THEN y0 ELSE y0 + ((x - x0) * (y1 - y0)) \div (x1 - x0)

Lookup2d(c, x) ==
    LET i == FindIndex(c.x, x)
    IN  Interpolate(x, c.x[i[1]], c.x[i[2]], c.y[i[1]], c.y[i[2]])

(* z[row][column], the row chosen by y.                                    *)
Lookup3d(c, x, y) ==
    LET i == FindIndex(c.x, x)
        j == FindIndex(c.y, y)
        Row(r) == Interpolate(x, c.x[i[1]], c.x[i[2]], c.z[r][i[1]], c.z[r][i[2]])
    IN  Interpolate(y, c.y[j[1]], c.y[j[2]], Row(j[1]), Row(j[2]))
-----------------------------------------------------------------------------
Range32(v) == Clamp(v, IntMin, IntMax)
Floored(a, b) == IF b > 0 THEN a \div b ELSE (-a) \div (-b)
Remainder(a, b) == a - b * Floored(a, b)

MathDiv(a, b) ==
    IF b # 0 THEN Floored(a, b) ELSE IF a > 0 THEN IntMax ELSE IF a < 0 THEN IntMin ELSE 0
MathScale(v, num, den) ==
    IF den # 0 THEN Range32(Floored(v * num, den)) ELSE IF v * num > 0 THEN IntMax ELSE IntMin
MathMap(v, inMin, inMax, outMin, outMax) ==
    IF inMax = inMin THEN outMin
    ELSE Range32(Floored((v - inMin) * (outMax - outMin), inMax - inMin) + outMin)

Operands(in) == {in[i] : i \in DOMAIN in}
Operand(in, i) == IF i <= Len(in) THEN in[i] ELSE 0
MathOf(op, c, in) ==
    LET a == in[1]  b == Operand(in, 2)
    IN  CASE op = "ADD" -> Range32(a + b)
          [] op = "SUB" -> Range32(a - b)
          [] op = "MUL" -> Range32(a * b)
          [] op = "DIV" -> MathDiv(a, b)
          [] op = "MOD" -> IF b = 0 THEN 0 ELSE Remainder(a, b)
          [] op = "ABS" -> IF a = IntMin THEN IntMax ELSE IF a < 0 THEN -a ELSE a
          [] op = "NEG" -> IF a = IntMin THEN IntMax ELSE -a
          [] op = "MIN" -> Min(Operands(in))
          [] op = "MAX" -> Max(Operands(in))
          [] op = "AVG" -> SumFunction(in) \div Len(in)
          [] op = "CLAMP" -> Clamp(a, c.min, c.max)
          [] op = "MAP" -> MathMap(a, b, Operand(in, 3), c.min, c.max)
          [] op = "SCALE" -> MathScale(a, c.num, c.den)
          [] OTHER -> a

(* The result is limited, then scaled once more.                           *)
MathResult(c, in) ==
    LET y == Clamp(MathOf(c.op, c, in), c.min, c.max)
    IN  IF c.den \in {0, 1} THEN y ELSE MathScale(y, c.num, c.den)

Gate(op, in) ==
    LET highs == {i \in DOMAIN in : High(in[i])}
    IN  Bit(CASE op = "AND"  -> highs = DOMAIN in
              [] op = "OR"   -> highs # {}
              [] op = "XOR"  -> Cardinality(highs) % 2 = 1
              [] op = "NAND" -> highs # DOMAIN in
              [] op = "NOR"  -> highs = {}
              [] op = "NOT"  -> ~High(in[1]))

Compare(op, a, b) ==
    Bit(CASE op = "GT" -> a > b [] op = "GTE" -> a >= b [] op = "LT" -> a < b
          [] op = "LTE" -> a <= b [] op = "EQ" -> a = b [] op = "NEQ" -> a # b)

(* The upper bound of IN_RANGE is the constant; OUTSIDE_RANGE has no       *)
(* branch in exec_logic.                                                   *)
LogicOf(op, c, in) ==
    CASE op \in {"AND", "OR", "XOR", "NAND", "NOR", "NOT"} -> Gate(op, in)
      [] op \in {"GT", "GTE", "LT", "LTE", "EQ", "NEQ"} -> Compare(op, in[1], c.value)
      [] op = "IN_RANGE" -> Bit(in[1] \in in[2]..c.value)
      [] OTHER -> 0

(* The first case that matches, by value or by range, or by position.      *)
SwitchOf(c, x) ==
    LET matching == {i \in DOMAIN c.cases :
                       CASE c.mode = "value" -> x = c.cases[i].from
                         [] c.mode = "range" -> x \in c.cases[i].from..c.cases[i].to
                         [] c.mode = "index" -> x = i - 1}
    IN  IF matching = {} THEN c.default ELSE c.cases[Min(matching)].result
=============================================================================
