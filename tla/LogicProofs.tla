----------------------------- MODULE LogicProofs -----------------------------
(***************************************************************************)
(* The promises of the function blocks, in any configuration of any number *)
(* of channels, at any cycle times.  A cycle is a fold over the channels;  *)
(* followed step by step it gives every channel one turn (Turn), whatever  *)
(* it reads.  Each block then has an invariant over its state and its      *)
(* history, which a turn keeps: BlocksInv for the blocks that wait for     *)
(* edges and for time, ValuesInv for those whose promise is about values.  *)
(***************************************************************************)
EXTENDS LogicExecutor, Inductions, SequenceTheorems, FiniteSetTheorems, TLAPS

Channels == ToSet(config.channels)

\* A sequence, of whatever members.
IsSeq(s) == s \in Seq(ToSet(s))

Shape ==
    /\ config \in Configs /\ now \in Nat /\ last \in Nat /\ last <= now
    /\ st = [i \in Ids |-> st[i]] /\ log = [i \in Ids |-> log[i]]
    /\ \A i \in Ids : IsSeq(log[i])

Seen(in, y) == [at |-> now', dt |-> dt', in |-> in, out |-> y]

(* What a cycle does to a channel, its state and its history, for whatever *)
(* it reads.                                                               *)
Did(c, s, l, s1, l1) ==
    \E in, old : /\ s1 = Exec(c, s, in, old).s
                 /\ l1 = Append(l, Seen(in, Exec(c, s, in, old).y))
Turn(c) == Did(c, st[c.id], log[c.id], st'[c.id], log'[c.id])
Pass(e0, s) == FoldLeft(Process, e0, s)

\* A sequence that grows by one member.
LEMMA Grown ==
    ASSUME NEW s, IsSeq(s), NEW e
    PROVE  LET t == Append(s, e) IN
           /\ Len(s) \in Nat /\ DOMAIN s = 1 .. Len(s)
           /\ IsSeq(t) /\ Len(t) = Len(s) + 1 /\ DOMAIN t = 1 .. Len(s) + 1
           /\ t[Len(s) + 1] = e /\ \A k \in 1 .. Len(s) : t[k] = s[k]
<1> DEFINE T == ToSet(s) \cup {e}
           t == Append(s, e)
<1>1. s \in Seq(T) /\ e \in T
  <2>1. s \in [1 .. Len(s) -> ToSet(s)] /\ Len(s) \in Nat
    BY LenProperties DEF IsSeq
  <2>2. ToSet(s) \subseteq T /\ e \in T
    OBVIOUS
  <2> HIDE DEF T
  <2>3. s \in [1 .. Len(s) -> T]
    BY <2>1, <2>2
  <2> QED
    BY <2>1, <2>2, <2>3
<1> HIDE DEF T
<1>2. /\ t \in Seq(T) /\ Len(t) = Len(s) + 1
      /\ t[Len(s) + 1] = e /\ \A k \in 1 .. Len(s) : t[k] = s[k]
  BY <1>1, AppendProperties
<1>3. Len(s) \in Nat /\ DOMAIN s = 1 .. Len(s) /\ DOMAIN t = 1 .. Len(s) + 1
  BY <1>1, <1>2, LenProperties
<1> HIDE DEF t
<1>4. IsSeq(t)
  <2>1. t \in [1 .. Len(t) -> ToSet(t)] /\ Len(t) \in Nat
    BY <1>2, <1>3 DEF ToSet
  <2> QED
    BY <2>1 DEF IsSeq
<1> QED
  BY <1>2, <1>3, <1>4 DEF t

\* Each channel of a configuration has an id of its own.
LEMMA OwnIds ==
    ASSUME config \in Configs
    PROVE  /\ Len(config.channels) \in Nat
           /\ DOMAIN config.channels = 1 .. Len(config.channels)
           /\ \A i, j \in 1 .. Len(config.channels) : config.channels[i].id = config.channels[j].id => i = j
           /\ \A c \in Channels : c.id \in Ids
           /\ \A c, d \in Channels : c.id = d.id => c = d
           /\ \A i \in 1 .. Len(config.channels) : config.channels[i] \in Channels
           /\ Ids = {c.id : c \in Channels}
<1>1. config.channels \in Seq(Channels)
      /\ \A i, j \in DOMAIN config.channels : config.channels[i].id = config.channels[j].id => i = j
  BY ConfigsAssumption DEF ConfigsAssumption, Channels
<1>2. Len(config.channels) \in Nat /\ DOMAIN config.channels = 1 .. Len(config.channels)
  BY <1>1, LenProperties
<1>3. Channels = {config.channels[i] : i \in 1 .. Len(config.channels)}
  BY <1>2 DEF Channels, ToSet
<1>4. Ids = {c.id : c \in Channels}
  BY <1>2, <1>3 DEF Ids
<1>5. \A i, j \in 1 .. Len(config.channels) : config.channels[i].id = config.channels[j].id => i = j
  BY <1>1, <1>2
<1>6. \A c, d \in Channels : c.id = d.id => c = d
  BY <1>3, <1>5
<1>7. \A i \in 1 .. Len(config.channels) : config.channels[i] \in Channels
  BY <1>3
<1> HIDE DEF Channels
<1> QED
  BY <1>2, <1>4, <1>5, <1>6, <1>7
-----------------------------------------------------------------------------
(* One cycle, channel by channel.                                          *)

Passing(h, N, s, e0) ==
    h = [t \in SUBSET (1 .. N) |-> IF t = {} THEN e0 ELSE Process(h[t \ {Max(t)}], s[Max(t)])]

LEMMA PassExists ==
    ASSUME NEW N \in Nat, NEW s, NEW e0
    PROVE  \E h : Passing(h, N, s, e0)
<1> DEFINE Value(g, t) == IF t = {} THEN e0 ELSE Process(g[t \ {Max(t)}], s[Max(t)])
           Good == {n \in 0 .. N : \E h : h = [t \in SUBSET (1 .. n) |-> Value(h, t)]}
<1>1. 0 \in Good
  <2> DEFINE h0 == [t \in SUBSET (1 .. 0) |-> e0]
  <2>1. 1 .. 0 = {}
    OBVIOUS
  <2>2. \A t \in SUBSET (1 .. 0) : e0 = Value(h0, t)
    BY <2>1
  <2> HIDE DEF Value
  <2>3. h0 = [t \in SUBSET (1 .. 0) |-> Value(h0, t)]
    BY <2>2
  <2> HIDE DEF h0
  <2> QED
    BY <2>3
<1>2. ASSUME NEW k \in 0 .. N - 1, k \in Good PROVE k + 1 \in Good
  <2>1. PICK h : h = [t \in SUBSET (1 .. k) |-> Value(h, t)]
    BY <1>2
  <2> DEFINE new == [t \in SUBSET (1 .. k + 1) |->
                        IF k + 1 \in t THEN Process(h[t \ {k + 1}], s[k + 1]) ELSE h[t]]
  <2>2. ASSUME NEW t \in SUBSET (1 .. k + 1), k + 1 \in t PROVE new[t] = Value(new, t)
    <3>1. Max(t) = k + 1 /\ t \ {Max(t)} \in SUBSET (1 .. k)
      <4>1. k \in Nat /\ t \subseteq 1 .. k + 1
        OBVIOUS
      <4> QED
        BY ONLY <2>2, <4>1, MaxOfInterval
    <3>2. t \ {k + 1} \in SUBSET (1 .. k + 1) /\ k + 1 \notin t \ {k + 1}
      BY <3>1
    <3>3. new[t] = Process(h[t \ {k + 1}], s[k + 1]) /\ new[t \ {k + 1}] = h[t \ {k + 1}]
      BY <2>2, <3>2
    <3> HIDE DEF new
    <3> QED
      BY <2>2, <3>1, <3>3
  <2>3. ASSUME NEW t \in SUBSET (1 .. k + 1), k + 1 \notin t PROVE new[t] = Value(new, t)
    <3>1. t \in SUBSET (1 .. k)
      BY <2>3
    <3>2. new[t] = h[t]
      BY <2>3
    <3>3. h[t] = Value(h, t)
      <4> HIDE DEF Value, new
      <4> QED
        BY <2>1, <3>1
    <3>4. CASE t = {}
      <4> HIDE DEF new
      <4> QED
        BY <3>2, <3>3, <3>4
    <3>5. CASE t # {}
      <4>1. t \ {Max(t)} \in SUBSET (1 .. k + 1) /\ k + 1 \notin t \ {Max(t)}
        BY <2>3
      <4>2. new[t \ {Max(t)}] = h[t \ {Max(t)}]
        BY <4>1
      <4> HIDE DEF new
      <4> QED
        BY <3>2, <3>3, <3>5, <4>2
    <3> QED
      BY <3>4, <3>5
  <2>4. new = [t \in SUBSET (1 .. k + 1) |-> Value(new, t)]
    <3> HIDE DEF Value
    <3>1. \A t \in SUBSET (1 .. k + 1) : new[t] = Value(new, t)
      BY <2>2, <2>3
    <3>2. new = [t \in SUBSET (1 .. k + 1) |-> new[t]]
      OBVIOUS
    <3> HIDE DEF new
    <3> QED
      BY <3>1, <3>2
  <2>5. k + 1 \in 0 .. N
    OBVIOUS
  <2> HIDE DEF new, Value
  <2> QED
    BY <2>4, <2>5
<1>3. N \in Good
  <2> HIDE DEF Good
  <2>1. 0 .. N \subseteq Good
    BY <1>1, <1>2, Induct
  <2> QED
    BY <2>1
<1> QED
  BY <1>3 DEF Passing

\* The states that a cycle goes through.
\* a[k] is what a pass over s has made of e0 after its first k steps.
Passed(a, s, e0) == /\ a[0] = e0 /\ Pass(e0, s) = a[Len(s)]
                    /\ \A k \in 1 .. Len(s) : a[k] = Process(a[k - 1], s[k])

LEMMA PassSteps ==
    ASSUME NEW s, IsSeq(s), NEW e0
    PROVE  \E a : Passed(a, s, e0)
<1> DEFINE N == Len(s)
           Value(g, t) == IF t = {} THEN e0 ELSE Process(g[t \ {Max(t)}], s[Max(t)])
<1>1. N \in Nat /\ DOMAIN s = 1 .. N
  BY Grown
<1> HIDE DEF N
<1>2. \E h : h = [t \in SUBSET (DOMAIN s) |-> Value(h, t)]
  <2>1. \E h : h = [t \in SUBSET (1 .. N) |-> Value(h, t)]
    <3>1. PICK h : Passing(h, N, s, e0)
      BY <1>1, PassExists
    <3>2. h = [t \in SUBSET (1 .. N) |-> Value(h, t)]
      BY <3>1 DEF Passing
    <3> HIDE DEF Value
    <3> QED
      BY <3>2
  <2> HIDE DEF Value
  <2> QED
    BY <1>1, <2>1
<1>3. PICK h : h = [t \in SUBSET (DOMAIN s) |-> Value(h, t)] /\ FoldLeft(Process, e0, s) = h[DOMAIN s]
  BY <1>2 DEF FoldLeft, MapThenFoldSet
<1> DEFINE a == [k \in 0 .. N |-> h[1 .. k]]
<1>4. \A t \in SUBSET (1 .. N) : h[t] = Value(h, t)
  <2> HIDE DEF Value
  <2> QED
    BY <1>1, <1>3
<1>5. a[0] = e0 /\ FoldLeft(Process, e0, s) = a[N]
  <2>1. 1 .. 0 = {} /\ {} \in SUBSET (1 .. N) /\ 0 \in 0 .. N /\ N \in 0 .. N
    BY <1>1
  <2>2. h[{}] = e0
    BY <1>4, <2>1
  <2> HIDE DEF Value
  <2> QED
    BY <1>1, <1>3, <2>1, <2>2
<1>6. ASSUME NEW k \in 1 .. N PROVE a[k] = Process(a[k - 1], s[k])
  <2>1. k - 1 \in Nat /\ k \in 0 .. N /\ k - 1 \in 0 .. N /\ k \in 1 .. k /\ (k - 1) + 1 = k /\ 1 .. k # {}
    BY <1>1
  <2>2. Max(1 .. k) = k
    BY ONLY <2>1, MaxOfInterval
  <2>3. (1 .. k) \ {k} = 1 .. k - 1 /\ 1 .. k \in SUBSET (1 .. N)
    BY <1>1
  <2>4. h[1 .. k] = Process(h[1 .. k - 1], s[k])
    BY <1>4, <2>1, <2>2, <2>3
  <2> QED
    BY <2>1, <2>4
<1> HIDE DEF a
<1>7. Passed(a, s, e0)
  BY <1>5, <1>6 DEF N, Pass, Passed
<1> QED
  BY <1>7, Zenon

Kept(e) == e.st = [i \in Ids |-> e.st[i]] /\ e.log = [i \in Ids |-> e.log[i]]

\* One channel: the others are left alone.
LEMMA ProcessOne ==
    ASSUME NEW e, Kept(e), NEW c, c.id \in Ids
    PROVE  /\ Kept(Process(e, c))
           /\ \A i \in Ids : i # c.id => /\ Process(e, c).st[i] = e.st[i]
                                         /\ Process(e, c).log[i] = e.log[i]
           /\ Did(c, e.st[c.id], e.log[c.id], Process(e, c).st[c.id], Process(e, c).log[c.id])
<1> DEFINE in == [i \in DOMAIN c.in |-> e.val[c.in[i]]]
           old == e.val[c.id]
           r == Exec(c, e.st[c.id], in, old)
           f == Process(e, c)
<1>1. /\ f.st = [e.st EXCEPT ![c.id] = r.s]
      /\ f.log = [e.log EXCEPT ![c.id] = Append(@, Seen(in, r.y))]
  BY DEF Process, Seen
<1> HIDE DEF f, r, in, old
<1>2. DOMAIN e.st = Ids /\ DOMAIN e.log = Ids
  BY DEF Kept
<1>3. /\ f.st = [i \in Ids |-> IF i = c.id THEN r.s ELSE e.st[i]]
      /\ f.log = [i \in Ids |-> IF i = c.id THEN Append(e.log[i], Seen(in, r.y)) ELSE e.log[i]]
  BY <1>1, <1>2
<1>4. Kept(f)
  BY <1>3 DEF Kept
<1>5. f.st[c.id] = r.s /\ f.log[c.id] = Append(e.log[c.id], Seen(in, r.y))
  BY <1>3
<1>6. \A i \in Ids : i # c.id => f.st[i] = e.st[i] /\ f.log[i] = e.log[i]
  BY <1>3
<1>7. Did(c, e.st[c.id], e.log[c.id], f.st[c.id], f.log[c.id])
  BY <1>5 DEF Did, r
<1> QED
  BY <1>4, <1>6, <1>7 DEF f

Turned(e, c) == Did(c, st[c.id], log[c.id], e.st[c.id], e.log[c.id])

\* A cycle gives every channel one turn.
LEMMA EachTurn ==
    ASSUME Shape, NEW step, Cycle(step)
    PROVE  /\ \A c \in Channels : Turn(c)
           /\ st' = [i \in Ids |-> st'[i]] /\ log' = [i \in Ids |-> log'[i]]
<1> DEFINE s == config.channels
           N == Len(s)
<1>1. PICK e0 : /\ e0.st = st /\ e0.log = log
                /\ st' = Pass(e0, s).st /\ log' = Pass(e0, s).log
  BY DEF Cycle, Pass
<1>2. IsSeq(s)
  BY ConfigsAssumption DEF ConfigsAssumption, IsSeq, Shape
<1>3. PICK a : /\ a[0] = e0 /\ Pass(e0, s) = a[N]
               /\ \A k \in 1 .. N : a[k] = Process(a[k - 1], s[k])
  <2>1. PICK b : Passed(b, s, e0)
    BY <1>2, PassSteps, Zenon
  <2> QED
    BY <2>1, Zenon DEF Passed
<1>4. /\ N \in Nat
      /\ \A i, j \in 1 .. N : s[i].id = s[j].id => i = j
      /\ \A i \in 1 .. N : s[i].id \in Ids
      /\ Channels = {s[i] : i \in 1 .. N}
  BY OwnIds DEF Shape, Channels, ToSet
<1> HIDE DEF s, N
<1> DEFINE Good == {k \in 0 .. N :
                      /\ Kept(a[k])
                      /\ \A j \in 1 .. N : IF j <= k THEN Turned(a[k], s[j])
                            ELSE a[k].st[s[j].id] = st[s[j].id] /\ a[k].log[s[j].id] = log[s[j].id]}
<1>5. 0 \in Good
  BY <1>1, <1>3, <1>4 DEF Kept, Shape
<1>6. ASSUME NEW k \in 0 .. N - 1, k \in Good PROVE k + 1 \in Good
  <2>1. k + 1 \in 1 .. N /\ k + 1 \in 0 .. N /\ (k + 1) - 1 = k /\ k \in 0 .. N
    BY <1>4
  <2>2. a[k + 1] = Process(a[k], s[k + 1])
    BY <1>3, <2>1
  <2>3. Kept(a[k]) /\ s[k + 1].id \in Ids
    BY <1>4, <1>6, <2>1
  <2>4. a[k].st[s[k + 1].id] = st[s[k + 1].id] /\ a[k].log[s[k + 1].id] = log[s[k + 1].id]
    BY <1>6, <2>1
  <2>5. Kept(a[k + 1]) /\ Turned(a[k + 1], s[k + 1])
    BY <2>2, <2>3, <2>4, ProcessOne DEF Turned
  <2>6. ASSUME NEW j \in 1 .. N, j # k + 1
        PROVE  a[k + 1].st[s[j].id] = a[k].st[s[j].id] /\ a[k + 1].log[s[j].id] = a[k].log[s[j].id]
    <3>1. s[j].id # s[k + 1].id /\ s[j].id \in Ids
      BY <1>4, <2>1, <2>6
    <3>2. \A i \in Ids : i # s[k + 1].id => /\ Process(a[k], s[k + 1]).st[i] = a[k].st[i]
                                            /\ Process(a[k], s[k + 1]).log[i] = a[k].log[i]
      BY <2>3, ProcessOne
    <3> HIDE DEF Good
    <3> QED
      BY <2>2, <3>1, <3>2
  <2>7. ASSUME NEW j \in 1 .. N
        PROVE  IF j <= k + 1 THEN Turned(a[k + 1], s[j])
               ELSE a[k + 1].st[s[j].id] = st[s[j].id] /\ a[k + 1].log[s[j].id] = log[s[j].id]
    <3>1. CASE j = k + 1
      BY <2>5, <3>1
    <3>2. CASE j <= k
      <4>1. Turned(a[k], s[j]) /\ j # k + 1
        BY <1>6, <3>2
      <4> QED
        BY <2>6, <3>2, <4>1 DEF Turned
    <3>3. CASE j > k + 1
      <4>1. a[k].st[s[j].id] = st[s[j].id] /\ a[k].log[s[j].id] = log[s[j].id]
        BY <1>6, <3>3
      <4> QED
        BY <2>6, <3>3, <4>1
    <3> QED
      BY <3>1, <3>2, <3>3
  <2> QED
    BY <2>1, <2>5, <2>7
<1>7. N \in Good
  <2>1. N \in 0 .. N
    BY <1>4
  <2> HIDE DEF Good
  <2>2. 0 .. N \subseteq Good
    BY <1>4, <1>5, <1>6, Induct
  <2> QED
    BY <2>1, <2>2
<1>8. Kept(a[N]) /\ \A j \in 1 .. N : Turned(a[N], s[j])
  BY <1>7
<1>9. a[N].st = st' /\ a[N].log = log'
  BY <1>1, <1>3
<1>10. \A c \in Channels : Turn(c)
  BY <1>4, <1>8, <1>9 DEF Turned, Turn
<1> QED
  BY <1>8, <1>9, <1>10 DEF Kept
-----------------------------------------------------------------------------
(* The timer.                                                              *)

Triggers == {"LEVEL", "RISING_EDGE", "FALLING_EDGE", "ANY_EDGE"}
TimerStates == [state : {"IDLE", "RUNNING", "EXPIRED"}, out : {0, 1}, last : {0, 1},
                start : Nat, elapsed : Nat]

\* What one update makes of a timer, by its state and mode.
TimerMoves(c, s, hit, u, r) ==
    /\ s.state = "IDLE" /\ ~hit => r.state = "IDLE" /\ r.out = s.out
    /\ s.state = "IDLE" /\ hit => /\ r.state = "RUNNING" /\ r.start = u
                                  /\ r.out = Bit(c.mode \notin {"DELAY_ON", "DELAY_OFF"})
    /\ s.state = "EXPIRED" => \/ r.state = "EXPIRED" /\ r.out = s.out
                              \/ c.autoReset /\ r.state = "IDLE" /\ r.out = Bit(c.mode = "DELAY_ON")
    /\ s.state = "RUNNING" /\ c.mode = "DELAY_ON" =>
          \/ c.trigger = "LEVEL" /\ ~hit /\ r.state = "IDLE" /\ r.out = 0
          \/ ~(c.trigger = "LEVEL" /\ ~hit) /\ u - s.start >= c.ms /\ r.state = "EXPIRED" /\ r.out = 1
          \/ ~(c.trigger = "LEVEL" /\ ~hit) /\ r.state = "RUNNING" /\ r.start = s.start /\ r.out = 0
    /\ s.state = "RUNNING" /\ c.mode = "DELAY_OFF" =>
          \/ hit /\ r.state = "RUNNING" /\ r.start = u /\ r.out = 1
          \/ ~hit /\ u - s.start >= c.ms /\ r.state = "EXPIRED" /\ r.out = 0
          \/ ~hit /\ r.state = "RUNNING" /\ r.start = s.start /\ r.out = s.out
    /\ s.state = "RUNNING" /\ c.mode \in Pulses =>
          \/ hit /\ c.ms > 0 /\ r.state = "RUNNING" /\ r.start = u /\ r.out = 1
          \/ hit /\ c.ms = 0 /\ r.state = "EXPIRED" /\ r.out = 0
          \/ u - s.start >= c.ms /\ r.state = "EXPIRED" /\ r.out = 0
          \/ u - s.start < c.ms /\ r.state = "RUNNING" /\ r.start = s.start /\ r.out = s.out

LEMMA BitIs == ASSUME NEW b \in BOOLEAN PROVE Bit(b) \in {0, 1} /\ (High(Bit(b)) <=> b)
  BY DEF Bit, High

LEMMA TimerDoes ==
    ASSUME NEW c, c.ms \in Nat, c.trigger \in Triggers, NEW s \in TimerStates, NEW x,
           NEW u \in Nat, s.start <= u
    PROVE  LET r == TimerUpdate(s, c, x, u) IN
           /\ r.y = r.s.out /\ r.s \in TimerStates /\ r.s.start <= u
           /\ r.s.last = Bit(High(x))
           /\ TimerMoves(c, s, Triggered(c, s.last, x), u, r.s)
<1> DEFINE hit == Triggered(c, s.last, x)
           z == [s EXCEPT !.last = Bit(High(x))]
<1>1. hit \in BOOLEAN
  BY DEF Triggered, High, Triggers
<1>2. /\ z \in TimerStates /\ z.last = Bit(High(x)) /\ z.state = s.state /\ z.out = s.out
      /\ z.start = s.start /\ z.start <= u
  <2>1. High(x) \in BOOLEAN
    BY DEF High
  <2>2. Bit(High(x)) \in {0, 1}
    BY <2>1, BitIs
  <2> QED
    BY <2>2 DEF TimerStates
<1> HIDE DEF hit, z
<1> DEFINE t == IF z.state = "IDLE" THEN IF hit THEN Started(z, c, u) ELSE z
                ELSE IF z.state = "RUNNING" THEN Running(z, c, hit, u)
                ELSE IF c.autoReset THEN [z EXCEPT !.state = "IDLE", !.out = Bit(c.mode = "DELAY_ON")]
                ELSE z
<1>3. TimerUpdate(s, c, x, u) = Result(t, t.out)
  BY <1>2 DEF TimerUpdate, hit, z, TimerStates
<1>4. t \in TimerStates /\ t.start <= u /\ t.last = z.last /\ TimerMoves(c, z, hit, u, t)
  <2>1. CASE z.state = "IDLE"
    <3>1. CASE ~hit
      BY <1>2, <2>1, <3>1 DEF TimerMoves
    <3>2. CASE hit
      <4> DEFINE up == Bit(c.mode \notin {"DELAY_ON", "DELAY_OFF"})
      <4>1. up \in {0, 1}
        BY DEF Bit
      <4>2. t = [z EXCEPT !.state = "RUNNING", !.start = u, !.elapsed = 0, !.out = up]
        BY <2>1, <3>2 DEF Started
      <4> HIDE DEF t, up
      <4>3. /\ t \in TimerStates /\ t.start = u /\ t.last = z.last /\ t.state = "RUNNING" /\ t.out = up
        BY <1>2, <4>1, <4>2 DEF TimerStates
      <4> QED
        BY <2>1, <3>2, <4>3 DEF TimerMoves, up
    <3> QED
      BY <1>1, <3>1, <3>2
  <2>2. CASE z.state = "EXPIRED"
    BY <1>2, <2>2 DEF TimerMoves, TimerStates, Bit
  <2>3. CASE z.state = "RUNNING"
    <3> DEFINE again == hit /\ c.mode = "RETRIGGERABLE"
               y == [z EXCEPT !.start = IF again THEN u ELSE @,
                              !.elapsed = IF again THEN 0 ELSE u - z.start,
                              !.out = IF again THEN 1 ELSE @]
    <3>1. /\ y \in TimerStates /\ y.state = "RUNNING" /\ y.last = z.last
          /\ again => y.start = u /\ y.elapsed = 0 /\ y.out = 1
          /\ ~again => y.start = z.start /\ y.elapsed = u - z.start /\ y.out = z.out
      <4>1. u - z.start \in Nat
        BY <1>2 DEF TimerStates
      <4>2. CASE again
        <5>1. y = [z EXCEPT !.start = u, !.elapsed = 0, !.out = 1]
          BY <4>2
        <5> HIDE DEF y
        <5> QED
          BY <1>2, <2>3, <4>2, <5>1 DEF TimerStates
      <4>3. CASE ~again
        <5>1. y = [z EXCEPT !.start = z.start, !.elapsed = u - z.start, !.out = z.out]
          BY <4>3
        <5> HIDE DEF y
        <5> QED
          BY <1>2, <2>3, <4>1, <4>3, <5>1 DEF TimerStates
      <4> QED
        BY <4>2, <4>3
    <3>2. t = Running(z, c, hit, u)
      BY <2>3
    <3> HIDE DEF y, t
    <3>3. CASE c.mode = "DELAY_ON"
      <4>1. t = IF Released(c, hit) THEN TimerReset(y) ELSE IF y.elapsed >= c.ms THEN Expired(y, 1)
                ELSE [y EXCEPT !.out = 0]
        BY <3>2, <3>3 DEF Running, y
      <4> QED
        BY <1>1, <1>2, <2>3, <3>1, <3>3, <4>1 DEF TimerMoves, TimerStates, TimerReset, Expired, Released, Pulses
    <3>4. CASE c.mode = "DELAY_OFF"
      <4>1. t = IF hit THEN [y EXCEPT !.out = 1, !.start = u] ELSE IF y.elapsed >= c.ms THEN Expired(y, 0)
                ELSE y
        BY <3>2, <3>4 DEF Running, y
      <4>2. ~again /\ y.elapsed = u - z.start /\ y.start = z.start /\ y.out = z.out
        BY <3>1, <3>4
      <4>3. CASE hit
        <5>1. t = [y EXCEPT !.out = 1, !.start = u]
          BY <4>1, <4>3
        <5>2. t \in TimerStates /\ t.start = u /\ t.last = y.last /\ t.out = 1 /\ t.state = "RUNNING"
          BY <3>1, <5>1 DEF TimerStates
        <5> QED
          BY <2>3, <3>1, <3>4, <4>3, <5>2 DEF TimerMoves, Pulses
      <4>4. CASE ~hit /\ y.elapsed >= c.ms
        BY <1>2, <2>3, <3>1, <3>4, <4>1, <4>2, <4>4 DEF TimerMoves, TimerStates, Expired, Pulses
      <4>5. CASE ~hit /\ ~(y.elapsed >= c.ms)
        BY <1>2, <2>3, <3>1, <3>4, <4>1, <4>2, <4>5 DEF TimerMoves, TimerStates, Pulses
      <4> QED
        BY <1>1, <4>3, <4>4, <4>5
    <3>5. CASE c.mode = "BLINK"
      <4>1. t = IF Released(c, hit) THEN TimerReset(y)
                ELSE [y EXCEPT !.out = Bit(y.elapsed % (c.on + c.off) < c.on)]
        BY <3>2, <3>5 DEF Running, y
      <4>2. Bit(y.elapsed % (c.on + c.off) < c.on) \in {0, 1}
        BY DEF Bit
      <4> HIDE DEF again
      <4> QED
        BY <1>1, <1>2, <2>3, <3>1, <3>5, <4>1, <4>2 DEF TimerMoves, TimerStates, TimerReset, Pulses, again
    <3>6. CASE c.mode \notin {"DELAY_ON", "DELAY_OFF", "BLINK"}
      <4>1. t = IF y.elapsed >= c.ms THEN Expired(y, 0) ELSE y
        BY <3>2, <3>6 DEF Running, y
      <4>2. c.mode # "DELAY_ON" /\ c.mode # "DELAY_OFF"
        BY <3>6
      <4>3. CASE y.elapsed >= c.ms
        <5>1. t = Expired(y, 0)
          BY <4>1, <4>3
        <5>2. t \in TimerStates /\ t.start = y.start /\ t.last = z.last /\ t.state = "EXPIRED" /\ t.out = 0
          BY <3>1, <5>1 DEF Expired, TimerStates
        <5>3. y.start <= u
          BY <1>2, <3>1
        <5>4. CASE again
          <6>1. c.ms = 0 /\ hit
            BY <3>1, <4>3, <5>4
          <6> HIDE DEF again
          <6> QED
            BY <2>3, <4>2, <5>2, <5>3, <6>1 DEF TimerMoves
        <5>5. CASE ~again
          <6>1. u - z.start >= c.ms
            BY <3>1, <4>3, <5>5
          <6> HIDE DEF again
          <6> QED
            BY <2>3, <4>2, <5>2, <5>3, <6>1 DEF TimerMoves
        <5> QED
          BY <5>4, <5>5
      <4>4. CASE ~(y.elapsed >= c.ms)
        <5>1. t = y
          BY <4>1, <4>4
        <5>3. y.start <= u
          BY <1>2, <3>1
        <5>4. CASE again
          <6>1. c.ms > 0 /\ hit
            BY <3>1, <4>4, <5>4
          <6> QED
            BY <2>3, <3>1, <4>2, <5>1, <5>3, <5>4, <6>1 DEF TimerMoves
        <5>5. CASE ~again
          <6>1. u - z.start < c.ms
            BY <1>2, <3>1, <4>4, <5>5 DEF TimerStates
          <6> HIDE DEF again
          <6> QED
            BY <2>3, <3>1, <4>2, <5>1, <5>3, <5>5, <6>1 DEF TimerMoves
        <5> QED
          BY <5>4, <5>5
      <4> QED
        BY <4>3, <4>4
    <3> QED
      BY <3>3, <3>4, <3>5, <3>6
  <2> HIDE DEF t
  <2> QED
    BY <1>2, <2>1, <2>2, <2>3 DEF TimerStates
<1>5. TimerMoves(c, s, hit, u, t)
  BY <1>2, <1>4 DEF TimerMoves
<1> HIDE DEF t
<1> QED
  BY <1>2, <1>3, <1>4, <1>5 DEF Result, hit

Times(l, t) == \A k \in 1 .. Len(l) : /\ l[k].at \in Nat /\ l[k].at <= t /\ l[k].out \in {0, 1}
                                      /\ \A j \in 1 .. k : l[j].at <= l[k].at
Gave(l, k) == IF k = 0 THEN 0 ELSE l[k].out
Rose(l, k) == Gave(l, k) = 1 /\ Gave(l, k - 1) = 0
Fell(l, k) == Gave(l, k) = 0 /\ Gave(l, k - 1) = 1
Struck(c, l, j) ==
    Triggered(c, IF j = 1 THEN Bit(~High(l[j].in[1])) ELSE l[j - 1].in[1], l[j].in[1])

\* Cycle j triggered and, if it is a level, so did the cycles up to cycle k.
Held(c, l, j, k) == Struck(c, l, j) /\ (c.trigger = "LEVEL" => \A i \in j .. k : Struck(c, l, i))

TimerShape(s, l, t) ==
    /\ s \in TimerStates /\ s.start <= t /\ Times(l, t)
    /\ Len(l) = 0 => s.state = "IDLE" /\ s.out = 0
    /\ Len(l) > 0 => s.out = l[Len(l)].out /\ s.last = Bit(High(l[Len(l)].in[1]))

DelayOn(c, s, l) ==
    /\ s.state = "RUNNING" => s.out = 0 /\ \E j \in 1 .. Len(l) : l[j].at = s.start /\ Held(c, l, j, Len(l))
    /\ s.state = "EXPIRED" => s.out = 1
    /\ \A k \in 1 .. Len(l) : Rose(l, k) =>
          \E j \in 1 .. k : l[k].at - l[j].at >= c.ms /\ Held(c, l, j, k)

DelayOff(c, s, l) ==
    /\ s.out = 1 => /\ s.state = "RUNNING"
                    /\ \E j \in 1 .. Len(l) : /\ l[j].at = s.start
                                              /\ \A i \in j + 1 .. Len(l) : ~Struck(c, l, i)
    /\ \A k \in 1 .. Len(l) : Fell(l, k) =>
          \A j \in 1 .. k : l[k].at - l[j].at < c.ms => ~Struck(c, l, j)

Pulsed(c, l, k) == \E j \in 1 .. k : Struck(c, l, j) /\ (j = k \/ l[k].at - l[j].at < c.ms)

Pulse(c, s, l) ==
    /\ s.out = 1 <=> s.state = "RUNNING"
    /\ s.state = "RUNNING" => \E j \in 1 .. Len(l) : l[j].at = s.start /\ Struck(c, l, j)
    /\ \A k \in 1 .. Len(l) : l[k].out = 1 => Pulsed(c, l, k)
    /\ \A k \in 1 .. Len(l) : Rose(l, k) =>
          /\ \A i \in k .. Len(l) : l[i].at - l[k].at < c.ms => l[i].out = 1
          /\ l[Len(l)].at - l[k].at < c.ms => s.state = "RUNNING" /\ s.start >= l[k].at

\* What has expired stays so, unless the timer resets itself.
Single(c, s, l) ==
    /\ s.state = "IDLE" => \A k \in 1 .. Len(l) : l[k].out = 0
    /\ \A k \in 1 .. Len(l) : Rose(l, k) => \A i \in 1 .. k - 1 : l[i].out = 0

TimerInv(c, s, l, t) ==
    /\ TimerShape(s, l, t)
    /\ c.mode = "ONESHOT" /\ ~c.autoReset => Single(c, s, l)
    /\ c.mode = "DELAY_ON" => DelayOn(c, s, l)
    /\ c.mode = "DELAY_OFF" => DelayOff(c, s, l)
    /\ c.mode \in Pulses => Pulse(c, s, l)

\* Before anything is read.
LEMMA TimerAtRest ==
    ASSUME NEW c, NEW s \in TimerStates, NEW t \in Nat, s.start <= t, s.state = "IDLE", s.out = 0
    PROVE  TimerInv(c, s, <<>>, t)
  BY DEF TimerInv, TimerShape, Times, DelayOn, DelayOff, Pulse, Single

\* Time alone changes nothing.
LEMMA TimerWaits ==
    ASSUME NEW c, NEW s, NEW l, Len(l) \in Nat, NEW t \in Nat, NEW u \in Nat, t <= u, TimerInv(c, s, l, t)
    PROVE  TimerInv(c, s, l, u)
<1>1. TimerShape(s, l, u)
  BY DEF TimerInv, TimerShape, Times, TimerStates
<1> QED
  BY <1>1 DEF TimerInv

LEMMA TriggeredBy ==
    ASSUME NEW c, c.trigger \in Triggers, NEW w, NEW x
    PROVE  /\ Triggered(c, w, x) \in BOOLEAN
           /\ c.trigger = "LEVEL" => (Triggered(c, w, x) <=> High(x))
           /\ c.trigger = "RISING_EDGE" => (Triggered(c, w, x) <=> High(x) /\ ~High(w))
           /\ c.trigger = "FALLING_EDGE" => (Triggered(c, w, x) <=> ~High(x) /\ High(w))
           /\ c.trigger = "ANY_EDGE" => (Triggered(c, w, x) <=> High(x) # High(w))
  BY DEF Triggered, Triggers, High

\* One cycle: what is new in the history is its last entry.
LEMMA TimerTurn ==
    ASSUME NEW c, c.ms \in Nat, c.trigger \in Triggers, NEW s, NEW l, IsSeq(l), NEW t \in Nat,
           NEW u \in Nat, t <= u, TimerInv(c, s, l, t), NEW e, NEW r,
           r = TimerUpdate(s, c, e.in[1], u), e.at = u, e.out = r.y
    PROVE  TimerInv(c, r.s, Append(l, e), u)
<1> DEFINE m == Append(l, e)
           n == Len(l)
           x == e.in[1]
           hit == Triggered(c, s.last, x)
           q == r.s
<1>1. /\ n \in Nat /\ Len(m) = n + 1 /\ m[n + 1] = e /\ \A k \in 1 .. n : m[k] = l[k]
  BY Grown
<1>2. TimerShape(s, l, t)
  BY DEF TimerInv
<1>3. /\ e.out = q.out /\ q \in TimerStates /\ q.start <= u /\ q.last = Bit(High(x))
      /\ TimerMoves(c, s, hit, u, q)
  <2>1. s \in TimerStates /\ s.start <= u
    BY <1>2 DEF TimerShape, TimerStates
  <2> QED
    BY <2>1, TimerDoes
<1>4. hit \in BOOLEAN
  BY DEF Triggered, High, Triggers
<1> HIDE DEF m, n, q, hit, x
<1>5. \A k \in 1 .. n : m[k] = l[k] /\ Struck(c, m, k) = Struck(c, l, k)
  <2> TAKE k \in 1 .. n
  <2>1. k # 1 => k - 1 \in 1 .. n
    BY <1>1
  <2> QED
    BY <1>1, <2>1 DEF Struck
<1>6. n > 0 => hit = Struck(c, m, n + 1)
  BY <1>1, <1>2, BitIs DEF Struck, hit, x, Triggered, Triggers, High, TimerShape, n
<1>7. hit => Struck(c, m, n + 1)
  <2> DEFINE w == Bit(~High(x))
  <2>1. CASE n = 0
    <3>1. Struck(c, m, n + 1) = Triggered(c, w, x)
      BY <1>1, <2>1 DEF Struck, x
    <3>2. High(w) <=> ~High(x)
      BY DEF Bit, High
    <3> HIDE DEF w
    <3>3. Triggered(c, s.last, x) => Triggered(c, w, x)
      <4>1. CASE c.trigger = "LEVEL"
        BY <4>1, TriggeredBy
      <4>2. CASE c.trigger = "RISING_EDGE"
        BY <3>2, <4>2, TriggeredBy
      <4>3. CASE c.trigger = "FALLING_EDGE"
        BY <3>2, <4>3, TriggeredBy
      <4>4. CASE c.trigger = "ANY_EDGE"
        <5>1. Triggered(c, w, x)
          BY <3>2, <4>4, TriggeredBy DEF High
        <5> QED
          BY <5>1
      <4> QED
        BY <4>1, <4>2, <4>3, <4>4 DEF Triggers
    <3> QED
      BY <3>1, <3>3 DEF hit
  <2>2. CASE n > 0
    BY <1>6, <2>2
  <2> QED
    BY <1>1, <2>1, <2>2
<1>8. Times(m, u)
  <2>1. \A k \in 1 .. n : l[k].at \in Nat /\ l[k].at <= u
    BY <1>2 DEF TimerShape, Times, n
  <2>2. e.out \in {0, 1}
    BY <1>3 DEF TimerStates
  <2>3. \A k \in 1 .. n : m[k] = l[k] /\ \A j \in 1 .. k : m[j] = l[j]
    BY <1>1
  <2> SUFFICES ASSUME NEW k \in 1 .. n + 1
               PROVE  /\ m[k].at \in Nat /\ m[k].at <= u /\ m[k].out \in {0, 1}
                      /\ \A j \in 1 .. k : m[j].at <= m[k].at
    BY <1>1 DEF Times
  <2>4. CASE k \in 1 .. n
    BY <1>2, <2>1, <2>3, <2>4 DEF TimerShape, Times, n
  <2>5. CASE k = n + 1
    <3>1. \A j \in 1 .. k : m[j].at <= u
      BY <1>1, <2>1, <2>5
    <3> QED
      BY <1>1, <2>2, <2>5, <3>1
  <2> QED
    BY <1>1, <2>4, <2>5
<1>9. TimerShape(q, m, u)
  BY <1>1, <1>3, <1>8 DEF TimerShape, x
<1>10. /\ \A k \in 0 .. n : Gave(m, k) = Gave(l, k)
       /\ Gave(m, n + 1) = q.out /\ Gave(l, n) = s.out /\ s.out \in {0, 1} /\ q.out \in {0, 1}
  <2>1. \A k \in 0 .. n : Gave(m, k) = Gave(l, k)
    BY <1>1 DEF Gave
  <2>2. Gave(m, n + 1) = q.out
    BY <1>1, <1>3 DEF Gave
  <2>3. Gave(l, n) = s.out
    BY <1>1, <1>2 DEF Gave, TimerShape, n
  <2> QED
    BY <1>2, <1>3, <2>1, <2>2, <2>3 DEF TimerShape, TimerStates
<1>11. /\ \A k \in 1 .. n : (Rose(m, k) <=> Rose(l, k)) /\ (Fell(m, k) <=> Fell(l, k))
       /\ Rose(m, n + 1) <=> q.out = 1 /\ s.out = 0
       /\ Fell(m, n + 1) <=> q.out = 0 /\ s.out = 1
  BY <1>1, <1>10 DEF Rose, Fell
<1>12. \A k \in 1 .. n : \A j \in 1 .. k : Held(c, m, j, k) = Held(c, l, j, k)
  <2> TAKE k \in 1 .. n
  <2> TAKE j \in 1 .. k
  <2>1. j \in 1 .. n /\ \A i \in j .. k : i \in 1 .. n
    BY <1>1
  <2> QED
    BY <1>5, <2>1 DEF Held
<1>13. /\ s.start \in Nat /\ s.start <= u /\ q.start \in Nat
       /\ s.state \in {"IDLE", "RUNNING", "EXPIRED"}
       /\ \A k \in 1 .. n : l[k].at \in Nat /\ l[k].at <= t
  BY <1>2, <1>3 DEF TimerShape, TimerStates, Times, n
<1>14. ASSUME c.mode = "DELAY_ON" PROVE DelayOn(c, q, m)
  <2>1. DelayOn(c, s, l)
    BY <1>14 DEF TimerInv
  <2>2. q.state = "RUNNING" =>
           q.out = 0 /\ \E j \in 1 .. n + 1 : m[j].at = q.start /\ Held(c, m, j, n + 1)
    <3> SUFFICES ASSUME q.state = "RUNNING"
                 PROVE  q.out = 0 /\ \E j \in 1 .. n + 1 : m[j].at = q.start /\ Held(c, m, j, n + 1)
      OBVIOUS
    <3>1. CASE s.state = "IDLE"
      <4>1. hit /\ q.start = u /\ q.out = 0
        BY <1>3, <1>4, <1>14, <3>1 DEF TimerMoves, Bit
      <4>2. Held(c, m, n + 1, n + 1) /\ m[n + 1].at = u
        BY <1>1, <1>7, <4>1 DEF Held
      <4> QED
        BY <1>1, <4>1, <4>2
    <3>2. CASE s.state = "RUNNING"
      <4>1. q.start = s.start /\ q.out = 0 /\ (c.trigger = "LEVEL" => hit)
        BY <1>3, <1>4, <1>14, <3>2 DEF TimerMoves
      <4>2. PICK j \in 1 .. n : l[j].at = s.start /\ Held(c, l, j, n)
        BY <2>1, <3>2 DEF DelayOn, n
      <4>3. Held(c, m, j, n + 1)
        <5>1. \A i \in j .. n + 1 : i \in j .. n \/ i = n + 1
          BY <1>1
        <5>2. \A i \in j .. n : i \in 1 .. n
          BY <1>1
        <5> QED
          BY <1>5, <1>7, <4>1, <4>2, <5>1, <5>2 DEF Held
      <4> QED
        BY <1>1, <4>1, <4>2, <4>3
    <3>3. CASE s.state = "EXPIRED"
      BY <1>3, <3>3 DEF TimerMoves
    <3> QED
      BY <1>13, <3>1, <3>2, <3>3
  <2>3. q.state = "EXPIRED" => q.out = 1
    BY <1>3, <1>4, <1>13, <1>14, <2>1 DEF TimerMoves, DelayOn
  <2>4. ASSUME NEW k \in 1 .. n + 1, Rose(m, k)
        PROVE  \E j \in 1 .. k : m[k].at - m[j].at >= c.ms /\ Held(c, m, j, k)
    <3>1. CASE k \in 1 .. n
      <4>1. PICK j \in 1 .. k : l[k].at - l[j].at >= c.ms /\ Held(c, l, j, k)
        BY <1>11, <2>1, <2>4, <3>1 DEF DelayOn, n
      <4>2. j \in 1 .. n
        BY <1>1, <3>1
      <4> QED
        BY <1>1, <1>12, <3>1, <4>1, <4>2
    <3>2. CASE k = n + 1
      <4>1. q.out = 1 /\ s.out = 0
        BY <1>11, <2>4, <3>2
      <4>2. s.state = "RUNNING"
        BY <1>3, <1>4, <1>13, <1>14, <2>1, <4>1 DEF TimerMoves, DelayOn, Bit
      <4>3. u - s.start >= c.ms /\ (c.trigger = "LEVEL" => hit)
        BY <1>3, <1>4, <1>14, <4>1, <4>2 DEF TimerMoves
      <4>4. PICK j \in 1 .. n : l[j].at = s.start /\ Held(c, l, j, n)
        BY <2>1, <4>2 DEF DelayOn, n
      <4>5. Held(c, m, j, n + 1)
        <5>1. \A i \in j .. n + 1 : i \in j .. n \/ i = n + 1
          BY <1>1
        <5>2. \A i \in j .. n : i \in 1 .. n
          BY <1>1
        <5> QED
          BY <1>5, <1>7, <4>3, <4>4, <5>1, <5>2 DEF Held
      <4> QED
        BY <1>1, <3>2, <4>3, <4>4, <4>5
    <3> QED
      BY <1>1, <3>1, <3>2
  <2> QED
    BY <1>1, <2>2, <2>3, <2>4 DEF DelayOn
<1>15. ASSUME c.mode = "DELAY_OFF" PROVE DelayOff(c, q, m)
  <2>1. DelayOff(c, s, l)
    BY <1>15 DEF TimerInv
  <2>2. q.out = 1 =>
           /\ q.state = "RUNNING"
           /\ \E j \in 1 .. n + 1 : m[j].at = q.start /\ \A i \in j + 1 .. n + 1 : ~Struck(c, m, i)
    <3> SUFFICES ASSUME q.out = 1
                 PROVE  /\ q.state = "RUNNING"
                        /\ \E j \in 1 .. n + 1 : /\ m[j].at = q.start
                                                  /\ \A i \in j + 1 .. n + 1 : ~Struck(c, m, i)
      OBVIOUS
    <3>1. s.state = "RUNNING"
      BY <1>3, <1>4, <1>10, <1>13, <1>15, <2>1 DEF TimerMoves, DelayOff, Bit
    <3>2. CASE hit
      <4>1. q.state = "RUNNING" /\ q.start = u
        BY <1>3, <1>15, <3>1, <3>2 DEF TimerMoves
      <4>2. m[n + 1].at = u /\ n + 1 \in 1 .. n + 1 /\ (n + 1) + 1 .. n + 1 = {}
        BY <1>1
      <4> QED
        BY <4>1, <4>2
    <3>3. CASE ~hit
      <4>1. q.state = "RUNNING" /\ q.start = s.start /\ s.out = 1
        BY <1>3, <1>15, <3>1, <3>3 DEF TimerMoves
      <4>2. PICK j \in 1 .. n : l[j].at = s.start /\ \A i \in j + 1 .. n : ~Struck(c, l, i)
        BY <2>1, <4>1 DEF DelayOff, n
      <4>3. ~Struck(c, m, n + 1)
        BY <1>1, <1>6, <3>3, <4>2
      <4>4. \A i \in j + 1 .. n + 1 : ~Struck(c, m, i)
        <5>1. \A i \in j + 1 .. n + 1 : i = n + 1 \/ (i \in j + 1 .. n /\ i \in 1 .. n)
          BY <1>1
        <5> QED
          BY <1>5, <4>2, <4>3, <5>1
      <4> QED
        BY <1>1, <4>1, <4>2, <4>4
    <3> QED
      BY <1>4, <3>2, <3>3
  <2>3. ASSUME NEW k \in 1 .. n + 1, Fell(m, k), NEW j \in 1 .. k, m[k].at - m[j].at < c.ms
        PROVE  ~Struck(c, m, j)
    <3>1. CASE k \in 1 .. n
      <4>1. j \in 1 .. n
        BY <1>1, <3>1
      <4> QED
        BY <1>1, <1>5, <1>11, <2>1, <2>3, <3>1, <4>1 DEF DelayOff, n
    <3>2. CASE k = n + 1
      <4>1. q.out = 0 /\ s.out = 1
        BY <1>11, <2>3, <3>2
      <4>2. s.state = "RUNNING"
        BY <2>1, <4>1 DEF DelayOff
      <4>3. ~hit /\ u - s.start >= c.ms
        BY <1>3, <1>4, <1>15, <4>1, <4>2 DEF TimerMoves
      <4>4. PICK j0 \in 1 .. n : l[j0].at = s.start /\ \A i \in j0 + 1 .. n : ~Struck(c, l, i)
        BY <2>1, <4>1 DEF DelayOff, n
      <4>5. m[k].at = u
        BY <1>1, <3>2
      <4>6. CASE j = n + 1
        BY <1>1, <1>6, <4>3, <4>4, <4>6
      <4>7. CASE j \in j0 + 1 .. n
        <5>1. j \in 1 .. n
          BY <1>1, <4>7
        <5> QED
          BY <1>5, <4>4, <4>7, <5>1
      <4>8. CASE j \in 1 .. j0
        <5>1. l[j].at <= l[j0].at /\ j \in 1 .. n
          BY <1>1, <1>2, <4>8 DEF TimerShape, Times, n
        <5>2. m[j].at <= s.start /\ m[j].at \in Nat
          BY <1>1, <1>13, <4>4, <5>1
        <5> QED
          BY <1>13, <2>3, <4>3, <4>5, <5>2
      <4> QED
        BY <1>1, <3>2, <4>6, <4>7, <4>8
    <3> QED
      BY <1>1, <3>1, <3>2
  <2> QED
    BY <1>1, <2>2, <2>3 DEF DelayOff
<1>16. ASSUME c.mode \in Pulses PROVE Pulse(c, q, m)
  <2>1. Pulse(c, s, l)
    BY <1>16 DEF TimerInv
  <2>2. c.mode # "DELAY_ON" /\ c.mode # "DELAY_OFF"
    BY <1>16 DEF Pulses
  <2>3. q.out = 1 <=> q.state = "RUNNING"
    BY <1>3, <1>4, <1>10, <1>13, <1>16, <2>1, <2>2 DEF TimerMoves, Pulse, Bit
  <2>4. q.state = "RUNNING" =>
           \/ hit /\ q.start = u
           \/ s.state = "RUNNING" /\ q.start = s.start /\ u - s.start < c.ms
    BY <1>3, <1>4, <1>13, <1>16 DEF TimerMoves
  <2>5. q.state = "RUNNING" =>
           \E j \in 1 .. n + 1 : /\ m[j].at = q.start /\ Struck(c, m, j)
                                 /\ j = n + 1 \/ u - m[j].at < c.ms
    <3> SUFFICES ASSUME q.state = "RUNNING"
                 PROVE  \E j \in 1 .. n + 1 : /\ m[j].at = q.start /\ Struck(c, m, j)
                                              /\ j = n + 1 \/ u - m[j].at < c.ms
      OBVIOUS
    <3>1. CASE hit /\ q.start = u
      BY <1>1, <1>7, <3>1
    <3>2. CASE s.state = "RUNNING" /\ q.start = s.start /\ u - s.start < c.ms
      <4>1. PICK j \in 1 .. n : l[j].at = s.start /\ Struck(c, l, j)
        BY <2>1, <3>2 DEF Pulse, n
      <4> QED
        BY <1>1, <1>5, <3>2, <4>1
    <3> QED
      BY <2>4, <3>1, <3>2
  <2>6. ASSUME NEW k \in 1 .. n + 1, m[k].out = 1 PROVE Pulsed(c, m, k)
    <3>1. CASE k \in 1 .. n
      <4>1. PICK j \in 1 .. k : Struck(c, l, j) /\ (j = k \/ l[k].at - l[j].at < c.ms)
        BY <1>1, <2>1, <2>6, <3>1 DEF Pulse, Pulsed, n
      <4>2. j \in 1 .. n
        BY <1>1, <3>1
      <4> QED
        BY <1>1, <1>5, <3>1, <4>1, <4>2 DEF Pulsed
    <3>2. CASE k = n + 1
      <4>1. q.state = "RUNNING" /\ m[k].at = u
        BY <1>1, <1>3, <2>3, <2>6, <3>2
      <4> QED
        BY <2>5, <3>2, <4>1 DEF Pulsed
    <3> QED
      BY <1>1, <3>1, <3>2
  <2>7. ASSUME NEW k \in 1 .. n + 1, Rose(m, k)
        PROVE  /\ \A i \in k .. n + 1 : m[i].at - m[k].at < c.ms => m[i].out = 1
               /\ m[n + 1].at - m[k].at < c.ms => q.state = "RUNNING" /\ q.start >= m[k].at
    <3>1. CASE k \in 1 .. n
      <4>1. /\ \A i \in k .. n : l[i].at - l[k].at < c.ms => l[i].out = 1
            /\ l[n].at - l[k].at < c.ms => s.state = "RUNNING" /\ s.start >= l[k].at
        BY <1>11, <2>1, <2>7, <3>1 DEF Pulse, n
      <4>2. n \in 1 .. n /\ l[n].at \in Nat /\ l[n].at <= u /\ l[k].at \in Nat /\ m[k] = l[k]
        BY <1>1, <1>13, <3>1
      <4>3. u - l[k].at < c.ms => q.state = "RUNNING" /\ q.start >= l[k].at
        <5> SUFFICES ASSUME u - l[k].at < c.ms
                     PROVE  q.state = "RUNNING" /\ q.start >= l[k].at
          OBVIOUS
        <5>1. s.state = "RUNNING" /\ s.start >= l[k].at
          BY <4>1, <4>2
        <5>2. u - s.start < c.ms /\ c.ms > 0 /\ u >= l[k].at
          BY <1>13, <4>2, <5>1
        <5> QED
          BY <1>3, <1>13, <1>16, <4>2, <5>1, <5>2 DEF TimerMoves
      <4>4. m[n + 1].at = u /\ m[n + 1].out = q.out
        BY <1>1, <1>3
      <4>5. ASSUME NEW i \in k .. n + 1, m[i].at - m[k].at < c.ms PROVE m[i].out = 1
        <5>1. CASE i \in k .. n
          <6>1. m[i] = l[i]
            BY <1>1, <5>1, <3>1
          <6> QED
            BY <4>1, <4>2, <4>5, <5>1, <6>1
        <5>2. CASE i = n + 1
          BY <2>3, <4>2, <4>3, <4>4, <4>5, <5>2
        <5> QED
          BY <1>1, <5>1, <5>2
      <4> QED
        BY <4>2, <4>3, <4>4, <4>5
    <3>2. CASE k = n + 1
      <4>1. q.out = 1 /\ s.out = 0
        BY <1>11, <2>7, <3>2
      <4>2. q.state = "RUNNING" /\ s.state # "RUNNING"
        BY <2>1, <2>3, <4>1 DEF Pulse
      <4>3. q.start = u /\ m[k].at = u /\ m[k].out = 1
        BY <1>1, <1>3, <2>4, <3>2, <4>1, <4>2
      <4> QED
        BY <1>1, <3>2, <4>2, <4>3
    <3> QED
      BY <1>1, <3>1, <3>2
  <2>8. q.state = "RUNNING" => \E j \in 1 .. n + 1 : m[j].at = q.start /\ Struck(c, m, j)
    BY <2>5
  <2> QED
    BY <1>1, <2>3, <2>6, <2>7, <2>8 DEF Pulse
<1>17. ASSUME c.mode = "ONESHOT", ~c.autoReset PROVE Single(c, q, m)
  <2>1. Single(c, s, l) /\ Pulse(c, s, l) /\ Pulse(c, q, m)
    BY <1>16, <1>17 DEF TimerInv, Pulses
  <2>2. /\ s.state = "EXPIRED" => q.state = "EXPIRED" /\ q.out = s.out
        /\ s.state = "RUNNING" => q.state # "IDLE"
    BY <1>3, <1>4, <1>17 DEF TimerMoves, Pulses
  <2>3. s.state = "IDLE" => \A k \in 1 .. n : m[k].out = 0
    BY <1>1, <2>1 DEF Single, n
  <2>4. ASSUME q.state = "IDLE" PROVE \A k \in 1 .. n + 1 : m[k].out = 0
    <3>1. s.state = "IDLE"
      BY <1>13, <2>2, <2>4
    <3>2. q.out = 0
      BY <1>10, <2>1, <2>4 DEF Pulse
    <3>3. m[n + 1].out = 0
      BY <1>1, <1>3, <3>2
    <3>4. \A k \in 1 .. n + 1 : k \in 1 .. n \/ k = n + 1
      BY <1>1
    <3> QED
      BY <2>3, <3>1, <3>3, <3>4
  <2>5. ASSUME NEW k \in 1 .. n + 1, Rose(m, k), NEW i \in 1 .. k - 1 PROVE m[i].out = 0
    <3>1. CASE k \in 1 .. n
      <4>1. i \in 1 .. n
        BY <1>1, <3>1
      <4>2. Rose(l, k)
        BY <1>11, <2>5, <3>1
      <4>3. l[i].out = 0
        BY <2>1, <3>1, <4>2 DEF Single, n
      <4> QED
        BY <1>1, <4>1, <4>3
    <3>2. CASE k = n + 1
      <4>1. q.out = 1 /\ s.out = 0
        BY <1>11, <2>5, <3>2
      <4>2. s.state = "IDLE"
        BY <1>13, <2>1, <2>2, <4>1 DEF Pulse
      <4>3. i \in 1 .. n
        BY <1>1, <3>2
      <4> QED
        BY <2>3, <4>2, <4>3
    <3> QED
      BY <1>1, <3>1, <3>2
  <2> QED
    BY <1>1, <2>4, <2>5 DEF Single
<1>18. TimerInv(c, q, m, u)
  BY <1>9, <1>14, <1>15, <1>16, <1>17 DEF TimerInv
<1> QED
  BY <1>18 DEF q, m
-----------------------------------------------------------------------------
(* Edges of an input in a history.                                         *)

Edges(l, p) == {k \in 1 .. Len(l) : /\ High(l[k].in[p])
                                    /\ k > 1 => ~High(l[k - 1].in[p])}

\* The last cycle of a set, and none when there is none.
LEMMA LatestIs ==
    ASSUME NEW n \in Nat, NEW S \in SUBSET (1 .. n)
    PROVE  /\ Latest(S) \in 0 .. n
           /\ S = {} => Latest(S) = 0
           /\ S # {} => Latest(S) \in S
           /\ \A x \in S : x <= Latest(S)
<1>1. CASE S = {}
  BY <1>1 DEF Latest, Max
<1>2. CASE S # {}
  <2>1. Max(S) \in S /\ \A x \in S : x <= Max(S)
    BY <1>2, MaxOf
  <2>2. Max(S) \in S \cup {0} /\ \A x \in S \cup {0} : Max(S) >= x
    <3>1. Max(S) \in 1 .. n /\ \A x \in S : x \in 1 .. n
      BY <2>1
    <3>2. Max(S) >= 0 /\ \A x \in S : Max(S) >= x
      BY <2>1, <3>1
    <3> QED
      BY <2>1, <3>2
  <2>3. Latest(S) \in S \cup {0} /\ \A x \in S \cup {0} : Latest(S) >= x
    BY <2>2 DEF Latest, Max
  <2>4. \A x \in S : x \in 1 .. n
    OBVIOUS
  <2>5. Latest(S) \in S
    <3>1. PICK x \in S : x \in 1 .. n
      BY <1>2, <2>4
    <3> QED
      BY <2>3, <3>1
  <2>6. Latest(S) \in 1 .. n /\ \A x \in S : x <= Latest(S)
    BY <2>3, <2>4, <2>5
  <2> QED
    BY <1>2, <2>5, <2>6
<1> QED
  BY <1>1, <1>2

LEMMA LatestNew ==
    ASSUME NEW n \in Nat, NEW S \in SUBSET (1 .. n)
    PROVE  Latest(S \cup {n + 1}) = n + 1
<1>1. n + 1 \in Nat /\ S \cup {n + 1} \in SUBSET (1 .. n + 1)
  OBVIOUS
<1>2. Latest(S \cup {n + 1}) \in 0 .. n + 1 /\ n + 1 <= Latest(S \cup {n + 1})
  BY <1>1, LatestIs
<1> QED
  BY <1>2

LEMMA CountNew ==
    ASSUME NEW n \in Nat, NEW S \in SUBSET (1 .. n)
    PROVE  /\ IsFiniteSet(S) /\ Cardinality(S) \in Nat
           /\ Cardinality(S \cup {n + 1}) = Cardinality(S) + 1
<1>1. IsFiniteSet(S)
  <2>1. IsFiniteSet(1 .. n)
    BY FS_Interval
  <2> QED
    BY <2>1, FS_Subset
<1>2. n + 1 \notin S
  OBVIOUS
<1> QED
  BY <1>1, <1>2, FS_AddElement, FS_CardinalityType

LEMMA EdgesGrow ==
    ASSUME NEW l, IsSeq(l), NEW e, NEW p
    PROVE  LET n == Len(l)
               new == High(e.in[p]) /\ (n > 0 => ~High(l[n].in[p]))
           IN  /\ Edges(l, p) \in SUBSET (1 .. n)
               /\ Edges(Append(l, e), p) = Edges(l, p) \cup (IF new THEN {n + 1} ELSE {})
<1> DEFINE n == Len(l)
           m == Append(l, e)
           new == High(e.in[p]) /\ (n > 0 => ~High(l[n].in[p]))
<1>1. /\ n \in Nat /\ Len(m) = n + 1 /\ m[n + 1] = e /\ \A k \in 1 .. n : m[k] = l[k]
  BY Grown
<1> HIDE DEF n, m
<1>2. \A k \in 1 .. n : k \in Edges(m, p) <=> k \in Edges(l, p)
  <2> TAKE k \in 1 .. n
  <2>1. k > 1 => k - 1 \in 1 .. n
    BY <1>1
  <2> QED
    BY <1>1, <2>1 DEF Edges, n
<1>3. n + 1 \in Edges(m, p) <=> new
  <2>1. n + 1 \in 1 .. Len(m) /\ (n + 1) - 1 = n /\ (n + 1 > 1 <=> n > 0)
    BY <1>1
  <2>2. n > 0 => m[n] = l[n]
    BY <1>1
  <2> QED
    BY <1>1, <2>1, <2>2 DEF Edges
<1> HIDE DEF new
<1>4. Edges(l, p) \in SUBSET (1 .. n) /\ Edges(m, p) \in SUBSET (1 .. n + 1)
  BY <1>1 DEF Edges, n
<1>5. Edges(m, p) = Edges(l, p) \cup (IF new THEN {n + 1} ELSE {})
  <2>1. \A k \in Edges(m, p) : k \in 1 .. n \/ k = n + 1
    BY <1>1, <1>4
  <2> QED
    BY <1>2, <1>3, <1>4, <2>1
<1> QED
  BY <1>4, <1>5 DEF n, m, new
-----------------------------------------------------------------------------
(* The flip-flops.                                                         *)

FlipFlopTypes == {"D", "T", "TOGGLE", "JK"}
ClockOf(c) == CASE c.type = "TOGGLE" -> 1 [] c.type = "JK" -> 3 [] OTHER -> 2
Tells(l, k, p) == High(l[k].in[p])

\* Edges of the clock at which the first input is high, and at which the
\* two inputs differ.
Asked(l, p) == {k \in Edges(l, p) : Tells(l, k, 1)}
Sets(l, p) == {k \in Edges(l, p) : Tells(l, k, 1) # Tells(l, k, 2)}
Flips(l, p) == {k \in Edges(l, p) : k > Latest(Sets(l, p)) /\ Tells(l, k, 1)}

Made(c, l) ==
    LET edges == Edges(l, ClockOf(c)) IN
    CASE c.type = "D" -> Bit(edges # {} /\ Tells(l, Latest(edges), 1))
      [] c.type = "TOGGLE" -> Cardinality(edges) % 2
      [] c.type = "T" -> Cardinality(Asked(l, 2)) % 2
      [] c.type = "JK" -> (Cardinality(Flips(l, 3))
                           + Bit(Sets(l, 3) # {} /\ Tells(l, Latest(Sets(l, 3)), 1))) % 2

FlipShape(c, s, l) ==
    /\ s \in [q : {0, 1}, clk : {0, 1}]
    /\ Len(l) = 0 => s.clk = 0
    /\ Len(l) > 0 => s.q = l[Len(l)].out /\ s.clk = Bit(Tells(l, Len(l), ClockOf(c)))
FlipInv(c, s, l) == FlipShape(c, s, l) /\ s.q = Made(c, l)

FlipUpdate(c, s, in) ==
    CASE c.type = "D" -> DFlipFlop(s, in[1], in[2])
      [] c.type = "T" -> TFlipFlop(s, in[1], in[2])
      [] c.type = "TOGGLE" -> Toggle(s, in[1])
      [] c.type = "JK" -> JkFlipFlop(s, in[1], in[2], in[3])

\* What becomes of a flip-flop at an edge of its clock.
Clocking(c, s, in) ==
    CASE c.type = "D" -> Bit(High(in[1]))
      [] c.type = "T" -> IF High(in[1]) THEN 1 - s.q ELSE s.q
      [] c.type = "TOGGLE" -> 1 - s.q
      [] c.type = "JK" -> IF High(in[1]) /\ High(in[2]) THEN 1 - s.q
                          ELSE IF High(in[1]) THEN 1 ELSE IF High(in[2]) THEN 0 ELSE s.q

LEMMA FlipAtRest ==
    ASSUME NEW c, c.type \in FlipFlopTypes
    PROVE  FlipInv(c, FlipFlop, <<>>)
<1>1. \A p : Edges(<<>>, p) = {}
  BY DEF Edges
<1>2. \A p : Asked(<<>>, p) = {} /\ Sets(<<>>, p) = {} /\ Flips(<<>>, p) = {}
  BY <1>1 DEF Asked, Sets, Flips
<1>3. Cardinality({}) = 0 /\ 0 % 2 = 0
  BY FS_EmptySet
<1>4. Made(c, <<>>) = 0
  <2>1. CASE c.type = "D"
    BY <1>1, <2>1 DEF Made, Bit
  <2>2. CASE c.type = "TOGGLE"
    BY <1>1, <1>3, <2>2 DEF Made
  <2>3. CASE c.type = "T"
    BY <1>2, <1>3, <2>3 DEF Made
  <2>4. CASE c.type = "JK"
    <3>1. Made(c, <<>>) = (Cardinality(Flips(<<>>, 3))
                           + Bit(Sets(<<>>, 3) # {} /\ Tells(<<>>, Latest(Sets(<<>>, 3)), 1))) % 2
      BY ONLY <2>4 DEF Made
    <3>2. Cardinality(Flips(<<>>, 3)) = 0
      BY ONLY <1>2, <1>3, Zenon
    <3>3. Bit(Sets(<<>>, 3) # {} /\ Tells(<<>>, Latest(Sets(<<>>, 3)), 1)) = 0
      BY ONLY <1>2, Zenon DEF Bit
    <3>4. Made(c, <<>>) = (0 + 0) % 2
      BY ONLY <3>1, <3>2, <3>3, Zenon
    <3> QED
      BY ONLY <3>4
  <2> QED
    BY <2>1, <2>2, <2>3, <2>4 DEF FlipFlopTypes
<1> QED
  BY <1>4 DEF FlipInv, FlipShape, FlipFlop

LEMMA ChosenGrow ==
    ASSUME NEW l, IsSeq(l), NEW e, NEW p
    PROVE  LET n == Len(l)
               m == Append(l, e)
               new == High(e.in[p]) /\ (n > 0 => ~High(l[n].in[p]))
               differ == High(e.in[1]) # High(e.in[2])
           IN  /\ Asked(l, p) \in SUBSET (1 .. n) /\ Sets(l, p) \in SUBSET (1 .. n)
               /\ Asked(m, p) = Asked(l, p) \cup (IF new /\ High(e.in[1]) THEN {n + 1} ELSE {})
               /\ Sets(m, p) = Sets(l, p) \cup (IF new /\ differ THEN {n + 1} ELSE {})
<1> DEFINE n == Len(l)
           m == Append(l, e)
           new == High(e.in[p]) /\ (n > 0 => ~High(l[n].in[p]))
<1>1. /\ n \in Nat /\ m[n + 1] = e /\ \A k \in 1 .. n : m[k] = l[k]
  BY Grown
<1>2. Edges(l, p) \in SUBSET (1 .. n) /\ Edges(m, p) = Edges(l, p) \cup (IF new THEN {n + 1} ELSE {})
  BY EdgesGrow
<1> HIDE DEF n, m, new
<1>3. \A k \in Edges(l, p) : \A i : Tells(m, k, i) = Tells(l, k, i)
  BY <1>1, <1>2 DEF Tells
<1>4. \A i : Tells(m, n + 1, i) = High(e.in[i])
  BY <1>1 DEF Tells
<1>5. Asked(m, p) = Asked(l, p) \cup (IF new /\ High(e.in[1]) THEN {n + 1} ELSE {})
  BY <1>2, <1>3, <1>4 DEF Asked
<1>6. Sets(m, p) = Sets(l, p) \cup (IF new /\ (High(e.in[1]) # High(e.in[2])) THEN {n + 1} ELSE {})
  BY <1>2, <1>3, <1>4 DEF Sets
<1>7. Asked(l, p) \in SUBSET (1 .. n) /\ Sets(l, p) \in SUBSET (1 .. n)
  BY <1>2 DEF Asked, Sets
<1> QED
  BY <1>5, <1>6, <1>7 DEF n, m, new

\* Setting starts a new count of flips.
LEMMA FlipsGrow ==
    ASSUME NEW l, IsSeq(l), NEW e, NEW p
    PROVE  LET n == Len(l)
               m == Append(l, e)
               new == High(e.in[p]) /\ (n > 0 => ~High(l[n].in[p]))
               differ == High(e.in[1]) # High(e.in[2])
           IN  /\ Flips(l, p) \in SUBSET (1 .. n)
               /\ new /\ differ => Flips(m, p) = {}
               /\ ~(new /\ differ) =>
                     Flips(m, p) = Flips(l, p) \cup (IF new /\ High(e.in[1]) THEN {n + 1} ELSE {})
<1> DEFINE n == Len(l)
           m == Append(l, e)
           new == High(e.in[p]) /\ (n > 0 => ~High(l[n].in[p]))
           differ == High(e.in[1]) # High(e.in[2])
<1>1. /\ n \in Nat /\ m[n + 1] = e /\ \A k \in 1 .. n : m[k] = l[k]
  BY Grown
<1>2. Edges(l, p) \in SUBSET (1 .. n) /\ Edges(m, p) = Edges(l, p) \cup (IF new THEN {n + 1} ELSE {})
  BY EdgesGrow
<1>3. /\ Sets(l, p) \in SUBSET (1 .. n)
      /\ Sets(m, p) = Sets(l, p) \cup (IF new /\ differ THEN {n + 1} ELSE {})
  BY ChosenGrow
<1> HIDE DEF n, m, new, differ
<1>4. \A k \in Edges(l, p) : \A i : Tells(m, k, i) = Tells(l, k, i)
  BY <1>1, <1>2 DEF Tells
<1>5. \A i : Tells(m, n + 1, i) = High(e.in[i])
  BY <1>1 DEF Tells
<1>6. Latest(Sets(l, p)) \in 0 .. n
  BY <1>1, <1>3, LatestIs
<1>7. ASSUME new, differ PROVE Flips(m, p) = {}
  <2>1. Latest(Sets(m, p)) = n + 1
    BY <1>1, <1>3, <1>7, LatestNew
  <2>2. \A k \in Edges(m, p) : k <= n + 1 /\ k \in Nat
    BY <1>1, <1>2
  <2> QED
    BY <1>1, <2>1, <2>2 DEF Flips
<1>8. ASSUME ~(new /\ differ)
      PROVE  Flips(m, p) = Flips(l, p) \cup (IF new /\ High(e.in[1]) THEN {n + 1} ELSE {})
  <2>1. Sets(m, p) = Sets(l, p)
    BY <1>3, <1>8
  <2>2. n + 1 > Latest(Sets(l, p))
    BY <1>1, <1>6
  <2> QED
    BY <1>2, <1>4, <1>5, <2>1, <2>2 DEF Flips
<1>9. Flips(l, p) \in SUBSET (1 .. n)
  BY <1>2 DEF Flips
<1> QED
  BY <1>7, <1>8, <1>9 DEF n, m, new, differ

LEMMA FlipDoes ==
    ASSUME NEW c, c.type \in FlipFlopTypes, NEW s, NEW in
    PROVE  LET r == FlipUpdate(c, s, in)
               clk == in[ClockOf(c)]
           IN  /\ r.y = r.s.q
               /\ r.s = [q |-> IF High(clk) /\ ~High(s.clk) THEN Clocking(c, s, in) ELSE s.q,
                         clk |-> Bit(High(clk))]
<1>1. CASE c.type = "D"
  BY <1>1 DEF FlipUpdate, ClockOf, Clocking, Clocked, DFlipFlop, Result
<1>2. CASE c.type = "T"
  BY <1>2 DEF FlipUpdate, ClockOf, Clocking, Clocked, TFlipFlop, Result
<1>3. CASE c.type = "TOGGLE"
  BY <1>3 DEF FlipUpdate, ClockOf, Clocking, Clocked, Toggle, Result
<1>4. CASE c.type = "JK"
  BY <1>4 DEF FlipUpdate, ClockOf, Clocking, Clocked, JkFlipFlop, Result
<1> QED
  BY <1>1, <1>2, <1>3, <1>4 DEF FlipFlopTypes

LEMMA FlipTurn ==
    ASSUME NEW c, c.type \in FlipFlopTypes, NEW s, NEW l, IsSeq(l), FlipInv(c, s, l),
           NEW e, NEW r, r = FlipUpdate(c, s, e.in), e.out = r.y
    PROVE  FlipInv(c, r.s, Append(l, e))
<1> DEFINE n == Len(l)
           m == Append(l, e)
           p == ClockOf(c)
           z == r.s
           new == High(e.in[p]) /\ (n > 0 => ~High(l[n].in[p]))
<1>1. /\ n \in Nat /\ Len(m) = n + 1 /\ m[n + 1] = e /\ \A k \in 1 .. n : m[k] = l[k]
  BY Grown
<1>2. /\ e.out = z.q
      /\ z = [q |-> IF High(e.in[p]) /\ ~High(s.clk) THEN Clocking(c, s, e.in) ELSE s.q,
              clk |-> Bit(High(e.in[p]))]
  BY FlipDoes
<1>3. s.q \in {0, 1} /\ s.q = Made(c, l)
  BY DEF FlipInv, FlipShape
<1>4. n \in Nat => (High(e.in[p]) /\ ~High(s.clk) <=> new)
  BY DEF FlipInv, FlipShape, Tells, Bit, High
<1>5. z.q = IF new THEN Clocking(c, s, e.in) ELSE s.q
  BY <1>1, <1>2, <1>4
<1>6. Clocking(c, s, e.in) \in {0, 1}
  BY <1>3 DEF Clocking, FlipFlopTypes, Bit
<1>7. /\ Edges(l, p) \in SUBSET (1 .. n)
      /\ Edges(m, p) = Edges(l, p) \cup (IF new THEN {n + 1} ELSE {})
  BY EdgesGrow
<1>8. FlipShape(c, z, m)
  <2>1. Bit(High(e.in[p])) \in {0, 1}
    BY DEF Bit
  <2>2. Tells(m, n + 1, p) = High(e.in[p])
    BY <1>1 DEF Tells
  <2> HIDE DEF m, n, new, z
  <2>3. z \in [q : {0, 1}, clk : {0, 1}] /\ z.clk = Bit(High(e.in[p])) /\ e.out = z.q
    BY <1>2, <1>3, <1>6, <2>1
  <2>4. Len(m) # 0
    BY <1>1
  <2> QED
    BY <1>1, <2>2, <2>3, <2>4 DEF FlipShape
<1> HIDE DEF m, n, z, new
<1>9. \A k \in 1 .. n : \A i : Tells(m, k, i) = Tells(l, k, i)
  BY <1>1 DEF Tells
<1>10. \A i : Tells(m, n + 1, i) = High(e.in[i])
  BY <1>1 DEF Tells
<1>11. \A k \in Nat : (k + 1) % 2 = 1 - (k % 2)
  OBVIOUS
<1>12. z.q = Made(c, m)
  <2>1. CASE c.type = "D"
    <3> DEFINE E == Edges(l, p)
               F == Edges(m, p)
    <3>1. Made(c, l) = Bit(E # {} /\ Tells(l, Latest(E), 1)) /\ Made(c, m) = Bit(F # {} /\ Tells(m, Latest(F), 1))
      BY <2>1 DEF Made
    <3>2. Clocking(c, s, e.in) = Bit(High(e.in[1]))
      BY <2>1 DEF Clocking
    <3>3. E \in SUBSET (1 .. n) /\ F = E \cup (IF new THEN {n + 1} ELSE {})
      BY <1>7
    <3> HIDE DEF E, F, p
    <3>4. CASE new
      <4>1. F # {} /\ Latest(F) = n + 1
        BY <1>1, <3>3, <3>4, LatestNew
      <4>2. Tells(m, Latest(F), 1) = High(e.in[1])
        BY <1>10, <4>1
      <4> QED
        BY <1>5, <3>1, <3>2, <3>4, <4>1, <4>2 DEF Bit
    <3>5. CASE ~new
      <4>1. E # {} => Latest(E) \in 1 .. n
        BY <1>1, <3>3, LatestIs
      <4>2. E # {} => Tells(m, Latest(E), 1) = Tells(l, Latest(E), 1)
        BY <1>9, <4>1
      <4>3. F = E
        BY <3>3, <3>5
      <4> QED
        BY <1>3, <1>5, <3>1, <3>5, <4>2, <4>3 DEF Bit
    <3> QED
      BY <3>4, <3>5
  <2>2. CASE c.type = "TOGGLE"
    <3> DEFINE E == Edges(l, p)
               F == Edges(m, p)
    <3>1. Made(c, l) = Cardinality(E) % 2 /\ Made(c, m) = Cardinality(F) % 2 /\ Clocking(c, s, e.in) = 1 - s.q
      BY <2>2 DEF Made, Clocking
    <3>2. E \in SUBSET (1 .. n) /\ F = E \cup (IF new THEN {n + 1} ELSE {})
      BY <1>7
    <3> HIDE DEF E, F, p
    <3>3. Cardinality(E) \in Nat /\ Cardinality(F) = IF new THEN Cardinality(E) + 1 ELSE Cardinality(E)
      BY <1>1, <3>2, CountNew
    <3> QED
      BY <1>3, <1>5, <1>11, <3>1, <3>3
  <2>3. CASE c.type = "T"
    <3> DEFINE E == Asked(l, 2)
               F == Asked(m, 2)
               asks == High(e.in[1])
    <3>1. /\ Made(c, l) = Cardinality(E) % 2 /\ Made(c, m) = Cardinality(F) % 2
          /\ Clocking(c, s, e.in) = IF asks THEN 1 - s.q ELSE s.q
      BY <2>3 DEF Made, Clocking
    <3>2. E \in SUBSET (1 .. n) /\ F = E \cup (IF new /\ asks THEN {n + 1} ELSE {})
      <4>1. p = 2
        BY <2>3 DEF ClockOf
      <4> QED
        BY <4>1, ChosenGrow DEF n, m, new
    <3> HIDE DEF E, F, p, asks
    <3>3. Cardinality(E) \in Nat /\ Cardinality(F) = IF new /\ asks THEN Cardinality(E) + 1 ELSE Cardinality(E)
      BY <1>1, <3>2, CountNew
    <3> QED
      BY <1>3, <1>5, <1>11, <3>1, <3>3
  <2>4. CASE c.type = "JK"
    <3> DEFINE A == Sets(l, 3)
               B == Sets(m, 3)
               E == Flips(l, 3)
               F == Flips(m, 3)
               j == High(e.in[1])
               k == High(e.in[2])
               was == A # {} /\ Tells(l, Latest(A), 1)
               is == B # {} /\ Tells(m, Latest(B), 1)
    <3>1. /\ Made(c, l) = (Cardinality(E) + Bit(was)) % 2
          /\ Made(c, m) = (Cardinality(F) + Bit(is)) % 2
          /\ Clocking(c, s, e.in) = IF j /\ k THEN 1 - s.q ELSE IF j THEN 1 ELSE IF k THEN 0 ELSE s.q
      BY <2>4 DEF Made, Clocking
    <3>p. p = 3
      BY <2>4 DEF ClockOf
    <3>2. /\ A \in SUBSET (1 .. n) /\ B = A \cup (IF new /\ (j # k) THEN {n + 1} ELSE {})
      BY <3>p, ChosenGrow DEF n, m, new
    <3>3. /\ E \in SUBSET (1 .. n)
          /\ new /\ (j # k) => F = {}
          /\ ~(new /\ (j # k)) => F = E \cup (IF new /\ j THEN {n + 1} ELSE {})
      BY <3>p, FlipsGrow DEF n, m, new
    <3>4. j \in BOOLEAN /\ k \in BOOLEAN
      BY DEF High
    <3> HIDE DEF A, B, E, F, p, j, k
    <3>5. Bit(was) \in {0, 1}
      BY DEF Bit
    <3>6. CASE new /\ (j # k)
      <4>1. Latest(B) = n + 1 /\ B # {}
        BY <1>1, <3>2, <3>6, LatestNew
      <4>2. is <=> j
        BY <1>10, <4>1 DEF j
      <4>3. Cardinality(F) = 0
        BY <3>3, <3>6, FS_EmptySet
      <4> HIDE DEF is, was
      <4>4. Made(c, m) = IF j THEN 1 ELSE 0
        BY <3>1, <4>2, <4>3 DEF Bit
      <4>5. Clocking(c, s, e.in) = IF j THEN 1 ELSE 0
        BY <3>1, <3>4, <3>6
      <4> QED
        BY <1>5, <3>6, <4>4, <4>5
    <3>7. CASE ~(new /\ (j # k))
      <4>1. B = A
        BY <3>2, <3>7
      <4>2. A # {} => Latest(A) \in 1 .. n
        BY <1>1, <3>2, LatestIs
      <4>3. is <=> was
        BY <1>9, <4>1, <4>2
      <4>4. Cardinality(E) \in Nat /\ Cardinality(F) = IF new /\ j THEN Cardinality(E) + 1 ELSE Cardinality(E)
        BY <1>1, <3>3, <3>7, CountNew
      <4> HIDE DEF is, was
      <4>5. Bit(is) = Bit(was)
        BY <4>3 DEF Bit
      <4>6. CASE new /\ j
        <5>1. Clocking(c, s, e.in) = 1 - s.q
          BY <3>1, <3>4, <3>7, <4>6
        <5>2. Made(c, m) = 1 - Made(c, l)
          BY <1>11, <3>1, <3>5, <4>4, <4>5, <4>6
        <5> QED
          BY <1>3, <1>5, <4>6, <5>1, <5>2
      <4>7. CASE ~(new /\ j)
        <5>1. new => Clocking(c, s, e.in) = s.q
          BY <3>1, <3>4, <3>7, <4>7
        <5>2. Made(c, m) = Made(c, l)
          BY <3>1, <4>4, <4>5, <4>7
        <5> QED
          BY <1>3, <1>5, <5>1, <5>2
      <4> QED
        BY <4>6, <4>7
    <3> QED
      BY <3>6, <3>7
  <2> QED
    BY <2>1, <2>2, <2>3, <2>4 DEF FlipFlopTypes
<1> QED
  BY <1>8, <1>12 DEF FlipInv, m, z
-----------------------------------------------------------------------------
(* The counter that waits for edges.                                       *)

CounterStates == [value : Int, inc : {0, 1}, dec : {0, 1}, reset : {0, 1}]
Counter(c) == /\ c.min \in Int /\ c.max \in Int /\ c.initial \in Int /\ c.min <= c.max
              /\ c.step \in Int \ {0} /\ c.edge = TRUE /\ c.wrap \in BOOLEAN
CountRange(c) == (c.min .. c.max) \cup {0, c.initial}

LEMMA LimitedIs ==
    ASSUME NEW c, Counter(c), NEW v \in Int
    PROVE  /\ Limited(v, c) \in c.min .. c.max
           /\ v \in c.min .. c.max => Limited(v, c) = v
           /\ Limited(v, c) \in Int
           /\ ~c.wrap /\ v < c.min => Limited(v, c) = c.min
           /\ ~c.wrap /\ v >= c.min => Limited(v, c) <= v
           /\ ~c.wrap /\ v > c.max => Limited(v, c) = c.max
           /\ ~c.wrap /\ v <= c.max => Limited(v, c) >= v
<1> USE DEF Counter
<1>1. CASE ~c.wrap
  BY <1>1 DEF Limited
<1>2. CASE c.wrap
  <2> DEFINE size == c.max - c.min + 1
  <2>1. size \in Nat /\ size > 0 /\ v - c.min \in Int
    OBVIOUS
  <2>2. Limited(v, c) = IF v \in c.min .. c.max THEN v ELSE c.min + ((v - c.min) % size)
    BY <1>2, <2>1 DEF Limited
  <2>3. (v - c.min) % size \in 0 .. size - 1
    <3> HIDE DEF size, Counter
    <3> QED
      BY <2>1
  <2> QED
    BY <1>2, <2>2, <2>3
<1> QED
  BY <1>1, <1>2

LEMMA CountedInc ==
    ASSUME NEW c, Counter(c), NEW s \in CounterStates, NEW x
    PROVE  LET t == Counted(s, c, x, "inc", c.step)
               on == High(x) /\ s.inc = 0
           IN  /\ t \in CounterStates /\ t.inc = Bit(High(x)) /\ t.dec = s.dec /\ t.reset = s.reset
               /\ t.value = IF on THEN Limited(s.value + c.step, c) ELSE s.value
<1> DEFINE on == High(x) /\ s.inc = 0
           v == IF on THEN Limited(s.value + c.step, c) ELSE s.value
           t == Counted(s, c, x, "inc", c.step)
<1>1. Bit(High(x)) \in {0, 1}
  BY DEF Bit
<1>2. CountsOn(s, c, x, "inc") <=> on
  BY DEF CountsOn, High, Counter, CounterStates
<1>3. t = [s EXCEPT !["inc"] = Bit(High(x)), !.value = v]
  BY <1>2 DEF Counted
<1>4. v \in Int
  <2>1. s.value + c.step \in Int /\ s.value \in Int
    BY DEF Counter, CounterStates
  <2>2. Limited(s.value + c.step, c) \in Int
    BY <2>1, LimitedIs
  <2> QED
    BY <2>1, <2>2
<1> HIDE DEF t, v
<1> QED
  BY <1>1, <1>3, <1>4 DEF CounterStates, v, t

LEMMA CountedDec ==
    ASSUME NEW c, Counter(c), NEW s \in CounterStates, NEW x
    PROVE  LET t == Counted(s, c, x, "dec", -c.step)
               on == High(x) /\ s.dec = 0
           IN  /\ t \in CounterStates /\ t.dec = Bit(High(x)) /\ t.inc = s.inc /\ t.reset = s.reset
               /\ t.value = IF on THEN Limited(s.value - c.step, c) ELSE s.value
<1> DEFINE on == High(x) /\ s.dec = 0
           v == IF on THEN Limited(s.value - c.step, c) ELSE s.value
           t == Counted(s, c, x, "dec", -c.step)
<1>1. Bit(High(x)) \in {0, 1}
  BY DEF Bit
<1>2. CountsOn(s, c, x, "dec") <=> on
  BY DEF CountsOn, High, Counter, CounterStates
<1>3. t = [s EXCEPT !["dec"] = Bit(High(x)), !.value = v]
  <2>1. s.value + (-c.step) = s.value - c.step
    BY DEF Counter, CounterStates
  <2> QED
    BY <1>2, <2>1 DEF Counted
<1>4. v \in Int
  <2>1. s.value - c.step \in Int /\ s.value \in Int
    BY DEF Counter, CounterStates
  <2>2. Limited(s.value - c.step, c) \in Int
    BY <2>1, LimitedIs
  <2> QED
    BY <2>1, <2>2
<1> HIDE DEF t, v
<1> QED
  BY <1>1, <1>3, <1>4 DEF CounterStates, v, t

LEMMA CounterDoes ==
    ASSUME NEW c, Counter(c), NEW s \in CounterStates, s.value \in CountRange(c),
           NEW i, NEW d, NEW z
    PROVE  LET r == CounterUpdate(s, c, i, d, z) IN
           /\ r.y = r.s.value /\ r.s \in CounterStates /\ r.s.value \in CountRange(c)
           /\ r.s.inc = Bit(High(i)) \/ (High(z) /\ r.s.inc = s.inc)
           /\ ~High(z) /\ ~High(d) /\ High(i) /\ s.inc = 0 /\ s.value + c.step \in c.min .. c.max =>
                 r.s.value = s.value + c.step
           /\ ~c.wrap /\ ~High(z) /\ Stepped(c, s.value, r.s.value) => High(i) /\ s.inc = 0
<1> DEFINE b == [s EXCEPT !.reset = Bit(High(z))]
           x == Counted(b, c, i, "inc", c.step)
           y == Counted(x, c, d, "dec", -c.step)
           resets == High(z) /\ ~High(s.reset)
           r == CounterUpdate(s, c, i, d, z)
<1>1. r = IF resets THEN Result([b EXCEPT !.value = c.initial], c.initial) ELSE Result(y, y.value)
  BY DEF CounterUpdate, Counter
<1>2. /\ b \in CounterStates /\ b.value = s.value /\ b.inc = s.inc /\ b.dec = s.dec
  <2>1. Bit(High(z)) \in {0, 1}
    BY DEF Bit
  <2> QED
    BY <2>1 DEF CounterStates
<1> HIDE DEF b, r
<1>3. CASE resets
  <2> DEFINE w == [b EXCEPT !.value = c.initial]
  <2>1. r.s = w /\ r.y = c.initial
    BY <1>1, <1>3 DEF Result
  <2>2. w \in CounterStates /\ w.value = c.initial /\ w.inc = s.inc
    BY <1>2 DEF CounterStates, Counter
  <2> QED
    BY <1>3, <2>1, <2>2 DEF CountRange, r
<1>4. CASE ~resets
  <2>1. r.s = y /\ r.y = y.value
    BY <1>1, <1>4 DEF Result
  <2>2. /\ x \in CounterStates /\ x.inc = Bit(High(i)) /\ x.dec = s.dec
        /\ x.value = IF High(i) /\ s.inc = 0 THEN Limited(s.value + c.step, c) ELSE s.value
    BY <1>2, CountedInc
  <2> HIDE DEF x
  <2>3. /\ y \in CounterStates /\ y.inc = x.inc
        /\ y.value = IF High(d) /\ x.dec = 0 THEN Limited(x.value - c.step, c) ELSE x.value
    BY <2>2, CountedDec
  <2> HIDE DEF y, resets
  <2>4. /\ s.value \in Int /\ x.value \in Int /\ y.value \in Int
        /\ s.value + c.step \in Int /\ x.value - c.step \in Int
    BY <2>2, <2>3 DEF CounterStates, Counter
  <2>5. x.value \in CountRange(c)
    BY <2>2, <2>4, LimitedIs DEF CountRange
  <2>6. y.value \in CountRange(c)
    BY <2>3, <2>4, <2>5, LimitedIs DEF CountRange
  <2>7. ASSUME ~High(d), High(i), s.inc = 0, s.value + c.step \in c.min .. c.max
        PROVE  y.value = s.value + c.step
    BY <2>2, <2>3, <2>4, <2>7, LimitedIs
  <2>8. ASSUME ~c.wrap, Stepped(c, s.value, y.value)
        PROVE  High(i) /\ s.inc = 0
    <3> SUFFICES ASSUME ~(High(i) /\ s.inc = 0) PROVE FALSE
      OBVIOUS
    <3>1. x.value = s.value
      BY <2>2
    <3>2. c.step \in Int \ {0} /\ c.min \in Int /\ c.max \in Int
      BY DEF Counter
    <3>3. CASE High(d) /\ x.dec = 0
      <4>1. y.value = Limited(s.value - c.step, c) /\ s.value - c.step \in Int
        BY <2>3, <2>4, <3>1, <3>3
      <4>2. CASE c.step > 0
        <5>1. y.value > s.value /\ y.value > c.min
          BY <2>8, <4>2 DEF Stepped
        <5>2. s.value - c.step < c.min \/ s.value - c.step >= c.min
          BY <3>2, <4>1
        <5>3. y.value = c.min \/ y.value <= s.value - c.step
          BY <2>8, <4>1, <5>2, LimitedIs
        <5> QED
          BY <2>4, <3>2, <4>2, <5>1, <5>3
      <4>3. CASE ~(c.step > 0)
        <5>1. y.value < s.value /\ y.value < c.max
          BY <2>8, <4>3 DEF Stepped
        <5>2. s.value - c.step > c.max \/ s.value - c.step <= c.max
          BY <3>2, <4>1
        <5>3. y.value = c.max \/ y.value >= s.value - c.step
          BY <2>8, <4>1, <5>2, LimitedIs
        <5> QED
          BY <2>4, <3>2, <4>3, <5>1, <5>3
      <4> QED
        BY <4>2, <4>3
    <3>4. CASE ~(High(d) /\ x.dec = 0)
      <4>1. y.value = s.value
        BY <2>3, <3>1, <3>4
      <4> QED
        BY <2>4, <2>8, <4>1 DEF Stepped
    <3> QED
      BY <3>3, <3>4
  <2> QED
    BY <2>1, <2>2, <2>3, <2>6, <2>7, <2>8 DEF r
<1> QED
  BY <1>3, <1>4

Resetting(l) == {k \in 1 .. Len(l) : Tells(l, k, 3)}
Downs(l) == {k \in 1 .. Len(l) : Tells(l, k, 2)}
Ups(c, l) == {k \in (1 .. Len(l)) \ Resetting(l) : Stepped(c, Gave(l, k - 1), Gave(l, k))}

\* Before every step up there is an edge that is later than the step before.
Apart(c, l) == \A k \in Ups(c, l) : \E p \in Edges(l, 1) :
                  p <= k /\ \A j \in Ups(c, l) : j < k => j < p

\* An input that is high and was not taken rose after the last step up.
Untaken(c, s, l) ==
    s.inc = 0 /\ Len(l) > 0 /\ Tells(l, Len(l), 1) =>
        \E p \in Edges(l, 1) : \A j \in Ups(c, l) : j < p

TakenAtOnce(c, l) ==
    \A k \in Edges(l, 1) \ (Resetting(l) \cup Downs(l)) :
        k - 1 \notin Resetting(l) /\ Gave(l, k - 1) + c.step \in c.min .. c.max =>
            Gave(l, k) = Gave(l, k - 1) + c.step

CounterShape(c, s, l) ==
    /\ s \in CounterStates /\ s.value \in CountRange(c)
    /\ s.value = Gave(l, Len(l))
    /\ Len(l) = 0 => s.inc = 0
    /\ Len(l) > 0 /\ Len(l) \notin Resetting(l) => s.inc = Bit(Tells(l, Len(l), 1))
    /\ \A k \in 1 .. Len(l) : l[k].out \in Int

CounterInv(c, s, l) ==
    /\ CounterShape(c, s, l) /\ TakenAtOnce(c, l)
    /\ ~c.wrap => Apart(c, l) /\ Untaken(c, s, l)

LEMMA CounterAtRest ==
    ASSUME NEW c, Counter(c) PROVE CounterInv(c, Zeroed, <<>>)
<1>1. Edges(<<>>, 1) = {} /\ Ups(c, <<>>) = {} /\ Len(<<>>) = 0
  BY DEF Edges, Ups
<1>2. CounterShape(c, Zeroed, <<>>)
  BY <1>1 DEF CounterShape, Zeroed, CounterStates, CountRange, Gave
<1> QED
  BY <1>1, <1>2 DEF CounterInv, TakenAtOnce, Apart, Untaken

\* Steps up that are apart are no more than the edges.
LEMMA NoMoreThanEdges ==
    ASSUME NEW c, NEW l, IsSeq(l), Apart(c, l)
    PROVE  Cardinality(Ups(c, l)) <= Cardinality(Edges(l, 1))
<1> DEFINE f == [k \in Ups(c, l) |-> CHOOSE p \in Edges(l, 1) :
                    p <= k /\ \A j \in Ups(c, l) : j < k => j < p]
<1>1. \A k \in Ups(c, l) : /\ f[k] \in Edges(l, 1) /\ f[k] <= k
                           /\ \A j \in Ups(c, l) : j < k => j < f[k]
  BY DEF Apart
<1>2. f \in [Ups(c, l) -> Edges(l, 1)]
  BY <1>1
<1>3. Len(l) \in Nat
  BY Grown
<1>4. Ups(c, l) \subseteq Nat /\ Edges(l, 1) \in SUBSET (1 .. Len(l))
  BY <1>3 DEF Ups, Edges
<1> HIDE DEF f
<1>5. \A j, k \in Ups(c, l) : j < k => f[j] # f[k]
  <2> TAKE j, k \in Ups(c, l)
  <2> HAVE j < k
  <2>1. f[j] <= j /\ j < f[k] /\ f[j] \in 1 .. Len(l) /\ f[k] \in 1 .. Len(l) /\ j \in Nat
    BY <1>1, <1>4
  <2> QED
    BY <1>3, <2>1
<1>6. f \in Injection(Ups(c, l), Edges(l, 1))
  <2>1. \A j, k \in Ups(c, l) : f[j] = f[k] => j = k
    <3> TAKE j, k \in Ups(c, l)
    <3>1. j \in Nat /\ k \in Nat
      BY <1>4
    <3>2. j < k \/ k < j \/ j = k
      BY <3>1
    <3> QED
      BY <1>5, <3>2
  <2> QED
    BY <1>2, <2>1 DEF Injection, IsInjective
<1>7. IsFiniteSet(Edges(l, 1))
  BY <1>3, <1>4, CountNew
<1> QED
  BY <1>6, <1>7, FS_Injection

LEMMA CounterTurn ==
    ASSUME NEW c, Counter(c), NEW s, NEW l, IsSeq(l), CounterInv(c, s, l), NEW e, NEW r,
           r = CounterUpdate(s, c, e.in[1], e.in[2], e.in[3]), e.out = r.y
    PROVE  CounterInv(c, r.s, Append(l, e))
<1> DEFINE n == Len(l)
           m == Append(l, e)
           z == r.s
           new == High(e.in[1]) /\ (n > 0 => ~High(l[n].in[1]))
           up == ~High(e.in[3]) /\ Stepped(c, s.value, z.value)
<1>1. /\ n \in Nat /\ Len(m) = n + 1 /\ m[n + 1] = e /\ \A k \in 1 .. n : m[k] = l[k]
  BY Grown
<1>2. CounterShape(c, s, l) /\ TakenAtOnce(c, l) /\ (~c.wrap => Apart(c, l) /\ Untaken(c, s, l))
  BY DEF CounterInv
<1>3. /\ e.out = z.value /\ z \in CounterStates /\ z.value \in CountRange(c)
      /\ z.inc = Bit(High(e.in[1])) \/ (High(e.in[3]) /\ z.inc = s.inc)
      /\ ~High(e.in[3]) /\ ~High(e.in[2]) /\ High(e.in[1]) /\ s.inc = 0
            /\ s.value + c.step \in c.min .. c.max => z.value = s.value + c.step
      /\ ~c.wrap /\ up => High(e.in[1]) /\ s.inc = 0
  <2>1. s \in CounterStates /\ s.value \in CountRange(c)
    BY <1>2 DEF CounterShape
  <2> QED
    BY <2>1, CounterDoes
<1>4. Edges(l, 1) \in SUBSET (1 .. n) /\ Edges(m, 1) = Edges(l, 1) \cup (IF new THEN {n + 1} ELSE {})
  BY EdgesGrow
<1> HIDE DEF n, m, z
<1>5. /\ \A k \in 1 .. n : \A i : Tells(m, k, i) = Tells(l, k, i)
      /\ \A i : Tells(m, n + 1, i) = High(e.in[i])
  BY <1>1 DEF Tells
<1>6. /\ Resetting(m) = Resetting(l) \cup (IF High(e.in[3]) THEN {n + 1} ELSE {})
      /\ Downs(m) = Downs(l) \cup (IF High(e.in[2]) THEN {n + 1} ELSE {})
      /\ Resetting(l) \in SUBSET (1 .. n) /\ Downs(l) \in SUBSET (1 .. n)
  <2>1. \A k : k \in 1 .. n + 1 <=> k \in 1 .. n \/ k = n + 1
    BY <1>1
  <2> QED
    BY <1>1, <1>5, <2>1 DEF Resetting, Downs, n
<1>7. /\ \A k \in 0 .. n : Gave(m, k) = Gave(l, k)
      /\ Gave(m, n + 1) = z.value /\ Gave(l, n) = s.value
  <2>1. \A k \in 0 .. n : k # 0 => k \in 1 .. n
    OBVIOUS
  <2>2. n + 1 # 0
    BY <1>1
  <2> QED
    BY <1>1, <1>2, <1>3, <2>1, <2>2 DEF Gave, CounterShape, n
<1>8. Ups(c, l) \in SUBSET (1 .. n) /\ Ups(c, m) = Ups(c, l) \cup (IF up THEN {n + 1} ELSE {})
  <2>1. \A k \in 1 .. n : k \in Ups(c, m) <=> k \in Ups(c, l)
    <3> TAKE k \in 1 .. n
    <3>1. Gave(m, k) = Gave(l, k) /\ Gave(m, k - 1) = Gave(l, k - 1) /\ k \in 1 .. n + 1
      BY <1>1, <1>7
    <3>2. k \in Resetting(m) <=> k \in Resetting(l)
      BY <1>1, <1>6
    <3> QED
      BY <1>1, <3>1, <3>2 DEF Ups, n
  <2>2. n + 1 \in Ups(c, m) <=> up
    <3>1. (n + 1) - 1 = n /\ n + 1 \in 1 .. n + 1 /\ n \in 0 .. n
      BY <1>1
    <3>2. n + 1 \in Resetting(m) <=> High(e.in[3])
      BY <1>1, <1>6
    <3> QED
      BY <1>1, <1>7, <3>1, <3>2 DEF Ups
  <2>3. Ups(c, l) \in SUBSET (1 .. n) /\ Ups(c, m) \in SUBSET (1 .. n + 1)
    BY <1>1 DEF Ups, n
  <2>4. \A k \in Ups(c, m) : k \in 1 .. n \/ k = n + 1
    BY <1>1, <2>3
  <2> HIDE DEF up
  <2> QED
    BY <2>1, <2>2, <2>3, <2>4
<1>9. CounterShape(c, z, m)
  <2>1. z.value \in Int
    BY <1>3 DEF CounterStates
  <2>2. \A k \in 1 .. n + 1 : m[k].out \in Int
    BY <1>1, <1>2, <1>3, <2>1 DEF CounterShape, n
  <2>3. ~High(e.in[3]) => z.inc = Bit(Tells(m, n + 1, 1))
    BY <1>3, <1>5
  <2>4. n + 1 \notin Resetting(m) => z.inc = Bit(Tells(m, n + 1, 1))
    BY <1>6, <2>3
  <2> QED
    BY <1>1, <1>3, <1>7, <2>2, <2>4 DEF CounterShape
<1>10. TakenAtOnce(c, m)
  <2> SUFFICES ASSUME NEW k \in Edges(m, 1) \ (Resetting(m) \cup Downs(m)), k - 1 \notin Resetting(m),
                      Gave(m, k - 1) + c.step \in c.min .. c.max
               PROVE  Gave(m, k) = Gave(m, k - 1) + c.step
    BY DEF TakenAtOnce
  <2>1. CASE k \in 1 .. n
    <3>1. Gave(m, k) = Gave(l, k) /\ Gave(m, k - 1) = Gave(l, k - 1) /\ k # n + 1
      BY <1>1, <1>7, <2>1
    <3>2. k \in Edges(l, 1) \ (Resetting(l) \cup Downs(l)) /\ k - 1 \notin Resetting(l)
      BY <1>4, <1>6, <3>1
    <3> QED
      BY <1>2, <3>1, <3>2 DEF TakenAtOnce
  <2>2. CASE k = n + 1
    <3>1. new /\ ~High(e.in[3]) /\ ~High(e.in[2])
      <4>1. n + 1 \notin Edges(l, 1)
        BY <1>1, <1>4
      <4> HIDE DEF new
      <4> QED
        BY <1>4, <1>6, <2>2, <4>1
    <3>2. (n + 1) - 1 = n /\ n \in 0 .. n
      BY <1>1
    <3>3. Gave(m, k - 1) = s.value /\ Gave(m, k) = z.value
      BY <1>7, <2>2, <3>2
    <3>4. s.inc = 0
      <4>1. CASE n = 0
        BY <1>2, <4>1 DEF CounterShape, n
      <4>2. CASE n > 0
        <5>1. n \notin Resetting(l)
          BY <1>6, <2>2, <3>2
        <5>2. s.inc = Bit(Tells(l, n, 1))
          BY <1>2, <4>2, <5>1 DEF CounterShape, n
        <5> QED
          BY <3>1, <4>2, <5>2 DEF Tells, Bit
      <4> QED
        BY <1>1, <4>1, <4>2
    <3> QED
      BY <1>3, <3>1, <3>3, <3>4
  <2>3. k \in 1 .. n \/ k = n + 1
    BY <1>4
  <2> QED
    BY <2>1, <2>2, <2>3
<1>11. ASSUME ~c.wrap PROVE Apart(c, m) /\ Untaken(c, z, m)
  <2>1. Apart(c, l) /\ Untaken(c, s, l)
    BY <1>2, <1>11
  <2>2. High(e.in[1]) /\ s.inc = 0 => \E p \in Edges(m, 1) : \A j \in Ups(c, l) : j < p
    <3> SUFFICES ASSUME High(e.in[1]), s.inc = 0
                 PROVE  \E p \in Edges(m, 1) : \A j \in Ups(c, l) : j < p
      OBVIOUS
    <3>1. CASE new
      <4>1. n + 1 \in Edges(m, 1) /\ \A j \in Ups(c, l) : j < n + 1
        BY <1>1, <1>4, <1>8, <3>1
      <4> QED
        BY <4>1
    <3>2. CASE ~new
      <4>1. n > 0 /\ Tells(l, n, 1)
        BY <3>2 DEF Tells
      <4>2. PICK p \in Edges(l, 1) : \A j \in Ups(c, l) : j < p
        BY <2>1, <4>1 DEF Untaken, n
      <4> HIDE DEF new
      <4>3. p \in Edges(m, 1)
        BY <1>4, <4>2
      <4> QED
        BY <4>2, <4>3
    <3> QED
      BY <3>1, <3>2
  <2>3. Apart(c, m)
    <3> SUFFICES ASSUME NEW k \in Ups(c, m)
                 PROVE  \E p \in Edges(m, 1) : p <= k /\ \A j \in Ups(c, m) : j < k => j < p
      BY DEF Apart
    <3>1. \A j \in Ups(c, m) : j \in Ups(c, l) \/ j = n + 1
      BY <1>8
    <3>2. CASE k \in Ups(c, l)
      <4>1. PICK p \in Edges(l, 1) : p <= k /\ \A j \in Ups(c, l) : j < k => j < p
        BY <2>1, <3>2 DEF Apart
      <4>2. p \in Edges(m, 1)
        BY <1>4
      <4>3. ~(n + 1 < k)
        BY <1>1, <1>8, <3>2
      <4> QED
        BY <3>1, <4>1, <4>2, <4>3
    <3>3. CASE k = n + 1 /\ up
      <4>1. PICK p \in Edges(m, 1) : \A j \in Ups(c, l) : j < p
        BY <1>3, <1>11, <2>2, <3>3
      <4>2. p <= n + 1
        <5>1. p \in 1 .. n \/ p = n + 1
          BY <1>4
        <5> QED
          BY <1>1, <5>1
      <4>3. ~(n + 1 < k)
        BY <1>1, <3>3
      <4> QED
        BY <3>1, <3>3, <4>1, <4>2, <4>3
    <3> HIDE DEF up
    <3> QED
      BY <1>8, <3>2, <3>3
  <2>4. Untaken(c, z, m)
    <3> SUFFICES ASSUME z.inc = 0, Tells(m, n + 1, 1)
                 PROVE  \E p \in Edges(m, 1) : \A j \in Ups(c, m) : j < p
      BY <1>1 DEF Untaken
    <3>1. High(e.in[1])
      BY <1>5
    <3>2. High(e.in[3]) /\ s.inc = 0
      BY <1>3, <3>1 DEF Bit
    <3>3. Ups(c, m) = Ups(c, l)
      BY <1>8, <3>2
    <3> QED
      BY <2>2, <3>1, <3>2, <3>3
  <2> QED
    BY <2>3, <2>4
<1>12. CounterInv(c, z, m)
  BY <1>9, <1>10, <1>11 DEF CounterInv
<1> QED
  BY <1>12 DEF z, m
-----------------------------------------------------------------------------
(* The debouncer.  b is the time of the cycle before the last, from which  *)
(* the executor takes the elapsed time.                                    *)

DebounceShape(s, l, t, b) ==
    /\ s = [stable |-> s.stable, pending |-> s.pending, time |-> s.time, ready |-> s.ready]
    /\ s.time \in Nat /\ s.ready \in BOOLEAN /\ (s.ready <=> Len(l) > 0)
    /\ b \in Nat /\ b <= t
    /\ Len(l) > 0 => s.stable = l[Len(l)].out /\ l[Len(l)].at = t
    /\ Len(l) > 1 => l[Len(l) - 1].at = b
    /\ \A k \in 1 .. Len(l) : /\ l[k].at \in Nat /\ l[k].at <= t
                              /\ \A j \in 1 .. k : l[j].at <= l[k].at

\* What is pending was read last, and changes are to what was read twice.
ReadTwice(s, l) ==
    /\ Len(l) > 0 => s.pending = s.stable \/ s.pending = l[Len(l)].in[1]
    /\ \A k \in 1 .. Len(l) : k > 1 /\ Gave(l, k) # Gave(l, k - 1) =>
          Gave(l, k) = l[k].in[1] /\ l[k - 1].in[1] = l[k].in[1]

\* The same value was read since cycle j, and time has run since.
Steady(l, j) == /\ \A k \in j .. Len(l) : l[k].in[1] = l[j].in[1]
                /\ j > 1 => l[j - 1].at > 0

\* A steady value has been taken, or its time is counted and not yet over.
SteadyTaken(c, s, l) ==
    \A j \in 1 .. Len(l) : Steady(l, j) =>
        \/ s.stable = l[j].in[1]
        \/ /\ j > 1 /\ s.pending = l[j].in[1] /\ s.time >= l[Len(l)].at - l[j].at
           /\ j < Len(l) => l[Len(l)].at - l[j].at < c.ms

DebounceInv(c, s, l, t, b) == DebounceShape(s, l, t, b) /\ ReadTwice(s, l) /\ SteadyTaken(c, s, l)

LEMMA DebounceAtRest ==
    ASSUME NEW c, NEW t \in Nat, NEW b \in Nat, b <= t
    PROVE  DebounceInv(c, Bouncing, <<>>, t, b)
<1> DEFINE s == Bouncing
<1>1. /\ s = [stable |-> s.stable, pending |-> s.pending, time |-> s.time, ready |-> s.ready]
      /\ s.time \in Nat /\ s.ready = FALSE
  BY DEF Bouncing
<1>2. Len(<<>>) = 0
  OBVIOUS
<1> HIDE DEF s
<1>3. DebounceShape(s, <<>>, t, b)
  <2>1. ~(Len(<<>>) > 0) /\ ~(Len(<<>>) > 1) /\ 1 .. Len(<<>>) = {}
    BY <1>2
  <2>2. s.ready \in BOOLEAN /\ (s.ready <=> FALSE)
    BY <1>1
  <2> QED
    BY <1>1, <2>1, <2>2, ZenonT(30) DEF DebounceShape
<1>4. ReadTwice(s, <<>>) /\ SteadyTaken(c, s, <<>>)
  BY <1>2 DEF ReadTwice, SteadyTaken
<1> QED
  BY <1>3, <1>4 DEF DebounceInv, s

LEMMA DebounceDoes ==
    ASSUME NEW c, c.ms \in Nat, NEW s, NEW x, NEW d \in Nat, s.time \in Nat, s.ready \in BOOLEAN,
           s = [stable |-> s.stable, pending |-> s.pending, time |-> s.time, ready |-> s.ready]
    PROVE  LET r == DebounceUpdate(s, c, x, d)
               z == r.s
           IN  /\ r.y = z.stable /\ z.ready = TRUE /\ z.time \in Nat
               /\ z = [stable |-> z.stable, pending |-> z.pending, time |-> z.time, ready |-> z.ready]
               /\ ~s.ready => z.stable = x /\ z.pending = x
               /\ s.ready /\ x = s.stable => z.stable = x /\ z.pending = x
               /\ s.ready /\ x # s.stable =>
                     \/ x = s.pending /\ z.stable = x /\ z.pending = x
                     \/ /\ z.stable = s.stable /\ z.pending = x
                        /\ x = s.pending => z.time = s.time + d /\ z.time < c.ms
<1> DEFINE held == IF x = s.pending THEN s.time + d ELSE d
           t == IF ~s.ready THEN [stable |-> x, pending |-> x, time |-> 0, ready |-> TRUE]
                ELSE IF x = s.stable THEN Restarted(s)
                ELSE IF x = s.pending /\ held >= c.ms THEN [s EXCEPT !.stable = x, !.time = 0]
                ELSE [s EXCEPT !.pending = x, !.time = held]
<1>1. DebounceUpdate(s, c, x, d) = [s |-> t, y |-> t.stable]
  BY DEF DebounceUpdate, Result
<1>2. held \in Nat
  OBVIOUS
<1>3. CASE ~s.ready
  <2>1. t = [stable |-> x, pending |-> x, time |-> 0, ready |-> TRUE]
    BY <1>3
  <2> HIDE DEF t
  <2> QED
    BY <1>1, <1>3, <2>1
<1>4. CASE s.ready /\ x = s.stable
  <2>1. t = [s EXCEPT !.pending = s.stable, !.time = 0]
    BY <1>4 DEF Restarted
  <2>2. t = [stable |-> s.stable, pending |-> s.stable, time |-> 0, ready |-> s.ready]
    <3> HIDE DEF t
    <3> QED
      BY <2>1
  <2> HIDE DEF t
  <2> QED
    BY <1>1, <1>4, <2>2
<1>5. CASE s.ready /\ x # s.stable /\ x = s.pending /\ held >= c.ms
  <2>1. t = [s EXCEPT !.stable = x, !.time = 0]
    BY <1>5
  <2>2. t = [stable |-> x, pending |-> s.pending, time |-> 0, ready |-> s.ready]
    <3> HIDE DEF t
    <3> QED
      BY <2>1
  <2> HIDE DEF t
  <2> QED
    BY <1>1, <1>5, <2>2
<1>6. CASE s.ready /\ x # s.stable /\ ~(x = s.pending /\ held >= c.ms)
  <2>1. t = [s EXCEPT !.pending = x, !.time = held]
    BY <1>6
  <2>2. t = [stable |-> s.stable, pending |-> x, time |-> held, ready |-> s.ready]
    <3> HIDE DEF t, held
    <3> QED
      BY <2>1
  <2>3. x = s.pending => held = s.time + d /\ held < c.ms
    BY <1>2, <1>6
  <2> HIDE DEF t, held
  <2> QED
    BY <1>1, <1>2, <1>6, <2>2, <2>3
<1> QED
  BY <1>3, <1>4, <1>5, <1>6

LEMMA DebounceTurn ==
    ASSUME NEW c, c.ms \in Nat, NEW s, NEW l, IsSeq(l), NEW t \in Nat, NEW b, NEW u \in Nat, t <= u,
           DebounceInv(c, s, l, t, b), NEW e, NEW r, e.dt = IF b > 0 THEN u - b ELSE 0,
           r = DebounceUpdate(s, c, e.in[1], e.dt), e.at = u, e.out = r.y
    PROVE  DebounceInv(c, r.s, Append(l, e), u, t)
<1> DEFINE n == Len(l)
           m == Append(l, e)
           x == e.in[1]
           z == r.s
<1>1. /\ n \in Nat /\ Len(m) = n + 1 /\ m[n + 1] = e /\ \A k \in 1 .. n : m[k] = l[k]
  BY Grown
<1>2. DebounceShape(s, l, t, b) /\ ReadTwice(s, l) /\ SteadyTaken(c, s, l)
  BY DEF DebounceInv
<1>3. b \in Nat /\ b <= t /\ e.dt \in Nat /\ s.time \in Nat /\ s.ready \in BOOLEAN /\ (s.ready <=> n > 0)
  BY <1>2 DEF DebounceShape
<1>4. /\ e.out = z.stable /\ z.ready = TRUE /\ z.time \in Nat
      /\ z = [stable |-> z.stable, pending |-> z.pending, time |-> z.time, ready |-> z.ready]
      /\ n = 0 => z.stable = x /\ z.pending = x
      /\ n > 0 /\ x = s.stable => z.stable = x /\ z.pending = x
      /\ n > 0 /\ x # s.stable =>
            \/ x = s.pending /\ z.stable = x /\ z.pending = x
            \/ /\ z.stable = s.stable /\ z.pending = x
               /\ x = s.pending => z.time = s.time + e.dt /\ z.time < c.ms
  <2>1. s.ready \in BOOLEAN /\ (s.ready <=> n > 0) /\ (n = 0 <=> ~s.ready)
    BY <1>1, <1>3
  <2>2. s = [stable |-> s.stable, pending |-> s.pending, time |-> s.time, ready |-> s.ready]
    BY <1>2 DEF DebounceShape
  <2>3. LET q == DebounceUpdate(s, c, x, e.dt)
            w == q.s
        IN  /\ q.y = w.stable /\ w.ready = TRUE /\ w.time \in Nat
            /\ w = [stable |-> w.stable, pending |-> w.pending, time |-> w.time, ready |-> w.ready]
            /\ ~s.ready => w.stable = x /\ w.pending = x
            /\ s.ready /\ x = s.stable => w.stable = x /\ w.pending = x
            /\ s.ready /\ x # s.stable =>
                  \/ x = s.pending /\ w.stable = x /\ w.pending = x
                  \/ /\ w.stable = s.stable /\ w.pending = x
                     /\ x = s.pending => w.time = s.time + e.dt /\ w.time < c.ms
    <3> HIDE DEF n, z, m, x
    <3>1. e.dt \in Nat /\ s.time \in Nat
      BY <1>3
    <3> QED
      BY <2>1, <2>2, <3>1, DebounceDoes
  <2> HIDE DEF n, m
  <2> QED
    BY <2>1, <2>3
<1> HIDE DEF n, m, z, x
<1>5. DebounceShape(z, m, u, t)
  <2>1. n + 1 > 1 => m[n].at = t
    BY <1>1, <1>2 DEF DebounceShape, n
  <2>2. ASSUME NEW k \in 1 .. n + 1
        PROVE  m[k].at \in Nat /\ m[k].at <= u /\ \A j \in 1 .. k : m[j].at <= m[k].at
    <3>1. \A j \in 1 .. n : m[j].at \in Nat /\ m[j].at <= u
      BY <1>1, <1>2 DEF DebounceShape, n
    <3>2. CASE k \in 1 .. n
      <4>1. \A j \in 1 .. k : m[j] = l[j]
        BY <1>1, <3>2
      <4> QED
        BY <1>1, <1>2, <3>1, <3>2, <4>1 DEF DebounceShape, n
    <3>3. CASE k = n + 1
      <4>1. \A j \in 1 .. k : j \in 1 .. n \/ j = n + 1
        BY <1>1, <3>3
      <4> QED
        BY <1>1, <3>1, <3>3, <4>1
    <3> QED
      BY <1>1, <3>2, <3>3
  <2>3. (n + 1) - 1 = n /\ n + 1 > 0
    BY <1>1
  <2>4. z.ready = TRUE
    BY <1>4
  <2> QED
    BY <1>1, <1>2, <1>4, <2>1, <2>2, <2>3, <2>4 DEF DebounceShape
<1>6. ReadTwice(z, m)
  <2>1. z.pending = z.stable \/ z.pending = x
    BY <1>1, <1>4
  <2>2. /\ \A k \in 0 .. n : Gave(m, k) = Gave(l, k)
        /\ Gave(m, n + 1) = z.stable
        /\ n > 0 => Gave(m, n) = s.stable
    <3>1. \A k \in 0 .. n : k = 0 \/ k \in 1 .. n
      OBVIOUS
    <3>2. n + 1 # 0
      BY <1>1
    <3> QED
      BY <1>1, <1>2, <1>4, <3>1, <3>2 DEF Gave, DebounceShape, n
  <2>3. ASSUME NEW k \in 1 .. n + 1, k > 1, Gave(m, k) # Gave(m, k - 1)
        PROVE  Gave(m, k) = m[k].in[1] /\ m[k - 1].in[1] = m[k].in[1]
    <3>1. CASE k \in 1 .. n
      <4>1. k - 1 \in 0 .. n /\ k \in 0 .. n /\ k - 1 \in 1 .. n
        BY <1>1, <2>3, <3>1
      <4> QED
        BY <1>1, <1>2, <2>2, <2>3, <3>1, <4>1 DEF ReadTwice, n
    <3>2. CASE k = n + 1
      <4>1. k - 1 = n /\ n > 0
        BY <1>1, <2>3, <3>2
      <4>2. z.stable # s.stable
        BY <2>2, <2>3, <3>2, <4>1
      <4>3. x = s.pending /\ z.stable = x /\ x # s.stable
        BY <1>4, <4>1, <4>2
      <4>4. l[n].in[1] = x
        BY <1>2, <4>1, <4>3 DEF ReadTwice, n
      <4> QED
        BY <1>1, <2>2, <3>2, <4>1, <4>3, <4>4 DEF x
    <3> QED
      BY <1>1, <3>1, <3>2
  <2> QED
    BY <1>1, <2>1, <2>3 DEF ReadTwice, x
<1>7. SteadyTaken(c, z, m)
  <2> SUFFICES ASSUME NEW j \in 1 .. n + 1, Steady(m, j), z.stable # m[j].in[1]
               PROVE  /\ j > 1 /\ z.pending = m[j].in[1] /\ z.time >= u - m[j].at
                      /\ j < n + 1 => u - m[j].at < c.ms
    BY <1>1 DEF SteadyTaken
  <2>1. m[j].in[1] = x
    <3>1. n + 1 \in j .. n + 1
      BY <1>1
    <3> QED
      BY <1>1, <3>1 DEF Steady, x
  <2>2. n > 0 /\ x # s.stable /\ z.stable = s.stable /\ z.pending = x
        /\ (x = s.pending => z.time = s.time + e.dt /\ z.time < c.ms)
    BY <1>1, <1>4, <2>1
  <2>3. CASE j = n + 1
    BY <1>1, <1>4, <2>1, <2>2, <2>3
  <2>4. CASE j \in 1 .. n
    <3>1. Steady(l, j) /\ l[j] = m[j] /\ l[j].in[1] = x
      <4>1. \A k \in j .. n : k \in 1 .. n /\ k \in j .. n + 1
        BY <1>1, <2>4
      <4>2. j > 1 => j - 1 \in 1 .. n
        BY <1>1, <2>4
      <4> QED
        BY <1>1, <2>1, <2>4, <4>1, <4>2 DEF Steady, n
    <3>2. j > 1 /\ s.pending = x /\ s.time >= l[n].at - l[j].at
      BY <1>2, <2>2, <2>4, <3>1 DEF SteadyTaken, n
    <3>3. z.time = s.time + e.dt /\ z.time < c.ms
      BY <2>2, <3>2
    <3>4. l[n].at = t /\ l[n - 1].at = b /\ n > 1
      BY <1>1, <1>2, <2>4, <3>2 DEF DebounceShape, n
    <3>5. b > 0
      <4>1. l[j - 1].at <= l[n - 1].at /\ l[j - 1].at > 0 /\ l[j - 1].at \in Nat
        <5>1. j - 1 \in 1 .. n - 1 /\ n - 1 \in 1 .. n /\ j - 1 \in 1 .. n
          BY <1>1, <2>4, <3>2
        <5>2. l[j - 1].at > 0
          BY <3>1, <3>2 DEF Steady
        <5> QED
          BY <1>2, <5>1, <5>2 DEF DebounceShape, n
      <4> QED
        BY <1>3, <3>4, <4>1
    <3>6. e.dt >= u - t
      BY <1>3, <3>5
    <3>7. l[j].at \in Nat
      BY <1>2, <2>4 DEF DebounceShape, n
    <3>8. z.time >= u - l[j].at
      BY <1>3, <3>2, <3>3, <3>4, <3>6, <3>7
    <3> QED
      BY <1>4, <2>1, <2>2, <3>1, <3>2, <3>3, <3>7, <3>8
  <2> QED
    BY <1>1, <2>3, <2>4
<1>8. DebounceInv(c, z, m, u, t)
  BY <1>5, <1>6, <1>7 DEF DebounceInv
<1> QED
  BY <1>8 DEF z, m
-----------------------------------------------------------------------------
(* All blocks of a configuration.                                          *)

BlockInv(c) ==
    /\ c.type = "TIMER" => TimerInv(c, st[c.id], log[c.id], now)
    /\ c.type \in FlipFlopTypes => FlipInv(c, st[c.id], log[c.id])
    /\ c.type = "COUNTER" /\ c.edge => CounterInv(c, st[c.id], log[c.id])
    /\ c.type = "DEBOUNCE" => DebounceInv(c, st[c.id], log[c.id], now, last)
BlocksInv == Shape /\ \A c \in Channels : BlockInv(c)

\* What an executor has a branch for.
LEMMA ExecIs ==
    ASSUME NEW c, NEW s, NEW in, NEW old
    PROVE  /\ c.type = "TIMER" => Exec(c, s, in, old) = TimerUpdate(s, c, in[1], now')
           /\ c.type = "COUNTER" => Exec(c, s, in, old) = CounterUpdate(s, c, in[1], in[2], in[3])
           /\ c.type \in FlipFlopTypes => Exec(c, s, in, old) = FlipUpdate(c, s, in)
           /\ c.type = "DEBOUNCE" => Exec(c, s, in, old) = DebounceUpdate(s, c, in[1], dt')
<1>1. c.type = "TIMER" => Exec(c, s, in, old) = TimerUpdate(s, c, in[1], now')
  BY DEF Exec
<1>2. c.type = "COUNTER" => Exec(c, s, in, old) = CounterUpdate(s, c, in[1], in[2], in[3])
  BY DEF Exec
<1>3. c.type = "D" => Exec(c, s, in, old) = FlipUpdate(c, s, in)
  BY DEF Exec, Library, FlipUpdate
<1>4. c.type = "T" => Exec(c, s, in, old) = FlipUpdate(c, s, in)
  BY DEF Exec, Library, FlipUpdate
<1>5. c.type = "TOGGLE" => Exec(c, s, in, old) = FlipUpdate(c, s, in)
  BY DEF Exec, Library, FlipUpdate
<1>6. c.type = "JK" => Exec(c, s, in, old) = FlipUpdate(c, s, in)
  BY DEF Exec, Library, FlipUpdate
<1>7. c.type = "DEBOUNCE" => Exec(c, s, in, old) = DebounceUpdate(s, c, in[1], dt')
  BY DEF Exec, Library
<1> QED
  BY <1>1, <1>2, <1>3, <1>4, <1>5, <1>6, <1>7 DEF FlipFlopTypes

LEMMA SettingsHold ==
    ASSUME config \in Configs, NEW c \in Channels
    PROVE  /\ c.type = "TIMER" => c.ms \in Nat /\ c.trigger \in Triggers
           /\ c.type = "COUNTER" /\ c.edge => Counter(c)
           /\ c.type = "DEBOUNCE" => c.ms \in Nat
  BY ConfigsAssumption DEF ConfigsAssumption, Accepted, Channels, Triggers, Counter

\* Each block starts fresh.
LEMMA BlocksStart == Init => BlocksInv
<1> SUFFICES ASSUME Init PROVE BlocksInv
  OBVIOUS
<1>1. config \in Configs /\ now = 0 /\ last = 0 /\ log = [i \in Ids |-> <<>>]
      /\ st = [i \in Ids |-> LET n == CHOOSE n \in DOMAIN config.channels : config.channels[n].id = i
                             IN  Fresh(config.channels[n])]
  BY DEF Init
<1>2. Shape
  BY <1>1 DEF Shape, IsSeq
<1>3. ASSUME NEW c \in Channels PROVE BlockInv(c)
  <2>1. PICK k \in DOMAIN config.channels : config.channels[k] = c
    BY DEF Channels, ToSet
  <2> DEFINE n == CHOOSE n \in DOMAIN config.channels : config.channels[n].id = c.id
  <2>2. n \in DOMAIN config.channels /\ config.channels[n].id = c.id
    BY <2>1
  <2>3. n = k
    BY <1>1, <2>1, <2>2, OwnIds
  <2>4. c.id \in Ids
    BY <1>1, OwnIds
  <2>5. st[c.id] = Fresh(config.channels[n]) /\ log[c.id] = <<>>
    BY <1>1, <2>4
  <2>6. st[c.id] = Fresh(c)
    BY <2>1, <2>3, <2>5
  <2>7. ASSUME c.type = "TIMER" PROVE TimerInv(c, st[c.id], <<>>, now)
    <3>1. st[c.id] = Idle
      BY <2>6, <2>7 DEF Fresh
    <3>2. Idle \in TimerStates /\ Idle.start = 0 /\ Idle.state = "IDLE" /\ Idle.out = 0
      BY DEF Idle, TimerStates
    <3> QED
      BY <1>1, <3>1, <3>2, TimerAtRest
  <2>8. ASSUME c.type \in FlipFlopTypes PROVE FlipInv(c, st[c.id], <<>>)
    <3>1. st[c.id] = FlipFlop
      BY <2>6, <2>8 DEF Fresh, FlipFlopTypes
    <3> QED
      BY <2>8, <3>1, FlipAtRest
  <2>9. ASSUME c.type = "COUNTER", c.edge PROVE CounterInv(c, st[c.id], <<>>)
    <3>1. st[c.id] = Zeroed
      BY <2>6, <2>9 DEF Fresh
    <3> QED
      BY <1>1, <2>9, <3>1, SettingsHold, CounterAtRest
  <2>10. ASSUME c.type = "DEBOUNCE" PROVE DebounceInv(c, st[c.id], <<>>, now, last)
    <3>1. st[c.id] = Bouncing
      BY <2>6, <2>10 DEF Fresh
    <3> QED
      BY <1>1, <3>1, DebounceAtRest
  <2> QED
    BY <2>5, <2>7, <2>8, <2>9, <2>10 DEF BlockInv
<1> QED
  BY <1>2, <1>3 DEF BlocksInv

\* A cycle, whatever its channels read.
LEMMA BlocksCycle ==
    ASSUME BlocksInv, NEW step \in Nat, Cycle(step)
    PROVE  BlocksInv'
<1>1. /\ Shape /\ config' = config /\ now' \in Nat /\ now <= now'
      /\ last' = now /\ dt' = IF last > 0 THEN now' - last ELSE 0
  BY DEF BlocksInv, Shape, Cycle, UpdateTime
<1>2. /\ \A c \in Channels : Turn(c)
      /\ st' = [i \in Ids |-> st'[i]] /\ log' = [i \in Ids |-> log'[i]]
  BY <1>1, EachTurn
<1>3. \A c \in Channels : IsSeq(log'[c.id])
  <2> TAKE c \in Channels
  <2>1. c.id \in Ids
    BY <1>1, OwnIds DEF Shape
  <2>2. IsSeq(log[c.id])
    BY <1>1, <2>1 DEF Shape
  <2>3. PICK e : log'[c.id] = Append(log[c.id], e)
    BY <1>2 DEF Turn, Did
  <2> QED
    BY <2>2, <2>3, Grown
<1>4. Ids' = Ids /\ Channels' = Channels
  BY <1>1 DEF Ids, Channels
<1>5. Shape'
  <2>1. \A i \in Ids : \E c \in Channels : i = c.id
    BY <1>1, OwnIds DEF Shape
  <2>2. \A i \in Ids : IsSeq(log'[i])
    BY <1>3, <2>1
  <2>3. config' \in Configs
    BY <1>1 DEF Shape
  <2> QED
    BY <1>1, <1>2, <1>4, <2>2, <2>3 DEF Shape
<1>6. ASSUME NEW c \in Channels PROVE BlockInv(c)'
  <2>1. PICK in, old : /\ st'[c.id] = Exec(c, st[c.id], in, old).s
                       /\ log'[c.id] = Append(log[c.id], Seen(in, Exec(c, st[c.id], in, old).y))
    BY <1>2 DEF Turn, Did
  <2> DEFINE s == st[c.id]
             l == log[c.id]
             r == Exec(c, s, in, old)
             e == Seen(in, r.y)
  <2>2. st'[c.id] = r.s /\ log'[c.id] = Append(l, e)
    BY <2>1
  <2>3. e.at = now' /\ e.dt = dt' /\ e.in = in /\ e.out = r.y
    BY DEF Seen
  <2>4. IsSeq(l) /\ BlockInv(c) /\ now \in Nat
    BY <1>1, OwnIds DEF BlocksInv, Shape
  <2>5. config \in Configs
    BY <1>1 DEF Shape
  <2> HIDE DEF e, r
  <2>6. ASSUME c.type = "TIMER" PROVE TimerInv(c, r.s, Append(l, e), now')
    <3>1. r = TimerUpdate(s, c, e.in[1], now')
      BY <2>3, <2>6, ExecIs DEF r
    <3>2. TimerInv(c, s, l, now)
      BY <2>4, <2>6 DEF BlockInv
    <3>3. c.ms \in Nat /\ c.trigger \in Triggers
      BY <2>5, <2>6, SettingsHold
    <3> HIDE DEF s, l
    <3> QED
      BY <1>1, <2>3, <2>4, <3>1, <3>2, <3>3, TimerTurn
  <2>7. ASSUME c.type \in FlipFlopTypes PROVE FlipInv(c, r.s, Append(l, e))
    <3>1. r = FlipUpdate(c, s, e.in)
      BY <2>3, <2>7, ExecIs DEF r
    <3>2. FlipInv(c, s, l)
      BY <2>4, <2>7 DEF BlockInv
    <3> HIDE DEF s, l
    <3> QED
      BY <2>3, <2>4, <2>7, <3>1, <3>2, FlipTurn
  <2>8. ASSUME c.type = "COUNTER", c.edge PROVE CounterInv(c, r.s, Append(l, e))
    <3>1. r = CounterUpdate(s, c, e.in[1], e.in[2], e.in[3])
      BY <2>3, <2>8, ExecIs DEF r
    <3>2. CounterInv(c, s, l)
      BY <2>4, <2>8 DEF BlockInv
    <3>3. Counter(c)
      BY <2>5, <2>8, SettingsHold
    <3> HIDE DEF s, l
    <3> QED
      BY <2>3, <2>4, <3>1, <3>2, <3>3, CounterTurn
  <2>9. ASSUME c.type = "DEBOUNCE" PROVE DebounceInv(c, r.s, Append(l, e), now', last')
    <3>1. r = DebounceUpdate(s, c, e.in[1], e.dt)
      BY <2>3, <2>9, ExecIs DEF r
    <3>2. DebounceInv(c, s, l, now, last)
      BY <2>4, <2>9 DEF BlockInv
    <3>3. c.ms \in Nat
      BY <2>5, <2>9, SettingsHold
    <3>4. e.dt = IF last > 0 THEN now' - last ELSE 0
      BY <1>1, <2>3
    <3> HIDE DEF s, l
    <3>5. DebounceInv(c, r.s, Append(l, e), now', now)
      BY <1>1, <2>3, <2>4, <3>1, <3>2, <3>3, <3>4, DebounceTurn
    <3> QED
      BY <1>1, <3>5
  <2> HIDE DEF s, l
  <2> QED
    BY <2>2, <2>6, <2>7, <2>8, <2>9 DEF BlockInv
<1> QED
  BY <1>4, <1>5, <1>6 DEF BlocksInv

\* A reset returns a timer to rest with its history, and leaves the others.
LEMMA BlocksReset ==
    ASSUME BlocksInv, NEW d \in Channels, ResetChannel(d)
    PROVE  BlocksInv'
<1>1. /\ Shape /\ config' = config /\ now' = now /\ last' = last
      /\ st' = [st EXCEPT ![d.id] = IF d.type = "TIMER" THEN TimerReset(@)
                                    ELSE IF Resets(d) THEN Fresh(d) ELSE @]
      /\ log' = [log EXCEPT ![d.id] = IF Resets(d) THEN <<>> ELSE @]
  BY DEF BlocksInv, ResetChannel
<1>2. Ids' = Ids /\ Channels' = Channels
  BY <1>1 DEF Ids, Channels
<1>3. DOMAIN st = Ids /\ DOMAIN log = Ids
  BY <1>1 DEF Shape
<1>4. /\ \A i \in Ids : i # d.id => st'[i] = st[i] /\ log'[i] = log[i]
      /\ d.id \in Ids
      /\ log'[d.id] = IF Resets(d) THEN <<>> ELSE log[d.id]
      /\ st'[d.id] = IF d.type = "TIMER" THEN TimerReset(st[d.id])
                     ELSE IF Resets(d) THEN Fresh(d) ELSE st[d.id]
      /\ st' = [i \in Ids |-> st'[i]] /\ log' = [i \in Ids |-> log'[i]]
  <2>1. d.id \in Ids
    BY <1>1, OwnIds DEF Shape
  <2> QED
    BY <1>1, <1>3, <2>1
<1>5. Shape'
  <2>1. \A i \in Ids : IsSeq(log'[i])
    <3>1. IsSeq(<<>>)
      BY DEF IsSeq
    <3> QED
      BY <1>1, <1>4, <3>1 DEF Shape
  <2>2. config' \in Configs /\ now' \in Nat /\ last' \in Nat /\ last' <= now'
    BY <1>1 DEF Shape
  <2> QED
    BY <1>2, <1>4, <2>1, <2>2 DEF Shape
<1>6. ASSUME NEW c \in Channels PROVE BlockInv(c)'
  <2>1. BlockInv(c) /\ c.id \in Ids /\ (c.id = d.id => c = d)
    BY <1>1, OwnIds DEF BlocksInv, Shape
  <2>2. CASE c.id # d.id
    BY <1>1, <1>4, <2>1, <2>2 DEF BlockInv
  <2>3. CASE c = d /\ c.type = "TIMER"
    <3> DEFINE s == st[c.id]
               z == TimerReset(s)
    <3>1. log'[c.id] = <<>> /\ st'[c.id] = z
      BY <1>4, <2>3 DEF Resets
    <3>2. s \in TimerStates /\ s.start <= now
      BY <2>1, <2>3 DEF BlockInv, TimerInv, TimerShape
    <3> HIDE DEF s
    <3>3. z \in TimerStates /\ z.start <= now /\ z.state = "IDLE" /\ z.out = 0
      BY <3>2 DEF TimerStates, TimerReset
    <3> HIDE DEF z
    <3>4. TimerInv(c, z, <<>>, now)
      BY <1>1, <3>3, TimerAtRest DEF Shape
    <3> QED
      BY <1>1, <2>3, <3>1, <3>4 DEF BlockInv, FlipFlopTypes
  <2>4. CASE c = d /\ c.type \in FlipFlopTypes \cup {"COUNTER"}
    <3>1. ~Resets(c) /\ c.type # "TIMER" /\ c.type # "DEBOUNCE"
      BY <2>4 DEF Resets, FlipFlopTypes
    <3>2. st'[c.id] = st[c.id] /\ log'[c.id] = log[c.id]
      BY <1>4, <2>4, <3>1
    <3> QED
      BY <2>1, <3>1, <3>2 DEF BlockInv
  <2>5. CASE c = d /\ c.type = "DEBOUNCE"
    <3>1. log'[c.id] = <<>> /\ st'[c.id] = Bouncing
      BY <1>4, <2>5 DEF Resets, Fresh
    <3>2. DebounceInv(c, Bouncing, <<>>, now, last)
      BY <1>1, DebounceAtRest DEF Shape
    <3> QED
      BY <1>1, <2>5, <3>1, <3>2 DEF BlockInv, FlipFlopTypes
  <2>6. CASE c.type \notin FlipFlopTypes \cup {"COUNTER", "TIMER", "DEBOUNCE"}
    BY <2>6 DEF BlockInv
  <2> QED
    BY <2>1, <2>2, <2>3, <2>4, <2>5, <2>6
<1> QED
  BY <1>2, <1>5, <1>6 DEF BlocksInv

\* The state and the history of every block belong together, in every
\* reachable state.
THEOREM BlocksAlways == Spec => []BlocksInv
<1>1. BlocksInv /\ [Next]_vars => BlocksInv'
  <2> SUFFICES ASSUME BlocksInv, [Next]_vars PROVE BlocksInv'
    OBVIOUS
  <2>1. ASSUME NEW step \in config.steps, Cycle(step) PROVE BlocksInv'
    <3>1. step \in Nat
      BY ConfigsAssumption DEF ConfigsAssumption, BlocksInv, Shape
    <3> QED
      BY <2>1, <3>1, BlocksCycle
  <2>2. ASSUME NEW i \in DOMAIN config.channels, ResetChannel(config.channels[i]) PROVE BlocksInv'
    <3>1. config.channels[i] \in Channels
      BY DEF Channels, ToSet
    <3> QED
      BY <2>2, <3>1, BlocksReset
  <2>3. CASE UNCHANGED vars
    <3>1. /\ config' = config /\ now' = now /\ last' = last /\ st' = st /\ log' = log
      BY <2>3 DEF vars
    <3>2. Ids' = Ids /\ Channels' = Channels
      BY <3>1 DEF Ids, Channels
    <3>3. Shape'
      BY <3>1, <3>2 DEF BlocksInv, Shape
    <3>4. \A c \in Channels : BlockInv(c)'
      BY <3>1 DEF BlocksInv, BlockInv
    <3> QED
      BY <3>2, <3>3, <3>4 DEF BlocksInv
  <2> QED
    BY <2>1, <2>2, <2>3 DEF Next
<1> QED
  BY <1>1, BlocksStart, PTL DEF Spec

\* A delay raises its output only when the trigger is the delay past (and, a
\* level, has held meanwhile) and drops it only when nothing triggered for
\* the delay; a pulse lasts the delay after a trigger, neither more nor less,
\* a one-shot at least the delay and, without auto reset, once until it is
\* reset: for any delays, any cycle times and any resets (timer.py).
THEOREM TimersAlwaysKeepTime == Spec => []TimerKeepsTime
<1>1. BlocksInv => TimerKeepsTime
  <2> SUFFICES ASSUME BlocksInv, NEW c \in Of({"TIMER"}), NEW k \in Cycles(c)
               PROVE  LET rose == Out(c, k) = 1 /\ Out(c, k - 1) = 0
                          fell == Out(c, k) = 0 /\ Out(c, k - 1) = 1
                          Within(j) == At(c, k) - At(c, j) < c.ms
                          Hit(j) == Triggered(c, IF j = 1 THEN Bit(~High(In(c, j))) ELSE In(c, j - 1), In(c, j))
                      IN  /\ c.mode = "DELAY_ON" /\ rose =>
                                \E j \in 1..k : /\ ~Within(j) /\ Hit(j)
                                                /\ c.trigger = "LEVEL" => \A i \in j..k : Hit(i)
                          /\ c.mode = "DELAY_OFF" /\ fell => \A j \in 1..k : Within(j) => ~Hit(j)
                          /\ c.mode \in Pulses \ {"ONESHOT"} /\ Out(c, k) = 1 =>
                                \E j \in 1..k : Hit(j) /\ (j = k \/ Within(j))
                          /\ c.mode \in Pulses /\ rose =>
                                \A i \in k..End(c) : At(c, i) - At(c, k) < c.ms => Out(c, i) = 1
                          /\ c.mode = "ONESHOT" /\ ~c.autoReset /\ rose =>
                                \A i \in 1..k - 1 : Out(c, i) = 0
    BY DEF TimerKeepsTime
  <2> DEFINE l == log[c.id]
             s == st[c.id]
  <2>1. c \in Channels /\ c.type = "TIMER"
    BY DEF Of, Channels
  <2>2. TimerInv(c, s, l, now) /\ IsSeq(l)
    BY <2>1, OwnIds DEF BlocksInv, BlockInv, Shape
  <2>3. Len(l) \in Nat /\ k \in 1 .. Len(l)
    BY <2>2, Grown DEF Cycles
  <2>4. /\ \A i : In(c, i) = l[i].in[1] /\ At(c, i) = l[i].at /\ Out(c, i) = Gave(l, i)
        /\ End(c) = Len(l)
    BY DEF In, At, Out, Gave, End
  <2> DEFINE Hit(j) == Triggered(c, IF j = 1 THEN Bit(~High(In(c, j))) ELSE In(c, j - 1), In(c, j))
  <2>5. \A j : Hit(j) = Struck(c, l, j)
    BY <2>4 DEF Struck
  <2> HIDE DEF Hit, l, s
  <2>6. /\ \A i \in 1 .. Len(l) : Gave(l, i) = l[i].out
        /\ \A j \in 1 .. Len(l) : l[j].at \in Nat
    BY <2>2, <2>3 DEF Gave, TimerInv, TimerShape, Times
  <2>7. ASSUME c.mode = "DELAY_ON", Out(c, k) = 1, Out(c, k - 1) = 0
        PROVE  \E j \in 1..k : /\ ~(At(c, k) - At(c, j) < c.ms) /\ Hit(j)
                               /\ c.trigger = "LEVEL" => \A i \in j..k : Hit(i)
    <3>1. Rose(l, k)
      BY <2>4, <2>7 DEF Rose
    <3>2. PICK j \in 1 .. k : l[k].at - l[j].at >= c.ms /\ Held(c, l, j, k)
      BY <2>2, <2>3, <2>7, <3>1 DEF TimerInv, DelayOn
    <3>3. ~(l[k].at - l[j].at < c.ms)
      <4>1. l[k].at \in Nat /\ l[j].at \in Nat
        BY <2>3, <2>6
      <4>2. c.ms \in Nat
        BY <2>1, SettingsHold DEF BlocksInv, Shape
      <4> QED
        BY <3>2, <4>1, <4>2
    <3> QED
      BY <2>4, <2>5, <3>2, <3>3 DEF Held
  <2>8. ASSUME c.mode = "DELAY_OFF", Out(c, k) = 0, Out(c, k - 1) = 1
        PROVE  \A j \in 1..k : At(c, k) - At(c, j) < c.ms => ~Hit(j)
    <3>1. Fell(l, k)
      BY <2>4, <2>8 DEF Fell
    <3>2. \A j \in 1 .. k : l[k].at - l[j].at < c.ms => ~Struck(c, l, j)
      BY <2>2, <2>3, <2>8, <3>1 DEF TimerInv, DelayOff
    <3> QED
      BY <2>4, <2>5, <3>2
  <2>9. ASSUME c.mode \in Pulses, Out(c, k) = 1
        PROVE  \E j \in 1..k : Hit(j) /\ (j = k \/ At(c, k) - At(c, j) < c.ms)
    <3>1. Pulsed(c, l, k)
      BY <2>2, <2>3, <2>4, <2>6, <2>9 DEF TimerInv, Pulse
    <3> QED
      BY <2>4, <2>5, <3>1 DEF Pulsed
  <2>10. ASSUME c.mode \in Pulses, Out(c, k) = 1, Out(c, k - 1) = 0
         PROVE  \A i \in k..End(c) : At(c, i) - At(c, k) < c.ms => Out(c, i) = 1
    <3>1. Rose(l, k)
      BY <2>4, <2>10 DEF Rose
    <3>2. \A i \in k .. Len(l) : l[i].at - l[k].at < c.ms => l[i].out = 1
      BY <2>2, <2>3, <2>10, <3>1 DEF TimerInv, Pulse
    <3>3. \A i \in k .. Len(l) : i \in 1 .. Len(l)
      BY <2>3
    <3> QED
      BY <2>4, <2>6, <3>2, <3>3
  <2>11. ASSUME c.mode = "ONESHOT", ~c.autoReset, Out(c, k) = 1, Out(c, k - 1) = 0
         PROVE  \A i \in 1..k - 1 : Out(c, i) = 0
    <3>1. Rose(l, k)
      BY <2>4, <2>11 DEF Rose
    <3>2. \A i \in 1 .. k - 1 : l[i].out = 0
      BY <2>2, <2>3, <2>11, <3>1 DEF TimerInv, Single
    <3>3. \A i \in 1 .. k - 1 : i \in 1 .. Len(l)
      BY <2>3
    <3> QED
      BY <2>4, <2>6, <3>2, <3>3
  <2> QED
    BY <2>7, <2>8, <2>9, <2>10, <2>11 DEF Hit
<1> QED
  BY <1>1, BlocksAlways, PTL

\* However long it lasts, at whatever cycle times and through whatever
\* resets, an edge is counted at most once, at once where nothing interferes,
\* by any step but 0, up or down, and moves a flip-flop exactly once
\* (counter.py, flipflop.py).
THEOREM EdgesAlwaysTakenOnce == Spec => []EdgesTakenOnce
<1>1. BlocksInv => CountsEachEdgeOnce
  <2> SUFFICES ASSUME BlocksInv, NEW c \in Of({"COUNTER"}), c.edge
               PROVE  LET reset == {k \in Cycles(c) : High(log[c.id][k].in[3])}
                          down == {k \in Cycles(c) : High(log[c.id][k].in[2])}
                          ups == {k \in Cycles(c) \ reset : Stepped(c, Out(c, k - 1), Out(c, k))}
                      IN  /\ ~c.wrap => Cardinality(ups) <= Cardinality(Rises(c, 1))
                          /\ \A k \in Rises(c, 1) \ (reset \cup down) :
                                k - 1 \notin reset /\ Out(c, k - 1) + c.step \in c.min..c.max =>
                                    Out(c, k) = Out(c, k - 1) + c.step
                          /\ Out(c, End(c)) \in (c.min..c.max) \cup {0, c.initial}
    BY DEF CountsEachEdgeOnce
  <2> DEFINE l == log[c.id]
             s == st[c.id]
             reset == {k \in Cycles(c) : High(log[c.id][k].in[3])}
             down == {k \in Cycles(c) : High(log[c.id][k].in[2])}
             ups == {k \in Cycles(c) \ reset : Stepped(c, Out(c, k - 1), Out(c, k))}
  <2>1. c \in Channels /\ c.type = "COUNTER"
    BY DEF Of, Channels
  <2>2. CounterInv(c, s, l) /\ IsSeq(l)
    BY <2>1, OwnIds DEF BlocksInv, BlockInv, Shape
  <2>3. Cycles(c) = 1 .. Len(l) /\ Len(l) \in Nat
    BY <2>2, Grown DEF Cycles
  <2>4. \A k : Out(c, k) = Gave(l, k)
    BY DEF Out, Gave
  <2>5. reset = Resetting(l) /\ down = Downs(l)
    BY <2>3 DEF Resetting, Downs, Tells
  <2>6. ups = Ups(c, l)
    BY <2>3, <2>4, <2>5 DEF Ups
  <2>7. Rises(c, 1) = Edges(l, 1)
    BY <2>3 DEF Rises, Edges
  <2> HIDE DEF reset, down, ups
  <2>8. ~c.wrap => Cardinality(ups) <= Cardinality(Rises(c, 1))
    BY <2>2, <2>6, <2>7, NoMoreThanEdges DEF CounterInv
  <2>9. Out(c, End(c)) \in (c.min..c.max) \cup {0, c.initial}
    BY <2>2, <2>4 DEF End, CounterInv, CounterShape, CountRange
  <2>10. \A k \in Rises(c, 1) \ (reset \cup down) :
            k - 1 \notin reset /\ Out(c, k - 1) + c.step \in c.min..c.max =>
                Out(c, k) = Out(c, k - 1) + c.step
    BY <2>2, <2>4, <2>5, <2>7 DEF CounterInv, TakenAtOnce
  <2> QED
    BY <2>8, <2>9, <2>10 DEF reset, down, ups
<1>2. BlocksInv => FlipFlopsFollowEdges
  <2> SUFFICES ASSUME BlocksInv, NEW c \in Of({"D", "T", "TOGGLE", "JK"})
               PROVE  LET q == Out(c, End(c))
                          Read(k, n) == High(log[c.id][k].in[n])
                          edges == Rises(c, CASE c.type = "TOGGLE" -> 1 [] c.type = "JK" -> 3 [] OTHER -> 2)
                          sets == {k \in edges : Read(k, 1) # Read(k, 2)}
                          flips == {k \in edges : k > Latest(sets) /\ Read(k, 1)}
                      IN  CASE c.type = "D" -> q = Bit(edges # {} /\ Read(Latest(edges), 1))
                            [] c.type = "TOGGLE" -> q = Cardinality(edges) % 2
                            [] c.type = "T" -> q = Cardinality({k \in edges : Read(k, 1)}) % 2
                            [] c.type = "JK" -> q = (Cardinality(flips)
                                                      + Bit(sets # {} /\ Read(Latest(sets), 1))) % 2
    BY DEF FlipFlopsFollowEdges
  <2> DEFINE l == log[c.id]
             s == st[c.id]
  <2>1. c \in Channels /\ c.type \in FlipFlopTypes /\ log[c.id] # <<>>
    BY DEF Of, Channels, FlipFlopTypes
  <2>2. FlipInv(c, s, l) /\ IsSeq(l)
    BY <2>1, OwnIds DEF BlocksInv, BlockInv, Shape
  <2>3. Cycles(c) = 1 .. Len(l) /\ Len(l) \in Nat
    BY <2>2, Grown DEF Cycles
  <2>4. Len(l) > 0
    BY <2>1, <2>2, <2>3, EmptySeq DEF IsSeq
  <2>5. Out(c, End(c)) = Made(c, l)
    BY <2>2, <2>3, <2>4 DEF Out, End, FlipInv, FlipShape
  <2>6. \A p : Rises(c, p) = Edges(l, p)
    BY <2>3 DEF Rises, Edges
  <2> HIDE DEF l, s
  <2>7. CASE c.type = "D"
    BY <2>5, <2>6, <2>7 DEF Made, ClockOf, Tells, l
  <2>8. CASE c.type = "TOGGLE"
    BY <2>5, <2>6, <2>8 DEF Made, ClockOf, Tells, l
  <2>9. CASE c.type = "T"
    BY <2>5, <2>6, <2>9 DEF Made, ClockOf, Tells, Asked, l
  <2>10. CASE c.type = "JK"
    <3> DEFINE A == {k \in Rises(c, 3) : High(log[c.id][k].in[1]) # High(log[c.id][k].in[2])}
               F == {k \in Rises(c, 3) : k > Latest(A) /\ High(log[c.id][k].in[1])}
    <3>1. A = Sets(l, 3)
      BY <2>6 DEF Sets, Tells, l
    <3> HIDE DEF A
    <3>2. F = Flips(l, 3)
      BY <2>6, <3>1 DEF Flips, Tells, l
    <3> HIDE DEF F
    <3>3. Made(c, l) = (Cardinality(F) + Bit(A # {} /\ Tells(l, Latest(A), 1))) % 2
      BY <2>10, <3>1, <3>2 DEF Made
    <3>4. Out(c, End(c)) = (Cardinality(F) + Bit(A # {} /\ High(log[c.id][Latest(A)].in[1]))) % 2
      BY <2>5, <3>3 DEF Tells, l
    <3> QED
      BY <2>10, <3>4 DEF A, F
  <2> QED
    BY <2>1, <2>7, <2>8, <2>9, <2>10 DEF FlipFlopTypes
<1> QED
  BY <1>1, <1>2, BlocksAlways, PTL DEF EdgesTakenOnce

\* A debounced value changes only to what two cycles running have read, and
\* is what has been steady for the debounce time, for any time, cycle times
\* and resets (debounce_update of filter.py, called once in a cycle by a
\* program: the FILTER branch of the executor raises).
THEOREM DebounceAlwaysSteady == Spec => []DebounceTakesSteady
<1>1. BlocksInv => DebounceTakesSteady
  <2> SUFFICES ASSUME BlocksInv, NEW c \in Of({"DEBOUNCE"})
               PROVE  /\ \A k \in Cycles(c) : k > 1 /\ Out(c, k) # Out(c, k - 1) =>
                            Out(c, k) = In(c, k) /\ In(c, k - 1) = In(c, k)
                      /\ \A j \in Cycles(c) :
                            /\ j < End(c) /\ At(c, End(c)) - At(c, j) >= c.ms
                            /\ j > 1 => At(c, j - 1) > 0
                            /\ \A k \in j..End(c) : In(c, k) = In(c, j)
                            => Out(c, End(c)) = In(c, j)
    BY DEF DebounceTakesSteady
  <2> DEFINE l == log[c.id]
             s == st[c.id]
  <2>1. c \in Channels /\ c.type = "DEBOUNCE"
    BY DEF Of, Channels
  <2>2. DebounceInv(c, s, l, now, last) /\ IsSeq(l)
    BY <2>1, OwnIds DEF BlocksInv, BlockInv, Shape
  <2>3. Cycles(c) = 1 .. Len(l) /\ Len(l) \in Nat
    BY <2>2, Grown DEF Cycles
  <2>4. /\ \A i : In(c, i) = l[i].in[1] /\ At(c, i) = l[i].at /\ Out(c, i) = Gave(l, i)
        /\ End(c) = Len(l)
    BY DEF In, At, Out, Gave, End
  <2>5. c.ms \in Nat
    BY <2>1, SettingsHold DEF BlocksInv, Shape
  <2> HIDE DEF l, s
  <2>6. \A k \in Cycles(c) : k > 1 /\ Out(c, k) # Out(c, k - 1) =>
            Out(c, k) = In(c, k) /\ In(c, k - 1) = In(c, k)
    BY <2>2, <2>3, <2>4 DEF DebounceInv, ReadTwice
  <2>7. ASSUME NEW j \in Cycles(c), j < End(c), At(c, End(c)) - At(c, j) >= c.ms,
               j > 1 => At(c, j - 1) > 0, \A k \in j..End(c) : In(c, k) = In(c, j)
        PROVE  Out(c, End(c)) = In(c, j)
    <3>1. Steady(l, j)
      BY <2>4, <2>7 DEF Steady
    <3>2. l[Len(l)].at \in Nat /\ l[j].at \in Nat /\ s.stable = l[Len(l)].out
      BY <2>2, <2>3, <2>4, <2>7 DEF DebounceInv, DebounceShape
    <3>3. ~(l[Len(l)].at - l[j].at < c.ms)
      <4> DEFINE T == l[Len(l)].at
                 U == l[j].at
      <4>1. T - U >= c.ms
        BY <2>4, <2>7
      <4>2. T \in Int /\ U \in Int /\ c.ms \in Int
        BY <2>5, <3>2
      <4> HIDE DEF T, U
      <4>3. ~(T - U < c.ms)
        BY ONLY <4>1, <4>2
      <4> QED
        BY <4>3 DEF T, U
    <3>4. s.stable = l[j].in[1]
      BY <2>2, <2>3, <2>4, <2>7, <3>1, <3>3 DEF DebounceInv, SteadyTaken
    <3>5. Gave(l, Len(l)) = l[Len(l)].out
      BY <2>3, <2>7 DEF Gave
    <3> QED
      BY <2>4, <3>2, <3>4, <3>5
  <2> QED
    BY <2>6, <2>7
<1> QED
  BY <1>1, BlocksAlways, PTL
LEMMA ClampIs ==
    ASSUME NEW x \in Int, NEW lo \in Int, NEW hi \in Int
    PROVE  /\ Clamp(x, lo, hi) \in Int
           /\ lo <= hi => Clamp(x, lo, hi) \in lo .. hi
           /\ \A p, q \in Int : p <= lo /\ hi <= q /\ p <= hi /\ lo <= q => Clamp(x, lo, hi) \in p .. q
           /\ x \in lo .. hi => Clamp(x, lo, hi) = x
  BY DEF Clamp

-----------------------------------------------------------------------------
(* Filters over a ring of samples.                                         *)

\* The place of the j-th newest sample, if i is written next.
Back(i, j, w) == IF j <= i THEN i - j ELSE i - j + w

Least(m, n) == IF m <= n THEN m ELSE n

NumberRead(l) == \A k \in 1 .. Len(l) : l[k].in[1] \in Int

Fields == {"samples", "index", "count", "total"}

RingInv(s, w, l) ==
    /\ DOMAIN s = Fields
    /\ s.samples \in [0 .. w - 1 -> Int] /\ s.index \in 0 .. w - 1
    /\ s.count = Least(Len(l), w) /\ (s.count < w => s.index = s.count)
    /\ \A j \in 1 .. s.count : s.samples[Back(s.index, j, w)] = l[Len(l) + 1 - j].in[1]

\* The last m values read, the oldest first.
Newest(l, m) == [k \in 1 .. m |-> l[Len(l) - m + k].in[1]]

LEMMA RingAtRest ==
    ASSUME NEW w \in Nat, w > 0
    PROVE  RingInv(Ring(w), w, <<>>) /\ Ring(w).total = 0
<1>1. Len(<<>>) = 0
  OBVIOUS
<1>2. Ring(w).samples = [i \in 0 .. w - 1 |-> 0] /\ Ring(w).index = 0 /\ Ring(w).count = 0 /\ Ring(w).total = 0
  BY DEF Ring
<1>3. DOMAIN Ring(w) = Fields
  BY DEF Ring, Fields
<1> QED
  BY <1>1, <1>2, <1>3 DEF RingInv, Least

\* The next place of a ring.
LEMMA Around ==
    ASSUME NEW w \in Nat, w > 0, NEW i \in 0 .. w - 1
    PROVE  (i + 1) % w = IF i + 1 = w THEN 0 ELSE i + 1
<1>1. CASE i + 1 = w
  BY <1>1
<1>2. CASE i + 1 # w
  BY <1>2
<1> QED
  BY <1>1, <1>2

\* The sample i places back is one place further back after the next.
\* The place after place i.
Onward(i, w) == IF i + 1 = w THEN 0 ELSE i + 1

LEMMA BackOn ==
    ASSUME NEW w \in Nat, NEW a \in 0 .. w - 1, NEW i \in 1 .. w - 1
    PROVE  Back(Onward(a, w), i + 1, w) = Back(a, i, w) /\ Back(a, i, w) \in 0 .. w - 1 /\ Back(a, i, w) # a
  BY DEF Back, Onward

\* The count of a ring that takes one more sample.
LEMMA LeastOn ==
    ASSUME NEW n \in Nat, NEW w \in Nat, w > 0, NEW a, a = Least(n, w),
           NEW b, b = IF a < w THEN a + 1 ELSE a
    PROVE  b = Least(n + 1, w) /\ b > 0 /\ b \in Nat
  BY DEF Least

LEMMA RingTurn ==
    ASSUME NEW w \in Nat, w > 0, NEW s, NEW l, IsSeq(l), RingInv(s, w, l),
           NEW e, e.in[1] \in Int
    PROVE  LET t == Pushed(s, w, e.in[1]) IN
           RingInv(t, w, Append(l, e)) /\ t.count > 0 /\ t.count \in Nat /\ t.total = s.total
<1> DEFINE x == e.in[1]
           t == Pushed(s, w, x)
           m == Append(l, e)
           n == Len(l)
<1>1. /\ n \in Nat /\ Len(m) = n + 1 /\ m[n + 1] = e /\ \A k \in 1 .. n : m[k] = l[k]
  BY Grown
<1>2. /\ s.samples \in [0 .. w - 1 -> Int] /\ s.index \in 0 .. w - 1
      /\ s.count = Least(n, w) /\ (s.count < w => s.index = s.count)
  BY DEF RingInv
<1>0. \A j \in 1 .. s.count : s.samples[Back(s.index, j, w)] = l[n + 1 - j].in[1]
  BY DEF RingInv
<1>3. /\ DOMAIN t = Fields /\ t.samples = [s.samples EXCEPT ![s.index] = x]
      /\ t.index = (s.index + 1) % w /\ t.count = (IF s.count < w THEN s.count + 1 ELSE s.count)
      /\ t.total = s.total
  BY DEF Pushed, RingInv, Fields
<1>4. t.index = IF s.index + 1 = w THEN 0 ELSE s.index + 1
  BY <1>2, <1>3, Around
<1>5. s.count \in 0 .. w
  BY <1>1, <1>2 DEF Least
<1> HIDE DEF t, m, n
<1> DEFINE a == s.count
           b == t.count
<1>6. t.count = Least(n + 1, w) /\ t.count > 0 /\ t.count \in Nat
  <2>1. n \in Nat /\ a = Least(n, w) /\ b = IF a < w THEN a + 1 ELSE a
    BY ONLY <1>1, <1>2, <1>3, Zenon
  <2> HIDE DEF a, b
  <2>2. b = Least(n + 1, w) /\ b > 0 /\ b \in Nat
    BY ONLY <2>1, w > 0, LeastOn
  <2> QED
    BY ONLY <2>2, Zenon DEF b
<1>7. t.count < w => t.index = t.count
  <2> DEFINE i == s.index
             j == t.index
  <2>1. /\ a \in 0 .. w /\ i \in 0 .. w - 1 /\ (a < w => i = a)
        /\ b = (IF a < w THEN a + 1 ELSE a) /\ j = IF i + 1 = w THEN 0 ELSE i + 1
    BY ONLY <1>2, <1>3, <1>4, <1>5, Zenon
  <2> HIDE DEF a, b, i, j
  <2>2. b < w => j = b
    BY ONLY <2>1
  <2> QED
    BY ONLY <2>2, Zenon DEF b, j
<1>8. t.samples \in [0 .. w - 1 -> Int] /\ t.index \in 0 .. w - 1
  <2> DEFINE f == s.samples
             i == s.index
             j == t.index
  <2>1. f \in [0 .. w - 1 -> Int] /\ i \in 0 .. w - 1 /\ j = (IF i + 1 = w THEN 0 ELSE i + 1)
        /\ t.samples = [f EXCEPT ![i] = x] /\ x \in Int
    BY ONLY <1>2, <1>3, <1>4, e.in[1] \in Int, Zenon
  <2> HIDE DEF f, i, j, x
  <2>2. j \in 0 .. w - 1
    BY ONLY <2>1
  <2>3. t.samples \in [0 .. w - 1 -> Int]
    BY ONLY <2>1
  <2> QED
    BY ONLY <2>2, <2>3, Zenon DEF j
<1>9. ASSUME NEW j \in 1 .. t.count PROVE t.samples[Back(t.index, j, w)] = m[(n + 1) + 1 - j].in[1]
  <2>1. CASE j = 1
    <3>1. Back(t.index, 1, w) = s.index
      BY <1>2, <1>4 DEF Back
    <3> QED
      BY <1>1, <1>2, <1>3, <2>1, <3>1
  <2>2. CASE j > 1
    <3> DEFINE i == j - 1
    <3>1. i \in 1 .. s.count /\ i < w /\ i \in 1 .. n /\ j \in Int
      <4>1. n \in Nat /\ j \in Nat /\ j <= t.count
        BY <1>1, <1>6
      <4>2. s.count <= n
        BY <1>1, <1>2 DEF Least
      <4> QED
        BY <1>3, <1>5, <2>2, <4>1, <4>2
    <3>2. Back(t.index, j, w) = Back(s.index, i, w) /\ Back(s.index, i, w) \in 0 .. w - 1
          /\ Back(s.index, i, w) # s.index
      <4>1. s.index \in 0 .. w - 1 /\ i \in 1 .. w - 1 /\ j = i + 1
        BY <1>2, <3>1
      <4>2. t.index = IF s.index + 1 = w THEN 0 ELSE s.index + 1
        BY <1>4
      <4> DEFINE p == s.index
                 q == t.index
      <4>3. q = Onward(p, w)
        BY <4>2 DEF Onward
      <4>4. p \in 0 .. w - 1 /\ i \in 1 .. w - 1 /\ j = i + 1
        BY <4>1
      <4> HIDE DEF i, p, q
      <4>5. Back(Onward(p, w), i + 1, w) = Back(p, i, w) /\ Back(p, i, w) \in 0 .. w - 1 /\ Back(p, i, w) # p
        BY ONLY <4>4, BackOn, w \in Nat, Zenon
      <4> QED
        BY ONLY <4>3, <4>4, <4>5, Zenon DEF p, q
    <3>3. s.samples[Back(s.index, i, w)] = l[n + 1 - i].in[1]
      BY <1>0, <3>1
    <3>4. (n + 1) + 1 - j = n + 1 - i /\ n + 1 - i \in 1 .. n
      BY <1>1, <3>1
    <3>5. m[n + 1 - i] = l[n + 1 - i]
      BY <1>1, <3>4
    <3> HIDE DEF i
    <3> QED
      BY <1>2, <1>3, <3>2, <3>3, <3>4, <3>5
  <2> QED
    BY <1>6, <2>1, <2>2
<1>10. RingInv(t, w, m)
  BY <1>1, <1>3, <1>6, <1>7, <1>8, <1>9 DEF RingInv
<1> QED
  BY <1>3, <1>6, <1>10 DEF t, m

SmaInv(s, w, l) ==
    /\ RingInv(s, w, l) /\ NumberRead(l)
    /\ s.total = SumFunction(Newest(l, s.count))
    /\ l # <<>> => l[Len(l)].out = SumFunction(Newest(l, s.count)) \div s.count

LEMMA SmaAtRest == ASSUME NEW w \in Nat, w > 0 PROVE SmaInv(Ring(w), w, <<>>)
<1>1. RingInv(Ring(w), w, <<>>) /\ Ring(w).total = 0 /\ Ring(w).count = 0
  BY RingAtRest DEF Ring
<1>2. NumberRead(<<>>)
  BY DEF NumberRead
<1> DEFINE f == Newest(<<>>, 0)
<1>3. f \in [1 .. 0 -> Int]
  BY DEF Newest
<1> HIDE DEF f
<1>4. SumFunction(f) = 0
  <2>1. PICK a : Beginnings(a, 0, f)
    BY <1>3, BeginningsExist
  <2>2. a[0] = 0
    BY <2>1 DEF Beginnings
  <2>3. SumFunction(f) = a[0]
    BY <1>3, <2>1, SumIs
  <2> QED
    BY <2>2, <2>3
<1> QED
  BY <1>1, <1>2, <1>4 DEF SmaInv, f

LEMMA LastNumbers ==
    ASSUME NEW l, IsSeq(l), NumberRead(l), NEW m \in 0 .. Len(l)
    PROVE  Newest(l, m) \in [1 .. m -> Int]
<1>1. Len(l) \in Nat
  BY Grown
<1>2. \A k \in 1 .. m : Len(l) - m + k \in 1 .. Len(l)
  BY <1>1
<1> QED
  BY <1>1, <1>2 DEF Newest, NumberRead

LEMMA NumberReadOn ==
    ASSUME NEW l, IsSeq(l), NumberRead(l), NEW e, e.in[1] \in Int
    PROVE  NumberRead(Append(l, e))
<1> DEFINE m == Append(l, e)
<1>1. /\ Len(l) \in Nat /\ Len(m) = Len(l) + 1 /\ m[Len(l) + 1] = e /\ \A k \in 1 .. Len(l) : m[k] = l[k]
  BY Grown
<1> HIDE DEF m
<1>2. ASSUME NEW k \in 1 .. Len(m) PROVE m[k].in[1] \in Int
  <2>1. CASE k = Len(l) + 1
    BY <1>1, <2>1
  <2>2. CASE k \in 1 .. Len(l)
    BY <1>1, <2>2 DEF NumberRead
  <2> QED
    BY <1>1, <2>1, <2>2
<1> QED
  BY <1>2 DEF NumberRead, m

LEMMA SmaTurn ==
    ASSUME NEW c, NEW s, NEW l, IsSeq(l), NEW w \in Nat, w = SmaWindow(c), w > 0, SmaInv(s, w, l),
           NEW e, e.in[1] \in Int, NEW r, r = SmaUpdate(s, c, e.in[1]), e.out = r.y
    PROVE  SmaInv(r.s, w, Append(l, e)) /\ r.y \in Int
<1> DEFINE x == e.in[1]
           p == Pushed(s, w, x)
           t == [p EXCEPT !.total = s.total + x - Leaving(s, w)]
           m == Append(l, e)
           n == Len(l)
<1>0. /\ DOMAIN s = Fields
      /\ s.samples \in [0 .. w - 1 -> Int] /\ s.index \in 0 .. w - 1
      /\ s.count = Least(n, w) /\ (s.count < w => s.index = s.count)
      /\ \A j \in 1 .. s.count : s.samples[Back(s.index, j, w)] = l[n + 1 - j].in[1]
      /\ NumberRead(l) /\ s.total = SumFunction(Newest(l, s.count))
  BY DEF SmaInv, RingInv
<1>1. /\ n \in Nat /\ Len(m) = n + 1 /\ m[n + 1] = e /\ \A k \in 1 .. n : m[k] = l[k]
  BY Grown
<1>2. RingInv(p, w, m) /\ p.count > 0 /\ p.count \in Nat /\ p.total = s.total
      /\ p.count = (IF s.count < w THEN s.count + 1 ELSE s.count)
  <2>1. p.count = (IF s.count < w THEN s.count + 1 ELSE s.count)
    BY <1>0 DEF Pushed, Fields
  <2>2. RingInv(s, w, l)
    BY DEF SmaInv
  <2> QED
    BY <2>1, <2>2, RingTurn
<1>3. r.s = t /\ r.y = t.total \div t.count
  <2>1. SmaUpdate(s, c, x) = LET u == [Pushed(s, w, x) EXCEPT !.total = @ + x - Leaving(s, w)]
                             IN  Result(u, u.total \div u.count)
    BY DEF SmaUpdate
  <2>2. [p EXCEPT !.total = @ + x - Leaving(s, w)] = t
    BY <1>2
  <2>3. r = LET u == [p EXCEPT !.total = @ + x - Leaving(s, w)] IN Result(u, u.total \div u.count)
    BY <2>1
  <2> HIDE DEF p, t
  <2>4. r = Result(t, t.total \div t.count)
    BY <2>2, <2>3
  <2> QED
    BY <2>4 DEF Result
<1>4. /\ t.total = s.total + x - Leaving(s, w) /\ t.count = p.count /\ t.samples = p.samples /\ t.index = p.index
      /\ DOMAIN t = Fields
  <2>1. DOMAIN p = Fields
    BY <1>2 DEF RingInv
  <2> HIDE DEF p
  <2> QED
    BY <2>1 DEF Fields
<1> HIDE DEF t, p, m
<1>5. RingInv(t, w, m)
  BY <1>2, <1>4 DEF RingInv
<1>6. NumberRead(m)
  BY <1>0, NumberReadOn DEF m
<1> DEFINE f == Newest(l, s.count)
           g == Newest(m, t.count)
<1>7. s.count \in 0 .. n /\ t.count \in 1 .. n + 1 /\ s.count \in Nat
  BY <1>0, <1>1, <1>2, <1>4 DEF Least
<1>8. f \in [1 .. s.count -> Int] /\ g \in [1 .. t.count -> Int]
  <2>1. f \in [1 .. s.count -> Int]
    BY <1>0, <1>7, LastNumbers
  <2>2. IsSeq(m) /\ t.count \in 0 .. Len(m)
    BY <1>1, <1>7, Grown DEF m
  <2>3. g \in [1 .. t.count -> Int]
    BY <1>6, <2>2, LastNumbers
  <2> QED
    BY <2>1, <2>3
<1>9. (\A k \in 1 .. s.count : f[k] = l[n - s.count + k].in[1])
      /\ (\A k \in 1 .. t.count : g[k] = m[n + 1 - t.count + k].in[1])
  <2>1. \A k \in 1 .. s.count : f[k] = l[n - s.count + k].in[1]
    BY ONLY Zenon DEF Newest, f, n
  <2>2. \A k \in 1 .. t.count : g[k] = m[Len(m) - t.count + k].in[1]
    BY ONLY Zenon DEF Newest, g
  <2>3. Len(m) = n + 1
    BY <1>1
  <2> HIDE DEF f, g, n
  <2>4. ASSUME NEW k \in 1 .. t.count PROVE g[k] = m[n + 1 - t.count + k].in[1]
    <3> DEFINE i == Len(m) - t.count + k
               j == n + 1 - t.count + k
    <3>1. g[k] = m[i].in[1]
      BY ONLY <2>2, k \in 1 .. t.count, Zenon
    <3>2. i = j
      <4> DEFINE a == Len(m)
                 b == t.count
      <4>1. a = n + 1 /\ n \in Nat /\ b \in 1 .. n + 1 /\ k \in 1 .. b
        BY ONLY <1>1, <1>7, <2>3, k \in 1 .. t.count, Zenon
      <4> HIDE DEF a, b
      <4>2. a - b + k = n + 1 - b + k
        BY ONLY <4>1
      <4> QED
        BY ONLY <4>2, Zenon DEF a, b
    <3> HIDE DEF i, j
    <3>3. g[k] = m[j].in[1]
      BY ONLY <3>1, <3>2, Zenon
    <3> QED
      BY ONLY <3>3, Zenon DEF j
  <2> QED
    BY ONLY <2>1, <2>4, Zenon
<1> HIDE DEF f, g
<1>10. g[t.count] = x /\ x \in Int
  <2>1. t.count \in 1 .. t.count /\ n + 1 - t.count + t.count = n + 1
    BY <1>1, <1>7
  <2> QED
    BY <1>1, <1>9, <2>1
<1>11. t.total = SumFunction(g)
  <2>1. CASE s.count < w
    <3>1. t.count = s.count + 1 /\ Leaving(s, w) = 0
      BY <1>0, <1>2, <1>4, <1>7, <2>1 DEF Leaving
    <3>2. ASSUME NEW k \in 1 .. s.count PROVE g[k] = f[k]
      <4> DEFINE a == s.count
                 b == t.count
      <4>1. n \in Nat /\ a \in 0 .. n /\ b = a + 1 /\ k \in 1 .. a
        BY ONLY <1>1, <1>7, <3>1, k \in 1 .. s.count, Zenon
      <4> HIDE DEF a, b, n
      <4>2. n - a + k \in 1 .. n /\ n + 1 - b + k = n - a + k /\ k \in 1 .. b
        BY ONLY <4>1
      <4> USE DEF a, b, n
      <4>3. n - s.count + k \in 1 .. n /\ n + 1 - t.count + k = n - s.count + k /\ k \in 1 .. t.count
        BY ONLY <4>2, Zenon
      <4> QED
        BY <1>1, <1>9, <4>3
    <3>3. SumFunction(g) = SumFunction(f) + g[s.count + 1] /\ SumFunction(f) \in Int
      <4>1. s.count \in Nat /\ f \in [1 .. s.count -> Int] /\ g \in [1 .. s.count + 1 -> Int]
        BY <1>7, <1>8, <3>1
      <4>2. \A k \in 1 .. s.count : g[k] = f[k]
        BY <3>2
      <4> QED
        BY <4>1, <4>2, SumGrows
    <3> QED
      BY <1>0, <1>4, <1>10, <3>1, <3>3 DEF f
  <2>2. CASE s.count = w
    <3>1. t.count = w /\ Leaving(s, w) = s.samples[s.index] /\ n >= w
      BY <1>0, <1>1, <1>2, <1>4, <2>2 DEF Leaving, Least
    <3>2. ASSUME NEW k \in 1 .. w - 1 PROVE g[k] = f[k + 1]
      <4>1. n - s.count + (k + 1) \in 1 .. n /\ n + 1 - t.count + k = n - s.count + (k + 1)
            /\ k \in 1 .. t.count /\ k + 1 \in 1 .. s.count
        <5>1. n \in Nat
          BY <1>1
        <5> QED
          BY <2>2, <3>1, <5>1
      <4>2. g[k] = m[n - s.count + (k + 1)].in[1] /\ f[k + 1] = l[n - s.count + (k + 1)].in[1]
        BY <1>9, <4>1
      <4> QED
        BY <1>1, <4>1, <4>2
    <3>3. f[1] = Leaving(s, w)
      <4>1. Back(s.index, w, w) = s.index
        BY <1>0 DEF Back
      <4>2. s.samples[Back(s.index, w, w)] = l[n + 1 - w].in[1]
        <5>1. w \in 1 .. s.count
          BY <2>2
        <5> QED
          BY <1>0, <5>1
      <4>3. f[1] = l[n - w + 1].in[1]
        <5>1. 1 \in 1 .. s.count
          BY <2>2
        <5> QED
          BY <1>9, <2>2, <5>1
      <4>4. n + 1 - w = n - w + 1
        BY <1>1
      <4> QED
        BY <3>1, <4>1, <4>2, <4>3, <4>4
    <3>4. SumFunction(g) = SumFunction(f) - f[1] + g[w]
      BY <1>8, <2>2, <3>1, <3>2, SumSlides
    <3>5. SumFunction(f) \in Int /\ f[1] \in Int
      <4>1. 1 \in 1 .. s.count
        BY <2>2
      <4> QED
        BY <1>7, <1>8, <4>1, SumNumber
    <3> QED
      BY <1>0, <1>4, <1>10, <3>1, <3>3, <3>4, <3>5 DEF f
  <2> QED
    BY <1>0, <1>1, <2>1, <2>2 DEF Least
<1>12. SumFunction(g) \in Int /\ t.count > 0 /\ t.count \in Nat
  <2>1. t.count > 0 /\ t.count \in Nat
    BY <1>1, <1>7
  <2> QED
    BY <1>8, <2>1, SumNumber
<1>13. r.y \in Int
  BY <1>3, <1>11, <1>12, DivIs
<1>14. SmaInv(t, w, m)
  BY <1>1, <1>3, <1>5, <1>6, <1>11 DEF SmaInv, g
<1> QED
  BY <1>3, <1>13, <1>14 DEF m

LEMMA SortedIs ==
    ASSUME NEW n \in Nat, NEW f \in [1 .. n -> Int]
    PROVE  \E p : Orders(p, f, n) /\ Sorted(f) = [i \in 1 .. n |-> f[p[i]]]
<1> DEFINE Ok(p) == p \in Bijection(1 .. n, 1 .. n) /\ \A i, j \in 1 .. n : i < j => f[p[i]] <= f[p[j]]
           p == CHOOSE p \in Bijection(1 .. n, 1 .. n) : \A i, j \in 1 .. n : i < j => f[p[i]] <= f[p[j]]
<1>1. \E q : Ok(q)
  <2>1. PICK q : Orders(q, f, n)
    BY OrderExists
  <2>2. q \in Injection(1 .. n, 1 .. n)
    BY <2>1 DEF Orders, Injection, IsInjective
  <2>3. q \in Surjection(1 .. n, 1 .. n)
    <3>1. IsFiniteSet(1 .. n)
      BY FS_Interval
    <3> QED
      BY <2>2, <3>1, FS_Injection
  <2>4. Ok(q)
    BY <2>1, <2>2, <2>3 DEF Bijection, Orders
  <2> QED
    BY <2>4
<1>2. Ok(p)
  BY <1>1
<1>3. Orders(p, f, n)
  BY <1>2 DEF Orders, Bijection, Injection, IsInjective
<1>4. Sorted(f) = [i \in 1 .. n |-> f[p[i]]]
  <2>1. DOMAIN f = 1 .. n
    OBVIOUS
  <2>2. Sorted(f) = LET o == CHOOSE o \in Bijection(1 .. n, 1 .. n) :
                               \A i, j \in 1 .. n : i < j => f[o[i]] <= f[o[j]]
                    IN  [i \in 1 .. n |-> f[o[i]]]
    BY <2>1 DEF Sorted
  <2> QED
    BY <2>2
<1> HIDE DEF p
<1> QED
  BY <1>3, <1>4

\* In order, the r-th member has rank r.
LEMMA RankIs ==
    ASSUME NEW n \in Nat, NEW f \in [1 .. n -> Int], NEW p, Orders(p, f, n), NEW r \in 1 .. n
    PROVE  Ranked(f, r, f[p[r]])
<1> DEFINE v == f[p[r]]
           B == {i \in DOMAIN f : f[i] < v}
           A == {i \in DOMAIN f : f[i] <= v}
<1>1. /\ p \in [1 .. n -> 1 .. n] /\ \A i, j \in 1 .. n : p[i] = p[j] => i = j
      /\ \A i, j \in 1 .. n : i < j => f[p[i]] <= f[p[j]]
      /\ DOMAIN f = 1 .. n /\ r \in Nat
  BY DEF Orders
<1>2. \A i \in 1 .. n : f[p[i]] \in Int
  BY <1>1
<1>3. IsFiniteSet(1 .. n) /\ IsFiniteSet(A) /\ IsFiniteSet(B)
  <2>1. IsFiniteSet(1 .. n) /\ A \subseteq 1 .. n /\ B \subseteq 1 .. n
    BY <1>1, FS_Interval
  <2> QED
    BY <2>1, FS_Subset
<1>4. Cardinality(1 .. r) = r /\ Cardinality(1 .. r - 1) = r - 1 /\ IsFiniteSet(1 .. r - 1) /\ IsFiniteSet(1 .. r)
  BY <1>1, FS_Interval
<1> HIDE DEF v
<1>5. Cardinality(A) >= r
  <2> DEFINE g == [i \in 1 .. r |-> p[i]]
  <2>1. g \in Injection(1 .. r, A)
    <3>1. \A i \in 1 .. r : g[i] = p[i] /\ i \in 1 .. n
      BY <1>1
    <3>2. \A i \in 1 .. r : f[p[i]] <= v
      <4> TAKE i \in 1 .. r
      <4>1. CASE i = r
        <5>1. f[p[r]] \in Int
          BY <1>2
        <5> QED
          BY <4>1, <5>1 DEF v
      <4>2. CASE i < r
        <5>1. i \in 1 .. n
          BY <3>1
        <5>2. f[p[i]] <= f[p[r]]
          BY <1>1, <4>2, <5>1
        <5> QED
          BY <5>2 DEF v
      <4> QED
        BY <1>1, <4>1, <4>2
    <3>3. \A i \in 1 .. r : g[i] \in A
      BY <1>1, <3>1, <3>2
    <3>4. \A i, j \in 1 .. r : g[i] = g[j] => i = j
      BY <1>1, <3>1
    <3>5. g \in [1 .. r -> A]
      <4> HIDE DEF A
      <4> QED
        BY <3>3
    <3> HIDE DEF g, A
    <3> QED
      BY <3>4, <3>5 DEF Injection, IsInjective
  <2> HIDE DEF g
  <2>2. Cardinality(1 .. r) <= Cardinality(A)
    BY <1>3, <2>1, FS_Injection
  <2>3. Cardinality(A) \in Nat
    BY <1>3, FS_CardinalityType
  <2> QED
    BY <1>1, <1>4, <2>2, <2>3
<1>6. Cardinality(B) < r
  <2>1. p \in Surjection(1 .. n, 1 .. n)
    <3>1. p \in Injection(1 .. n, 1 .. n)
      BY <1>1 DEF Injection, IsInjective
    <3> QED
      BY <1>3, <3>1, FS_Injection
  <2> DEFINE at(i) == CHOOSE k \in 1 .. n : p[k] = i
             g == [i \in B |-> at(i)]
  <2>2. \A i \in 1 .. n : at(i) \in 1 .. n /\ p[at(i)] = i
    <3>1. \A i \in 1 .. n : \E k \in 1 .. n : p[k] = i
      BY <2>1 DEF Surjection
    <3> QED
      BY <3>1
  <2>3. ASSUME NEW i \in B PROVE g[i] = at(i) /\ at(i) \in 1 .. r - 1 /\ p[at(i)] = i
    <3>1. i \in 1 .. n /\ f[i] < v
      BY <1>1
    <3>2. at(i) \in 1 .. n /\ p[at(i)] = i
      BY <2>2, <3>1
    <3> HIDE DEF at
    <3>3. f[p[at(i)]] < f[p[r]]
      BY <3>1, <3>2 DEF v
    <3>4. ~(r < at(i)) /\ at(i) # r
      <4>1. ASSUME r < at(i) PROVE FALSE
        <5>1. f[p[r]] <= f[p[at(i)]]
          BY <1>1, <3>2, <4>1
        <5>2. f[p[r]] \in Int /\ f[p[at(i)]] \in Int
          BY <1>2, <3>2
        <5> QED
          BY <3>3, <5>1, <5>2
      <4>2. ASSUME at(i) = r PROVE FALSE
        <5>1. f[p[r]] \in Int
          BY <1>2
        <5> QED
          BY <3>3, <4>2, <5>1
      <4> QED
        BY <4>1, <4>2
    <3> QED
      BY <1>1, <3>2, <3>4
  <2> HIDE DEF at
  <2>4. g \in [B -> 1 .. r - 1]
    BY <2>3
  <2>5. \A i, j \in B : g[i] = g[j] => i = j
    BY <2>3
  <2> HIDE DEF g, B
  <2>6. g \in Injection(B, 1 .. r - 1)
    BY <2>4, <2>5 DEF Injection, IsInjective
  <2>7. Cardinality(B) <= Cardinality(1 .. r - 1)
    BY <1>4, <2>6, FS_Injection
  <2>8. Cardinality(B) \in Nat
    BY <1>3, FS_CardinalityType
  <2> QED
    BY <1>1, <1>4, <2>7, <2>8
<1> QED
  BY <1>5, <1>6 DEF Ranked, v

\* u says where in g the members of f are.
Renames(u, f, g, n) ==
    /\ u \in [1 .. n -> 1 .. n]
    /\ \A i, j \in 1 .. n : u[i] = u[j] => i = j
    /\ \A i \in 1 .. n : g[u[i]] = f[i]

\* The same members in another order have the same order.
LEMMA OrderCarried ==
    ASSUME NEW n \in Nat, NEW f, NEW g, NEW p, Orders(p, f, n), NEW u, Renames(u, f, g, n)
    PROVE  \E q : Orders(q, g, n) /\ \A i \in 1 .. n : g[q[i]] = f[p[i]]
<1>0. /\ u \in [1 .. n -> 1 .. n] /\ \A i, j \in 1 .. n : u[i] = u[j] => i = j
      /\ \A i \in 1 .. n : g[u[i]] = f[i]
  BY DEF Renames
<1> DEFINE q == [i \in 1 .. n |-> u[p[i]]]
<1>1. /\ p \in [1 .. n -> 1 .. n] /\ \A i, j \in 1 .. n : p[i] = p[j] => i = j
      /\ \A i, j \in 1 .. n : i < j => f[p[i]] <= f[p[j]]
  BY DEF Orders
<1>2. \A i \in 1 .. n : q[i] = u[p[i]] /\ p[i] \in 1 .. n
  BY <1>1
<1>3. q \in [1 .. n -> 1 .. n]
  BY <1>0, <1>1
<1> HIDE DEF q
<1>4. \A i \in 1 .. n : g[q[i]] = f[p[i]]
  BY <1>0, <1>2
<1>5. \A i, j \in 1 .. n : q[i] = q[j] => i = j
  BY <1>0, <1>1, <1>2
<1>6. \A i, j \in 1 .. n : i < j => g[q[i]] <= g[q[j]]
  BY <1>1, <1>4
<1> QED
  BY <1>3, <1>4, <1>5, <1>6 DEF Orders

\* The last values read, in the order of the ring and in that of time.
Slots(s) == [i \in 1 .. s.count |-> s.samples[i - 1]]

Age(s, i, w) == IF i <= s.index THEN s.index - i + 1 ELSE s.index - i + 1 + w

LEMMA RingOrder ==
    ASSUME NEW w \in Nat, w > 0, NEW s, NEW l, IsSeq(l), RingInv(s, w, l), NumberRead(l)
    PROVE  /\ s.count \in 0 .. Len(l) /\ s.count \in Nat
           /\ Slots(s) \in [1 .. s.count -> Int]
           /\ \E u : Renames(u, Slots(s), Newest(l, s.count), s.count)
<1> DEFINE n == s.count
           N == Len(l)
           u == [i \in 1 .. n |-> n + 1 - Age(s, i, w)]
<1>1. /\ s.samples \in [0 .. w - 1 -> Int] /\ s.index \in 0 .. w - 1
      /\ n = Least(N, w) /\ (n < w => s.index = n)
      /\ \A j \in 1 .. n : s.samples[Back(s.index, j, w)] = l[N + 1 - j].in[1]
      /\ N \in Nat
  BY Grown DEF RingInv
<1>2. n \in 0 .. N /\ n \in Nat /\ n <= w
  BY <1>1 DEF Least
<1> HIDE DEF n, N
<1>3. ASSUME NEW i \in 1 .. n
      PROVE  Age(s, i, w) \in 1 .. n /\ Back(s.index, Age(s, i, w), w) = i - 1
  <2>1. CASE n < w
    <3>1. s.index = n /\ Age(s, i, w) = n - i + 1
      BY <1>1, <1>2, <2>1 DEF Age
    <3>2. n - i + 1 \in 1 .. n /\ n - (n - i + 1) = i - 1
      BY <1>2
    <3>3. Back(n, n - i + 1, w) = n - (n - i + 1)
      BY <1>2 DEF Back
    <3> QED
      BY <3>1, <3>2, <3>3
  <2>2. CASE n = w
    <3>1. CASE i <= s.index
      <4> DEFINE x == s.index
      <4>1. Age(s, i, w) = x - i + 1
        BY <3>1 DEF Age
      <4>2. x \in Int /\ i \in Int /\ i <= x /\ i >= 1 /\ x <= w
        BY <1>1, <1>2, <3>1
      <4> HIDE DEF x
      <4>3. x - i + 1 \in 1 .. w /\ x - i + 1 <= x /\ x - (x - i + 1) = i - 1
        BY <4>2
      <4>4. Back(x, x - i + 1, w) = i - 1
        BY <4>3 DEF Back
      <4> QED
        BY <2>2, <4>1, <4>3, <4>4 DEF x
    <3>2. CASE i > s.index
      <4> DEFINE x == s.index
      <4>1. x \in Int /\ i \in Int /\ i > x /\ i <= w /\ x >= 0
        BY <1>1, <1>2, <2>2, <3>2
      <4>2. Age(s, i, w) = x - i + 1 + w
        BY <4>1 DEF Age
      <4> HIDE DEF x
      <4>3. x - i + 1 + w \in 1 .. w /\ ~(x - i + 1 + w <= x /\ i # w + 1) /\ x - (x - i + 1 + w) + w = i - 1
        BY <4>1
      <4>4. Back(x, x - i + 1 + w, w) = i - 1
        BY <4>1, <4>3 DEF Back
      <4> QED
        BY <2>2, <4>2, <4>3, <4>4 DEF x
    <3> QED
      BY <1>1, <3>1, <3>2
  <2> QED
    BY <1>2, <2>1, <2>2
<1>4. Slots(s) \in [1 .. n -> Int]
  <2>1. \A i \in 1 .. n : i - 1 \in 0 .. w - 1
    BY <1>2
  <2>2. \A i \in 1 .. n : s.samples[i - 1] \in Int
    BY <1>1, <2>1
  <2> QED
    BY <2>2 DEF Slots, n
<1>5. \A i \in 1 .. n : u[i] = n + 1 - Age(s, i, w) /\ u[i] \in 1 .. n
  <2> TAKE i \in 1 .. n
  <2>1. Age(s, i, w) \in 1 .. n
    BY <1>3
  <2> QED
    BY <1>2, <2>1
<1>6. u \in [1 .. n -> 1 .. n]
  <2>1. u = [i \in 1 .. n |-> u[i]]
    OBVIOUS
  <2> HIDE DEF u
  <2> QED
    BY <1>5, <2>1
<1> HIDE DEF u
<1>7. \A i, j \in 1 .. n : u[i] = u[j] => i = j
  <2> SUFFICES ASSUME NEW i \in 1 .. n, NEW j \in 1 .. n, u[i] = u[j] PROVE i = j
    OBVIOUS
  <2> DEFINE A == Age(s, i, w)
             B == Age(s, j, w)
  <2>1. A \in 1 .. n /\ B \in 1 .. n /\ Back(s.index, A, w) = i - 1 /\ Back(s.index, B, w) = j - 1
    BY <1>3
  <2>2. u[i] = n + 1 - A /\ u[j] = n + 1 - B
    BY <1>5
  <2> HIDE DEF A, B
  <2>3. A = B
    <3>1. n + 1 - A = n + 1 - B
      BY <2>2
    <3>2. A \in Int /\ B \in Int /\ n \in Int
      BY <1>2, <2>1
    <3> QED
      BY <3>1, <3>2
  <2>4. i - 1 = j - 1
    BY <2>1, <2>3
  <2> QED
    BY <1>2, <2>4
<1>8. ASSUME NEW i \in 1 .. n PROVE Newest(l, n)[u[i]] = Slots(s)[i]
  <2> DEFINE A == Age(s, i, w)
  <2>1. A \in 1 .. n /\ Back(s.index, A, w) = i - 1 /\ u[i] = n + 1 - A /\ u[i] \in 1 .. n
    BY <1>3, <1>5
  <2> HIDE DEF A
  <2>2. s.samples[i - 1] = l[N + 1 - A].in[1]
    BY <1>1, <2>1
  <2>3. Newest(l, n)[u[i]] = l[N - n + u[i]].in[1]
    BY <2>1 DEF Newest, N
  <2>4. N - n + u[i] = N + 1 - A
    BY <1>1, <1>2, <2>1
  <2>5. Slots(s)[i] = s.samples[i - 1]
    BY DEF Slots, n
  <2> QED
    BY <2>2, <2>3, <2>4, <2>5
<1> QED
  BY <1>2, <1>4, <1>6, <1>7, <1>8 DEF n, N, Renames

\* Members of t in the middle of its order.
Middle(t, n, y) ==
    \E a, b \in {t[k] : k \in 1 .. n} :
        /\ Ranked(t, (n + 1) \div 2, a) /\ Ranked(t, (n + 2) \div 2, b)
        /\ y = (a + b) \div 2

MedianInv(s, w, l) ==
    /\ RingInv(s, w, l) /\ NumberRead(l)
    /\ l # <<>> => Middle(Newest(l, s.count), s.count, l[Len(l)].out)

LEMMA MedianAtRest == ASSUME NEW w \in Nat, w > 0 PROVE MedianInv(Ring(w), w, <<>>)
  BY RingAtRest DEF MedianInv, NumberRead

LEMMA MedianTurn ==
    ASSUME NEW c, NEW s, NEW l, IsSeq(l), NEW w \in Nat, w = MedianWindow(c), w > 0, MedianInv(s, w, l),
           NEW e, e.in[1] \in Int, NEW r, r = MedianUpdate(s, c, e.in[1]), e.out = r.y
    PROVE  MedianInv(r.s, w, Append(l, e)) /\ r.y \in Int
<1> DEFINE t == Pushed(s, w, e.in[1])
           m == Append(l, e)
           f == Slots(t)
           n == t.count
           mid == n \div 2
           y == IF n % 2 = 1 THEN Sorted(f)[mid + 1] ELSE (Sorted(f)[mid] + Sorted(f)[mid + 1]) \div 2
<1>1. RingInv(t, w, m) /\ n > 0 /\ n \in Nat
  BY RingTurn DEF MedianInv
<1>2. NumberRead(m) /\ IsSeq(m) /\ Len(m) = Len(l) + 1 /\ m[Len(l) + 1] = e
  BY NumberReadOn, Grown DEF MedianInv
<1>3. r.s = t /\ r.y = y
  BY DEF MedianUpdate, Result, Slots
<1> HIDE DEF t, m, y
<1>4. f \in [1 .. n -> Int]
  BY <1>1, <1>2, RingOrder
<1> DEFINE g == Newest(m, n)
<1>5. g \in [1 .. n -> Int]
  <2>1. n \in 0 .. Len(m)
    BY <1>1, <1>2, RingOrder
  <2> HIDE DEF n
  <2> QED
    BY <1>2, <2>1, LastNumbers
<1>6. PICK p : Orders(p, f, n) /\ Sorted(f) = [i \in 1 .. n |-> f[p[i]]]
  <2> HIDE DEF n, f
  <2> QED
    BY <1>1, <1>4, SortedIs
<1>7. PICK q : Orders(q, g, n) /\ \A i \in 1 .. n : g[q[i]] = f[p[i]]
  <2>1. PICK u : Renames(u, f, g, n)
    BY <1>1, <1>2, RingOrder
  <2> HIDE DEF n, f, g
  <2> QED
    BY ONLY <1>1, <1>6, <2>1, OrderCarried
<1> HIDE DEF n, f, g
<1> DEFINE v(i) == g[q[i]]
<1>8. \A i \in 1 .. n : v(i) \in {g[k] : k \in 1 .. n} /\ Ranked(g, i, v(i)) /\ v(i) \in Int /\ Sorted(f)[i] = v(i)
  <2> TAKE i \in 1 .. n
  <2>1. q[i] \in 1 .. n
    BY <1>7 DEF Orders
  <2>2. Ranked(g, i, v(i))
    BY <1>1, <1>5, <1>7, RankIs
  <2> QED
    BY <1>5, <1>6, <1>7, <2>1, <2>2
<1> HIDE DEF v
<1>9. Middle(g, n, y) /\ y \in Int
  <2>1. CASE n % 2 = 1
    <3>1. (n + 1) \div 2 = mid + 1 /\ (n + 2) \div 2 = mid + 1 /\ mid + 1 \in 1 .. n
      BY <1>1, <2>1
    <3> DEFINE a == v(mid + 1)
    <3>2. a \in {g[k] : k \in 1 .. n} /\ Ranked(g, mid + 1, a) /\ a \in Int /\ y = a
      BY <1>8, <2>1, <3>1 DEF y
    <3>3. a = (a + a) \div 2
      <4> HIDE DEF a
      <4> QED
        BY <3>2
    <3> HIDE DEF a, mid
    <3> QED
      BY <3>1, <3>2, <3>3 DEF Middle
  <2>2. CASE n % 2 # 1
    <3>1. (n + 1) \div 2 = mid /\ (n + 2) \div 2 = mid + 1 /\ mid \in 1 .. n /\ mid + 1 \in 1 .. n
      BY <1>1, <2>2
    <3> DEFINE a == v(mid)
               b == v(mid + 1)
    <3>2. /\ a \in {g[k] : k \in 1 .. n} /\ Ranked(g, mid, a) /\ a \in Int
          /\ b \in {g[k] : k \in 1 .. n} /\ Ranked(g, mid + 1, b) /\ b \in Int
          /\ y = (a + b) \div 2
      BY <1>8, <2>2, <3>1 DEF y
    <3> HIDE DEF a, b, mid
    <3> QED
      BY <3>1, <3>2 DEF Middle
  <2> QED
    BY <2>1, <2>2
<1>10. MedianInv(t, w, m)
  <2>1. m[Len(m)].out = y
    <3>1. Len(m) = Len(l) + 1 /\ m[Len(l) + 1] = e
      BY <1>2
    <3> QED
      BY <1>3, <3>1
  <2> QED
    BY <1>1, <1>2, <1>9, <2>1 DEF MedianInv, n, g
<1> QED
  BY <1>3, <1>9, <1>10 DEF m

-----------------------------------------------------------------------------
(* Filters that follow their input.                                        *)

Bounds(l, lo, hi) == \A k \in 1 .. Len(l) : l[k].in[1] \in lo .. hi

\* v, in units of 1/b, lies in every range that holds what was read.
Within(v, l, b) == \A lo, hi \in Int : Bounds(l, lo, hi) => v \in b * lo .. b * hi

\* The last output lies among the values read.
Inside(l) == NumberRead(l) /\ (l # <<>> => Within(l[Len(l)].out, l, 1))

FollowerInv(s, l, b) ==
    /\ s.value \in Int /\ s.ready \in BOOLEAN
    /\ s.ready => Within(s.value, l, b)
    /\ Inside(l)

LEMMA FollowerAtRest == ASSUME NEW b PROVE FollowerInv(Follower, <<>>, b)
  BY DEF FollowerInv, Follower, Inside, NumberRead

\* What holds of all ranges before another value is read.
LEMMA BoundsOn ==
    ASSUME NEW l, IsSeq(l), NEW e, NEW lo, NEW hi
    PROVE  Bounds(Append(l, e), lo, hi) <=> Bounds(l, lo, hi) /\ e.in[1] \in lo .. hi
<1> DEFINE m == Append(l, e)
<1>1. /\ Len(l) \in Nat /\ Len(m) = Len(l) + 1 /\ m[Len(l) + 1] = e /\ \A k \in 1 .. Len(l) : m[k] = l[k]
  BY Grown
<1> HIDE DEF m
<1>2. \A k \in 1 .. Len(l) : k \in 1 .. Len(m)
  BY <1>1
<1>3. Len(l) + 1 \in 1 .. Len(m)
  BY <1>1
<1>4. \A k \in 1 .. Len(m) : k \in 1 .. Len(l) \/ k = Len(l) + 1
  BY <1>1
<1>5. Bounds(m, lo, hi) => Bounds(l, lo, hi) /\ e.in[1] \in lo .. hi
  BY <1>1, <1>2, <1>3 DEF Bounds
<1>6. Bounds(l, lo, hi) /\ e.in[1] \in lo .. hi => Bounds(m, lo, hi)
  BY <1>1, <1>4 DEF Bounds
<1> QED
  BY <1>5, <1>6 DEF m

LEMMA WithinOn ==
    ASSUME NEW l, IsSeq(l), NEW e, NEW v, NEW b, Within(v, l, b)
    PROVE  Within(v, Append(l, e), b)
  BY BoundsOn DEF Within

LEMMA WithinRead == ASSUME NEW l, IsSeq(l), NEW e, e.in[1] \in Int PROVE Within(e.in[1], Append(l, e), 1)
<1> SUFFICES ASSUME NEW lo \in Int, NEW hi \in Int, Bounds(Append(l, e), lo, hi)
             PROVE  e.in[1] \in 1 * lo .. 1 * hi
  BY DEF Within
<1>1. e.in[1] \in lo .. hi
  BY BoundsOn
<1> QED
  BY <1>1

LEMMA InsideOn ==
    ASSUME NEW l, IsSeq(l), NumberRead(l), NEW e, e.in[1] \in Int, Within(e.out, Append(l, e), 1)
    PROVE  Inside(Append(l, e))
<1>1. NumberRead(Append(l, e))
  BY NumberReadOn
<1>2. Len(Append(l, e)) = Len(l) + 1 /\ Append(l, e)[Len(l) + 1] = e
  BY Grown
<1> QED
  BY <1>1, <1>2 DEF Inside

\* A weighted mean of numbers in a range, rounded down.
LEMMA WeightedBetween ==
    ASSUME NEW a \in Nat, NEW b \in Nat, a + b > 0, NEW x \in Int, NEW y \in Int, NEW lo \in Int, NEW hi \in Int,
           x \in lo .. hi, y \in lo .. hi
    PROVE  (a * x + b * y) \div (a + b) \in lo .. hi
<1>1. a * lo <= a * x /\ a * x <= a * hi /\ b * lo <= b * y /\ b * y <= b * hi
  BY TimesMore
<1>2. (a + b) * lo = a * lo + b * lo /\ (a + b) * hi = a * hi + b * hi
  OBVIOUS
<1>3. a * lo \in Int /\ a * hi \in Int /\ b * lo \in Int /\ b * hi \in Int /\ a * x \in Int /\ b * y \in Int
  OBVIOUS
<1> DEFINE n == a * x + b * y
           d == a + b
<1>4. d * lo <= n /\ n <= d * hi /\ n \in Int /\ d \in Nat /\ d > 0
  BY <1>1, <1>2, <1>3
<1> HIDE DEF n, d
<1>5. n \div d \in lo .. hi
  BY <1>4, DivBetween
<1> QED
  BY <1>5 DEF n, d

LEMMA EmaTurn ==
    ASSUME NEW c, c.alpha \in Int, NEW s, NEW l, IsSeq(l), FollowerInv(s, l, 1),
           NEW e, e.in[1] \in Int, NEW r, r = EmaUpdate(s, c, e.in[1]), e.out = r.y
    PROVE  FollowerInv(r.s, Append(l, e), 1) /\ r.y \in Int
<1> DEFINE x == e.in[1]
           m == Append(l, e)
           a == Clamp(c.alpha, 1, AlphaScale - 1)
           b == AlphaScale - a
           y == IF s.ready THEN (a * x + b * s.value) \div AlphaScale ELSE x
<1>1. a \in Nat /\ b \in Nat /\ a + b = AlphaScale /\ a + b > 0
  <2>1. AlphaScale \in Nat /\ AlphaScale >= 2
    BY EngineAssumption DEF EngineAssumption
  <2>2. a \in 1 .. AlphaScale - 1
    BY <2>1, ClampIs
  <2> HIDE DEF a
  <2> QED
    BY <2>1, <2>2
<1>2. r.s = [value |-> y, ready |-> TRUE] /\ r.y = y
  BY DEF EmaUpdate, Result
<1> HIDE DEF a, b
<1>3. y \in Int
  <2>1. s.value \in Int
    BY DEF FollowerInv
  <2> DEFINE n == a * x + b * s.value
  <2>2. n \in Int
    BY <1>1, <2>1
  <2> HIDE DEF n
  <2>3. n \div (a + b) \in Int
    BY <1>1, <2>2, DivIs
  <2> QED
    BY <1>1, <2>3 DEF n
<1>4. Within(y, m, 1)
  <2>1. CASE ~s.ready
    BY <2>1, WithinRead
  <2>2. CASE s.ready
    <3> SUFFICES ASSUME NEW lo \in Int, NEW hi \in Int, Bounds(m, lo, hi) PROVE y \in 1 * lo .. 1 * hi
      BY DEF Within
    <3>1. x \in lo .. hi /\ Bounds(l, lo, hi)
      BY BoundsOn
    <3>2. s.value \in 1 * lo .. 1 * hi
      BY <2>2, <3>1 DEF FollowerInv, Within
    <3>3. s.value \in lo .. hi /\ s.value \in Int /\ x \in Int
      BY <3>1, <3>2
    <3> DEFINE v == s.value
    <3> HIDE DEF v, x
    <3>4. (a * x + b * v) \div (a + b) \in lo .. hi
      BY <1>1, <3>1, <3>3, WeightedBetween DEF v
    <3> QED
      BY <1>1, <2>2, <3>4 DEF v, x
  <2> QED
    BY <2>1, <2>2 DEF FollowerInv
<1> HIDE DEF y, m
<1>5. NumberRead(l)
  BY DEF FollowerInv, Inside
<1>6. Inside(m)
  BY <1>2, <1>4, <1>5, InsideOn DEF m
<1> QED
  BY <1>2, <1>3, <1>4, <1>6 DEF FollowerInv, m

LEMMA RateTurn ==
    ASSUME NEW c, c.ms \in Nat, NEW s, NEW l, IsSeq(l), FollowerInv(s, l, 1), NEW d \in Nat,
           NEW e, e.in[1] \in Int, NEW r, r = RateUpdate(s, c, e.in[1], d), e.out = r.y
    PROVE  FollowerInv(r.s, Append(l, e), 1) /\ r.y \in Int
<1> DEFINE x == e.in[1]
           m == Append(l, e)
           most == AtLeastOne((c.ms * d) \div 1000)
           v == s.value
           y == IF ~s.ready THEN x ELSE IF d = 0 THEN v ELSE Clamp(x, v - most, v + most)
<1>1. most \in Nat
  <2> DEFINE n == c.ms * d
  <2>1. n \in Nat
    OBVIOUS
  <2> HIDE DEF n
  <2>2. n \div 1000 \in Int
    BY <2>1
  <2> QED
    BY <2>2 DEF AtLeastOne, n
<1>2. r.s = [value |-> y, ready |-> TRUE] /\ r.y = y
  BY DEF RateUpdate, Result
<1>3. v \in Int /\ s.ready \in BOOLEAN
  BY DEF FollowerInv
<1> HIDE DEF most
<1>4. y \in Int
  BY <1>1, <1>3 DEF Clamp
<1>5. Within(y, m, 1)
  <2>1. CASE ~s.ready
    BY <2>1, WithinRead
  <2>2. CASE s.ready
    <3> SUFFICES ASSUME NEW lo \in Int, NEW hi \in Int, Bounds(m, lo, hi) PROVE y \in 1 * lo .. 1 * hi
      BY DEF Within
    <3>1. x \in lo .. hi /\ Bounds(l, lo, hi)
      BY BoundsOn
    <3>2. v \in 1 * lo .. 1 * hi
      BY <2>2, <3>1 DEF FollowerInv, Within
    <3>3. v \in lo .. hi /\ x \in Int
      BY <3>1, <3>2
    <3>4. y = v \/ y = Clamp(x, v - most, v + most)
      BY <2>2
    <3> HIDE DEF v, x, y
    <3>5. Clamp(x, v - most, v + most) \in lo .. hi
      BY <1>1, <1>3, <3>1, <3>3 DEF Clamp
    <3> QED
      BY <3>3, <3>4, <3>5
  <2> QED
    BY <1>3, <2>1, <2>2
<1> HIDE DEF y, m
<1>6. NumberRead(l)
  BY DEF FollowerInv, Inside
<1>7. Inside(m)
  BY <1>2, <1>5, <1>6, InsideOn DEF m
<1> QED
  BY <1>2, <1>4, <1>5, <1>7 DEF FollowerInv, m

\* The low pass keeps its value in units of 1 / Scale.
LEMMA LpfTurn ==
    ASSUME NEW c, c.ms \in Nat, NEW s, NEW l, IsSeq(l), FollowerInv(s, l, Scale), NEW d \in Nat,
           NEW e, e.in[1] \in Int, NEW r, r = LpfUpdate(s, c, e.in[1], d), e.out = r.y
    PROVE  FollowerInv(r.s, Append(l, e), Scale) /\ r.y \in Int
<1> DEFINE x == e.in[1]
           m == Append(l, e)
           tau == AtLeastOne(c.ms)
           v == IF s.ready THEN (d * x * Scale + tau * s.value) \div (tau + d) ELSE x * Scale
           held == IF s.ready THEN s.value \div Scale ELSE x
<1>1. tau \in Nat /\ tau > 0 /\ Scale \in Nat /\ Scale > 0
  BY EngineAssumption DEF AtLeastOne, EngineAssumption
<1>2. s.value \in Int /\ s.ready \in BOOLEAN /\ NumberRead(l)
  BY DEF FollowerInv, Inside
<1> HIDE DEF tau
<1>3. x * Scale \in Int /\ d * x * Scale = d * (x * Scale)
  BY <1>1
<1>4. ASSUME NEW lo \in Int, NEW hi \in Int, Bounds(m, lo, hi)
      PROVE  /\ x \in lo .. hi /\ x * Scale \in Scale * lo .. Scale * hi
             /\ s.ready => s.value \in Scale * lo .. Scale * hi
  <2>1. x \in lo .. hi /\ Bounds(l, lo, hi)
    BY <1>4, BoundsOn
  <2>2. s.ready => s.value \in Scale * lo .. Scale * hi
    BY <2>1 DEF FollowerInv, Within
  <2>3. Scale * lo <= Scale * x /\ Scale * x <= Scale * hi
    BY <1>1, <2>1, TimesMore
  <2>4. x * Scale = Scale * x /\ Scale * lo \in Int /\ Scale * hi \in Int
    BY <1>1
  <2> QED
    BY <1>3, <2>1, <2>2, <2>3, <2>4
<1>5. v \in Int /\ held \in Int
  <2>1. held \in Int
    BY <1>1, <1>2, DivIs
  <2> DEFINE n == d * x * Scale + tau * s.value
             q == tau + d
  <2>2. n \in Int /\ q \in Nat /\ q > 0
    BY <1>1, <1>2, <1>3
  <2> HIDE DEF n, q
  <2>3. n \div q \in Int
    BY <2>2, DivIs
  <2> QED
    BY <1>3, <2>1, <2>3 DEF n, q
<1>6. Within(v, m, Scale)
  <2> SUFFICES ASSUME NEW lo \in Int, NEW hi \in Int, Bounds(m, lo, hi) PROVE v \in Scale * lo .. Scale * hi
    BY DEF Within
  <2>1. CASE ~s.ready
    BY <1>4, <2>1
  <2>2. CASE s.ready
    <3> DEFINE z == x * Scale
               u == s.value
               low == Scale * lo
               high == Scale * hi
    <3>1. z \in low .. high /\ u \in low .. high /\ z \in Int /\ u \in Int /\ low \in Int /\ high \in Int
      BY <1>1, <1>2, <1>3, <1>4, <2>2
    <3> HIDE DEF z, u, low, high
    <3>2. (d * z + tau * u) \div (d + tau) \in low .. high
      <4>1. d + tau > 0
        BY <1>1
      <4> QED
        BY <1>1, <3>1, <4>1, WeightedBetween
    <3>3. d + tau = tau + d
      BY <1>1
    <3>4. v = (d * z + tau * u) \div (d + tau)
      BY <1>3, <2>2, <3>3 DEF z, u
    <3> QED
      BY <3>2, <3>4 DEF low, high
  <2> QED
    BY <1>2, <2>1, <2>2
<1>7. \A lo, hi \in Int : \A k \in Int : k \in Scale * lo .. Scale * hi => k \div Scale \in lo .. hi
  <2> SUFFICES ASSUME NEW lo \in Int, NEW hi \in Int, NEW k \in Int, k \in Scale * lo .. Scale * hi
               PROVE  k \div Scale \in lo .. hi
    OBVIOUS
  <2>1. Scale * lo <= k /\ k <= Scale * hi
    OBVIOUS
  <2> QED
    BY <1>1, <2>1, DivBetween
<1> DEFINE y == IF d = 0 THEN held ELSE v \div Scale
<1>8. y \in Int
  BY <1>1, <1>5, DivIs
<1>9. Within(y, m, 1)
  <2> SUFFICES ASSUME NEW lo \in Int, NEW hi \in Int, Bounds(m, lo, hi) PROVE y \in 1 * lo .. 1 * hi
    BY DEF Within
  <2>1. v \div Scale \in lo .. hi
    <3>1. v \in Scale * lo .. Scale * hi
      BY <1>6 DEF Within
    <3> HIDE DEF v
    <3> QED
      BY <1>5, <1>7, <3>1
  <2>2. held \in lo .. hi
    <3>1. CASE ~s.ready
      BY <1>4, <3>1
    <3>2. CASE s.ready
      BY <1>2, <1>4, <1>7, <3>2
    <3> QED
      BY <3>1, <3>2
  <2>3. y \in lo .. hi
    BY <2>1, <2>2
  <2> HIDE DEF y
  <2> QED
    BY <2>3
<1>10. r.s = (IF d = 0 THEN s ELSE [value |-> v, ready |-> TRUE]) /\ r.y = y
  BY DEF LpfUpdate, Result, tau
<1> HIDE DEF y, v, held
<1>11. Inside(m)
  <2> HIDE DEF m
  <2> QED
    BY <1>2, <1>9, <1>10, InsideOn DEF m
<1>12. s.ready => Within(s.value, m, Scale)
  BY WithinOn DEF FollowerInv
<1>13. FollowerInv(r.s, m, Scale)
  <2> HIDE DEF m
  <2>1. CASE d = 0
    BY <1>2, <1>10, <1>11, <1>12, <2>1 DEF FollowerInv
  <2>2. CASE d # 0
    BY <1>5, <1>6, <1>10, <1>11, <2>2 DEF FollowerInv
  <2> QED
    BY <2>1, <2>2
<1> QED
  BY <1>8, <1>10, <1>13

\* A debounced value was read.
BouncingInv(s, l) ==
    /\ s.stable \in Int /\ s.pending \in Int /\ s.time \in Nat /\ s.ready \in BOOLEAN
    /\ DOMAIN s = {"stable", "pending", "time", "ready"}
    /\ s.ready => Within(s.stable, l, 1)
    /\ Inside(l)

LEMMA BouncingAtRest == BouncingInv(Bouncing, <<>>)
<1>1. /\ Bouncing.stable = 0 /\ Bouncing.pending = 0 /\ Bouncing.time = 0 /\ Bouncing.ready \in BOOLEAN /\ ~Bouncing.ready
      /\ DOMAIN Bouncing = {"stable", "pending", "time", "ready"}
  BY DEF Bouncing
<1>2. Inside(<<>>)
  BY DEF Inside, NumberRead
<1> QED
  BY <1>1, <1>2 DEF BouncingInv

LEMMA BouncingTurn ==
    ASSUME NEW c, c.ms \in Nat, NEW s, NEW l, IsSeq(l), BouncingInv(s, l), NEW d \in Nat,
           NEW e, e.in[1] \in Int, NEW r, r = DebounceUpdate(s, c, e.in[1], d), e.out = r.y
    PROVE  BouncingInv(r.s, Append(l, e)) /\ r.y \in Int
<1> DEFINE x == e.in[1]
           m == Append(l, e)
           held == IF x = s.pending THEN s.time + d ELSE d
           t == IF ~s.ready THEN [stable |-> x, pending |-> x, time |-> 0, ready |-> TRUE]
                ELSE IF x = s.stable THEN Restarted(s)
                ELSE IF x = s.pending /\ held >= c.ms THEN [s EXCEPT !.stable = x, !.time = 0]
                ELSE [s EXCEPT !.pending = x, !.time = held]
<1>1. /\ s.stable \in Int /\ s.pending \in Int /\ s.time \in Nat /\ s.ready \in BOOLEAN /\ NumberRead(l)
      /\ DOMAIN s = {"stable", "pending", "time", "ready"}
  BY DEF BouncingInv, Inside
<1>2. held \in Nat
  BY <1>1
<1>3. r.s = t /\ r.y = t.stable
  BY DEF DebounceUpdate, Result
<1>4. Within(x, m, 1) /\ (s.ready => Within(s.stable, m, 1))
  BY WithinRead, WithinOn DEF BouncingInv
<1> HIDE DEF held, m
<1>5. /\ t.stable \in Int /\ t.pending \in Int /\ t.time \in Nat /\ t.ready = TRUE
      /\ DOMAIN t = {"stable", "pending", "time", "ready"}
      /\ t.stable = x \/ (s.ready /\ t.stable = s.stable)
  <2>1. CASE ~s.ready
    BY <2>1
  <2>2. CASE s.ready /\ x = s.stable
    BY <1>1, <2>2 DEF Restarted
  <2>3. CASE s.ready /\ x # s.stable /\ x = s.pending /\ held >= c.ms
    BY <1>1, <2>3
  <2>4. CASE s.ready /\ x # s.stable /\ ~(x = s.pending /\ held >= c.ms)
    BY <1>1, <1>2, <2>4
  <2> QED
    BY <1>1, <2>1, <2>2, <2>3, <2>4
<1> HIDE DEF t
<1>6. Within(t.stable, m, 1)
  BY <1>4, <1>5
<1>7. Inside(m)
  BY <1>1, <1>3, <1>6, InsideOn DEF m
<1> QED
  BY <1>3, <1>5, <1>6, <1>7 DEF BouncingInv, m

\* The mean of the last values read lies among all that were read.
LEMMA SmaInside == ASSUME NEW s, NEW w \in Nat, w > 0, NEW l, IsSeq(l), SmaInv(s, w, l) PROVE Inside(l)
<1> DEFINE n == s.count
           f == Newest(l, n)
<1>1. NumberRead(l) /\ n \in 0 .. Len(l) /\ n \in Nat /\ n = Least(Len(l), w) /\ Len(l) \in Nat
  BY RingOrder, Grown DEF SmaInv, RingInv
<1>2. ASSUME l # <<>>, NEW lo \in Int, NEW hi \in Int, Bounds(l, lo, hi)
      PROVE  l[Len(l)].out \in 1 * lo .. 1 * hi
  <2>1. n > 0
    <3>1. Len(l) > 0
      BY <1>1, <1>2, EmptySeq DEF IsSeq
    <3> QED
      BY <1>1, <3>1 DEF Least
  <2>2. f \in [1 .. n -> Int] /\ l[Len(l)].out = SumFunction(f) \div n
    BY <1>1, <1>2, LastNumbers DEF SmaInv
  <2>3. \A k \in 1 .. n : f[k] \in lo .. hi
    <3> TAKE k \in 1 .. n
    <3>1. Len(l) - n + k \in 1 .. Len(l) /\ f[k] = l[Len(l) - n + k].in[1]
      BY <1>1 DEF Newest
    <3> QED
      BY <1>2, <3>1 DEF Bounds
  <2> HIDE DEF n, f
  <2>4. SumFunction(f) \div n \in lo .. hi
    BY <1>1, <2>1, <2>2, <2>3, MeanBetween
  <2> QED
    BY <2>2, <2>4
<1> QED
  BY <1>1, <1>2 DEF Inside, Within

LEMMA MedianInside == ASSUME NEW s, NEW w \in Nat, w > 0, NEW l, IsSeq(l), MedianInv(s, w, l) PROVE Inside(l)
<1> DEFINE n == s.count
           f == Newest(l, n)
<1>1. NumberRead(l) /\ n \in 0 .. Len(l) /\ n \in Nat /\ Len(l) \in Nat
  BY RingOrder, Grown DEF MedianInv
<1>2. ASSUME l # <<>>, NEW lo \in Int, NEW hi \in Int, Bounds(l, lo, hi)
      PROVE  l[Len(l)].out \in 1 * lo .. 1 * hi
  <2>1. PICK a, b \in {f[k] : k \in 1 .. n} : l[Len(l)].out = (a + b) \div 2
    BY <1>2 DEF MedianInv, Middle
  <2>2. \A k \in 1 .. n : f[k] \in lo .. hi
    <3> TAKE k \in 1 .. n
    <3>1. Len(l) - n + k \in 1 .. Len(l) /\ f[k] = l[Len(l) - n + k].in[1]
      BY <1>1 DEF Newest
    <3> QED
      BY <1>2, <3>1 DEF Bounds
  <2> HIDE DEF f
  <2>3. a \in lo .. hi /\ b \in lo .. hi
    BY <2>1, <2>2
  <2>4. (a + b) \div 2 \in lo .. hi
    BY <2>3
  <2> QED
    BY <2>1, <2>4
<1> QED
  BY <1>1, <1>2 DEF Inside, Within

-----------------------------------------------------------------------------
(* Comparators, levels and the controller.                                 *)

Shown(c, o) == IF c.invert THEN 1 - o ELSE o

\* What a change of the output says of the input.
Crossed(c, e) ==
    IF c.type = "HYSTERESIS"
    THEN (Shown(c, e.out) = 1 => e.in[1] >= c.high) /\ (Shown(c, e.out) = 0 => e.in[1] <= c.low)
    ELSE /\ Shown(c, e.out) = 1 => e.in[1] \in (c.low + c.band) .. (c.high - c.band)
         /\ Shown(c, e.out) = 0 => e.in[1] \notin (c.low - c.band) .. (c.high + c.band)

ComparatorInv(c, s, l) ==
    /\ s.out \in {0, 1} /\ NumberRead(l)
    /\ l # <<>> => s.ready /\ l[Len(l)].out = Shown(c, s.out)
    /\ \A k \in 1 .. Len(l) : l[k].out \in {0, 1}
    /\ \A k \in 2 .. Len(l) : l[k].out # l[k - 1].out => Crossed(c, l[k])

LEMMA ComparatorAtRest == ASSUME NEW c PROVE ComparatorInv(c, Comparator, <<>>)
  BY DEF ComparatorInv, Comparator, NumberRead

LEMMA ComparatorTurn ==
    ASSUME NEW c, c.type \in {"HYSTERESIS", "WINDOW"}, c.low \in Int, c.high \in Int,
           c.type = "WINDOW" => c.band \in Int,
           NEW s, NEW l, IsSeq(l), ComparatorInv(c, s, l),
           NEW e, e.in[1] \in Int, NEW r, e.out = r.y,
           r = IF c.type = "HYSTERESIS" THEN HysteresisUpdate(s, c, e.in[1]) ELSE WindowUpdate(s, c, e.in[1])
    PROVE  ComparatorInv(c, r.s, Append(l, e)) /\ r.y \in Int
<1> DEFINE x == e.in[1]
           m == Append(l, e)
           o == r.s.out
<1>1. /\ Len(l) \in Nat /\ Len(m) = Len(l) + 1 /\ m[Len(l) + 1] = e /\ \A k \in 1 .. Len(l) : m[k] = l[k]
  BY Grown
<1>2. /\ s.out \in {0, 1} /\ NumberRead(l)
      /\ l # <<>> => s.ready /\ l[Len(l)].out = Shown(c, s.out)
      /\ \A k \in 1 .. Len(l) : l[k].out \in {0, 1}
      /\ \A k \in 2 .. Len(l) : l[k].out # l[k - 1].out => Crossed(c, l[k])
  BY DEF ComparatorInv
<1>3. /\ o \in {0, 1} /\ r.s.ready = TRUE /\ r.y = Shown(c, o)
      /\ s.ready /\ o # s.out => IF c.type = "HYSTERESIS"
            THEN (o = 1 => x >= c.high) /\ (o = 0 => x <= c.low)
            ELSE /\ o = 1 => x \in (c.low + c.band) .. (c.high - c.band)
                 /\ o = 0 => x \notin (c.low - c.band) .. (c.high + c.band)
  <2>1. CASE c.type = "HYSTERESIS"
    <3> DEFINE z == IF ~s.ready THEN Bit(x >= (c.high + c.low) \div 2)
                    ELSE IF s.out = 1 THEN Bit(x > c.low)
                    ELSE Bit(x >= c.high)
    <3>1. r.s = [out |-> z, ready |-> TRUE] /\ r.y = IF c.invert THEN 1 - z ELSE z
      BY <2>1 DEF HysteresisUpdate, Compared, Result
    <3>2. z \in {0, 1} /\ (s.ready /\ z # s.out => (z = 1 => x >= c.high) /\ (z = 0 => x <= c.low))
      BY <1>2 DEF Bit
    <3> HIDE DEF z
    <3> QED
      BY <2>1, <3>1, <3>2 DEF Shown
  <2>2. CASE c.type = "WINDOW"
    <3> DEFINE z == IF ~s.ready THEN Bit(x \in c.low..c.high)
                    ELSE IF s.out = 1 THEN Bit(x \in (c.low - c.band)..(c.high + c.band))
                    ELSE Bit(x \in (c.low + c.band)..(c.high - c.band))
    <3>1. r.s = [out |-> z, ready |-> TRUE] /\ r.y = IF c.invert THEN 1 - z ELSE z
      BY <2>2 DEF WindowUpdate, Compared, Result
    <3>2. /\ z \in {0, 1}
          /\ s.ready /\ z # s.out => /\ z = 1 => x \in (c.low + c.band) .. (c.high - c.band)
                                     /\ z = 0 => x \notin (c.low - c.band) .. (c.high + c.band)
      BY <1>2 DEF Bit
    <3> HIDE DEF z
    <3> QED
      BY <2>2, <3>1, <3>2 DEF Shown
  <2> QED
    BY <2>1, <2>2
<1>4. \A b \in {0, 1} : Shown(c, Shown(c, b)) = b /\ Shown(c, b) \in {0, 1}
  BY DEF Shown
<1> HIDE DEF m, o
<1>5. Shown(c, e.out) = o /\ e.out \in {0, 1}
  BY <1>3, <1>4
<1>6. l # <<>> /\ e.out # l[Len(l)].out => Crossed(c, e)
  <2> SUFFICES ASSUME l # <<>>, e.out # l[Len(l)].out PROVE Crossed(c, e)
    OBVIOUS
  <2>1. s.ready /\ o # s.out
    BY <1>2, <1>3
  <2> QED
    BY <1>3, <1>5, <2>1 DEF Crossed
<1>7. ASSUME NEW k \in 1 .. Len(m) PROVE m[k].out \in {0, 1} /\ (k \in 2 .. Len(m) /\ m[k].out # m[k - 1].out => Crossed(c, m[k]))
  <2>1. CASE k = Len(l) + 1
    <3>1. k \in 2 .. Len(m) => l # <<>> /\ m[k - 1] = l[Len(l)]
      BY <1>1, <2>1
    <3> QED
      BY <1>1, <1>5, <1>6, <2>1, <3>1
  <2>2. CASE k \in 1 .. Len(l)
    <3>1. m[k] = l[k] /\ (k \in 2 .. Len(m) => k \in 2 .. Len(l) /\ m[k - 1] = l[k - 1])
      BY <1>1, <2>2
    <3> QED
      BY <1>2, <2>2, <3>1
  <2> QED
    BY <1>1, <2>1, <2>2
<1>8. NumberRead(m)
  BY <1>2, NumberReadOn DEF m
<1>9. \A k \in 2 .. Len(m) : k \in 1 .. Len(m)
  OBVIOUS
<1>10. m[Len(m)].out = Shown(c, r.s.out)
  BY <1>1, <1>3 DEF o
<1>11. ComparatorInv(c, r.s, m)
  BY <1>3, <1>7, <1>8, <1>9, <1>10 DEF ComparatorInv, o
<1> QED
  BY <1>3, <1>4, <1>11 DEF m

\* Between two changes in a row the input crosses the band.
LEMMA NoChatterIn ==
    ASSUME NEW c, c.type \in {"HYSTERESIS", "WINDOW"}, c.low \in Int, c.high \in Int,
           c.type = "WINDOW" => c.band \in Int,
           NEW s, NEW l, IsSeq(l), ComparatorInv(c, s, l),
           NEW j \in 2 .. Len(l), NEW k \in 2 .. Len(l), j < k,
           l[j].out # l[j - 1].out, l[k].out # l[k - 1].out,
           \A i \in j + 1 .. k - 1 : l[i].out = l[i - 1].out
    PROVE  LET gap == IF c.type = "HYSTERESIS" THEN c.high - c.low ELSE 2 * c.band
           IN  (l[k].in[1] - l[j].in[1]) \notin (1 - gap)..(gap - 1)
<1>1. Len(l) \in Nat
  BY Grown
<1> DEFINE P == {i \in 0 .. k - 1 - j : l[j + i].out = l[j].out}
<1>2. 0 \in P
  BY <1>1
<1>3. ASSUME NEW i \in 0 .. (k - 1 - j) - 1, i \in P PROVE i + 1 \in P
  <2>1. j + (i + 1) \in j + 1 .. k - 1 /\ j + (i + 1) - 1 = j + i /\ i + 1 \in 0 .. k - 1 - j
    BY <1>1
  <2>2. l[j + (i + 1)].out = l[j + (i + 1) - 1].out
    BY <2>1
  <2> QED
    BY <1>3, <2>1, <2>2
<1>4. k - 1 - j \in P
  <2>1. k - 1 - j \in Nat
    BY <1>1
  <2> HIDE DEF P
  <2> QED
    BY <1>2, <1>3, <2>1, Reaches
<1>5. l[k - 1].out = l[j].out
  <2>1. j + (k - 1 - j) = k - 1
    BY <1>1
  <2> QED
    BY <1>4, <2>1
<1>6. /\ Crossed(c, l[j]) /\ Crossed(c, l[k]) /\ l[j].out \in {0, 1} /\ l[k].out \in {0, 1}
      /\ l[j].in[1] \in Int /\ l[k].in[1] \in Int /\ c.low \in Int /\ c.high \in Int
  <2>1. j \in 1 .. Len(l) /\ k \in 1 .. Len(l)
    BY <1>1
  <2> QED
    BY <2>1 DEF ComparatorInv, NumberRead
<1> DEFINE a == Shown(c, l[j].out)
           b == Shown(c, l[k].out)
           x == l[j].in[1]
           y == l[k].in[1]
<1>7. a \in {0, 1} /\ b \in {0, 1} /\ a # b
  BY <1>5, <1>6 DEF Shown
<1> DEFINE lo == c.low
           hi == c.high
<1>10. x \in Int /\ y \in Int /\ lo \in Int /\ hi \in Int
  BY <1>6
<1>8. CASE c.type = "HYSTERESIS"
  <2>1. (a = 1 => x >= hi) /\ (a = 0 => x <= lo) /\ (b = 1 => y >= hi) /\ (b = 0 => y <= lo)
    BY <1>6, <1>8 DEF Crossed
  <2> HIDE DEF a, b, x, y, lo, hi
  <2>2. (y - x) \notin (1 - (hi - lo)) .. ((hi - lo) - 1)
    BY <1>7, <1>10, <2>1
  <2> QED
    BY <1>8, <2>2 DEF x, y, lo, hi
<1>9. CASE c.type = "WINDOW"
  <2> DEFINE w == c.band
  <2>1. /\ a = 1 => x \in (lo + w) .. (hi - w)
        /\ a = 0 => x \notin (lo - w) .. (hi + w)
        /\ b = 1 => y \in (lo + w) .. (hi - w)
        /\ b = 0 => y \notin (lo - w) .. (hi + w)
        /\ w \in Int
    BY <1>6, <1>9 DEF Crossed
  <2> HIDE DEF a, b, x, y, lo, hi, w
  <2>2. (y - x) \notin (1 - 2 * w) .. (2 * w - 1)
    <3>1. CASE a = 1 /\ b = 0
      BY <1>10, <2>1, <3>1
    <3>2. CASE a = 0 /\ b = 1
      BY <1>10, <2>1, <3>2
    <3> QED
      BY <1>7, <3>1, <3>2
  <2> QED
    BY <1>9, <2>2 DEF x, y, w
<1> QED
  BY <1>8, <1>9

\* A level fits the thresholds next to it.
Fits(c, v, x) == /\ v > 0 => x > c.down[v]
                 /\ v < Len(c.up) => x < c.up[v + 1]

LevelInv(c, s, l) ==
    /\ s.out \in 0 .. Len(c.up) /\ NumberRead(l)
    /\ l # <<>> => l[Len(l)].out \in Int
    /\ l # <<>> /\ (\A i \in DOMAIN c.up : c.down[i] < c.up[i]) => Fits(c, l[Len(l)].out, l[Len(l)].in[1])

LEMMA LevelTurn ==
    ASSUME NEW c, c.up \in Seq(Int), c.down \in Seq(Int), Len(c.up) = Len(c.down),
           NEW s, NEW l, IsSeq(l), LevelInv(c, s, l),
           NEW e, e.in[1] \in Int, NEW r, r = MultilevelUpdate(s, c, e.in[1]), e.out = r.y
    PROVE  LevelInv(c, r.s, Append(l, e)) /\ r.y \in Int
<1> DEFINE x == e.in[1]
           top == Len(c.up)
           m == Append(l, e)
           Climbed(from) == Max({from} \cup {v \in from + 1..top : \A i \in from + 1..v : x >= c.up[i]})
           Fallen(from) == Min({from} \cup {v \in 0..from - 1 : \A i \in v + 1..from : x <= c.down[i]})
           level == IF ~s.ready THEN Climbed(0) ELSE Fallen(Climbed(s.out))
<1>1. /\ top \in Nat /\ DOMAIN c.up = 1 .. top /\ \A i \in 1 .. top : c.up[i] \in Int /\ c.down[i] \in Int
      /\ s.out \in 0 .. top /\ NumberRead(l)
  BY DEF LevelInv
<1>2. /\ Len(m) = Len(l) + 1 /\ m[Len(l) + 1] = e
  BY Grown
<1>3. r.s.out = level /\ r.y = level
  BY DEF MultilevelUpdate, Result
<1> HIDE DEF m, top
<1>4. ASSUME NEW f \in 0 .. top
      PROVE  /\ Climbed(f) \in f .. top /\ (Climbed(f) < top => x < c.up[Climbed(f) + 1])
             /\ Climbed(f) > f => x >= c.up[Climbed(f)]
  <2> DEFINE S == {f} \cup {v \in f + 1..top : \A i \in f + 1..v : x >= c.up[i]}
             u == Max(S)
  <2>1. S \in SUBSET (0 .. top) /\ S # {}
    BY <1>1
  <2> HIDE DEF S
  <2>2. u \in S /\ \A y \in S : y <= u
    BY <1>1, <2>1, EndsWithin
  <2> HIDE DEF u
  <2>3. u \in f .. top /\ (u > f => u \in f + 1 .. top /\ \A i \in f + 1 .. u : x >= c.up[i])
    BY <1>1, <2>2 DEF S
  <2>4. u < top => x < c.up[u + 1]
    <3> SUFFICES ASSUME u < top, ~(x < c.up[u + 1]) PROVE FALSE
      OBVIOUS
    <3>1. u + 1 \in f + 1 .. top /\ u + 1 \in 1 .. top /\ u \in Int
      BY <1>1, <2>3
    <3>2. x >= c.up[u + 1]
      BY <1>1, <3>1
    <3>3. \A i \in f + 1 .. u + 1 : x >= c.up[i]
      <4> TAKE i \in f + 1 .. u + 1
      <4>1. CASE i = u + 1
        BY <3>2, <4>1
      <4>2. CASE i # u + 1
        <5>1. i \in f + 1 .. u /\ u > f
          BY <1>1, <2>3, <3>1, <4>2
        <5> QED
          BY <2>3, <5>1
      <4> QED
        BY <4>1, <4>2
    <3>4. u + 1 \in S
      BY <3>1, <3>3 DEF S
    <3> QED
      BY <2>2, <3>1, <3>4
  <2>5. u > f => x >= c.up[u]
    <3> SUFFICES ASSUME u > f PROVE x >= c.up[u]
      OBVIOUS
    <3>1. u \in f + 1 .. u
      BY <1>1, <2>3
    <3> QED
      BY <2>3, <3>1
  <2> QED
    BY <2>3, <2>4, <2>5 DEF u, S
<1>5. ASSUME NEW f \in 0 .. top
      PROVE  /\ Fallen(f) \in 0 .. f /\ (Fallen(f) > 0 => x > c.down[Fallen(f)])
             /\ Fallen(f) < f => x <= c.down[Fallen(f) + 1]
  <2> DEFINE S == {f} \cup {v \in 0..f - 1 : \A i \in v + 1..f : x <= c.down[i]}
             u == Min(S)
  <2>1. S \in SUBSET (0 .. top) /\ S # {}
    BY <1>1
  <2> HIDE DEF S
  <2>2. u \in S /\ \A y \in S : u <= y
    BY <1>1, <2>1, EndsWithin
  <2> HIDE DEF u
  <2>3. u \in 0 .. f /\ (u < f => \A i \in u + 1 .. f : x <= c.down[i])
    BY <1>1, <2>2 DEF S
  <2>4. u > 0 => x > c.down[u]
    <3> SUFFICES ASSUME u > 0, ~(x > c.down[u]) PROVE FALSE
      OBVIOUS
    <3>1. u - 1 \in 0 .. f - 1 /\ u \in 1 .. top /\ u \in Int
      BY <1>1, <2>3
    <3>2. x <= c.down[u]
      BY <1>1, <3>1
    <3>3. \A i \in (u - 1) + 1 .. f : x <= c.down[i]
      <4> TAKE i \in (u - 1) + 1 .. f
      <4>1. CASE i = u
        BY <3>2, <4>1
      <4>2. CASE i # u
        <5>1. i \in u + 1 .. f /\ u < f
          BY <1>1, <2>3, <3>1, <4>2
        <5> QED
          BY <2>3, <5>1
      <4> QED
        BY <4>1, <4>2
    <3>4. u - 1 \in S
      BY <3>1, <3>3 DEF S
    <3> QED
      BY <2>2, <3>1, <3>4
  <2>5. u < f => x <= c.down[u + 1]
    <3> SUFFICES ASSUME u < f PROVE x <= c.down[u + 1]
      OBVIOUS
    <3>1. u + 1 \in u + 1 .. f
      BY <1>1, <2>3
    <3> QED
      BY <2>3, <3>1
  <2> QED
    BY <2>3, <2>4, <2>5 DEF u, S
<1> HIDE DEF Climbed, Fallen
<1>6. level \in 0 .. top /\ ((\A i \in 1 .. top : c.down[i] < c.up[i]) => Fits(c, level, x))
  <2>1. CASE ~s.ready
    <3> DEFINE g == Climbed(0)
    <3>0. 0 \in 0 .. top
      BY <1>1
    <3>1. /\ g \in 0 .. top /\ (g < top => x < c.up[g + 1]) /\ (g > 0 => x >= c.up[g])
      BY ONLY <1>4, <3>0
    <3> HIDE DEF g
    <3>2. top \in Nat /\ (g > 0 => g \in 1 .. top)
      BY <1>1, <3>1
    <3>3. ASSUME \A i \in 1 .. top : c.down[i] < c.up[i], g > 0 PROVE x > c.down[g]
      <4>1. g \in 1 .. top
        BY <3>2, <3>3
      <4>2. c.down[g] \in Int /\ c.up[g] \in Int /\ x \in Int
        BY <1>1, <4>1
      <4>3. c.down[g] < c.up[g] /\ x >= c.up[g]
        BY <3>1, <3>3, <4>1
      <4> QED
        BY ONLY <4>2, <4>3
    <3> QED
      BY <2>1, <3>1, <3>3 DEF Fits, top, g
  <2>2. CASE s.ready
    <3> DEFINE g == Climbed(s.out)
               h == Fallen(g)
    <3>0. s.out \in 0 .. top /\ top \in Nat
      BY <1>1
    <3>1. g \in s.out .. top /\ (g < top => x < c.up[g + 1])
      <4> HIDE DEF level, h
      <4> QED
        BY ONLY <1>4, <3>0
    <3> HIDE DEF g
    <3>5. g \in 0 .. top
      BY ONLY <3>0, <3>1
    <3>2. h \in 0 .. g /\ (h > 0 => x > c.down[h]) /\ (h < g => x <= c.down[h + 1])
      BY ONLY <1>5, <3>5
    <3> HIDE DEF h
    <3>3. ASSUME \A i \in 1 .. top : c.down[i] < c.up[i], h < top PROVE x < c.up[h + 1]
      <4>1. CASE h = g
        BY <3>1, <3>3, <4>1
      <4>2. CASE h < g
        <5>1. h + 1 \in 1 .. top
          BY ONLY <3>0, <3>5, <3>2, <4>2
        <5>2. c.down[h + 1] \in Int /\ c.up[h + 1] \in Int /\ x \in Int
          BY <1>1, <5>1
        <5>3. c.down[h + 1] < c.up[h + 1] /\ x <= c.down[h + 1]
          BY <3>2, <3>3, <4>2, <5>1
        <5> QED
          BY ONLY <5>2, <5>3
      <4>3. h = g \/ h < g
        BY ONLY <3>0, <3>5, <3>2
      <4> QED
        BY <4>1, <4>2, <4>3
    <3>4. h \in 0 .. top
      BY ONLY <3>0, <3>5, <3>2
    <3> QED
      BY <2>2, <3>2, <3>3, <3>4 DEF Fits, top, g, h
  <2> QED
    BY <2>1, <2>2
<1> HIDE DEF level
<1>7. NumberRead(m)
  BY <1>1, NumberReadOn DEF m
<1>8. m[Len(m)].out = level /\ m[Len(m)].in[1] = x
  BY <1>2, <1>3
<1>9. LevelInv(c, r.s, m)
  <2>1. r.s.out \in 0 .. Len(c.up) /\ m[Len(m)].out \in Int
    BY <1>1, <1>3, <1>6, <1>8 DEF top
  <2>2. (\A i \in DOMAIN c.up : c.down[i] < c.up[i]) => Fits(c, m[Len(m)].out, m[Len(m)].in[1])
    <3> HIDE DEF x
    <3> QED
      BY <1>1, <1>6, <1>8
  <2> QED
    BY <1>7, <2>1, <2>2 DEF LevelInv
<1> QED
  BY <1>1, <1>3, <1>6, <1>9 DEF m

PidOk(c, e) ==
    LET p == (c.kp * Deadband(e.in[1] - e.in[2], c.deadband)) \div Scale
    IN  c.kd = 0 /\ e.dt > 0 /\ c.min <= c.imin /\ c.imax <= c.max =>
            (p < 0 => e.out < c.max) /\ (p > 0 => e.out > c.min)

PidInv(c, s, l) ==
    /\ {s.integral, s.error, s.measured, s.out} \subseteq Int
    /\ l # <<>> => PidOk(c, l[Len(l)])

PidSettings(c) == /\ {c.kp, c.ki, c.kd, c.deadband, c.min, c.max, c.imin, c.imax} \subseteq Int
                  /\ c.min < c.max /\ c.imin < c.imax

LEMMA PidTurn ==
    ASSUME NEW c, PidSettings(c), NEW s, NEW l, IsSeq(l), PidInv(c, s, l),
           NEW e, e.in[1] \in Int, e.in[2] \in Int, e.dt \in Nat,
           NEW r, r = PidUpdate(s, c, e.in[1], e.in[2], e.dt), e.out = r.y
    PROVE  PidInv(c, r.s, Append(l, e)) /\ r.y \in Int
<1> DEFINE x == e.in[2]
           d == e.dt
           error == Deadband(e.in[1] - x, c.deadband)
           step == ((c.ki * error * d) \div Scale) \div 1000
           integral == IntegralLimited(s.integral + step, c)
           moved == IF ~s.ready THEN 0 ELSE IF c.onMeasurement THEN x - s.measured ELSE error - s.error
           slope == ((IF c.onMeasurement THEN -(c.kd * moved * 1000) ELSE c.kd * moved * 1000) \div (Scale * d))
           p == (c.kp * error) \div Scale
           v == p + integral \div Scale + slope
           y == Clamp(v, c.min, c.max)
<1>1. /\ c.kp \in Int /\ c.ki \in Int /\ c.kd \in Int /\ c.deadband \in Int /\ c.min \in Int /\ c.max \in Int
      /\ c.imin \in Int /\ c.imax \in Int /\ c.min < c.max /\ c.imin < c.imax
      /\ Scale \in Nat /\ Scale > 0
      /\ s.integral \in Int /\ s.error \in Int /\ s.measured \in Int /\ s.out \in Int
  BY EngineAssumption DEF PidSettings, PidInv, EngineAssumption
<1>2. r = IF d = 0 THEN Result(s, s.out)
          ELSE Result([integral |-> integral, error |-> error, measured |-> x, out |-> y, ready |-> TRUE], y)
  BY DEF PidUpdate
<1>3. error \in Int
  BY <1>1 DEF Deadband
<1> HIDE DEF error, x, d
<1>4. x \in Int /\ d \in Nat
  BY DEF x, d
<1>5. step \in Int
  <2> DEFINE a == c.ki * error * d
  <2>1. a \in Int
    BY <1>1, <1>3, <1>4
  <2> HIDE DEF a
  <2>2. a \div Scale \in Int
    BY <1>1, <2>1, DivIs
  <2> DEFINE q == a \div Scale
  <2> HIDE DEF q
  <2>3. q \div 1000 \in Int
    BY <2>2 DEF q
  <2> QED
    BY <2>3 DEF q, a
<1> HIDE DEF step
<1>6. integral \in Int /\ integral \div Scale \in c.imin .. c.imax
  <2> DEFINE lo == c.imin * Scale
             hi == c.imax * Scale
  <2>1. /\ lo = Scale * c.imin /\ hi = Scale * c.imax /\ lo \in Int /\ hi \in Int
        /\ s.integral + step \in Int
    BY <1>1, <1>5
  <2>2. Scale * c.imin <= Scale * c.imax
    BY <1>1, TimesMore
  <2>3. lo <= hi
    BY <2>1, <2>2
  <2> DEFINE z == s.integral + step
  <2>4. integral = Clamp(z, lo, hi)
    BY DEF IntegralLimited
  <2> HIDE DEF lo, hi, integral, z
  <2>5. integral \in lo .. hi
    <3>1. z \in Int
      BY <2>1 DEF z
    <3> QED
      <4>1. lo \in Int /\ hi \in Int
        BY <2>1
      <4>2. Clamp(z, lo, hi) \in lo .. hi
        BY ONLY <2>3, <3>1, <4>1, ClampIs
      <4> QED
        BY <2>4, <4>2
  <2>6. integral \in Int /\ Scale * c.imin <= integral /\ integral <= Scale * c.imax
    BY <2>1, <2>5
  <2> QED
    BY <1>1, <2>6, DivBetween
<1>7. moved \in Int
  BY <1>1, <1>3, <1>4
<1> HIDE DEF integral, moved
<1>8. d > 0 => slope \in Int /\ (c.kd = 0 => slope = 0)
  <2> SUFFICES ASSUME d > 0 PROVE slope \in Int /\ (c.kd = 0 => slope = 0)
    OBVIOUS
  <2> DEFINE k == Scale * d
             z == IF c.onMeasurement THEN -(c.kd * moved * 1000) ELSE c.kd * moved * 1000
  <2>1. k \in Nat /\ k > 0
    <3>1. Scale * 1 <= Scale * d
      BY <1>1, <1>4, TimesMore
    <3> QED
      BY <1>1, <1>4, <3>1
  <2>2. z \in Int
    BY <1>1, <1>7
  <2>3. c.kd = 0 => z = 0
    <3> SUFFICES ASSUME c.kd = 0 PROVE z = 0
      OBVIOUS
    <3>1. c.kd * moved = 0
      BY <1>7
    <3> QED
      BY <3>1
  <2> HIDE DEF k, z
  <2>4. z \div k \in Int
    BY <2>1, <2>2, DivIs
  <2>5. 0 \div k = 0
    BY <2>1
  <2> QED
    BY <2>3, <2>4, <2>5 DEF k, z
<1>9. p \in Int
  <2> DEFINE a == c.kp * error
  <2>1. a \in Int
    BY <1>1, <1>3
  <2> HIDE DEF a
  <2>2. a \div Scale \in Int
    BY <1>1, <2>1, DivIs
  <2> QED
    BY <2>2 DEF a
<1> DEFINE q == integral \div Scale
<1>10. d > 0 => v \in Int /\ y \in Int /\ (c.kd = 0 => v = p + q)
  <2>1. q \in Int
    BY <1>1, <1>6
  <2> HIDE DEF p, q, slope
  <2>2. d > 0 => v \in Int /\ (c.kd = 0 => v = p + q)
    BY <1>8, <1>9, <2>1 DEF q
  <2> HIDE DEF v
  <2> QED
    BY <1>1, <2>2, ClampIs
<1>11. PidOk(c, e)
  <2> SUFFICES ASSUME c.kd = 0, e.dt > 0, c.min <= c.imin, c.imax <= c.max
               PROVE  (p < 0 => e.out < c.max) /\ (p > 0 => e.out > c.min)
    BY DEF PidOk, error, x
  <2>1. d > 0 /\ e.out = y
    BY <1>2, <1>4 DEF Result, d
  <2>2. v = p + q /\ v \in Int /\ q \in c.imin .. c.imax
    BY <1>6, <1>10, <2>1
  <2> HIDE DEF p, v, q
  <2>3. (p < 0 => v < c.max) /\ (p > 0 => v > c.min)
    BY <1>1, <1>9, <2>2
  <2>4. (v < c.max => y < c.max) /\ (v > c.min => y > c.min)
    BY <1>1, <2>2 DEF Clamp
  <2> QED
    BY <2>1, <2>3, <2>4
<1>12. r.y \in Int /\ {r.s.integral, r.s.error, r.s.measured, r.s.out} \subseteq Int
  <2> HIDE DEF y
  <2>1. CASE d = 0
    BY <1>1, <1>2, <2>1 DEF Result
  <2>2. CASE d > 0
    BY <1>2, <1>3, <1>4, <1>6, <1>10, <2>2 DEF Result
  <2> QED
    BY <1>4, <2>1, <2>2
<1>13. Append(l, e)[Len(Append(l, e))] = e
  BY Grown
<1> QED
  BY <1>11, <1>12, <1>13 DEF PidInv

-----------------------------------------------------------------------------
(* Tables.                                                                 *)

Pairs(n) == (1 .. n) \X (1 .. n)

Halve(xs, x, g, p) ==
    LET mid == (p[1] + p[2]) \div 2
    IN  IF p[2] - p[1] <= 1 THEN p
        ELSE IF xs[mid] <= x THEN g[<<mid, p[2]>>] ELSE g[<<p[1], mid>>]

Bisects(g, xs, x, n) == g = [p \in Pairs(n) |-> Halve(xs, x, g, p)]

\* Where a bisection goes on.
LEMMA HalfWay ==
    ASSUME NEW n \in Nat, NEW p \in Pairs(n), p[2] - p[1] > 1
    PROVE  LET mid == (p[1] + p[2]) \div 2
           IN  /\ mid \in 1 .. n /\ p[1] < mid /\ mid < p[2]
               /\ <<mid, p[2]>> \in Pairs(n) /\ <<p[1], mid>> \in Pairs(n)
<1> DEFINE a == p[1]
           b == p[2]
           mid == (a + b) \div 2
<1>1. a \in 1 .. n /\ b \in 1 .. n /\ b - a > 1
  BY DEF Pairs
<1> HIDE DEF a, b
<1>2. mid \in 1 .. n /\ a < mid /\ mid < b
  BY <1>1
<1> HIDE DEF mid
<1>3. <<mid, b>> \in Pairs(n) /\ <<a, mid>> \in Pairs(n)
  BY <1>1, <1>2 DEF Pairs
<1> QED
  BY <1>2, <1>3 DEF a, b, mid

LEMMA BisectionExists ==
    ASSUME NEW n \in Nat, NEW xs, NEW x
    PROVE  \E g : Bisects(g, xs, x, n)
<1> DEFINE G == [Pairs(n) -> Pairs(n)]
           Next1(g) == [p \in Pairs(n) |-> Halve(xs, x, g, p)]
           id == [p \in Pairs(n) |-> p]
           F == [k \in 1 .. n |-> [g \in G |-> Next1(g)]]
<1>1. ASSUME NEW g \in G PROVE Next1(g) \in G
  <2>1. ASSUME NEW p \in Pairs(n) PROVE Halve(xs, x, g, p) \in Pairs(n)
    <3>1. CASE p[2] - p[1] <= 1
      BY <3>1 DEF Halve
    <3>2. CASE ~(p[2] - p[1] <= 1)
      <4>1. p[2] - p[1] > 1
        BY <3>2 DEF Pairs
      <4>2. <<(p[1] + p[2]) \div 2, p[2]>> \in Pairs(n) /\ <<p[1], (p[1] + p[2]) \div 2>> \in Pairs(n)
        BY <4>1, HalfWay
      <4> QED
        BY <3>2, <4>2 DEF Halve
    <3> QED
      BY <3>1, <3>2
  <2> QED
    BY <2>1
<1> HIDE DEF Next1
<1>2. id \in G /\ F \in [1 .. n -> [G -> G]]
  <2> HIDE DEF G
  <2>1. [g \in G |-> Next1(g)] \in [G -> G]
    BY <1>1
  <2>2. id \in G
    BY DEF G
  <2> QED
    BY <2>1, <2>2
<1>3. PICK a : Through(a, n, G, id, F)
  <2> HIDE DEF G, F, id
  <2> QED
    BY <1>2, RecursionExists
<1>4. /\ a[0] = id /\ \A k \in 0 .. n : a[k] \in G
      /\ \A k \in 1 .. n : a[k] = Next1(a[k - 1])
  <2>1. a \in [0 .. n -> G] /\ a[0] = id /\ \A k \in 1 .. n : a[k] = F[k][a[k - 1]]
    BY <1>3 DEF Through
  <2>2. \A k \in 1 .. n : \A g \in G : F[k][g] = Next1(g)
    BY DEF F
  <2> HIDE DEF G, F, id
  <2>3. \A k \in 1 .. n : k - 1 \in 0 .. n
    OBVIOUS
  <2> QED
    BY <2>1, <2>2, <2>3
<1> DEFINE P == {k \in 0 .. n : \A p \in Pairs(n) : p[2] - p[1] <= k + 1 => Halve(xs, x, a[k], p) = a[k][p]}
<1>5. 0 \in P
  BY <1>4 DEF Halve
<1>6. ASSUME NEW k \in 0 .. n - 1, k \in P PROVE k + 1 \in P
  <2>1. k + 1 \in 1 .. n /\ (k + 1) - 1 = k /\ k \in Nat /\ k + 1 \in 0 .. n
    OBVIOUS
  <2>2. ASSUME NEW p \in Pairs(n) PROVE a[k + 1][p] = Halve(xs, x, a[k], p)
    <3>1. a[k + 1] = Next1(a[k])
      BY <1>4, <2>1
    <3> QED
      BY <3>1 DEF Next1
  <2>3. ASSUME NEW p \in Pairs(n), p[2] - p[1] <= (k + 1) + 1
        PROVE  Halve(xs, x, a[k + 1], p) = a[k + 1][p]
    <3>1. CASE p[2] - p[1] <= 1
      BY <2>2, <3>1 DEF Halve
    <3>2. CASE ~(p[2] - p[1] <= 1)
      <4> DEFINE mid == (p[1] + p[2]) \div 2
                 q == IF xs[mid] <= x THEN <<mid, p[2]>> ELSE <<p[1], mid>>
      <4>1. p[2] - p[1] > 1 /\ p[1] \in 1 .. n /\ p[2] \in 1 .. n
        BY <3>2 DEF Pairs
      <4>2. /\ mid \in 1 .. n /\ p[1] < mid /\ mid < p[2]
            /\ <<mid, p[2]>> \in Pairs(n) /\ <<p[1], mid>> \in Pairs(n)
        BY <4>1, HalfWay
      <4> HIDE DEF mid
      <4>3. q \in Pairs(n) /\ q[2] - q[1] <= k + 1
        BY <2>1, <2>3, <4>1, <4>2
      <4>4. \A g : Halve(xs, x, g, p) = g[q]
        BY <3>2 DEF Halve, mid
      <4> HIDE DEF q
      <4>5. Halve(xs, x, a[k], q) = a[k][q]
        BY <1>6, <4>3
      <4> QED
        BY <2>2, <4>3, <4>4, <4>5
    <3> QED
      BY <3>1, <3>2
  <2> QED
    BY <2>1, <2>3
<1>7. n \in P
  <2> HIDE DEF P
  <2> QED
    BY <1>5, <1>6, Reaches
<1>8. ASSUME NEW p \in Pairs(n) PROVE a[n][p] = Halve(xs, x, a[n], p)
  <2>1. p[2] - p[1] <= n + 1
    BY DEF Pairs
  <2> QED
    BY <1>7, <2>1
<1>9. a[n] \in G
  BY <1>4
<1>10. Bisects(a[n], xs, x, n)
  <2>1. a[n] = [p \in Pairs(n) |-> a[n][p]]
    BY <1>9
  <2> QED
    BY <1>8, <2>1 DEF Bisects
<1> QED
  BY <1>10

Lies(xs, x, q) == q[1] < q[2] /\ xs[q[1]] <= x /\ x < xs[q[2]]

\* A bisection ends at two neighbours.
LEMMA BisectionFinds ==
    ASSUME NEW n \in Nat, NEW xs, \A i \in 1 .. n : xs[i] \in Int, NEW x \in Int, NEW g, Bisects(g, xs, x, n),
           NEW p \in Pairs(n), Lies(xs, x, p)
    PROVE  g[p] \in Pairs(n) /\ g[p][2] = g[p][1] + 1 /\ Lies(xs, x, g[p])
<1> USE DEF Lies
<1> DEFINE Found(r) == r \in Pairs(n) /\ r[2] = r[1] + 1 /\ Lies(xs, x, r)
           P == {k \in 0 .. n : \A q \in Pairs(n) : Lies(xs, x, q) /\ q[2] - q[1] <= k + 1 => Found(g[q])}
<1>1. \A q \in Pairs(n) : g[q] = Halve(xs, x, g, q)
  BY DEF Bisects
<1>2. 0 \in P
  <2> SUFFICES ASSUME NEW q \in Pairs(n), Lies(xs, x, q), q[2] - q[1] <= 0 + 1 PROVE Found(g[q])
    OBVIOUS
  <2>1. g[q] = q /\ q[2] = q[1] + 1
    <3>1. q[1] \in 1 .. n /\ q[2] \in 1 .. n
      BY DEF Pairs
    <3>2. q[2] - q[1] <= 1 /\ q[2] = q[1] + 1
      BY <3>1
    <3> QED
      BY <1>1, <3>2 DEF Halve
  <2> QED
    BY <2>1
<1>3. ASSUME NEW k \in 0 .. n - 1, k \in P PROVE k + 1 \in P
  <2> SUFFICES ASSUME NEW q \in Pairs(n), Lies(xs, x, q), q[2] - q[1] <= (k + 1) + 1 PROVE Found(g[q])
    OBVIOUS
  <2>1. q[1] \in 1 .. n /\ q[2] \in 1 .. n
    BY DEF Pairs
  <2>2. CASE q[2] - q[1] <= k + 1
    BY <1>3, <2>2
  <2>3. CASE ~(q[2] - q[1] <= k + 1)
    <3> DEFINE mid == (q[1] + q[2]) \div 2
               r == IF xs[mid] <= x THEN <<mid, q[2]>> ELSE <<q[1], mid>>
    <3>1. q[2] - q[1] > 1 /\ k \in Nat
      BY <2>1, <2>3
    <3>2. /\ mid \in 1 .. n /\ q[1] < mid /\ mid < q[2]
          /\ <<mid, q[2]>> \in Pairs(n) /\ <<q[1], mid>> \in Pairs(n)
      BY <3>1, HalfWay
    <3>3. g[q] = g[r]
      BY <1>1, <2>1, <3>1 DEF Halve
    <3> HIDE DEF mid
    <3>4. r \in Pairs(n) /\ r[2] - r[1] <= k + 1
      BY <2>1, <3>1, <3>2
    <3>5. Lies(xs, x, r)
      <4>1. xs[mid] \in Int
        BY <3>2
      <4> QED
        BY <3>2, <4>1
    <3> HIDE DEF r, Lies, Found
    <3>6. Found(g[r])
      BY <1>3, <3>4, <3>5
    <3> QED
      BY <3>3, <3>6
  <2> QED
    BY <2>2, <2>3
<1>4. n \in P
  <2> HIDE DEF P
  <2> QED
    BY <1>2, <1>3, Reaches
<1>5. p[2] - p[1] <= n + 1
  BY DEF Pairs
<1> QED
  BY <1>4, <1>5

\* The entries next to x: one, or two with x between them.
Between(xs, x, i) ==
    /\ i \in Pairs(Len(xs))
    /\ \/ i[1] = i[2] /\ i[1] = 1 /\ x <= xs[1]
       \/ i[1] = i[2] /\ i[1] = Len(xs) /\ x >= xs[Len(xs)]
       \/ i[2] = i[1] + 1 /\ xs[i[1]] <= x /\ x < xs[i[2]]

LEMMA IndexFound ==
    ASSUME NEW xs \in Seq(Int), xs # <<>>, NEW x \in Int
    PROVE  Between(xs, x, FindIndex(xs, x)) /\ Len(xs) \in Nat /\ Len(xs) > 0 /\ xs \in [1 .. Len(xs) -> Int]
<1> DEFINE n == Len(xs)
           b == CHOOSE g : Bisects(g, xs, x, n)
<1>1. n \in Nat /\ n > 0 /\ xs \in [1 .. n -> Int]
  BY LenProperties, EmptySeq
<1>2. Bisects(b, xs, x, n)
  BY <1>1, BisectionExists
<1>3. FindIndex(xs, x) = IF x <= xs[1] THEN <<1, 1>> ELSE IF x >= xs[n] THEN <<n, n>> ELSE b[<<1, n>>]
  BY DEF FindIndex, Bisects, Halve, Pairs
<1> HIDE DEF n, b
<1>4. <<1, 1>> \in Pairs(n) /\ <<n, n>> \in Pairs(n) /\ <<1, n>> \in Pairs(n) /\ xs[1] \in Int /\ xs[n] \in Int
  BY <1>1 DEF Pairs
<1>5. CASE ~(x <= xs[1]) /\ ~(x >= xs[n])
  <2>1. 1 < n
    BY <1>1, <1>4, <1>5
  <2> DEFINE p == <<1, n>>
  <2>2. p \in Pairs(n) /\ Lies(xs, x, p)
    BY <1>4, <1>5, <2>1 DEF Lies
  <2> HIDE DEF p
  <2>3. \A i \in 1 .. n : xs[i] \in Int
    BY <1>1
  <2>4. b[p] \in Pairs(n) /\ b[p][2] = b[p][1] + 1 /\ Lies(xs, x, b[p])
    BY <1>1, <1>2, <2>2, <2>3, BisectionFinds
  <2> QED
    BY <1>1, <1>3, <1>5, <2>4 DEF Between, Lies, n, p
<1>6. CASE x <= xs[1]
  BY <1>1, <1>3, <1>4, <1>6 DEF Between, n
<1>7. CASE ~(x <= xs[1]) /\ x >= xs[n]
  BY <1>1, <1>3, <1>4, <1>7 DEF Between, n
<1> QED
  BY <1>1, <1>5, <1>6, <1>7 DEF n

\* Between two entries there is nothing outside their values.
LEMMA InterpolateIs ==
    ASSUME NEW x \in Int, NEW x0 \in Int, NEW x1 \in Int, NEW y0 \in Int, NEW y1 \in Int,
           x1 = x0 \/ (x0 <= x /\ x < x1)
    PROVE  /\ Interpolate(x, x0, x1, y0, y1) \in Int
           /\ x = x0 => Interpolate(x, x0, x1, y0, y1) = y0
           /\ \A lo, hi \in Int : y0 \in lo .. hi /\ y1 \in lo .. hi => Interpolate(x, x0, x1, y0, y1) \in lo .. hi
<1>1. CASE x1 = x0
  BY <1>1 DEF Interpolate
<1>2. CASE x1 # x0
  <2> DEFINE d == x1 - x0
             t == x - x0
             h == y1 - y0
             q == (t * h) \div d
  <2>1. d \in Nat /\ d > 0 /\ t \in Nat /\ t <= d /\ h \in Int
    BY <1>2
  <2>2. Interpolate(x, x0, x1, y0, y1) = y0 + q
    BY <1>2 DEF Interpolate
  <2>3. y1 = y0 + h /\ (x = x0 => t = 0)
    OBVIOUS
  <2> HIDE DEF d, t, h
  <2>4. t * h \in Int /\ d * h \in Int /\ d * 0 = 0
    BY <2>1
  <2>5. h >= 0 => q \in 0 .. h
    <3> SUFFICES ASSUME h >= 0 PROVE q \in 0 .. h
      OBVIOUS
    <3>1. h * 0 <= h * t /\ h * t <= h * d
      BY <2>1, TimesMore
    <3>2. h * t = t * h /\ h * d = d * h /\ h * 0 = 0
      BY <2>1
    <3>3. d * 0 <= t * h /\ t * h <= d * h
      BY <2>4, <3>1, <3>2
    <3> QED
      BY <2>1, <2>4, <3>3, DivBetween
  <2>6. h < 0 => q \in h .. 0
    <3> SUFFICES ASSUME h < 0 PROVE q \in h .. 0
      OBVIOUS
    <3> DEFINE k == -h
    <3>1. k \in Nat
      BY <2>1
    <3>2. k * 0 <= k * t /\ k * t <= k * d
      BY <2>1, <3>1, TimesMore
    <3>3. k * t = -(t * h) /\ k * d = -(d * h) /\ k * 0 = 0
      BY <2>1
    <3> HIDE DEF k
    <3>4. d * h <= t * h /\ t * h <= d * 0
      BY <2>4, <3>2, <3>3
    <3> QED
      BY <2>1, <2>4, <3>4, DivBetween
  <2>7. x = x0 => q = 0
    <3> SUFFICES ASSUME x = x0 PROVE q = 0
      OBVIOUS
    <3>1. t = 0
      BY <2>3
    <3>2. t * h = 0
      BY <2>1, <3>1
    <3>3. 0 \div d = 0
      BY <2>1
    <3> QED
      BY <3>2, <3>3
  <2>8. q \in Int /\ ((y0 <= y0 + q /\ y0 + q <= y1) \/ (y1 <= y0 + q /\ y0 + q <= y0))
    <3> HIDE DEF q
    <3> QED
      BY <2>1, <2>3, <2>5, <2>6
  <2> DEFINE v == y0 + q
  <2>9. v \in Int /\ ((y0 <= v /\ v <= y1) \/ (y1 <= v /\ v <= y0))
    <3> HIDE DEF q
    <3> QED
      BY <2>8
  <2>10. x = x0 => v = y0
    <3> HIDE DEF q
    <3> QED
      BY <2>7
  <2>11. Interpolate(x, x0, x1, y0, y1) = v
    BY <2>2
  <2> HIDE DEF v
  <2> QED
    BY <2>9, <2>10, <2>11
<1> QED
  BY <1>1, <1>2

LEMMA NeighboursAre ==
    ASSUME NEW xs \in Seq(Int), xs # <<>>, Increasing(xs), NEW x \in Int, NEW i, Between(xs, x, i)
    PROVE  /\ i[1] \in 1 .. Len(xs) /\ i[2] \in 1 .. Len(xs)
           /\ \/ Neighbours(xs, x) = {i[1], i[2]}
              \/ Neighbours(xs, x) = {i[1]} /\ x = xs[i[1]]
<1> DEFINE n == Len(xs)
           a == i[1]
           b == i[2]
           A == {k \in DOMAIN xs : xs[k] <= x} \cup {1}
           B == {k \in DOMAIN xs : xs[k] >= x} \cup {n}
<1>1. n \in Nat /\ n > 0 /\ DOMAIN xs = 1 .. n /\ \A k \in 1 .. n : xs[k] \in Int
  BY EmptySeq
<1>2. \A k, m \in 1 .. n : k < m => xs[k] < xs[m]
  BY <1>1 DEF Increasing
<1>3. /\ a \in 1 .. n /\ b \in 1 .. n
      /\ \/ a = b /\ a = 1 /\ x <= xs[1]
         \/ a = b /\ a = n /\ x >= xs[n]
         \/ b = a + 1 /\ xs[a] <= x /\ x < xs[b]
  BY DEF Between, Pairs
<1>4. Neighbours(xs, x) = {Max(A), Min(B)}
  BY DEF Neighbours
<1> HIDE DEF n, a, b
<1>5. A \subseteq Int /\ B \subseteq Int /\ A \subseteq 1 .. n /\ B \subseteq 1 .. n /\ 1 \in 1 .. n /\ n \in 1 .. n
  BY <1>1
<1>6. CASE a = b /\ a = 1 /\ x <= xs[1]
  <2>1. \A k \in A : k <= 1
    <3> SUFFICES ASSUME NEW k \in 1 .. n, xs[k] <= x, k > 1 PROVE FALSE
      BY <1>1
    <3>1. xs[1] < xs[k] /\ xs[1] \in Int /\ xs[k] \in Int
      BY <1>1, <1>2, <1>5
    <3> QED
      BY <1>6, <3>1
  <2>2. Max(A) = 1
    <3>1. 1 \in A
      OBVIOUS
    <3> HIDE DEF A
    <3> QED
      BY <1>5, <2>1, <3>1, MaxIs
  <2>3. Min(B) = 1
    <3>1. 1 \in B /\ \A k \in B : 1 <= k
      BY <1>1, <1>5, <1>6
    <3> HIDE DEF B
    <3> QED
      BY <1>5, <3>1, MinIs
  <2> QED
    BY <1>3, <1>4, <1>6, <2>2, <2>3 DEF n, a, b
<1>7. CASE a = b /\ a = n /\ x >= xs[n]
  <2>1. \A k \in B : n <= k
    <3> SUFFICES ASSUME NEW k \in 1 .. n, xs[k] >= x, k < n PROVE FALSE
      BY <1>1
    <3>1. xs[k] < xs[n] /\ xs[n] \in Int /\ xs[k] \in Int
      BY <1>1, <1>2, <1>5
    <3> QED
      BY <1>7, <3>1
  <2>2. Min(B) = n
    <3>1. n \in B
      OBVIOUS
    <3> HIDE DEF B
    <3> QED
      BY <1>5, <2>1, <3>1, MinIs
  <2>3. Max(A) = n
    <3>1. n \in A /\ \A k \in A : k <= n
      BY <1>1, <1>5, <1>7
    <3> HIDE DEF A
    <3> QED
      BY <1>5, <3>1, MaxIs
  <2> QED
    BY <1>3, <1>4, <1>7, <2>2, <2>3 DEF n, a, b
<1>8. CASE b = a + 1 /\ xs[a] <= x /\ x < xs[b]
  <2>0. a \in 1 .. n /\ b \in 1 .. n /\ a < b /\ xs[a] \in Int /\ xs[b] \in Int
    BY <1>1, <1>3, <1>8
  <2>1. \A k \in A : k <= a
    <3> SUFFICES ASSUME NEW k \in 1 .. n, xs[k] <= x, k > a PROVE FALSE
      BY <1>1, <1>3
    <3>1. k = b \/ k > b
      BY <1>8, <2>0
    <3>2. xs[b] <= xs[k] /\ xs[k] \in Int
      BY <1>1, <1>2, <2>0, <3>1
    <3> QED
      BY <1>8, <2>0, <3>2
  <2>2. Max(A) = a
    <3>1. a \in A
      BY <1>1, <1>8, <2>0
    <3> HIDE DEF A
    <3> QED
      BY <1>5, <2>1, <3>1, MaxIs
  <2>3. CASE x = xs[a]
    <3>1. \A k \in B : a <= k
      <4> SUFFICES ASSUME NEW k \in 1 .. n, xs[k] >= x, k < a PROVE FALSE
        BY <1>1, <1>3
      <4>1. xs[k] < xs[a] /\ xs[k] \in Int
        BY <1>1, <1>2, <2>0
      <4> QED
        BY <2>0, <2>3, <4>1
    <3>2. a \in B
      BY <1>1, <2>0, <2>3
    <3>3. Min(B) = a
      <4> HIDE DEF B
      <4> QED
        BY <1>5, <3>1, <3>2, MinIs
    <3> QED
      BY <1>3, <1>4, <2>2, <2>3, <3>3 DEF n, a, b
  <2>4. CASE x # xs[a]
    <3>1. \A k \in B : b <= k
      <4> SUFFICES ASSUME NEW k \in 1 .. n, xs[k] >= x, k < b PROVE FALSE
        BY <1>1, <1>3
      <4>1. k = a \/ k < a
        BY <1>8, <2>0
      <4>2. xs[k] <= xs[a] /\ xs[k] \in Int
        BY <1>1, <1>2, <2>0, <4>1
      <4> QED
        BY <1>8, <2>0, <2>4, <4>2
    <3>2. b \in B
      BY <1>1, <1>8, <2>0
    <3>3. Min(B) = b
      <4> HIDE DEF B
      <4> QED
        BY <1>5, <3>1, <3>2, MinIs
    <3> QED
      BY <1>3, <1>4, <2>2, <3>3 DEF n, a, b
  <2> QED
    BY <2>3, <2>4
<1> QED
  BY <1>3, <1>6, <1>7, <1>8

\* One row of a table.
LEMMA RowIs ==
    ASSUME NEW xs \in Seq(Int), xs # <<>>, NEW x \in Int, NEW f, \A k \in 1 .. Len(xs) : f[k] \in Int,
           NEW i, i = FindIndex(xs, x)
    PROVE  LET v == Interpolate(x, xs[i[1]], xs[i[2]], f[i[1]], f[i[2]]) IN
           /\ i[1] \in 1 .. Len(xs) /\ i[2] \in 1 .. Len(xs) /\ v \in Int
           /\ Increasing(xs) => \A lo, hi \in Int : (\A k \in Neighbours(xs, x) : f[k] \in lo .. hi) => v \in lo .. hi
<1> DEFINE a == i[1]
           b == i[2]
           v == Interpolate(x, xs[a], xs[b], f[a], f[b])
<1>1. Between(xs, x, i) /\ Len(xs) \in Nat /\ xs \in [1 .. Len(xs) -> Int]
  BY IndexFound
<1>2. /\ a \in 1 .. Len(xs) /\ b \in 1 .. Len(xs)
      /\ xs[b] = xs[a] \/ (xs[a] <= x /\ x < xs[b])
  BY <1>1 DEF Between, Pairs
<1>3. xs[a] \in Int /\ xs[b] \in Int /\ f[a] \in Int /\ f[b] \in Int
  BY <1>1, <1>2
<1>4. Increasing(xs) => \/ Neighbours(xs, x) = {a, b}
                        \/ Neighbours(xs, x) = {a} /\ x = xs[a]
  BY <1>1, NeighboursAre
<1> HIDE DEF a, b
<1>5. /\ v \in Int /\ (x = xs[a] => v = f[a])
      /\ \A lo, hi \in Int : f[a] \in lo .. hi /\ f[b] \in lo .. hi => v \in lo .. hi
  <2> DEFINE x0 == xs[a]
             x1 == xs[b]
             y0 == f[a]
             y1 == f[b]
  <2>1. /\ x0 \in Int /\ x1 \in Int /\ y0 \in Int /\ y1 \in Int
        /\ x1 = x0 \/ (x0 <= x /\ x < x1)
    BY <1>2, <1>3
  <2>2. v = Interpolate(x, x0, x1, y0, y1)
    OBVIOUS
  <2> HIDE DEF v, x0, x1, y0, y1
  <2>3. /\ v \in Int /\ (x = x0 => v = y0)
        /\ \A lo, hi \in Int : y0 \in lo .. hi /\ y1 \in lo .. hi => v \in lo .. hi
    <3>1. x \in Int
      OBVIOUS
    <3> DEFINE w == Interpolate(x, x0, x1, y0, y1)
    <3>2. w \in Int
      BY ONLY <2>1, <3>1, InterpolateIs
    <3>3. x = x0 => w = y0
      BY ONLY <2>1, <3>1, InterpolateIs
    <3>4. \A lo, hi \in Int : y0 \in lo .. hi /\ y1 \in lo .. hi => w \in lo .. hi
      BY ONLY <2>1, <3>1, InterpolateIs
    <3> HIDE DEF w
    <3> QED
      BY <2>2, <3>2, <3>3, <3>4 DEF w
  <2> QED
    BY <2>3 DEF x0, x1, y0, y1
<1> HIDE DEF v
<1>6. ASSUME Increasing(xs), NEW lo \in Int, NEW hi \in Int, \A k \in Neighbours(xs, x) : f[k] \in lo .. hi
      PROVE  v \in lo .. hi
  <2>1. CASE Neighbours(xs, x) = {a, b}
    <3>1. f[a] \in lo .. hi /\ f[b] \in lo .. hi
      BY <1>6, <2>1
    <3> QED
      BY <1>5, <3>1
  <2>2. CASE Neighbours(xs, x) = {a} /\ x = xs[a]
    <3>1. f[a] \in lo .. hi
      BY <1>6, <2>2
    <3> QED
      BY <1>5, <2>2, <3>1
  <2> QED
    BY <1>4, <1>6, <2>1, <2>2
<1> QED
  BY <1>2, <1>5, <1>6 DEF a, b, v

\* The neighbours of a value are entries of the axis.
LEMMA NeighboursOf ==
    ASSUME NEW xs \in Seq(Int), xs # <<>>, Increasing(xs), NEW x \in Int
    PROVE  \E p, q \in 1 .. Len(xs) : Neighbours(xs, x) = {p, q}
<1>1. PICK i : i = FindIndex(xs, x)
  OBVIOUS
<1>2. Between(xs, x, i)
  BY <1>1, IndexFound
<1> DEFINE a == i[1]
           b == i[2]
<1>3. /\ a \in 1 .. Len(xs) /\ b \in 1 .. Len(xs)
      /\ \/ Neighbours(xs, x) = {a, b}
         \/ Neighbours(xs, x) = {a} /\ x = xs[a]
  BY <1>2, NeighboursAre
<1> HIDE DEF a, b
<1>4. {a} = {a, a}
  OBVIOUS
<1> QED
  BY <1>3, <1>4

Near(c, in) == IF c.type = "TABLE_2D" THEN {c.y[i] : i \in Neighbours(c.x, in[1])}
               ELSE {c.z[p[2]][p[1]] : p \in Neighbours(c.x, in[1]) \X Neighbours(c.y, in[2])}

TableOk(c, in, y) ==
    Increasing(c.x) /\ (c.type = "TABLE_3D" => Increasing(c.y)) => y \in Min(Near(c, in)) .. Max(Near(c, in))

LEMMA PlaneIs ==
    ASSUME NEW c, c.type = "TABLE_2D", c.x \in Seq(Int), c.y \in Seq(Int), c.x # <<>>, Len(c.x) = Len(c.y),
           NEW in, in[1] \in Int, NEW y, y = Lookup2d(c, in[1])
    PROVE  y \in Int /\ TableOk(c, in, y)
<1> DEFINE xs == c.x
           f == c.y
           x == in[1]
           i == FindIndex(xs, x)
           v == Interpolate(x, xs[i[1]], xs[i[2]], f[i[1]], f[i[2]])
           S == {f[k] : k \in Neighbours(xs, x)}
<1>1. y = v
  BY DEF Lookup2d
<1>2. xs \in Seq(Int) /\ xs # <<>> /\ x \in Int /\ \A k \in 1 .. Len(xs) : f[k] \in Int
  OBVIOUS
<1>3. Near(c, in) = S
  BY DEF Near
<1>4. TableOk(c, in, y) <=> (Increasing(xs) => y \in Min(Near(c, in)) .. Max(Near(c, in)))
  BY DEF TableOk
<1> HIDE DEF xs, f, x, i
<1>5. PICK j : j = i
  OBVIOUS
<1>6. /\ v \in Int
      /\ Increasing(xs) => \A lo, hi \in Int : (\A k \in Neighbours(xs, x) : f[k] \in lo .. hi) => v \in lo .. hi
  <2>1. j = FindIndex(xs, x)
    BY <1>5 DEF i
  <2> DEFINE w == Interpolate(x, xs[j[1]], xs[j[2]], f[j[1]], f[j[2]])
  <2>2. /\ w \in Int
        /\ Increasing(xs) => \A lo, hi \in Int : (\A k \in Neighbours(xs, x) : f[k] \in lo .. hi) => w \in lo .. hi
    BY ONLY <1>2, <2>1, RowIs
  <2>3. w = v
    BY <1>5
  <2> HIDE DEF w, v
  <2> QED
    BY <2>2, <2>3
<1> HIDE DEF v
<1>7. ASSUME Increasing(xs) PROVE v \in Min(S) .. Max(S)
  <2>1. PICK p, q \in 1 .. Len(xs) : Neighbours(xs, x) = {p, q}
    BY <1>2, <1>7, NeighboursOf
  <2>2. S = {f[p], f[q], f[p], f[q]}
    BY <2>1
  <2>3. f[p] \in Int /\ f[q] \in Int
    BY <1>2
  <2>4. \A lo, hi \in Int : (\A u \in S : u \in lo .. hi) => v \in lo .. hi
    BY <1>6, <1>7
  <2> HIDE DEF S
  <2> QED
    BY ONLY <2>2, <2>3, <2>4, InFour
<1> HIDE DEF S
<1> QED
  BY <1>1, <1>3, <1>4, <1>6, <1>7

LEMMA SpaceIs ==
    ASSUME NEW c, c.type = "TABLE_3D", c.x \in Seq(Int), c.y \in Seq(Int), c.x # <<>>, c.y # <<>>,
           c.z \in [DOMAIN c.y -> [DOMAIN c.x -> Int]],
           NEW in, in[1] \in Int, in[2] \in Int, NEW y, y = Lookup3d(c, in[1], in[2])
    PROVE  y \in Int /\ TableOk(c, in, y)
<1> DEFINE xs == c.x
           ys == c.y
           z == c.z
           x == in[1]
           u == in[2]
           i == FindIndex(xs, x)
           j == FindIndex(ys, u)
           Row(r) == Interpolate(x, xs[i[1]], xs[i[2]], z[r][i[1]], z[r][i[2]])
           v == Interpolate(u, ys[j[1]], ys[j[2]], Row(j[1]), Row(j[2]))
           S == {z[p[2]][p[1]] : p \in Neighbours(xs, x) \X Neighbours(ys, u)}
           n == Len(xs)
           m == Len(ys)
<1>1. y = v
  BY DEF Lookup3d
<1>2. /\ xs \in Seq(Int) /\ xs # <<>> /\ x \in Int
      /\ ys \in Seq(Int) /\ ys # <<>> /\ u \in Int
      /\ \A r \in 1 .. m : \A k \in 1 .. n : z[r][k] \in Int
  <2>1. xs \in Seq(Int) /\ xs # <<>> /\ x \in Int /\ ys \in Seq(Int) /\ ys # <<>> /\ u \in Int
    OBVIOUS
  <2>2. DOMAIN xs = 1 .. n /\ DOMAIN ys = 1 .. m
    BY ONLY <2>1
  <2>3. z \in [DOMAIN ys -> [DOMAIN xs -> Int]]
    OBVIOUS
  <2> HIDE DEF xs, ys, z, n, m
  <2>4. ASSUME NEW r \in 1 .. m, NEW k \in 1 .. n PROVE z[r][k] \in Int
    <3>1. z[r] \in [DOMAIN xs -> Int]
      BY ONLY <2>2, <2>3, r \in 1 .. m
    <3> QED
      BY ONLY <2>2, <3>1, k \in 1 .. n
  <2> QED
    BY <2>1, <2>4
<1>3. Near(c, in) = S
  BY DEF Near
<1>4. TableOk(c, in, y) <=> (Increasing(xs) /\ Increasing(ys) => y \in Min(Near(c, in)) .. Max(Near(c, in)))
  BY DEF TableOk
<1> HIDE DEF xs, ys, z, x, u, i, j
<1>5. PICK i1 : i1 = i
  OBVIOUS
<1>6. PICK j1 : j1 = j
  OBVIOUS
<1> DEFINE g == [r \in 1 .. m |-> Row(r)]
<1>7. ASSUME NEW r \in 1 .. m
      PROVE  /\ g[r] \in Int
             /\ Increasing(xs) => \A lo, hi \in Int : (\A k \in Neighbours(xs, x) : z[r][k] \in lo .. hi) => g[r] \in lo .. hi
  <2>1. i1 = FindIndex(xs, x)
    BY <1>5 DEF i
  <2> DEFINE f == z[r]
             w == Interpolate(x, xs[i1[1]], xs[i1[2]], f[i1[1]], f[i1[2]])
  <2>2. \A k \in 1 .. Len(xs) : f[k] \in Int
    BY <1>2
  <2>3. g[r] = w
    BY <1>5
  <2> HIDE DEF f, g
  <2>4. /\ w \in Int
        /\ Increasing(xs) => \A lo, hi \in Int : (\A k \in Neighbours(xs, x) : f[k] \in lo .. hi) => w \in lo .. hi
    BY ONLY <1>2, <2>1, <2>2, RowIs
  <2> HIDE DEF w
  <2> QED
    BY <2>3, <2>4 DEF f
<1>8. /\ j1[1] \in 1 .. m /\ j1[2] \in 1 .. m /\ v \in Int
      /\ Increasing(ys) => \A lo, hi \in Int : (\A k \in Neighbours(ys, u) : g[k] \in lo .. hi) => v \in lo .. hi
  <2>1. j1 = FindIndex(ys, u)
    BY <1>6 DEF j
  <2> DEFINE w == Interpolate(u, ys[j1[1]], ys[j1[2]], g[j1[1]], g[j1[2]])
  <2>2. \A k \in 1 .. Len(ys) : g[k] \in Int
    BY <1>7
  <2> HIDE DEF g
  <2>3. /\ j1[1] \in 1 .. Len(ys) /\ j1[2] \in 1 .. Len(ys) /\ w \in Int
        /\ Increasing(ys) => \A lo, hi \in Int : (\A k \in Neighbours(ys, u) : g[k] \in lo .. hi) => w \in lo .. hi
    BY ONLY <1>2, <2>1, <2>2, RowIs
  <2>4. g[j1[1]] = Row(j1[1]) /\ g[j1[2]] = Row(j1[2])
    BY <2>3 DEF g
  <2> HIDE DEF Row
  <2>5. w = v
    BY <1>6, <2>4
  <2> HIDE DEF w, v
  <2> QED
    BY <2>3, <2>5
<1> HIDE DEF v, g
<1>9. ASSUME Increasing(xs), Increasing(ys) PROVE v \in Min(S) .. Max(S)
  <2>1. PICK p, q \in 1 .. n : Neighbours(xs, x) = {p, q}
    BY <1>2, <1>9, NeighboursOf
  <2>2. PICK r, s \in 1 .. m : Neighbours(ys, u) = {r, s}
    BY <1>2, <1>9, NeighboursOf
  <2>3. S = {z[r][p], z[r][q], z[s][p], z[s][q]}
    <3>1. {p, q} \X {r, s} = {<<p, r>>, <<q, r>>, <<p, s>>, <<q, s>>}
      OBVIOUS
    <3> DEFINE P == {<<p, r>>, <<q, r>>, <<p, s>>, <<q, s>>}
    <3>2. S = {z[a[2]][a[1]] : a \in P}
      BY <2>1, <2>2, <3>1
    <3>3. {z[a[2]][a[1]] : a \in P} = {z[r][p], z[r][q], z[s][p], z[s][q]}
      OBVIOUS
    <3> QED
      BY <3>2, <3>3
  <2>4. z[r][p] \in Int /\ z[r][q] \in Int /\ z[s][p] \in Int /\ z[s][q] \in Int
    BY <1>2
  <2>5. \A k \in Neighbours(ys, u) : \A h \in Neighbours(xs, x) : z[k][h] \in S
    BY <2>1, <2>2, <2>3
  <2>6. \A k \in Neighbours(ys, u) : k \in 1 .. m
    BY <2>2
  <2> HIDE DEF S
  <2>7. ASSUME NEW lo \in Int, NEW hi \in Int, \A t \in S : t \in lo .. hi
        PROVE  v \in lo .. hi
    <3>1. \A k \in Neighbours(ys, u) : g[k] \in lo .. hi
      BY <1>7, <1>9, <2>5, <2>6, <2>7
    <3> QED
      BY <1>8, <1>9, <3>1
  <2> QED
    BY ONLY <2>3, <2>4, <2>7, InFour
<1> HIDE DEF S
<1> QED
  BY <1>1, <1>3, <1>4, <1>8, <1>9

-----------------------------------------------------------------------------
(* Arithmetic, selection and the outputs of the other blocks.              *)

Int32 == IntMin .. IntMax

LEMMA RangeIs == IntMin \in Int /\ IntMax \in Int /\ IntMin < IntMax /\ 0 \in Int32 /\ Int32 \subseteq Int
  BY EngineAssumption DEF EngineAssumption, IntMin, Int32

LEMMA RangedIs == ASSUME NEW v \in Int PROVE Range32(v) \in Int32
<1>1. IntMin \in Int /\ IntMax \in Int /\ IntMin <= IntMax
  BY RangeIs
<1>2. Clamp(v, IntMin, IntMax) \in IntMin .. IntMax
  BY <1>1, ClampIs
<1> QED
  BY <1>2 DEF Range32, Int32

LEMMA FlooredIs == ASSUME NEW a \in Int, NEW b \in Int, b # 0 PROVE Floored(a, b) \in Int
<1>1. CASE b > 0
  <2>1. a \div b \in Int
    BY <1>1, DivIs
  <2> QED
    BY <1>1, <2>1 DEF Floored
<1>2. CASE ~(b > 0)
  <2> DEFINE p == -a
             q == -b
  <2>1. p \in Int /\ q \in Nat /\ q > 0
    BY <1>2
  <2> HIDE DEF p, q
  <2>2. p \div q \in Int
    BY <2>1, DivIs
  <2> QED
    BY <1>2, <2>2 DEF Floored, p, q
<1> QED
  BY <1>1, <1>2

LEMMA ScaledIs ==
    ASSUME NEW v \in Int, NEW num \in Int, NEW den \in Int
    PROVE  MathScale(v, num, den) \in Int32
<1> DEFINE p == v * num
           q == Floored(p, den)
<1>1. p \in Int
  OBVIOUS
<1>2. MathScale(v, num, den) = IF den # 0 THEN Range32(q) ELSE IF p > 0 THEN IntMax ELSE IntMin
  BY DEF MathScale
<1> HIDE DEF p
<1>3. den # 0 => q \in Int
  BY <1>1, FlooredIs
<1> HIDE DEF q
<1>4. den # 0 => Range32(q) \in Int32
  BY <1>3, RangedIs
<1>5. IntMax \in Int32 /\ IntMin \in Int32
  BY RangeIs DEF Int32
<1> QED
  BY <1>2, <1>4, <1>5

LEMMA MappedIs ==
    ASSUME NEW v \in Int, NEW i \in Int, NEW j \in Int, NEW o \in Int, NEW p \in Int
    PROVE  MathMap(v, i, j, o, p) \in Int
<1> DEFINE a == v - i
           b == p - o
           d == j - i
           q == Floored(a * b, d)
<1>1. a \in Int /\ b \in Int /\ d \in Int /\ (j # i => d # 0)
  OBVIOUS
<1>2. MathMap(v, i, j, o, p) = IF j = i THEN o ELSE Range32(q + o)
  BY DEF MathMap
<1> HIDE DEF a, b, d
<1>3. a * b \in Int
  BY <1>1
<1>4. j # i => q \in Int
  BY <1>1, <1>3, FlooredIs
<1> HIDE DEF q
<1>5. j # i => q + o \in Int
  BY <1>4
<1>6. j # i => Range32(q + o) \in Int32
  BY <1>5, RangedIs
<1> QED
  BY <1>2, <1>6, RangeIs

LEMMA MathOfIs ==
    ASSUME NEW c, c.min \in Int, c.max \in Int, c.num \in Int, c.den \in Int,
           NEW in \in Seq(Int), Len(in) > 0, NEW op
    PROVE  MathOf(op, c, in) \in Int
<1> DEFINE a == in[1]
           b == Operand(in, 2)
           d == Operand(in, 3)
<1>1. a \in Int /\ b \in Int /\ d \in Int /\ Len(in) \in Nat /\ in \in [1 .. Len(in) -> Int] /\ DOMAIN in = 1 .. Len(in)
  BY DEF Operand
<1>2. IntMin \in Int /\ IntMax \in Int /\ \A v \in Int : Range32(v) \in Int
  BY RangeIs, RangedIs
<1> DEFINE y == MathOf(op, c, in)
           x == CASE op = "ADD" -> Range32(a + b)
                  [] op = "SUB" -> Range32(a - b)
                  [] op = "MUL" -> Range32(a * b)
                  [] op = "DIV" -> MathDiv(a, b)
                  [] op = "MOD" -> IF b = 0 THEN 0 ELSE Remainder(a, b)
                  [] op = "ABS" -> IF a = IntMin THEN IntMax ELSE IF a < 0 THEN -a ELSE a
                  [] op = "NEG" -> IF a = IntMin THEN IntMax ELSE -a
                  [] op = "MIN" -> Min(Operands(in))
                  [] op = "MAX" -> Max(Operands(in))
                  [] op = "AVG" -> SumFunction(in) \div Len(in)
                  [] op = "CLAMP" -> Clamp(a, c.min, c.max)
                  [] op = "MAP" -> MathMap(a, b, d, c.min, c.max)
                  [] op = "SCALE" -> MathScale(a, c.num, c.den)
                  [] OTHER -> a
<1>3. y = x
  BY DEF MathOf
<1>4. Min(Operands(in)) \in Int /\ Max(Operands(in)) \in Int
  <2> DEFINE n == Len(in)
             S == {in[k] : k \in 1 .. n}
  <2>1. n \in Nat /\ n > 0 /\ in \in [1 .. n -> Int]
    BY <1>1
  <2>2. Operands(in) = S
    BY <1>1 DEF Operands
  <2> HIDE DEF n
  <2>3. S \subseteq Int /\ Min(S) \in S /\ Max(S) \in S
    BY ONLY <2>1, EndsOf
  <2> HIDE DEF S
  <2> QED
    BY <2>2, <2>3
<1>5. SumFunction(in) \div Len(in) \in Int
  <2>1. SumFunction(in) \in Int
    BY <1>1, SumNumber
  <2> QED
    BY <1>1, <2>1, DivIs
<1>6. /\ \A v \in Int : Clamp(v, c.min, c.max) \in Int
      /\ MathMap(a, b, d, c.min, c.max) \in Int
      /\ MathScale(a, c.num, c.den) \in Int
  <2> DEFINE lo == c.min
             hi == c.max
             num == c.num
             den == c.den
  <2>1. lo \in Int /\ hi \in Int /\ num \in Int /\ den \in Int
    OBVIOUS
  <2> HIDE DEF lo, hi, num, den, a, b, d
  <2>2. \A v \in Int : Clamp(v, lo, hi) \in Int
    BY <2>1, ClampIs
  <2>3. MathMap(a, b, d, lo, hi) \in Int
    BY <1>1, <2>1, MappedIs
  <2>4. MathScale(a, num, den) \in Int
    BY <1>1, <2>1, ScaledIs, RangeIs
  <2> QED
    BY <2>2, <2>3, <2>4 DEF lo, hi, num, den
<1> HIDE DEF a, b, d
<1>7. MathDiv(a, b) \in Int /\ (b # 0 => Remainder(a, b) \in Int)
  <2>1. b # 0 => Floored(a, b) \in Int
    BY <1>1, FlooredIs
  <2> QED
    BY <1>1, <1>2, <2>1 DEF MathDiv, Remainder
<1>8. a * b \in Int /\ a + b \in Int /\ a - b \in Int /\ -a \in Int
  BY <1>1
<1> DEFINE p == a * b
<1>9. Range32(p) \in Int
  <2>1. p \in Int
    BY <1>8
  <2> HIDE DEF p
  <2> QED
    BY <1>2, <2>1
<1>10. x \in Int
  BY <1>1, <1>2, <1>4, <1>5, <1>6, <1>7, <1>8, <1>9
<1> HIDE DEF x
<1> QED
  BY <1>3, <1>10

LEMMA MathNumber ==
    ASSUME NEW c, {c.min, c.max} \subseteq Int32, {c.num, c.den} \subseteq Int,
           NEW in \in Seq(Int), Len(in) > 0
    PROVE  MathResult(c, in) \in Int32
<1> DEFINE v == MathOf(c.op, c, in)
           lo == c.min
           hi == c.max
           y == Clamp(v, lo, hi)
<1>1. IntMin \in Int /\ IntMax \in Int /\ Int32 \subseteq Int
  BY RangeIs
<1>2. /\ lo \in Int /\ hi \in Int /\ IntMin <= lo /\ lo <= IntMax /\ IntMin <= hi /\ hi <= IntMax
      /\ c.min \in Int /\ c.max \in Int /\ c.num \in Int /\ c.den \in Int
  BY <1>1 DEF Int32
<1>3. v \in Int
  <2> DEFINE op == c.op
  <2>1. \A o : MathOf(o, c, in) \in Int
    BY <1>2, MathOfIs
  <2> QED
    BY <2>1
<1> HIDE DEF v, lo, hi
<1>4. y \in IntMin .. IntMax
  BY <1>1, <1>2, <1>3, ClampIs
<1>5. MathResult(c, in) = IF c.den \in {0, 1} THEN y ELSE MathScale(y, c.num, c.den)
  BY DEF MathResult, v, lo, hi
<1> HIDE DEF y
<1>6. y \in Int
  BY <1>1, <1>4
<1> DEFINE num == c.num
           den == c.den
<1>7. num \in Int /\ den \in Int
  BY <1>2
<1> HIDE DEF num, den
<1>8. MathScale(y, num, den) \in Int32
  BY <1>6, <1>7, ScaledIs
<1> QED
  BY <1>4, <1>5, <1>8 DEF Int32, num, den

LEMMA SwitchNumber ==
    ASSUME NEW c, c.default \in Int, IsSeq(c.cases), \A i \in DOMAIN c.cases : c.cases[i].result \in Int, NEW x
    PROVE  SwitchOf(c, x) \in Int
<1> DEFINE M == {i \in DOMAIN c.cases :
                       CASE c.mode = "value" -> x = c.cases[i].from
                         [] c.mode = "range" -> x \in c.cases[i].from..c.cases[i].to
                         [] c.mode = "index" -> x = i - 1}
<1>1. SwitchOf(c, x) = IF M = {} THEN c.default ELSE c.cases[Min(M)].result
  BY DEF SwitchOf
<1>2. M \subseteq DOMAIN c.cases
  OBVIOUS
<1> HIDE DEF M
<1>3. CASE M # {}
  <2> DEFINE n == Len(c.cases)
  <2>1. n \in Nat /\ DOMAIN c.cases = 1 .. n
    BY Grown
  <2> HIDE DEF n
  <2>2. M \in SUBSET (0 .. n)
    BY <1>2, <2>1
  <2>3. Min(M) \in M
    BY <1>3, <2>1, <2>2, EndsWithin
  <2> QED
    BY <1>1, <1>2, <1>3, <2>3
<1> QED
  BY <1>1, <1>3

LEMMA BitNumber == ASSUME NEW b PROVE Bit(b) \in {0, 1}
  BY DEF Bit

LEMMA LogicNumber == ASSUME NEW op, NEW c, NEW in PROVE LogicOf(op, c, in) \in {0, 1}
<1>1. Gate(op, in) \in {0, 1} /\ Compare(op, in[1], c.value) \in {0, 1} /\ Bit(in[1] \in in[2]..c.value) \in {0, 1}
  BY BitNumber DEF Gate, Compare
<1> QED
  BY <1>1 DEF LogicOf

\* Latches and flip-flops show their q.
Bistable == [q : {0, 1}, clk : {0, 1}]

LEMMA ClockedIs ==
    ASSUME NEW s \in Bistable, NEW clk, NEW q \in {0, 1}, NEW r, r = Clocked(s, clk, q)
    PROVE  r.s \in Bistable /\ r.y \in {0, 1}
<1>1. Bit(High(clk)) \in {0, 1}
  BY BitNumber
<1> QED
  BY <1>1 DEF Clocked, Bistable, Result

LEMMA LatchIs ==
    ASSUME NEW s \in Bistable, NEW q \in {0, 1}, NEW r, r = Latch(s, q)
    PROVE  r.s \in Bistable /\ r.y \in {0, 1}
  BY DEF Latch, Bistable, Result

LEMMA CounterNumber ==
    ASSUME NEW c, {c.min, c.max, c.initial} \subseteq Int, c.min <= c.max, c.step \in Int \ {0},
           {c.edge, c.wrap} \subseteq BOOLEAN, NEW s \in CounterStates,
           NEW inc, NEW dec, NEW reset, NEW r, r = CounterUpdate(s, c, inc, dec, reset)
    PROVE  r.s \in CounterStates /\ r.y \in Int
<1>1. \A v \in Int : Limited(v, c) \in Int
  <2> SUFFICES ASSUME NEW v \in Int PROVE Limited(v, c) \in Int
    OBVIOUS
  <2> DEFINE lo == c.min
             hi == c.max
             size == hi - lo + 1
             d == v - lo
             m == d % size
  <2>1. lo \in Int /\ hi \in Int /\ size \in Nat /\ size > 0 /\ d \in Int
    OBVIOUS
  <2>2. Limited(v, c) = IF ~c.wrap THEN LET low == IF v < lo THEN lo ELSE v IN IF low > hi THEN hi ELSE low
                        ELSE IF size <= 0 \/ v \in lo .. hi THEN v ELSE lo + m
    BY DEF Limited
  <2> HIDE DEF lo, hi, size, d
  <2>3. m \in Int
    BY <2>1
  <2> HIDE DEF m
  <2> QED
    BY <2>1, <2>2, <2>3
<1>2. ASSUME NEW t \in CounterStates, NEW x, NEW field \in {"inc", "dec"}, NEW by \in Int
      PROVE  Counted(t, c, x, field, by) \in CounterStates
  <2>1. Bit(High(x)) \in {0, 1}
    BY BitNumber
  <2> DEFINE v == IF CountsOn(t, c, x, field) THEN Limited(t.value + by, c) ELSE t.value
             b == Bit(High(x))
  <2>2. t.value \in Int /\ t.value + by \in Int
    BY DEF CounterStates
  <2>3. v \in Int
    BY <1>1, <2>2
  <2>4. Counted(t, c, x, field, by) = [t EXCEPT ![field] = b, !.value = v]
    BY DEF Counted, CounterStates
  <2> HIDE DEF v, b
  <2>5. b \in {0, 1}
    BY <2>1 DEF b
  <2>6. CASE field = "inc"
    BY <2>3, <2>4, <2>5, <2>6 DEF CounterStates
  <2>7. CASE field = "dec"
    BY <2>3, <2>4, <2>5, <2>7 DEF CounterStates
  <2> QED
    BY <2>6, <2>7
<1> DEFINE b == Bit(High(reset))
           z == IF c.edge THEN [s EXCEPT !.reset = b] ELSE s
           u == Counted(z, c, inc, "inc", c.step)
           t == Counted(u, c, dec, "dec", -c.step)
           resets == High(reset) /\ (c.edge => ~High(s.reset))
<1>3. r = IF resets THEN Result([z EXCEPT !.value = c.initial], c.initial) ELSE Result(t, t.value)
  BY DEF CounterUpdate
<1>4. b \in {0, 1}
  BY BitNumber
<1> HIDE DEF b, resets
<1>5. z \in CounterStates
  BY <1>4 DEF CounterStates
<1> HIDE DEF z
<1>6. u \in CounterStates
  BY <1>2, <1>5
<1> HIDE DEF u
<1>7. t \in CounterStates
  BY <1>2, <1>6
<1> HIDE DEF t
<1>8. c.initial \in Int /\ [z EXCEPT !.value = c.initial] \in CounterStates /\ t.value \in Int
  BY <1>5, <1>7 DEF CounterStates
<1> QED
  BY <1>3, <1>7, <1>8 DEF Result

\* The time a timer says has elapsed is not more than has passed.
LEMMA ElapsedIs ==
    ASSUME NEW c, c.trigger \in Triggers, NEW s \in TimerStates, NEW x, NEW u \in Nat,
           s.start <= u, s.elapsed \in 0 .. u
    PROVE  TimerUpdate(s, c, x, u).s.elapsed \in 0 .. u
<1> DEFINE hit == Triggered(c, s.last, x)
           z == [s EXCEPT !.last = Bit(High(x))]
<1>1. hit \in BOOLEAN
  BY DEF Triggered, High, Triggers
<1>2. /\ z \in TimerStates /\ z.state = s.state
      /\ z.start = s.start /\ z.elapsed = s.elapsed
  <2>1. Bit(High(x)) \in {0, 1}
    BY BitNumber
  <2> QED
    BY <2>1 DEF TimerStates
<1> HIDE DEF hit, z
<1> DEFINE t == IF z.state = "IDLE" THEN IF hit THEN Started(z, c, u) ELSE z
                ELSE IF z.state = "RUNNING" THEN Running(z, c, hit, u)
                ELSE IF c.autoReset THEN [z EXCEPT !.state = "IDLE", !.out = Bit(c.mode = "DELAY_ON")]
                ELSE z
<1>3. TimerUpdate(s, c, x, u) = Result(t, t.out)
  BY <1>2 DEF TimerUpdate, hit, z, TimerStates
<1>4. t.elapsed \in 0 .. u
  <2>1. CASE z.state = "IDLE"
    <3>1. Started(z, c, u).elapsed = 0
      BY <1>2 DEF Started, TimerStates
    <3> QED
      BY <1>1, <1>2, <2>1, <3>1
  <2>2. CASE z.state = "EXPIRED"
    <3>1. [z EXCEPT !.state = "IDLE", !.out = Bit(c.mode = "DELAY_ON")].elapsed = z.elapsed
      BY <1>2 DEF TimerStates
    <3> QED
      BY <1>2, <2>2, <3>1
  <2>3. CASE z.state = "RUNNING"
    <3> DEFINE again == hit /\ c.mode = "RETRIGGERABLE"
               y == [z EXCEPT !.start = IF again THEN u ELSE @,
                              !.elapsed = IF again THEN 0 ELSE u - z.start,
                              !.out = IF again THEN 1 ELSE @]
    <3>1. DOMAIN y = {"state", "out", "last", "start", "elapsed"} /\ y.elapsed \in 0 .. u
      <4>1. u - z.start \in 0 .. u
        BY <1>2 DEF TimerStates
      <4>2. DOMAIN z = {"state", "out", "last", "start", "elapsed"}
        BY <1>2 DEF TimerStates
      <4>3. DOMAIN y = DOMAIN z
        OBVIOUS
      <4>4. y.elapsed = IF again THEN 0 ELSE u - z.start
        BY <4>2
      <4> QED
        BY <4>1, <4>2, <4>3, <4>4
    <3>2. t = Running(z, c, hit, u)
      BY <2>3
    <3>3. \/ t = TimerReset(y)
          \/ \E v : t = Expired(y, v)
          \/ \E v : t = [y EXCEPT !.out = v]
          \/ \E v, w : t = [y EXCEPT !.out = v, !.start = w]
          \/ t = y
      <4> DEFINE due == y.elapsed >= c.ms
      <4>1. t = CASE c.mode = "DELAY_ON" ->
                       IF Released(c, hit) THEN TimerReset(y) ELSE IF due THEN Expired(y, 1) ELSE [y EXCEPT !.out = 0]
                  [] c.mode = "DELAY_OFF" ->
                       IF hit THEN [y EXCEPT !.out = 1, !.start = u] ELSE IF due THEN Expired(y, 0) ELSE y
                  [] c.mode = "BLINK" ->
                       IF Released(c, hit) THEN TimerReset(y)
                       ELSE [y EXCEPT !.out = Bit(y.elapsed % (c.on + c.off) < c.on)]
                  [] OTHER -> IF due THEN Expired(y, 0) ELSE y
        BY <3>2 DEF Running
      <4> HIDE DEF y, t, due, again
      <4>2. CASE c.mode = "DELAY_ON"
        <5>1. t = IF Released(c, hit) THEN TimerReset(y) ELSE IF due THEN Expired(y, 1) ELSE [y EXCEPT !.out = 0]
          BY <4>1, <4>2
        <5> QED
          BY <5>1
      <4>3. CASE c.mode = "DELAY_OFF"
        <5>1. t = IF hit THEN [y EXCEPT !.out = 1, !.start = u] ELSE IF due THEN Expired(y, 0) ELSE y
          BY <4>1, <4>3
        <5> QED
          BY <5>1
      <4>4. CASE c.mode = "BLINK"
        <5> DEFINE v == Bit(y.elapsed % (c.on + c.off) < c.on)
        <5>1. t = IF Released(c, hit) THEN TimerReset(y) ELSE [y EXCEPT !.out = v]
          BY <4>1, <4>4
        <5> HIDE DEF v
        <5> QED
          BY <5>1
      <4>5. CASE c.mode \notin {"DELAY_ON", "DELAY_OFF", "BLINK"}
        <5>1. t = IF due THEN Expired(y, 0) ELSE y
          BY <4>1, <4>5
        <5> QED
          BY <5>1
      <4> QED
        BY <4>2, <4>3, <4>4, <4>5
    <3> HIDE DEF y, t
    <3>4. t.elapsed = y.elapsed \/ t.elapsed = 0
      BY <3>1, <3>3 DEF TimerReset, Expired
    <3>5. 0 \in 0 .. u
      OBVIOUS
    <3> QED
      BY <3>1, <3>4, <3>5
  <2> HIDE DEF t
  <2> QED
    BY <1>2, <2>1, <2>2, <2>3 DEF TimerStates
<1> HIDE DEF t
<1> QED
  BY <1>3, <1>4 DEF Result

-----------------------------------------------------------------------------
(* What holds of the state and the history of any channel.                 *)

BistableTypes == {"SR_LATCH", "D_LATCH", "D", "T", "TOGGLE", "JK"}

TableTypes == {"TABLE_2D", "TABLE_3D"}

\* What the state s and the history l of a channel say of its values, at time t.
ValueInv(c, s, l, t) ==
    /\ c.type = "SMA" => SmaInv(s, SmaWindow(c), l)
    /\ c.type = "MEDIAN" => MedianInv(s, MedianWindow(c), l)
    /\ c.type \in {"EMA", "RATE_LIMIT"} => FollowerInv(s, l, 1)
    /\ c.type = "LOWPASS" => FollowerInv(s, l, Scale)
    /\ c.type = "DEBOUNCE" => BouncingInv(s, l)
    /\ c.type = "TIMER" => s \in TimerStates /\ s.start <= t /\ s.elapsed \in 0 .. t
    /\ c.type = "COUNTER" => s \in CounterStates
    /\ c.type \in {"HYSTERESIS", "WINDOW"} => ComparatorInv(c, s, l)
    /\ c.type = "MULTILEVEL" => LevelInv(c, s, l)
    /\ c.type = "PID" => PidInv(c, s, l)
    /\ c.type \in BistableTypes => s \in Bistable
    /\ c.type \in TableTypes /\ l # <<>> => TableOk(c, l[Len(l)].in, l[Len(l)].out)
    /\ c.type = "MATH" /\ l # <<>> => l[Len(l)].out \in Int32

LEMMA WindowsAre ==
    ASSUME NEW c, c.window \in Int
    PROVE  /\ SmaWindow(c) \in Nat /\ SmaWindow(c) > 0
           /\ MedianWindow(c) \in Nat /\ MedianWindow(c) > 0
<1> DEFINE w == c.window
<1>1. w \in Int /\ FilterMax \in Nat /\ FilterMax >= 3
  BY EngineAssumption DEF EngineAssumption
<1>2. SmaWindow(c) = Clamp(w, 1, FilterMax) /\ MedianWindow(c) = Clamp(w, 3, FilterMax)
  BY DEF SmaWindow, MedianWindow
<1> HIDE DEF w
<1>3. Clamp(w, 1, FilterMax) \in 1 .. FilterMax
  BY <1>1, ClampIs
<1>4. Clamp(w, 3, FilterMax) \in 3 .. FilterMax
  BY <1>1, ClampIs
<1> QED
  BY <1>1, <1>2, <1>3, <1>4

\* A block that starts afresh.
LEMMA ValueAtRest ==
    ASSUME config \in Configs, NEW c \in Channels, NEW t \in Nat
    PROVE  ValueInv(c, Fresh(c), <<>>, t)
<1>1. Accepted(c)
  BY ConfigsAssumption DEF ConfigsAssumption, Channels
<1>2. CASE c.type \in {"SMA", "MEDIAN"}
  <2>1. c.window \in Int
    BY <1>1, <1>2 DEF Accepted
  <2> DEFINE w == SmaWindow(c)
             m == MedianWindow(c)
  <2>2. w \in Nat /\ w > 0 /\ m \in Nat /\ m > 0
    BY <2>1, WindowsAre
  <2>3. (c.type = "SMA" => Fresh(c) = Ring(w)) /\ (c.type = "MEDIAN" => Fresh(c) = Ring(m))
    BY DEF Fresh
  <2> HIDE DEF w, m
  <2>4. SmaInv(Ring(w), w, <<>>) /\ MedianInv(Ring(m), m, <<>>)
    BY <2>2, SmaAtRest, MedianAtRest
  <2> QED
    BY <1>2, <2>3, <2>4 DEF ValueInv, BistableTypes, TableTypes, w, m
<1>3. CASE c.type \in {"EMA", "RATE_LIMIT", "LOWPASS"}
  <2>1. Fresh(c) = Follower
    BY <1>3 DEF Fresh
  <2>2. \A b : FollowerInv(Follower, <<>>, b)
    BY FollowerAtRest
  <2> QED
    BY <1>3, <2>1, <2>2 DEF ValueInv, BistableTypes, TableTypes
<1>4. CASE c.type = "DEBOUNCE"
  <2>1. Fresh(c) = Bouncing
    BY <1>4 DEF Fresh
  <2> QED
    BY <1>4, <2>1, BouncingAtRest DEF ValueInv, BistableTypes, TableTypes
<1>5. CASE c.type = "TIMER"
  <2>1. Fresh(c) = Idle
    BY <1>5 DEF Fresh
  <2>2. Idle \in TimerStates /\ Idle.start = 0 /\ Idle.elapsed = 0
    BY DEF Idle, TimerStates
  <2> QED
    BY <1>5, <2>1, <2>2 DEF ValueInv, BistableTypes, TableTypes
<1>6. CASE c.type = "COUNTER"
  <2>1. Fresh(c) = Zeroed /\ Zeroed \in CounterStates
    BY <1>6 DEF Fresh, Zeroed, CounterStates
  <2> QED
    BY <1>6, <2>1 DEF ValueInv, BistableTypes, TableTypes
<1>7. CASE c.type \in {"HYSTERESIS", "WINDOW"}
  <2>1. Fresh(c) = Comparator /\ ComparatorInv(c, Comparator, <<>>)
    BY <1>7, ComparatorAtRest DEF Fresh
  <2> QED
    BY <1>7, <2>1 DEF ValueInv, BistableTypes, TableTypes
<1>8. CASE c.type = "MULTILEVEL"
  <2>1. Fresh(c) = Comparator
    BY <1>8 DEF Fresh
  <2>2. c.up \in Seq(Int)
    BY <1>1, <1>8 DEF Accepted
  <2>3. Len(c.up) \in Nat
    BY <2>2, LenProperties
  <2>4. LevelInv(c, Comparator, <<>>)
    BY <2>3 DEF LevelInv, Comparator, NumberRead
  <2> QED
    BY <1>8, <2>1, <2>4 DEF ValueInv, BistableTypes, TableTypes
<1>9. CASE c.type = "PID"
  <2>1. Fresh(c) = AtRest /\ PidInv(c, AtRest, <<>>)
    BY <1>9 DEF Fresh, PidInv, AtRest
  <2> QED
    BY <1>9, <2>1 DEF ValueInv, BistableTypes, TableTypes
<1>10. CASE c.type \in BistableTypes
  <2>1. Fresh(c) = FlipFlop
    BY <1>10 DEF Fresh, BistableTypes
  <2>2. FlipFlop \in Bistable
    BY DEF FlipFlop, Bistable
  <2> QED
    BY <1>10, <2>1, <2>2 DEF ValueInv, BistableTypes, TableTypes
<1>11. CASE c.type \in TableTypes \cup {"SWITCH", "LOGIC", "NUMBER", "MATH"}
  BY <1>11 DEF ValueInv, BistableTypes, TableTypes
<1> QED
  BY <1>1, <1>2, <1>3, <1>4, <1>5, <1>6, <1>7, <1>8, <1>9, <1>10, <1>11
     DEF Accepted, Blocks, BistableTypes, TableTypes

\* One turn of a channel that reads numbers gives a number.
LEMMA ValueTurn ==
    ASSUME config \in Configs, now' \in Nat, dt' \in Nat, NEW c \in Channels, NEW t \in Nat, t <= now',
           NEW s, NEW l, IsSeq(l), ValueInv(c, s, l, t),
           NEW in \in Seq(Int), Len(in) >= Arity(c), NEW old \in Int, NEW r, r = Exec(c, s, in, old)
    PROVE  ValueInv(c, r.s, Append(l, Seen(in, r.y)), now') /\ r.y \in Int
<1> DEFINE e == Seen(in, r.y)
           m == Append(l, e)
<1> SUFFICES ValueInv(c, r.s, m, now') /\ r.y \in Int
  OBVIOUS
<1>1. Accepted(c)
  BY ConfigsAssumption DEF ConfigsAssumption, Channels
<1>2. e.in = in /\ e.out = r.y /\ e.dt = dt' /\ e.at = now'
  BY DEF Seen
<1>3. in[1] \in Int /\ (Arity(c) \in {2, 3} => in[2] \in Int) /\ (Arity(c) = 3 => in[3] \in Int) /\ Len(in) > 0
  BY DEF Arity
<1> HIDE DEF e
<1>4. m # <<>> /\ m[Len(m)] = e
  <2>1. Len(m) = Len(l) + 1 /\ m[Len(l) + 1] = e /\ Len(l) \in Nat
    BY Grown
  <2>2. Len(<<>>) = 0
    OBVIOUS
  <2> HIDE DEF m
  <2> QED
    BY <2>1, <2>2
<1>5. CASE c.type = "SMA"
  <2> DEFINE w == SmaWindow(c)
  <2>1. c.window \in Int
    BY <1>1, <1>5 DEF Accepted
  <2>2. w \in Nat /\ w > 0
    BY <2>1, WindowsAre
  <2>3. SmaInv(s, w, l)
    BY <1>5 DEF ValueInv
  <2>4. r = SmaUpdate(s, c, e.in[1])
    BY <1>2, <1>5 DEF Exec, Library
  <2>5. w = SmaWindow(c)
    OBVIOUS
  <2> HIDE DEF w
  <2>6. SmaInv(r.s, w, m) /\ r.y \in Int
    BY <1>2, <1>3, <2>2, <2>3, <2>4, <2>5, SmaTurn
  <2>9. SmaInv(r.s, SmaWindow(c), m) /\ r.y \in Int
    BY <2>6 DEF w
  <2> HIDE DEF m
  <2> QED
    BY <1>5, <2>9 DEF ValueInv, BistableTypes, TableTypes
<1>6. CASE c.type = "MEDIAN"
  <2> DEFINE w == MedianWindow(c)
  <2>1. c.window \in Int
    BY <1>1, <1>6 DEF Accepted
  <2>2. w \in Nat /\ w > 0
    BY <2>1, WindowsAre
  <2>3. MedianInv(s, w, l)
    BY <1>6 DEF ValueInv
  <2>4. r = MedianUpdate(s, c, e.in[1])
    BY <1>2, <1>6 DEF Exec, Library
  <2>5. w = MedianWindow(c)
    OBVIOUS
  <2> HIDE DEF w
  <2>6. MedianInv(r.s, w, m) /\ r.y \in Int
    BY <1>2, <1>3, <2>2, <2>3, <2>4, <2>5, MedianTurn
  <2>9. MedianInv(r.s, MedianWindow(c), m) /\ r.y \in Int
    BY <2>6 DEF w
  <2> HIDE DEF m
  <2> QED
    BY <1>6, <2>9 DEF ValueInv, BistableTypes, TableTypes
<1>7. CASE c.type = "EMA"
  <2>1. c.alpha \in Int
    BY <1>1, <1>7 DEF Accepted
  <2>2. FollowerInv(s, l, 1)
    BY <1>7 DEF ValueInv
  <2>3. r = EmaUpdate(s, c, e.in[1])
    BY <1>2, <1>7 DEF Exec, Library
  <2>4. e.in[1] \in Int /\ e.out = r.y /\ e.dt \in Nat
    BY <1>2, <1>3
  <2>9. FollowerInv(r.s, m, 1) /\ r.y \in Int
    BY <1>7, <2>1, <2>2, <2>3, <2>4, EmaTurn
  <2> HIDE DEF m
  <2> QED
    BY <1>7, <2>9 DEF ValueInv, BistableTypes, TableTypes
<1>8. CASE c.type = "RATE_LIMIT"
  <2>1. c.ms \in Nat
    BY <1>1, <1>8 DEF Accepted
  <2>2. FollowerInv(s, l, 1)
    BY <1>8 DEF ValueInv
  <2>3. r = RateUpdate(s, c, e.in[1], dt')
    BY <1>2, <1>8 DEF Exec, Library
  <2>4. e.in[1] \in Int /\ e.out = r.y /\ e.dt \in Nat
    BY <1>2, <1>3
  <2>9. FollowerInv(r.s, m, 1) /\ r.y \in Int
    BY <1>8, <2>1, <2>2, <2>3, <2>4, RateTurn
  <2> HIDE DEF m
  <2> QED
    BY <1>8, <2>9 DEF ValueInv, BistableTypes, TableTypes
<1>9. CASE c.type = "LOWPASS"
  <2>1. c.ms \in Nat
    BY <1>1, <1>9 DEF Accepted
  <2>2. FollowerInv(s, l, Scale)
    BY <1>9 DEF ValueInv
  <2>3. r = LpfUpdate(s, c, e.in[1], dt')
    BY <1>2, <1>9 DEF Exec, Library
  <2>4. e.in[1] \in Int /\ e.out = r.y /\ e.dt \in Nat
    BY <1>2, <1>3
  <2>9. FollowerInv(r.s, m, Scale) /\ r.y \in Int
    BY <1>9, <2>1, <2>2, <2>3, <2>4, LpfTurn
  <2> HIDE DEF m
  <2> QED
    BY <1>9, <2>9 DEF ValueInv, BistableTypes, TableTypes
<1>10. CASE c.type = "DEBOUNCE"
  <2>1. c.ms \in Nat
    BY <1>1, <1>10 DEF Accepted
  <2>2. BouncingInv(s, l)
    BY <1>10 DEF ValueInv
  <2>3. r = DebounceUpdate(s, c, e.in[1], dt')
    BY <1>2, <1>10 DEF Exec, Library
  <2>4. e.in[1] \in Int /\ e.out = r.y /\ e.dt \in Nat
    BY <1>2, <1>3
  <2>9. BouncingInv(r.s, m) /\ r.y \in Int
    BY <1>10, <2>1, <2>2, <2>3, <2>4, BouncingTurn
  <2> HIDE DEF m
  <2> QED
    BY <1>10, <2>9 DEF ValueInv, BistableTypes, TableTypes
<1>11. CASE c.type = "HYSTERESIS"
  <2>1. c.low \in Int /\ c.high \in Int
    BY <1>1, <1>11 DEF Accepted
  <2>2. ComparatorInv(c, s, l)
    BY <1>11 DEF ValueInv
  <2>3. r = IF c.type = "HYSTERESIS" THEN HysteresisUpdate(s, c, e.in[1]) ELSE WindowUpdate(s, c, e.in[1])
    BY <1>2, <1>11 DEF Exec
  <2>4. e.in[1] \in Int /\ e.out = r.y /\ e.dt \in Nat
    BY <1>2, <1>3
  <2>9. ComparatorInv(c, r.s, m) /\ r.y \in Int
    BY <1>11, <2>1, <2>2, <2>3, <2>4, ComparatorTurn
  <2> HIDE DEF m
  <2> QED
    BY <1>11, <2>9 DEF ValueInv, BistableTypes, TableTypes
<1>12. CASE c.type = "WINDOW"
  <2>1. c.low \in Int /\ c.high \in Int /\ c.band \in Int
    BY <1>1, <1>12 DEF Accepted
  <2>2. ComparatorInv(c, s, l)
    BY <1>12 DEF ValueInv
  <2>3. r = IF c.type = "HYSTERESIS" THEN HysteresisUpdate(s, c, e.in[1]) ELSE WindowUpdate(s, c, e.in[1])
    BY <1>2, <1>12 DEF Exec, Library
  <2>4. e.in[1] \in Int /\ e.out = r.y /\ e.dt \in Nat
    BY <1>2, <1>3
  <2>9. ComparatorInv(c, r.s, m) /\ r.y \in Int
    BY <1>12, <2>1, <2>2, <2>3, <2>4, ComparatorTurn
  <2> HIDE DEF m
  <2> QED
    BY <1>12, <2>9 DEF ValueInv, BistableTypes, TableTypes
<1>13. CASE c.type = "MULTILEVEL"
  <2>1. c.up \in Seq(Int) /\ c.down \in Seq(Int) /\ Len(c.up) = Len(c.down)
    BY <1>1, <1>13 DEF Accepted
  <2>2. LevelInv(c, s, l)
    BY <1>13 DEF ValueInv
  <2>3. r = MultilevelUpdate(s, c, e.in[1])
    BY <1>2, <1>13 DEF Exec, Library
  <2>4. e.in[1] \in Int /\ e.out = r.y /\ e.dt \in Nat
    BY <1>2, <1>3
  <2>9. LevelInv(c, r.s, m) /\ r.y \in Int
    BY <1>13, <2>1, <2>2, <2>3, <2>4, LevelTurn
  <2> HIDE DEF m
  <2> QED
    BY <1>13, <2>9 DEF ValueInv, BistableTypes, TableTypes
<1>14. CASE c.type = "PID"
  <2>1. PidSettings(c)
    BY <1>1, <1>14 DEF Accepted, PidSettings
  <2>2. PidInv(c, s, l)
    BY <1>14 DEF ValueInv
  <2>3. r = PidUpdate(s, c, e.in[1], e.in[2], e.dt)
    BY <1>2, <1>14 DEF Exec
  <2>4. e.in[1] \in Int /\ e.out = r.y /\ e.dt \in Nat /\ e.in[2] \in Int
    BY <1>2, <1>3, <1>14 DEF Arity
  <2>9. PidInv(c, r.s, m) /\ r.y \in Int
    BY <1>14, <2>1, <2>2, <2>3, <2>4, PidTurn
  <2> HIDE DEF m
  <2> QED
    BY <1>14, <2>9 DEF ValueInv, BistableTypes, TableTypes
<1>15. CASE c.type = "TIMER"
  <2>1. c.ms \in Nat /\ c.trigger \in Triggers
    BY <1>1, <1>15 DEF Accepted, Triggers
  <2>2. s \in TimerStates /\ s.start <= now' /\ s.elapsed \in 0 .. now'
    BY <1>15 DEF ValueInv, TimerStates
  <2>3. r = TimerUpdate(s, c, in[1], now')
    BY <1>15 DEF Exec
  <2> DEFINE u == now'
             q == TimerUpdate(s, c, in[1], u)
  <2>4. u \in Nat /\ s.start <= u /\ s.elapsed \in 0 .. u
    BY <2>2
  <2> HIDE DEF u
  <2>5. q.y = q.s.out /\ q.s \in TimerStates /\ q.s.start <= u
    BY <2>1, <2>2, <2>4, TimerDoes
  <2>6. q.s.elapsed \in 0 .. u
    BY <2>1, <2>2, <2>4, ElapsedIs
  <2>7. q.s.out \in Int
    BY <2>5 DEF TimerStates
  <2>8. r = q
    BY <2>3 DEF u
  <2> HIDE DEF q
  <2>9. r.s \in TimerStates /\ r.s.start <= now' /\ r.s.elapsed \in 0 .. now' /\ r.y \in Int
    BY <2>5, <2>6, <2>7, <2>8 DEF u
  <2> HIDE DEF m
  <2> QED
    BY <1>15, <2>9 DEF ValueInv, BistableTypes, TableTypes
<1>16. CASE c.type = "COUNTER"
  <2>1. /\ {c.min, c.max, c.initial} \subseteq Int /\ c.min <= c.max
        /\ c.step \in Int \ {0} /\ {c.edge, c.wrap} \subseteq BOOLEAN
    BY <1>1, <1>16 DEF Accepted
  <2>2. s \in CounterStates
    BY <1>16 DEF ValueInv
  <2>3. r = CounterUpdate(s, c, in[1], in[2], in[3])
    BY <1>16 DEF Exec
  <2>9. r.s \in CounterStates /\ r.y \in Int
    BY ONLY <2>1, <2>2, <2>3, CounterNumber
  <2> HIDE DEF m
  <2> QED
    BY <1>16, <2>9 DEF ValueInv, BistableTypes, TableTypes
<1>17. CASE c.type = "SR_LATCH"
  <2> DEFINE q == IF High(in[2]) THEN 0 ELSE IF High(in[1]) THEN 1 ELSE s.q
  <2>1. s \in Bistable
    BY <1>17 DEF ValueInv, BistableTypes
  <2>2. q \in {0, 1}
    BY <2>1, BitNumber DEF Bistable
  <2>3. r = Latch(s, q)
    BY <1>17 DEF Exec, Library, SrLatch
  <2> HIDE DEF q
  <2>9. r.s \in Bistable /\ r.y \in Int
    BY <2>1, <2>2, <2>3, LatchIs
  <2> HIDE DEF m
  <2> QED
    BY <1>17, <2>9 DEF ValueInv, BistableTypes, TableTypes
<1>18. CASE c.type = "D_LATCH"
  <2> DEFINE q == IF High(in[2]) THEN Bit(High(in[1])) ELSE s.q
  <2>1. s \in Bistable
    BY <1>18 DEF ValueInv, BistableTypes
  <2>2. q \in {0, 1}
    BY <2>1, BitNumber DEF Bistable
  <2>3. r = Latch(s, q)
    BY <1>18 DEF Exec, Library, DLatch
  <2> HIDE DEF q
  <2>9. r.s \in Bistable /\ r.y \in Int
    BY <2>1, <2>2, <2>3, LatchIs
  <2> HIDE DEF m
  <2> QED
    BY <1>18, <2>9 DEF ValueInv, BistableTypes, TableTypes
<1>19. CASE c.type = "D"
  <2> DEFINE q == Bit(High(in[1]))
  <2>1. s \in Bistable
    BY <1>19 DEF ValueInv, BistableTypes
  <2>2. q \in {0, 1}
    BY <2>1, BitNumber DEF Bistable
  <2>3. r = Clocked(s, in[2], q)
    BY <1>19 DEF Exec, Library, DFlipFlop
  <2> HIDE DEF q
  <2>9. r.s \in Bistable /\ r.y \in Int
    BY <2>1, <2>2, <2>3, ClockedIs
  <2> HIDE DEF m
  <2> QED
    BY <1>19, <2>9 DEF ValueInv, BistableTypes, TableTypes
<1>20. CASE c.type = "T"
  <2> DEFINE q == IF High(in[1]) THEN 1 - s.q ELSE s.q
  <2>1. s \in Bistable
    BY <1>20 DEF ValueInv, BistableTypes
  <2>2. q \in {0, 1}
    BY <2>1, BitNumber DEF Bistable
  <2>3. r = Clocked(s, in[2], q)
    BY <1>20 DEF Exec, Library, TFlipFlop
  <2> HIDE DEF q
  <2>9. r.s \in Bistable /\ r.y \in Int
    BY <2>1, <2>2, <2>3, ClockedIs
  <2> HIDE DEF m
  <2> QED
    BY <1>20, <2>9 DEF ValueInv, BistableTypes, TableTypes
<1>21. CASE c.type = "TOGGLE"
  <2> DEFINE q == 1 - s.q
  <2>1. s \in Bistable
    BY <1>21 DEF ValueInv, BistableTypes
  <2>2. q \in {0, 1}
    BY <2>1, BitNumber DEF Bistable
  <2>3. r = Clocked(s, in[1], q)
    BY <1>21 DEF Exec, Library, Toggle
  <2> HIDE DEF q
  <2>9. r.s \in Bistable /\ r.y \in Int
    BY <2>1, <2>2, <2>3, ClockedIs
  <2> HIDE DEF m
  <2> QED
    BY <1>21, <2>9 DEF ValueInv, BistableTypes, TableTypes
<1>22. CASE c.type = "JK"
  <2> DEFINE q == IF High(in[1]) /\ High(in[2]) THEN 1 - s.q ELSE IF High(in[1]) THEN 1 ELSE IF High(in[2]) THEN 0 ELSE s.q
  <2>1. s \in Bistable
    BY <1>22 DEF ValueInv, BistableTypes
  <2>2. q \in {0, 1}
    BY <2>1, BitNumber DEF Bistable
  <2>3. r = Clocked(s, in[3], q)
    BY <1>22 DEF Exec, Library, JkFlipFlop
  <2> HIDE DEF q
  <2>9. r.s \in Bistable /\ r.y \in Int
    BY <2>1, <2>2, <2>3, ClockedIs
  <2> HIDE DEF m
  <2> QED
    BY <1>22, <2>9 DEF ValueInv, BistableTypes, TableTypes
<1>23. CASE c.type = "TABLE_2D"
  <2>1. c.x \in Seq(Int) /\ c.y \in Seq(Int) /\ c.x # <<>> /\ Len(c.x) = Len(c.y)
    BY <1>1, <1>23 DEF Accepted
  <2> DEFINE y == Lookup2d(c, in[1])
  <2>2. r = Result(s, y)
    BY <1>23 DEF Exec
  <2>3. y \in Int /\ TableOk(c, in, y)
    BY <1>3, <1>23, <2>1, PlaneIs
  <2> HIDE DEF y
  <2>4. r.y = y
    BY <2>2 DEF Result
  <2>9. TableOk(c, m[Len(m)].in, m[Len(m)].out) /\ r.y \in Int
    BY <1>2, <1>4, <2>3, <2>4
  <2> HIDE DEF m
  <2> QED
    BY <1>23, <2>9 DEF ValueInv, BistableTypes, TableTypes
<1>24. CASE c.type = "TABLE_3D"
  <2>1. /\ c.x \in Seq(Int) /\ c.y \in Seq(Int) /\ c.x # <<>> /\ c.y # <<>>
        /\ c.z \in [DOMAIN c.y -> [DOMAIN c.x -> Int]] /\ in[2] \in Int
    BY <1>1, <1>3, <1>24 DEF Accepted, Arity
  <2> DEFINE y == Lookup3d(c, in[1], in[2])
  <2>2. r = Result(s, y)
    BY <1>24 DEF Exec, Library
  <2>3. y \in Int /\ TableOk(c, in, y)
    BY <1>3, <1>24, <2>1, SpaceIs
  <2> HIDE DEF y
  <2>4. r.y = y
    BY <2>2 DEF Result
  <2>9. TableOk(c, m[Len(m)].in, m[Len(m)].out) /\ r.y \in Int
    BY <1>2, <1>4, <2>3, <2>4
  <2> HIDE DEF m
  <2> QED
    BY <1>24, <2>9 DEF ValueInv, BistableTypes, TableTypes
<1>25. CASE c.type = "MATH"
  <2>1. {c.min, c.max} \subseteq Int32 /\ {c.num, c.den} \subseteq Int
    BY <1>1, <1>25 DEF Accepted, Int32
  <2> DEFINE y == MathResult(c, in)
  <2>2. r = Result(s, y)
    BY <1>25 DEF Exec
  <2>3. y \in Int32
    BY <1>3, <2>1, MathNumber
  <2> HIDE DEF y
  <2>4. r.y = y
    BY <2>2 DEF Result
  <2>9. m[Len(m)].out \in Int32 /\ r.y \in Int
    BY <1>2, <1>4, <2>3, <2>4, RangeIs
  <2> HIDE DEF m
  <2> QED
    BY <1>25, <2>9 DEF ValueInv, BistableTypes, TableTypes
<1>26. CASE c.type = "SWITCH"
  <2>1. c.default \in Int /\ IsSeq(c.cases) /\ \A i \in DOMAIN c.cases : c.cases[i].result \in Int
    BY <1>1, <1>26 DEF Accepted, IsSeq
  <2> DEFINE y == SwitchOf(c, in[1])
  <2>2. r = Result(s, y)
    BY <1>26 DEF Exec
  <2>3. y \in Int
    BY <2>1, SwitchNumber
  <2> HIDE DEF y
  <2>9. r.y \in Int
    BY <2>2, <2>3 DEF Result
  <2> HIDE DEF m
  <2> QED
    BY <1>26, <2>9 DEF ValueInv, BistableTypes, TableTypes
<1>27. CASE c.type = "LOGIC"
  <2> DEFINE y == LogicOf(c.op, c, in)
             z == IF c.invert THEN 1 - y ELSE y
  <2>2. r = Result(s, z)
    BY <1>27 DEF Exec
  <2>3. y \in {0, 1}
    BY LogicNumber
  <2> HIDE DEF y
  <2>9. r.y \in Int
    BY <2>2, <2>3 DEF Result
  <2> HIDE DEF m
  <2> QED
    BY <1>27, <2>9 DEF ValueInv, BistableTypes, TableTypes
<1>28. CASE c.type = "NUMBER"
  <2>1. c.value \in Int
    BY <1>1, <1>28 DEF Accepted
  <2>2. r = Result(s, IF c.readonly THEN c.value ELSE old)
    BY <1>28 DEF Exec
  <2>9. r.y \in Int
    BY <2>1, <2>2 DEF Result
  <2> HIDE DEF m
  <2> QED
    BY <1>28, <2>9 DEF ValueInv, BistableTypes, TableTypes
<1> QED
  BY <1>1, <1>5, <1>6, <1>7, <1>8, <1>9, <1>10, <1>11, <1>12, <1>13, <1>14, <1>15, <1>16, <1>17, <1>18, <1>19, <1>20, <1>21, <1>22, <1>23, <1>24, <1>25, <1>26, <1>27, <1>28 DEF Accepted, Blocks

ValuesInv ==
    /\ now <= config.until /\ dt \in 0 .. now
    /\ val \in [Sources \cup Ids -> Int]
    /\ \A c \in Channels : ValueInv(c, st[c.id], log[c.id], now)

\* What a channel reads, as numbers.
LEMMA ReadsNumbers ==
    ASSUME NEW S, NEW ids \in Seq(S), NEW v \in [S -> Int], NEW in, in = [i \in DOMAIN ids |-> v[ids[i]]]
    PROVE  in \in Seq(Int) /\ Len(in) = Len(ids)
<1> DEFINE n == Len(ids)
<1>1. n \in Nat /\ DOMAIN ids = 1 .. n /\ \A i \in 1 .. n : ids[i] \in S
  OBVIOUS
<1> HIDE DEF n
<1>2. in \in [1 .. n -> Int]
  BY <1>1
<1>3. in \in Seq(Int) /\ Len(in) = n
  BY <1>1, <1>2
<1> QED
  BY <1>3 DEF n

\* Where a channel of a configuration reads.
LEMMA ReadsThere ==
    ASSUME config \in Configs, NEW c \in Channels
    PROVE  c.in \in Seq(Sources \cup Ids) /\ Len(c.in) >= Arity(c)
<1>1. /\ c.in \in Seq(DOMAIN config.inputs \cup {None} \cup {d.id : d \in Channels})
      /\ Len(c.in) >= Arity(c)
  BY ConfigsAssumption DEF ConfigsAssumption, Channels
<1>2. Ids = {d.id : d \in Channels}
  BY OwnIds
<1>3. DOMAIN config.inputs \cup {None} \cup {d.id : d \in Channels} = Sources \cup Ids
  BY <1>2 DEF Sources
<1> QED
  BY <1>1, <1>3

Valued(e) == e.val \in [Sources \cup Ids -> Int]

Valid(e, c, t) == ValueInv(c, e.st[c.id], e.log[c.id], t)

\* One channel of a cycle.
LEMMA ProcessValue ==
    ASSUME config \in Configs, now' \in Nat, dt' \in Nat, NEW t \in Nat, t <= now',
           NEW e, Kept(e), Valued(e), NEW c \in Channels, IsSeq(e.log[c.id]), Valid(e, c, t)
    PROVE  Valued(Process(e, c)) /\ Valid(Process(e, c), c, now')
<1> DEFINE in == [i \in DOMAIN c.in |-> e.val[c.in[i]]]
           old == e.val[c.id]
           s == e.st[c.id]
           l == e.log[c.id]
           r == Exec(c, s, in, old)
           f == Process(e, c)
<1>1. /\ f.st = [e.st EXCEPT ![c.id] = r.s]
      /\ f.log = [e.log EXCEPT ![c.id] = Append(@, Seen(in, r.y))]
      /\ f.val = [e.val EXCEPT ![c.id] = r.y]
  BY DEF Process, Seen
<1>2. c.id \in Ids /\ DOMAIN e.st = Ids /\ DOMAIN e.log = Ids
  BY OwnIds DEF Kept
<1>3. in \in Seq(Int) /\ Len(in) >= Arity(c)
  <2>1. c.in \in Seq(Sources \cup Ids) /\ Len(c.in) >= Arity(c)
    BY ReadsThere
  <2> DEFINE ids == c.in
             v == e.val
             S == Sources \cup Ids
  <2>2. ids \in Seq(S) /\ v \in [S -> Int] /\ in = [i \in DOMAIN ids |-> v[ids[i]]]
    BY <2>1 DEF Valued
  <2> HIDE DEF ids, v, S, in
  <2>3. in \in Seq(Int) /\ Len(in) = Len(ids)
    BY <2>2, ReadsNumbers
  <2> QED
    BY <2>1, <2>3 DEF ids
<1>4. old \in Int
  BY <1>2 DEF Valued
<1>5. ValueInv(c, s, l, t)
  BY DEF Valid
<1> HIDE DEF in, old, f
<1>6. f.st[c.id] = r.s /\ f.log[c.id] = Append(l, Seen(in, r.y))
  BY <1>1, <1>2
<1> HIDE DEF s, l
<1>7. IsSeq(l)
  BY DEF l
<1>8. PICK q : q = r
  OBVIOUS
<1>9. ValueInv(c, q.s, Append(l, Seen(in, q.y)), now') /\ q.y \in Int
  BY <1>3, <1>4, <1>5, <1>7, <1>8, ValueTurn
<1>10. Valued(f)
  <2> HIDE DEF r
  <2> QED
    BY <1>1, <1>2, <1>8, <1>9 DEF Valued
<1>11. Valid(f, c, now')
  <2> HIDE DEF r
  <2> QED
    BY <1>6, <1>8, <1>9 DEF Valid
<1> QED
  BY <1>10, <1>11 DEF f

\* A cycle gives numbers.
LEMMA EachValue ==
    ASSUME Shape, ValuesInv, NEW step \in Nat, Cycle(step)
    PROVE  ValuesInv'
<1> DEFINE s == config.channels
           N == Len(s)
<1>1. PICK x \in [DOMAIN config.inputs -> UNION {config.inputs[i] : i \in DOMAIN config.inputs}] :
         /\ \A i \in DOMAIN x : x[i] \in config.inputs[i]
         /\ LET read == [i \in DOMAIN val |-> IF i \in DOMAIN x THEN x[i] ELSE val[i]]
                e == FoldLeft(Process, [val |-> read, st |-> st, log |-> log], config.channels)
            IN  val' = e.val /\ st' = e.st /\ log' = e.log
  BY DEF Cycle
<1> DEFINE read == [i \in DOMAIN val |-> IF i \in DOMAIN x THEN x[i] ELSE val[i]]
           e0 == [val |-> read, st |-> st, log |-> log]
<1>2. val' = Pass(e0, s).val /\ st' = Pass(e0, s).st /\ log' = Pass(e0, s).log
  BY <1>1 DEF Pass
<1>3. e0.val = read /\ e0.st = st /\ e0.log = log
  OBVIOUS
<1>4. read \in [Sources \cup Ids -> Int]
  <2>1. \A i \in DOMAIN config.inputs : config.inputs[i] \subseteq Int
    BY ConfigsAssumption DEF ConfigsAssumption, Shape
  <2>2. \A i \in DOMAIN x : x[i] \in Int
    BY <1>1, <2>1
  <2> QED
    BY <2>2 DEF ValuesInv
<1> HIDE DEF e0, read
<1>5. /\ config \in Configs /\ config' = config /\ now \in Nat /\ now' \in Nat /\ now <= now' /\ dt' \in 0 .. now'
      /\ now' <= config.until
  <2>1. /\ config \in Configs /\ now \in Nat /\ last \in Nat /\ last <= now
        /\ now' = now + step /\ dt' = (IF last > 0 THEN now' - last ELSE 0) /\ config' = config
        /\ now + step <= config.until
    BY DEF Shape, Cycle, UpdateTime
  <2> QED
    BY <2>1
<1>6. IsSeq(s)
  BY <1>5, ConfigsAssumption DEF ConfigsAssumption, IsSeq
<1>7. PICK a : /\ a[0] = e0 /\ Pass(e0, s) = a[N]
               /\ \A k \in 1 .. N : a[k] = Process(a[k - 1], s[k])
  <2>1. PICK b : Passed(b, s, e0)
    BY <1>6, PassSteps, Zenon
  <2> QED
    BY <2>1, Zenon DEF Passed
<1>8. /\ N \in Nat
      /\ \A i, j \in 1 .. N : s[i].id = s[j].id => i = j
      /\ \A i \in 1 .. N : s[i].id \in Ids /\ s[i] \in Channels
      /\ Channels = {s[i] : i \in 1 .. N}
  BY <1>5, OwnIds DEF Channels, ToSet
<1> HIDE DEF s, N
<1> DEFINE Good == {k \in 0 .. N :
                      /\ Kept(a[k]) /\ Valued(a[k])
                      /\ \A j \in 1 .. N : IF j <= k THEN Valid(a[k], s[j], now')
                            ELSE a[k].st[s[j].id] = st[s[j].id] /\ a[k].log[s[j].id] = log[s[j].id]}
<1>9. 0 \in Good
  BY <1>3, <1>4, <1>7, <1>8 DEF Kept, Shape, Valued
<1>10. ASSUME NEW k \in 0 .. N - 1, k \in Good PROVE k + 1 \in Good
  <2>1. k + 1 \in 1 .. N /\ k + 1 \in 0 .. N /\ (k + 1) - 1 = k /\ k \in 0 .. N
    BY <1>8
  <2>2. a[k + 1] = Process(a[k], s[k + 1])
    BY <1>7, <2>1
  <2>3. Kept(a[k]) /\ Valued(a[k]) /\ s[k + 1].id \in Ids /\ s[k + 1] \in Channels
    BY <1>8, <1>10, <2>1
  <2>4. a[k].st[s[k + 1].id] = st[s[k + 1].id] /\ a[k].log[s[k + 1].id] = log[s[k + 1].id]
    BY <1>10, <2>1
  <2>5. Kept(a[k + 1])
    BY <2>2, <2>3, ProcessOne
  <2>6. IsSeq(a[k].log[s[k + 1].id]) /\ Valid(a[k], s[k + 1], now)
    BY <2>3, <2>4 DEF Shape, ValuesInv, Valid
  <2>7. Valued(a[k + 1]) /\ Valid(a[k + 1], s[k + 1], now')
    <3>1. dt' \in Nat
      BY <1>5
    <3> DEFINE b == a[k]
               c == s[k + 1]
    <3>2. Kept(b) /\ Valued(b) /\ c \in Channels /\ IsSeq(b.log[c.id]) /\ Valid(b, c, now)
      BY <2>3, <2>6
    <3> HIDE DEF b, c
    <3>3. Valued(Process(b, c)) /\ Valid(Process(b, c), c, now')
      BY <1>5, <3>1, <3>2, ProcessValue
    <3> QED
      BY <2>2, <3>3 DEF b, c
  <2>8. ASSUME NEW j \in 1 .. N, j # k + 1
        PROVE  a[k + 1].st[s[j].id] = a[k].st[s[j].id] /\ a[k + 1].log[s[j].id] = a[k].log[s[j].id]
    <3>1. s[j].id # s[k + 1].id /\ s[j].id \in Ids
      BY <1>8, <2>1, <2>8
    <3>2. \A i \in Ids : i # s[k + 1].id => /\ Process(a[k], s[k + 1]).st[i] = a[k].st[i]
                                            /\ Process(a[k], s[k + 1]).log[i] = a[k].log[i]
      BY <2>3, ProcessOne
    <3> HIDE DEF Good
    <3> QED
      BY <2>2, <3>1, <3>2
  <2>9. ASSUME NEW j \in 1 .. N
        PROVE  IF j <= k + 1 THEN Valid(a[k + 1], s[j], now')
               ELSE a[k + 1].st[s[j].id] = st[s[j].id] /\ a[k + 1].log[s[j].id] = log[s[j].id]
    <3>1. CASE j = k + 1
      BY <2>7, <3>1
    <3>2. CASE j <= k
      <4>1. Valid(a[k], s[j], now') /\ j # k + 1
        BY <1>10, <3>2
      <4> QED
        BY <2>8, <3>2, <4>1 DEF Valid
    <3>3. CASE j > k + 1
      <4>1. a[k].st[s[j].id] = st[s[j].id] /\ a[k].log[s[j].id] = log[s[j].id]
        BY <1>10, <3>3
      <4> QED
        BY <2>8, <3>3, <4>1
    <3> QED
      BY <3>1, <3>2, <3>3
  <2> QED
    BY <2>1, <2>5, <2>7, <2>9
<1>11. N \in Good
  <2> HIDE DEF Good
  <2> QED
    BY <1>8, <1>9, <1>10, Reaches
<1>12. Valued(a[N]) /\ \A j \in 1 .. N : Valid(a[N], s[j], now')
  BY <1>11
<1>13. a[N].st = st' /\ a[N].log = log' /\ a[N].val = val'
  BY <1>2, <1>7
<1>14. Ids' = Ids /\ Channels' = Channels /\ Sources' = Sources
  BY <1>5 DEF Ids, Channels, Sources
<1>15. val' \in [Sources \cup Ids -> Int] /\ \A c \in Channels : ValueInv(c, st'[c.id], log'[c.id], now')
  BY <1>8, <1>12, <1>13 DEF Valued, Valid
<1> QED
  BY <1>5, <1>14, <1>15 DEF ValuesInv

LEMMA ValuesStart == Init => ValuesInv
<1> SUFFICES ASSUME Init PROVE ValuesInv
  OBVIOUS
<1>1. config \in Configs /\ now = 0 /\ last = 0 /\ dt = 0 /\ log = [i \in Ids |-> <<>>]
      /\ val = [i \in Sources \cup Ids |-> 0]
      /\ st = [i \in Ids |-> LET n == CHOOSE n \in DOMAIN config.channels : config.channels[n].id = i
                             IN  Fresh(config.channels[n])]
  BY DEF Init
<1>2. config.until \in Nat
  BY <1>1, ConfigsAssumption DEF ConfigsAssumption
<1>3. ASSUME NEW c \in Channels PROVE ValueInv(c, st[c.id], log[c.id], now)
  <2>1. PICK k \in DOMAIN config.channels : config.channels[k] = c
    BY DEF Channels, ToSet
  <2> DEFINE n == CHOOSE n \in DOMAIN config.channels : config.channels[n].id = c.id
  <2>2. n \in DOMAIN config.channels /\ config.channels[n].id = c.id
    BY <2>1
  <2>3. n = k
    BY <1>1, <2>1, <2>2, OwnIds
  <2>4. c.id \in Ids
    BY <1>1, OwnIds
  <2>5. st[c.id] = Fresh(config.channels[n]) /\ log[c.id] = <<>>
    BY <1>1, <2>4
  <2>6. st[c.id] = Fresh(c)
    BY <2>1, <2>3, <2>5
  <2>7. ValueInv(c, Fresh(c), <<>>, now)
    BY <1>1, ValueAtRest
  <2> QED
    BY <2>5, <2>6, <2>7
<1>4. val \in [Sources \cup Ids -> Int]
  BY <1>1
<1>5. now <= config.until /\ dt \in 0 .. now
  BY <1>1, <1>2
<1> QED
  BY <1>3, <1>4, <1>5 DEF ValuesInv

LEMMA Cleared == ASSUME NEW S, NEW f \in [S -> Int], NEW k PROVE [f EXCEPT ![k] = 0] \in [S -> Int]
<1>1. [f EXCEPT ![k] = 0] = [i \in S |-> IF i = k THEN 0 ELSE f[i]]
  OBVIOUS
<1>2. \A i \in S : (IF i = k THEN 0 ELSE f[i]) \in Int
  OBVIOUS
<1> QED
  BY <1>1, <1>2

LEMMA ValuesReset ==
    ASSUME Shape, ValuesInv, NEW d \in Channels, ResetChannel(d)
    PROVE  ValuesInv'
<1>1. /\ config' = config /\ now' = now /\ dt' = dt /\ config \in Configs /\ now \in Nat
      /\ val' = [val EXCEPT ![d.id] = 0]
      /\ st' = [st EXCEPT ![d.id] = IF d.type = "TIMER" THEN TimerReset(@)
                                    ELSE IF Resets(d) THEN Fresh(d) ELSE @]
      /\ log' = [log EXCEPT ![d.id] = IF Resets(d) THEN <<>> ELSE @]
  BY DEF Shape, ResetChannel
<1>2. Ids' = Ids /\ Channels' = Channels /\ Sources' = Sources
  BY <1>1 DEF Ids, Channels, Sources
<1>3. DOMAIN st = Ids /\ DOMAIN log = Ids /\ d.id \in Ids
  BY <1>1, OwnIds DEF Shape
<1>4. val' \in [Sources \cup Ids -> Int]
  <2> DEFINE S == Sources \cup Ids
  <2>1. val \in [S -> Int] /\ val' = [val EXCEPT ![d.id] = 0]
    BY <1>1 DEF ValuesInv
  <2> HIDE DEF S
  <2>2. val' \in [S -> Int]
    BY ONLY <2>1, Cleared
  <2> QED
    BY <2>2 DEF S
<1>5. ASSUME NEW c \in Channels PROVE ValueInv(c, st'[c.id], log'[c.id], now)
  <2>1. ValueInv(c, st[c.id], log[c.id], now) /\ c.id \in Ids /\ (c.id = d.id => c = d)
    BY <1>1, OwnIds DEF ValuesInv
  <2>2. CASE c.id # d.id
    BY <1>1, <1>3, <2>1, <2>2
  <2>3. CASE c = d /\ c.type = "TIMER"
    <3> DEFINE s == st[c.id]
               z == TimerReset(s)
    <3>1. st'[c.id] = z
      BY <1>1, <1>3, <2>3
    <3>2. s \in TimerStates /\ s.start <= now
      BY <2>1, <2>3 DEF ValueInv
    <3> HIDE DEF s
    <3>3. z \in TimerStates /\ z.start <= now /\ z.elapsed \in 0 .. now
      <4>1. z = [s EXCEPT !.state = "IDLE", !.out = 0, !.elapsed = 0]
        BY DEF TimerReset
      <4> HIDE DEF z
      <4>2. z \in TimerStates /\ z.start = s.start /\ z.elapsed = 0
        BY ONLY <3>2, <4>1 DEF TimerStates
      <4>3. 0 \in 0 .. now
        BY <1>1
      <4> QED
        BY <3>2, <4>2, <4>3
    <3> HIDE DEF z
    <3> QED
      BY <2>3, <3>1, <3>3 DEF ValueInv, BistableTypes, TableTypes
  <2>4. CASE c = d /\ c.type # "TIMER" /\ Resets(c)
    <3>1. st'[c.id] = Fresh(c) /\ log'[c.id] = <<>>
      BY <1>1, <1>3, <2>4
    <3> QED
      BY <1>1, <3>1, ValueAtRest
  <2>5. CASE c = d /\ c.type # "TIMER" /\ ~Resets(c)
    <3>1. st'[c.id] = st[c.id] /\ log'[c.id] = log[c.id]
      BY <1>1, <1>3, <2>5
    <3> QED
      BY <2>1, <3>1
  <2> QED
    BY <2>1, <2>2, <2>3, <2>4, <2>5
<1> QED
  BY <1>1, <1>2, <1>4, <1>5 DEF ValuesInv

\* The values of every channel agree with its state and what it has read, in
\* every reachable state.
THEOREM ValuesAlways == Spec => [](BlocksInv /\ ValuesInv)
<1>1. Init => ValuesInv
  BY ValuesStart
<1>2. BlocksInv /\ ValuesInv /\ [Next]_vars => ValuesInv'
  <2> SUFFICES ASSUME BlocksInv, ValuesInv, [Next]_vars PROVE ValuesInv'
    OBVIOUS
  <2>0. Shape
    BY DEF BlocksInv
  <2>1. ASSUME NEW step \in config.steps, Cycle(step) PROVE ValuesInv'
    <3>1. step \in Nat
      BY <2>0, ConfigsAssumption DEF ConfigsAssumption, Shape
    <3> QED
      BY <2>0, <2>1, <3>1, EachValue
  <2>2. ASSUME NEW i \in DOMAIN config.channels, ResetChannel(config.channels[i]) PROVE ValuesInv'
    <3>1. config.channels[i] \in Channels
      BY DEF Channels, ToSet
    <3> QED
      BY <2>0, <2>2, <3>1, ValuesReset
  <2>3. CASE UNCHANGED vars
    <3>1. config' = config /\ now' = now /\ dt' = dt /\ st' = st /\ log' = log /\ val' = val
      BY <2>3 DEF vars
    <3>2. Ids' = Ids /\ Channels' = Channels /\ Sources' = Sources
      BY <3>1 DEF Ids, Channels, Sources
    <3> QED
      BY <3>1, <3>2 DEF ValuesInv
  <2> QED
    BY <2>1, <2>2, <2>3 DEF Next
<1> QED
  BY <1>1, <1>2, BlocksAlways, PTL DEF Spec

-----------------------------------------------------------------------------
(* The properties.                                                         *)

\* A channel with a history, in a state of both invariants.
LEMMA Known ==
    ASSUME BlocksInv, ValuesInv, NEW types, NEW c \in Of(types)
    PROVE  /\ c \in Channels /\ c.type \in types /\ Accepted(c)
           /\ IsSeq(log[c.id]) /\ log[c.id] # <<>> /\ ValueInv(c, st[c.id], log[c.id], now)
           /\ Cycles(c) = 1 .. Len(log[c.id]) /\ Len(log[c.id]) \in Nat /\ Len(log[c.id]) > 0
<1>1. c \in Channels /\ c.type \in types /\ log[c.id] # <<>>
  BY DEF Of, Channels
<1>2. config \in Configs /\ c.id \in Ids
  BY <1>1, OwnIds DEF BlocksInv, Shape
<1>3. Accepted(c)
  BY <1>1, <1>2, ConfigsAssumption DEF ConfigsAssumption, Channels
<1>4. IsSeq(log[c.id]) /\ ValueInv(c, st[c.id], log[c.id], now)
  BY <1>1, <1>2 DEF BlocksInv, Shape, ValuesInv
<1> DEFINE l == log[c.id]
<1>5. IsSeq(l) /\ l # <<>>
  BY <1>1, <1>4
<1> HIDE DEF l
<1>6. Len(l) \in Nat /\ DOMAIN l = 1 .. Len(l) /\ Len(l) > 0
  BY <1>5, Grown, EmptySeq DEF IsSeq
<1> QED
  BY <1>1, <1>3, <1>4, <1>6 DEF Cycles, l

LEMMA TypesHold == ASSUME BlocksInv, ValuesInv PROVE ExecutorTypeOK
<1>1. config \in Configs /\ now \in 0 .. config.until /\ last \in 0 .. now /\ dt \in 0 .. now
  <2>1. config \in Configs /\ now \in Nat /\ last \in Nat /\ last <= now /\ now <= config.until /\ dt \in 0 .. now
    BY DEF BlocksInv, Shape, ValuesInv
  <2>2. config.until \in Nat
    BY <2>1, ConfigsAssumption DEF ConfigsAssumption
  <2> QED
    BY <2>1, <2>2
<1>2. ASSUME NEW c \in Channels, c.type \in {"SMA", "MEDIAN"}
      PROVE  /\ st[c.id].index \in DOMAIN st[c.id].samples
             /\ st[c.id].count <= Cardinality(DOMAIN st[c.id].samples)
  <2> DEFINE s == st[c.id]
             l == log[c.id]
             w == IF c.type = "SMA" THEN SmaWindow(c) ELSE MedianWindow(c)
  <2>1. c.window \in Int /\ c.id \in Ids
    BY <1>1, <1>2, OwnIds, ConfigsAssumption DEF ConfigsAssumption, Accepted, Channels
  <2>2. w \in Nat /\ w > 0
    BY <2>1, WindowsAre
  <2>3. RingInv(s, w, l)
    BY <1>2 DEF ValuesInv, ValueInv, SmaInv, MedianInv
  <2>4. IsSeq(l)
    BY <2>1 DEF BlocksInv, Shape
  <2> HIDE DEF s, l, w
  <2>5. Len(l) \in Nat
    BY <2>4, Grown
  <2>6. DOMAIN s.samples = 0 .. w - 1 /\ s.index \in 0 .. w - 1 /\ s.count <= w
    BY <2>2, <2>3, <2>5 DEF RingInv, Least
  <2>7. Cardinality(0 .. w - 1) = w
    <3>1. 0 \in Int /\ w - 1 \in Int /\ 0 <= w - 1
      BY <2>2
    <3>2. Cardinality(0 .. w - 1) = (w - 1) - 0 + 1
      BY <2>2, <3>1, FS_Interval
    <3> QED
      BY <2>2, <3>2
  <2> QED
    BY <2>6, <2>7 DEF s
<1>3. ASSUME NEW c \in Channels, c.type = "TIMER"
      PROVE  /\ st[c.id].state \in {"IDLE", "RUNNING", "EXPIRED"}
             /\ st[c.id].start <= now /\ st[c.id].elapsed \in 0..now
  BY <1>3 DEF ValuesInv, ValueInv, TimerStates
<1> QED
  BY <1>1, <1>2, <1>3 DEF ExecutorTypeOK, Channels

LEMMA ChatterNever == ASSUME BlocksInv, ValuesInv PROVE NoChatter
<1>1. ASSUME NEW c \in Of({"HYSTERESIS", "WINDOW"})
      PROVE  LET changes == {k \in Cycles(c) : k > 1 /\ Out(c, k) # Out(c, k - 1)}
                 gap == IF c.type = "HYSTERESIS" THEN c.high - c.low ELSE 2 * c.band
             IN  \A j, k \in changes : j < k /\ changes \cap (j + 1..k - 1) = {} =>
                    (In(c, k) - In(c, j)) \notin (1 - gap)..(gap - 1)
  <2> DEFINE changes == {k \in Cycles(c) : k > 1 /\ Out(c, k) # Out(c, k - 1)}
             gap == IF c.type = "HYSTERESIS" THEN c.high - c.low ELSE 2 * c.band
             l == log[c.id]
             s == st[c.id]
  <2>1. /\ c.type \in {"HYSTERESIS", "WINDOW"} /\ Accepted(c) /\ IsSeq(l)
        /\ ValueInv(c, s, l, now) /\ Cycles(c) = 1 .. Len(l) /\ Len(l) \in Nat
    BY <1>1, Known
  <2>2. c.low \in Int /\ c.high \in Int /\ (c.type = "WINDOW" => c.band \in Int)
    BY <2>1 DEF Accepted
  <2>3. ComparatorInv(c, s, l)
    BY <2>1 DEF ValueInv
  <2>4. /\ \A k \in 1 .. Len(l) : Out(c, k) = l[k].out
        /\ \A k : In(c, k) = l[k].in[1]
    BY DEF Out, In
  <2> HIDE DEF l, s
  <2>5. changes = {k \in 2 .. Len(l) : l[k].out # l[k - 1].out}
    <3>1. \A k \in 1 .. Len(l) : k > 1 => k - 1 \in 1 .. Len(l) /\ k \in 2 .. Len(l)
      BY <2>1
    <3>2. \A k \in 2 .. Len(l) : k \in 1 .. Len(l) /\ k > 1
      BY <2>1
    <3> QED
      BY <2>1, <2>4, <3>1, <3>2
  <2> HIDE DEF changes
  <2>6. ASSUME NEW j \in changes, NEW k \in changes, j < k, changes \cap (j + 1..k - 1) = {}
        PROVE  (In(c, k) - In(c, j)) \notin (1 - gap)..(gap - 1)
    <3>1. j \in 2 .. Len(l) /\ k \in 2 .. Len(l) /\ l[j].out # l[j - 1].out /\ l[k].out # l[k - 1].out
      BY <2>5
    <3>2. \A i \in j + 1 .. k - 1 : l[i].out = l[i - 1].out
      <4> TAKE i \in j + 1 .. k - 1
      <4>1. i \in 2 .. Len(l) /\ i \notin changes
        BY <2>1, <2>6, <3>1
      <4> QED
        BY <2>5, <4>1
    <3>3. (l[k].in[1] - l[j].in[1]) \notin (1 - gap)..(gap - 1)
      BY <2>1, <2>2, <2>3, <2>6, <3>1, <3>2, NoChatterIn
    <3> QED
      BY <2>4, <3>3
  <2> QED
    BY <2>6 DEF changes
<1>2. ASSUME NEW c \in Of({"MULTILEVEL"}), \A i \in DOMAIN c.up : c.down[i] < c.up[i]
      PROVE  LET l == Out(c, End(c))  x == In(c, End(c))
             IN  /\ l > 0 => x > c.down[l]
                 /\ l < Len(c.up) => x < c.up[l + 1]
  <2> DEFINE l == log[c.id]
  <2>1. c.type = "MULTILEVEL" /\ l # <<>> /\ ValueInv(c, st[c.id], l, now) /\ Len(l) > 0
    BY <1>2, Known
  <2>2. Fits(c, l[Len(l)].out, l[Len(l)].in[1])
    BY <1>2, <2>1 DEF ValueInv, LevelInv
  <2>3. Out(c, End(c)) = l[Len(l)].out /\ In(c, End(c)) = l[Len(l)].in[1]
    BY <2>1 DEF Out, In, End
  <2> QED
    BY <2>2, <2>3 DEF Fits
<1> QED
  BY <1>1, <1>2 DEF NoChatter

LEMMA LastShown ==
    ASSUME BlocksInv, ValuesInv, NEW types, NEW c \in Of(types)
    PROVE  LET r == log[c.id][End(c)] IN Out(c, End(c)) = r.out /\ In(c, End(c)) = r.in[1] /\ End(c) = Len(log[c.id])
<1>1. Len(log[c.id]) > 0 /\ Len(log[c.id]) \in Nat
  BY Known
<1> QED
  BY <1>1 DEF Out, In, End

LEMMA TablesHold == ASSUME BlocksInv, ValuesInv PROVE TableInterpolates
<1> SUFFICES ASSUME NEW c \in Of(TableTypes), Increasing(c.x), c.type = "TABLE_3D" => Increasing(c.y)
             PROVE  Out(c, End(c)) \in Min(Near(c, log[c.id][End(c)].in)) .. Max(Near(c, log[c.id][End(c)].in))
  BY DEF TableInterpolates, TableTypes, Near
<1> DEFINE l == log[c.id]
<1>1. c.type \in TableTypes /\ l # <<>> /\ ValueInv(c, st[c.id], l, now)
  BY Known
<1>2. TableOk(c, l[Len(l)].in, l[Len(l)].out)
  BY <1>1 DEF ValueInv
<1>3. Out(c, End(c)) = l[Len(l)].out /\ End(c) = Len(l)
  BY LastShown
<1> QED
  BY <1>2, <1>3 DEF TableOk

LEMMA MathHolds == ASSUME BlocksInv, ValuesInv PROVE MathFitsInt
<1> SUFFICES ASSUME NEW c \in Of({"MATH"}) PROVE Out(c, End(c)) \in IntMin .. IntMax
  BY DEF MathFitsInt
<1> DEFINE l == log[c.id]
<1>1. c.type = "MATH" /\ l # <<>> /\ ValueInv(c, st[c.id], l, now)
  BY Known
<1>2. l[Len(l)].out \in Int32
  BY <1>1 DEF ValueInv
<1>3. Out(c, End(c)) = l[Len(l)].out
  BY LastShown
<1> QED
  BY <1>2, <1>3 DEF Int32

LEMMA PidHolds == ASSUME BlocksInv, ValuesInv PROVE PidLeavesSaturation
<1> SUFFICES ASSUME NEW c \in Of({"PID"}) PROVE PidOk(c, log[c.id][End(c)])
  BY DEF PidLeavesSaturation, PidOk
<1> DEFINE l == log[c.id]
<1>1. c.type = "PID" /\ l # <<>> /\ ValueInv(c, st[c.id], l, now)
  BY Known
<1>2. PidOk(c, l[Len(l)])
  BY <1>1 DEF ValueInv, PidInv
<1> QED
  BY <1>2 DEF End

\* State, comparators, tables and results stay where their settings put them,
\* and a controller without derivative whose integral is kept within its
\* output range leaves a limit once the error points away from it: for any
\* such settings, inputs, cycle times and resets.
THEOREM ValuesAlwaysInBounds == Spec => []ValuesInBounds
<1>1. BlocksInv /\ ValuesInv => ValuesInBounds
  BY TypesHold, ChatterNever, TablesHold, MathHolds, PidHolds DEF ValuesInBounds
<1> QED
  BY <1>1, ValuesAlways, PTL

\* What the property calls the last samples is what the invariant does.
ReadFrom(t, l, first) == t = [k \in 1..(Len(l) - first + 1) |-> l[first + k - 1].in[1]]

LEMMA WindowIs ==
    ASSUME NEW l, IsSeq(l), NumberRead(l), Len(l) > 0, NEW w \in Nat, w > 0,
           NEW m, m = Least(Len(l), w), NEW first, first = Max({1, Len(l) - w + 1}),
           NEW t, ReadFrom(t, l, first)
    PROVE  t = Newest(l, m) /\ Len(t) = m
<1> DEFINE n == Len(l)
<1>1. n \in Nat /\ n > 0
  BY Grown
<1>2. first = n - m + 1 /\ m \in 0 .. n /\ m \in Nat
  <2> DEFINE a == n - w + 1
  <2>1. a \in Int /\ {1, a} \subseteq Int
    BY <1>1
  <2>2. CASE a <= 1
    <3>1. Max({1, a}) = 1
      <4>1. \A x \in {1, a} : x <= 1
        BY <2>2
      <4> HIDE DEF a
      <4> QED
        BY <2>1, <4>1, MaxIs
    <3>2. m = n
      BY <1>1, <2>2 DEF Least
    <3> QED
      BY <1>1, <3>1, <3>2
  <2>3. CASE a > 1
    <3>1. Max({1, a}) = a
      <4>1. \A x \in {1, a} : x <= a
        BY <2>1, <2>3
      <4> HIDE DEF a
      <4> QED
        BY <2>1, <4>1, MaxIs
    <3>2. m = w /\ w <= n
      BY <1>1, <2>3 DEF Least
    <3> QED
      BY <1>1, <3>1, <3>2
  <2> QED
    BY <2>1, <2>2, <2>3
<1>3. n - first + 1 = m /\ \A k \in 1 .. m : first + k - 1 = n - m + k
  <2> HIDE DEF n
  <2>1. n \in Int /\ m \in Int /\ first = n - m + 1
    BY <1>1, <1>2
  <2> QED
    BY ONLY <2>1
<1>4. t = Newest(l, m)
  BY <1>3 DEF Newest, ReadFrom
<1>5. Newest(l, m) \in [1 .. m -> Int]
  BY <1>2, LastNumbers
<1>6. Newest(l, m) \in Seq(Int) /\ Len(Newest(l, m)) = m
  <2> DEFINE f == Newest(l, m)
  <2>1. f \in [1 .. m -> Int] /\ m \in Nat
    BY <1>2, <1>5
  <2> HIDE DEF f
  <2> QED
    BY <2>1 DEF f
<1> QED
  BY <1>4, <1>6

LEMMA WindowsHold == ASSUME BlocksInv, ValuesInv PROVE WindowFiltersExact
<1> SUFFICES ASSUME NEW c \in Of({"SMA", "MEDIAN"})
             PROVE  LET w == IF c.type = "SMA" THEN SmaWindow(c) ELSE MedianWindow(c)
                        first == Max({1, End(c) - w + 1})
                        t == [k \in 1..(End(c) - first + 1) |-> In(c, first + k - 1)]
                        n == Len(t)
                        y == Out(c, End(c))
                    IN  IF c.type = "SMA" THEN y = SumFunction(t) \div n
                        ELSE \E a, b \in {t[k] : k \in 1..n} :
                                /\ Ranked(t, (n + 1) \div 2, a) /\ Ranked(t, (n + 2) \div 2, b)
                                /\ y = (a + b) \div 2
  BY DEF WindowFiltersExact
<1> DEFINE w == IF c.type = "SMA" THEN SmaWindow(c) ELSE MedianWindow(c)
           first == Max({1, End(c) - w + 1})
           t == [k \in 1..(End(c) - first + 1) |-> In(c, first + k - 1)]
           n == Len(t)
           y == Out(c, End(c))
           l == log[c.id]
           s == st[c.id]
<1>1. /\ c.type \in {"SMA", "MEDIAN"} /\ Accepted(c) /\ IsSeq(l) /\ l # <<>> /\ ValueInv(c, s, l, now)
      /\ Len(l) \in Nat /\ Len(l) > 0
  BY Known
<1>2. y = l[Len(l)].out /\ End(c) = Len(l)
  BY LastShown
<1>3. w \in Nat /\ w > 0
  <2>1. c.window \in Int
    BY <1>1 DEF Accepted
  <2> QED
    BY <2>1, WindowsAre
<1>4. RingInv(s, w, l) /\ NumberRead(l)
  BY <1>1 DEF ValueInv, SmaInv, MedianInv
<1> DEFINE m == s.count
<1>5. m = Least(Len(l), w)
  BY <1>4 DEF RingInv
<1>6. t = Newest(l, m) /\ n = m
  <2>1. first = Max({1, Len(l) - w + 1})
    BY <1>2
  <2>2. ReadFrom(t, l, first)
    BY <1>2 DEF In, ReadFrom
  <2> HIDE DEF first, l, w, m, t
  <2>3. /\ IsSeq(l) /\ NumberRead(l) /\ Len(l) > 0 /\ w \in Nat /\ w > 0
        /\ m = Least(Len(l), w)
    BY ONLY <1>1, <1>3, <1>4, <1>5
  <2> QED
    BY ONLY <2>1, <2>2, <2>3, WindowIs
<1>7. CASE c.type = "SMA"
  <2>1. y = SumFunction(Newest(l, m)) \div m
    BY <1>1, <1>2, <1>7 DEF ValueInv, SmaInv
  <2> HIDE DEF t, y, l, s, w, first
  <2> QED
    BY <1>6, <1>7, <2>1 DEF t, w, first, y, m
<1>8. CASE c.type = "MEDIAN"
  <2>1. Middle(Newest(l, m), m, y)
    BY <1>1, <1>2, <1>8 DEF ValueInv, MedianInv
  <2>2. Middle(t, n, y)
    BY <1>6, <2>1
  <2> QED
    BY <1>8, <2>2 DEF Middle
<1> QED
  BY <1>1, <1>7, <1>8

LEMMA InsideHolds == ASSUME BlocksInv, ValuesInv PROVE StaysWithinInputs
<1> SUFFICES ASSUME NEW c \in Of({"SMA", "MEDIAN", "EMA", "LOWPASS", "RATE_LIMIT", "DEBOUNCE"})
             PROVE  LET seen == {In(c, k) : k \in Cycles(c)} IN Out(c, End(c)) \in Min(seen)..Max(seen)
  BY DEF StaysWithinInputs
<1> DEFINE seen == {In(c, k) : k \in Cycles(c)}
           l == log[c.id]
           s == st[c.id]
           f == [k \in 1 .. Len(l) |-> l[k].in[1]]
           S == {f[k] : k \in 1 .. Len(l)}
<1>1. /\ c.type \in {"SMA", "MEDIAN", "EMA", "LOWPASS", "RATE_LIMIT", "DEBOUNCE"}
      /\ Accepted(c) /\ IsSeq(l) /\ l # <<>> /\ ValueInv(c, s, l, now)
      /\ Len(l) \in Nat /\ Len(l) > 0 /\ Cycles(c) = 1 .. Len(l)
  BY Known
<1>2. Out(c, End(c)) = l[Len(l)].out
  BY LastShown
<1>3. Inside(l)
  <2>1. c.type \in {"SMA", "MEDIAN"} => c.window \in Int
    BY <1>1 DEF Accepted
  <2>2. c.type = "SMA" => Inside(l)
    <3> SUFFICES ASSUME c.type = "SMA" PROVE Inside(l)
      OBVIOUS
    <3> DEFINE w == SmaWindow(c)
    <3>1. w \in Nat /\ w > 0 /\ SmaInv(s, w, l) /\ IsSeq(l)
      BY <1>1, <2>1, WindowsAre DEF ValueInv
    <3> HIDE DEF w, s, l
    <3> QED
      BY ONLY <3>1, SmaInside
  <2>3. c.type = "MEDIAN" => Inside(l)
    <3> SUFFICES ASSUME c.type = "MEDIAN" PROVE Inside(l)
      OBVIOUS
    <3> DEFINE w == MedianWindow(c)
    <3>1. w \in Nat /\ w > 0 /\ MedianInv(s, w, l) /\ IsSeq(l)
      BY <1>1, <2>1, WindowsAre DEF ValueInv
    <3> HIDE DEF w, s, l
    <3> QED
      BY ONLY <3>1, MedianInside
  <2>4. c.type \in {"EMA", "LOWPASS", "RATE_LIMIT", "DEBOUNCE"} => Inside(l)
    BY <1>1 DEF ValueInv, FollowerInv, BouncingInv
  <2> QED
    BY <1>1, <2>2, <2>3, <2>4
<1>4. seen = S
  BY <1>1 DEF In
<1>5. f \in [1 .. Len(l) -> Int]
  BY <1>3 DEF Inside, NumberRead
<1> HIDE DEF seen, l
<1>6. S \subseteq Int /\ Min(S) \in S /\ Max(S) \in S /\ \A x \in S : Min(S) <= x /\ x <= Max(S)
  <2> HIDE DEF f
  <2> QED
    BY ONLY <1>1, <1>5, EndsOf
<1>7. \A k \in 1 .. Len(l) : l[k].in[1] \in S
  OBVIOUS
<1> HIDE DEF S
<1> DEFINE lo == Min(S)
           hi == Max(S)
<1>8. lo \in Int /\ hi \in Int /\ \A x \in S : x \in lo .. hi
  <2>1. S \subseteq Int /\ lo \in S /\ hi \in S /\ \A x \in S : lo <= x /\ x <= hi
    BY <1>6
  <2> HIDE DEF lo, hi
  <2> QED
    BY ONLY <2>1
<1> HIDE DEF lo, hi
<1>9. Bounds(l, lo, hi)
  BY <1>7, <1>8 DEF Bounds
<1>10. l[Len(l)].out \in 1 * lo .. 1 * hi
  BY <1>1, <1>3, <1>8, <1>9 DEF Inside, Within
<1>11. 1 * lo = lo /\ 1 * hi = hi
  BY <1>8
<1> QED
  BY <1>2, <1>4, <1>10, <1>11 DEF lo, hi, seen

\* Means and medians are exact over their window, no filter leaves the range
\* of what it has read, and what is steady is taken, for any settings,
\* inputs, cycle times and resets (filter.py, called once in a cycle by a
\* program: the FILTER branch of the executor raises).
THEOREM FiltersAlwaysFaithful == Spec => []FiltersFaithful
<1>1. BlocksInv /\ ValuesInv => WindowFiltersExact /\ StaysWithinInputs
  BY WindowsHold, InsideHolds
<1>2. WindowFiltersExact /\ StaysWithinInputs /\ DebounceTakesSteady => FiltersFaithful
  BY DEF FiltersFaithful
<1> QED
  BY <1>1, <1>2, ValuesAlways, DebounceAlwaysSteady, PTL
=============================================================================
