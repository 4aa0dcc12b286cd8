----------------------------- MODULE TMinProofs -----------------------------
(***************************************************************************)
(* What T-MIN promises, for any windows that fit the sequence numbers, any *)
(* number of frames, sessions, losses and crashes: the windows stay sound  *)
(* always, and while the ends are in the same session each frame is taken  *)
(* once, in order, and acknowledged only when taken.                       *)
(*                                                                         *)
(* While the ends are in the same session (Linked) the invariant treats    *)
(* the line as two streams, one per direction.  The frames of a stream are *)
(* numbered 1, 2, 3... since the session began; the sender has had A of    *)
(* them acknowledged and has sent M, the receiver has taken D, and         *)
(* A <= D <= M <= A + Window.  A message on the line may be late, but the  *)
(* line is a FIFO, so that what overtook a message, or will be taken       *)
(* before it, lies less than a window ahead of it.                         *)
(*                                                                         *)
(* After a disconnect, a crash or a lost RESET (Parted) the line says      *)
(* nothing: the ends may answer each other's old numbers.  What remains is *)
(* what each end guarantees alone (Sound), whatever it reads.              *)
(***************************************************************************)
EXTENDS TMin, Inductions, SequenceTheorems, FiniteSetTheorems, TLAPS

Number == 0 .. SeqCount - 1
Body == Nat \X Nat
Stash == UNION {[K -> Body] : K \in SUBSET Number}
Packet == [kind : {"frame", "ack", "plain"}, seq : Number, to : Number, body : Body \cup {<<>>}]
Message == {m \in Packet : m.kind = "frame" => m.body \in Body}
End == [fifo : Seq(Body), snMin : Number, snMax : Number, rn : Number, order : Seq(Number),
        stash : Stash, nack : Number \cup {NoSeq}, rx : Seq(Body), out : Seq(Message),
        heard : BOOLEAN, active : BOOLEAN]

Acked(Q, s) == Q - Len(s.fifo)
Sent(Q, s) == Acked(Q, s) + InWindow(s)

\* The sender of a stream queued Q frames in session k.
SenderOK(k, Q, s) ==
    /\ InWindow(s) <= Window /\ InWindow(s) <= Len(s.fifo) /\ Len(s.fifo) <= Q
    /\ \A i \in DOMAIN s.fifo : s.fifo[i] = <<k, Acked(Q, s) + i>>

OrderOK(s) ==
    /\ \A i, j \in DOMAIN s.order : s.order[i] = s.order[j] => i = j
    /\ \A q \in Number : q \in Range(s.order) <=> Off(q, s.snMin) < InWindow(s)

\* The receiver r has taken the frames d.
ReceiverOK(k, Q, s, r, d) ==
    /\ Acked(Q, s) <= Len(d) /\ Len(d) <= Sent(Q, s)
    /\ \A i \in DOMAIN d : d[i] = <<k, i>>
    /\ Off(r.rn, s.snMin) = Len(d) - Acked(Q, s)
    /\ \A q \in DOMAIN r.stash :
         /\ Off(q, r.rn) \in 1 .. RxWindow - 1
         /\ Len(d) + 1 + Off(q, r.rn) <= Sent(Q, s)
         /\ r.stash[q] = <<k, Len(d) + 1 + Off(q, r.rn)>>

\* A frame on its way: what was taken or kept is less than a window ahead.
FrameOK(k, Q, s, r, d, m) ==
    LET j == m.body[2]
    IN  /\ m.body \in Body /\ m.body[1] = k /\ 1 <= j /\ j <= Sent(Q, s)
        /\ m.seq = Step(s.snMin, j - 1 - Acked(Q, s))
        /\ Len(d) < j + Window
        /\ \A q \in DOMAIN r.stash : Len(d) + 1 + Off(q, r.rn) < j + Window

FramesOK(k, Q, s, r, d, w) ==
    /\ \A i \in DOMAIN w : w[i].kind = "frame" => FrameOK(k, Q, s, r, d, w[i])
    /\ \A i, j \in DOMAIN w : i < j /\ w[i].kind = "frame" /\ w[j].kind = "frame" =>
            w[i].body[2] < w[j].body[2] + Window

\* An acknowledgement on its way back.
AckOK(Q, s, d, m) ==
    /\ Off(m.seq, s.snMin) <= Len(d) - Acked(Q, s)
    /\ Off(m.seq, s.snMin) + Off(m.to, m.seq) <= InWindow(s)

AcksOK(Q, s, d, w) ==
    /\ \A i \in DOMAIN w : w[i].kind = "ack" => AckOK(Q, s, d, w[i])
    /\ \A i, j \in DOMAIN w : i < j /\ w[i].kind = "ack" /\ w[j].kind = "ack" =>
            Off(w[i].seq, s.snMin) <= Off(w[j].seq, s.snMin)

\* The stream from s to r: w is on its way, and b is on its way back.
Stream(k, Q, s, r, d, w, b) ==
    /\ SenderOK(k, Q, s) /\ OrderOK(s) /\ ReceiverOK(k, Q, s, r, d)
    /\ FramesOK(k, Q, s, r, d, w) /\ AcksOK(Q, s, d, b)

\* Both streams between an end s and its peer p.
Pair(k, Qs, s, ds, ws, Qp, p, dp, wp) ==
    Stream(k, Qs, s, p, dp, ws, wp) /\ Stream(k, Qp, p, s, ds, wp, ws)

Typed ==
    /\ ep \in [Ends -> End] /\ wire \in [Ends -> Seq(Message \cup {Reset})]
    /\ wire["device"] \in Seq(Message)
    /\ accepted \in [Ends -> Seq(Body)] /\ queued \in [Ends -> Nat] /\ session \in [Ends -> Nat]
    /\ open \in BOOLEAN /\ up \in BOOLEAN /\ faults \in 0 .. MaxFaults
    /\ session["host"] <= MaxSession
    /\ Len(wire["device"]) <= LinkCap /\ Len(wire["host"]) <= LinkCap + (IF open THEN 0 ELSE 1)
    /\ \A e \in Ends : ep[e].rx = <<>> /\ ep[e].out = <<>>
    /\ DOMAIN ep["device"].stash = {}

\* What e has sent and its peer may still read: a closed port reads nothing.
Line(e) == IF open \/ e = "host" THEN wire[e] ELSE <<>>

Linked ==
    /\ session["host"] = session["device"] /\ wire["host"] \in Seq(Message)
    /\ Pair(session["device"], queued["device"], ep["device"], accepted["device"], Line("device"),
            queued["host"], ep["host"], accepted["host"], Line("host"))

\* What an end keeps to itself whatever it reads.
StashOK(s) == \A q \in DOMAIN s.stash : Off(q, s.rn) \in 1 .. RxWindow - 1
Sound(k, Q, s) == SenderOK(k, Q, s) /\ OrderOK(s) /\ StashOK(s)
Alone == \A e \in Ends : Sound(session[e], queued[e], ep[e])

\* The host of an older session has left: if its RESET is still to be read, it
\* is the last thing the host sent.
ResetLast ==
    \/ wire["host"] \in Seq(Message)
    \/ ~open /\ \E w \in Seq(Message) : wire["host"] = Append(w, Reset)
Left == ~open => ep["host"] = Fresh /\ accepted["host"] = <<>> /\ queued["host"] = 0
Parted == session["device"] < session["host"] /\ ResetLast /\ Left

LineInv == Typed /\ Alone /\ (Linked \/ Parted)
-----------------------------------------------------------------------------
(* Arithmetic on the circle of numbers.                                    *)

LEMMA Sizes ==
    /\ SeqCount \in Nat /\ Window \in Nat /\ RxWindow \in Nat /\ FifoSize \in Nat /\ LinkCap \in Nat
    /\ SeqCount > 0 /\ Window > 0 /\ RxWindow > 0 /\ FifoSize > 0 /\ LinkCap > 0
    /\ Window + RxWindow <= SeqCount
    /\ StartSeqs \subseteq Number
BY WindowAssumption DEF Number

LEMMA Division ==
    \A x \in Int : /\ x = SeqCount * (x \div SeqCount) + (x % SeqCount)
                   /\ x % SeqCount \in Number /\ x \div SeqCount \in Int
BY Sizes DEF Number

LEMMA IsSeq ==
    ASSUME NEW T, NEW n \in Nat, NEW f \in [1 .. n -> T]
    PROVE  f \in Seq(T)
BY SeqDef

\* The brackets of two concatenations may be moved.
Regroups(f, g, h) == (f \o g) \o h = f \o (g \o h)

LEMMA RegroupMessages ==
    ASSUME NEW f \in Seq(Message), NEW g \in Seq(Message), NEW h \in Seq(Message)
    PROVE  Regroups(f, g, h)
BY ConcatAssociative, SMT DEF Regroups

LEMMA RegroupBodies ==
    ASSUME NEW f \in Seq(Body), NEW g \in Seq(Body), NEW h \in Seq(Body)
    PROVE  Regroups(f, g, h)
BY ConcatAssociative, SMT DEF Regroups

\* What is left of a division is unique.
LEMMA Remainder ==
    ASSUME NEW x \in Int, NEW q \in Int, NEW r \in Number, x = SeqCount * q + r
    PROVE  x % SeqCount = r
<1> DEFINE k == q - (x \div SeqCount)
<1>1. x = SeqCount * (x \div SeqCount) + (x % SeqCount) /\ x % SeqCount \in Number /\ x \div SeqCount \in Int
  BY Division
<1>2. k \in Int /\ SeqCount * k = (x % SeqCount) - r
  BY <1>1, Sizes DEF Number
<1>3. SeqCount * k < SeqCount /\ SeqCount * k > -SeqCount
  BY <1>1, <1>2, Sizes DEF Number
<1> HIDE DEF k
<1>4. \A i \in Int : (i >= 1 => SeqCount * i >= SeqCount) /\ (i <= -1 => SeqCount * i <= -SeqCount)
  BY Sizes
<1>5. k = 0
  BY <1>2, <1>3, <1>4, Sizes
<1>6. (x % SeqCount) - r = 0
  BY <1>2, <1>5, Sizes
<1> QED
  BY <1>1, <1>6 DEF Number

\* Small numbers are their own remainder, others wrap once.
LEMMA Small == \A x \in Number : x % SeqCount = x
<1> TAKE x \in Number
<1>1. x \in Int /\ x = SeqCount * 0 + x
  BY Sizes DEF Number
<1> QED
  BY <1>1, Remainder

LEMMA Wraps == \A x \in Int : -SeqCount <= x /\ x < 0 => x % SeqCount = x + SeqCount
<1> TAKE x \in Int
<1> HAVE -SeqCount <= x /\ x < 0
<1>1. x + SeqCount \in Number /\ x = SeqCount * (-1) + (x + SeqCount)
  BY Sizes DEF Number
<1> QED
  BY <1>1, Remainder

\* Remainders may be taken before adding.
LEMMA AddFirst == \A x, y \in Int : ((x % SeqCount) + y) % SeqCount = (x + y) % SeqCount
<1> TAKE x, y \in Int
<1> DEFINE z == (x % SeqCount) + y
<1>1. x = SeqCount * (x \div SeqCount) + (x % SeqCount) /\ x % SeqCount \in Int /\ x \div SeqCount \in Int
  BY Division DEF Number
<1>2. z = SeqCount * (z \div SeqCount) + (z % SeqCount) /\ z % SeqCount \in Number /\ z \div SeqCount \in Int
  BY <1>1, Division
<1>3. x + y = SeqCount * (x \div SeqCount + z \div SeqCount) + (z % SeqCount)
  <2>0. z = (x % SeqCount) + y /\ z \in Int
    BY <1>1
  <2>1. x + y = SeqCount * (x \div SeqCount) + (SeqCount * (z \div SeqCount) + (z % SeqCount))
    <3>1. x + y = SeqCount * (x \div SeqCount) + z
      BY <1>1, <2>0, Sizes
    <3> HIDE DEF z
    <3> QED
      BY <3>1, <1>2
  <2>2. SeqCount * (x \div SeqCount) + SeqCount * (z \div SeqCount) =
           SeqCount * (x \div SeqCount + z \div SeqCount)
    BY <1>1, <1>2, Sizes
  <2> HIDE DEF z
  <2>3. z % SeqCount \in Int /\ SeqCount * (x \div SeqCount) \in Int /\ SeqCount * (z \div SeqCount) \in Int
    BY <1>1, <1>2, Sizes DEF Number
  <2> QED
    BY <2>1, <2>2, <2>3
<1>4. (x + y) % SeqCount = z % SeqCount
  <2>1. x + y \in Int /\ x \div SeqCount + z \div SeqCount \in Int
    BY <1>1, <1>2
  <2> HIDE DEF z
  <2> QED
    BY <1>2, <1>3, <2>1, Remainder
<1> QED
  BY <1>4

LEMMA SubtractFirst == \A x, y \in Int : (y - (x % SeqCount)) % SeqCount = (y - x) % SeqCount
<1> TAKE x, y \in Int
<1> DEFINE r == x % SeqCount
           d == x \div SeqCount
           w == y - x
<1>1. x = SeqCount * d + r /\ r \in Int /\ d \in Int
  BY Division DEF Number
<1>2. w = SeqCount * (w \div SeqCount) + (w % SeqCount) /\ w % SeqCount \in Number /\ w \div SeqCount \in Int
  BY Division
<1> DEFINE v == w \div SeqCount
           u == w % SeqCount
<1>3. y - r = SeqCount * (v + d) + u
  <2>1. y - r = SeqCount * v + SeqCount * d + u
    BY <1>1, <1>2, Sizes DEF Number
  <2> HIDE DEF v, d
  <2>2. v \in Int /\ d \in Int
    BY <1>1, <1>2 DEF v
  <2>3. SeqCount * v + SeqCount * d = SeqCount * (v + d)
    BY <2>2, Sizes
  <2> QED
    BY <2>1, <2>3
<1>4. y - r \in Int /\ v + d \in Int /\ u \in Number
  BY <1>1, <1>2
<1>5. (y - r) % SeqCount = u
  <2> HIDE DEF v, d, u, r
  <2> QED
    BY <1>3, <1>4, Remainder
<1> QED
  BY <1>5

\* Where numbers lie on the circle.
LEMMA OffTyped == \A q, f \in Int : Off(q, f) \in Number
BY Division DEF Off

LEMMA Numbers == Number \subseteq Nat /\ Number \subseteq Int /\ 0 \in Number
BY Sizes DEF Number

LEMMA OffNat == \A q, f \in Int : Off(q, f) \in Nat /\ Off(q, f) \in Int /\ Off(q, f) < SeqCount
BY OffTyped, Sizes DEF Number

LEMMA StepTyped == \A f, n \in Int : Step(f, n) \in Number
BY Division DEF Step

LEMMA StepStep == \A f, m, n \in Int : Step(Step(f, m), n) = Step(f, m + n)
<1> TAKE f, m, n \in Int
<1>1. f + m \in Int /\ (((f + m) % SeqCount) + n) % SeqCount = ((f + m) + n) % SeqCount
  BY AddFirst
<1>2. (f + m) + n = f + (m + n)
  OBVIOUS
<1> QED
  BY <1>1, <1>2 DEF Step

LEMMA Place == \A f \in Int, i \in Number : Off(Step(f, i), f) = i
<1> TAKE f \in Int, i \in Number
<1>1. Off(((f + i) % SeqCount), f) = ((f + i) - f) % SeqCount
  <2>1. f + i \in Int /\ -f \in Int
    BY Sizes DEF Number
  <2>2. (((f + i) % SeqCount) + (-f)) % SeqCount = ((f + i) + (-f)) % SeqCount
    BY <2>1, AddFirst
  <2>3. (f + i) % SeqCount \in Int
    BY <2>1, Division DEF Number
  <2>4. ((f + i) % SeqCount) + (-f) = ((f + i) % SeqCount) - f /\ (f + i) + (-f) = (f + i) - f
    BY <2>1, <2>3
  <2> QED
    BY <2>2, <2>4 DEF Off
<1>2. (f + i) - f = i
  BY Sizes DEF Number
<1> QED
  BY <1>1, <1>2, Small DEF Step

LEMMA Placed == \A q \in Number, f \in Int : q = Step(f, Off(q, f))
<1> TAKE q \in Number, f \in Int
<1>1. (((q - f) % SeqCount) + f) % SeqCount = ((q - f) + f) % SeqCount
  BY AddFirst, Sizes DEF Number
<1>2. (q - f) % SeqCount \in Int
  BY Division, Sizes DEF Number
<1>3. (q - f) + f = q /\ ((q - f) % SeqCount) + f = f + ((q - f) % SeqCount)
  BY <1>2, Sizes DEF Number
<1> QED
  BY <1>1, <1>3, Small DEF Off, Step

LEMMA SamePlace == \A q, r \in Number, f \in Int : Off(q, f) = Off(r, f) => q = r
BY Placed

LEMMA Turn == \A q, m, f \in Int : Off(q, m) = (Off(q, f) - Off(m, f)) % SeqCount
<1> TAKE q, m, f \in Int
<1> DEFINE x == q - f
           y == m - f
<1>1. x \in Int /\ y \in Int /\ (y % SeqCount) \in Int /\ (x % SeqCount) \in Int
  BY Division DEF Number
<1>2. (x - (y % SeqCount)) % SeqCount = (x - y) % SeqCount
  BY <1>1, SubtractFirst
<1>3. ((x % SeqCount) + (-(y % SeqCount))) % SeqCount = (x + (-(y % SeqCount))) % SeqCount
  <2>1. -(y % SeqCount) \in Int
    BY <1>1
  <2> QED
    BY <1>1, <2>1, AddFirst
<1>4. (x % SeqCount) + (-(y % SeqCount)) = (x % SeqCount) - (y % SeqCount)
      /\ x + (-(y % SeqCount)) = x - (y % SeqCount)
  BY <1>1
<1>5. x - y = q - m
  OBVIOUS
<1> QED
  BY <1>2, <1>3, <1>4, <1>5 DEF Off

\* Seen from a number that lies before q, and from one that lies after.
LEMMA Forward ==
    \A q, m, f \in Int : Off(m, f) <= Off(q, f) => Off(q, m) = Off(q, f) - Off(m, f)
<1> TAKE q, m, f \in Int
<1> HAVE Off(m, f) <= Off(q, f)
<1>1. Off(q, f) \in Number /\ Off(m, f) \in Number
  BY OffTyped
<1>2. Off(q, f) - Off(m, f) \in Number
  BY <1>1, Sizes DEF Number
<1> QED
  BY <1>2, Turn, Small

LEMMA Backward ==
    \A q, m, f \in Int : Off(q, f) < Off(m, f) => Off(q, m) = Off(q, f) - Off(m, f) + SeqCount
<1> TAKE q, m, f \in Int
<1> HAVE Off(q, f) < Off(m, f)
<1>1. Off(q, f) \in Number /\ Off(m, f) \in Number
  BY OffTyped
<1>2. Off(q, f) - Off(m, f) \in Int /\ -SeqCount <= Off(q, f) - Off(m, f) /\ Off(q, f) - Off(m, f) < 0
  BY <1>1, Sizes DEF Number
<1> QED
  BY <1>2, Turn, Wraps
-----------------------------------------------------------------------------
(* The two folds of the model, step by step.                               *)

Keeps(S, kept, q) == IF q \in S THEN Append(kept, q) ELSE kept

\* a lists the states of end e as it reads the messages ms one after the other.
ReadThrough(e, s0, ms, a) ==
    /\ a[0] = s0
    /\ \A k \in 1 .. Len(ms) : a[k] = Received(e, a[k - 1], ms[k])
    /\ Read(e, s0, ms) = a[Len(ms)]

LEMMA ReadSteps ==
    ASSUME NEW e, NEW s0, NEW T, NEW ms \in Seq(T)
    PROVE  \E a : ReadThrough(e, s0, ms, a)
<1> DEFINE Value(h, t) == IF t = {} THEN s0 ELSE Received(e, h[t \ {Max(t)}], ms[Max(t)])
           Folded(h, n) == h = [t \in SUBSET (1 .. n) |-> Value(h, t)]
           Good == {n \in Nat : \E h : Folded(h, n)}
           N == Len(ms)
<1>0. N \in Nat /\ DOMAIN ms = 1 .. N
  BY LenProperties
<1>1. 0 \in Good
  <2>1. Folded([t \in SUBSET (1 .. 0) |-> s0], 0)
    OBVIOUS
  <2> QED
    BY <2>1
<1>2. ASSUME NEW k \in 0 .. N - 1, k \in Good PROVE k + 1 \in Good
  <2>1. PICK h : Folded(h, k)
    BY <1>2
  <2> DEFINE new == [t \in SUBSET (1 .. k + 1) |->
                        IF k + 1 \in t THEN Received(e, h[t \ {k + 1}], ms[k + 1]) ELSE h[t]]
  <2>2. ASSUME NEW t \in SUBSET (1 .. k + 1), k + 1 \in t PROVE new[t] = Value(new, t)
    <3>1. Max(t) = k + 1 /\ t \ {Max(t)} \in SUBSET (1 .. k)
      <4>1. k \in Nat /\ t \subseteq 1 .. k + 1
        BY <1>0
      <4> QED
        BY ONLY <2>2, <4>1, MaxOfInterval
    <3>2. t \ {k + 1} \in SUBSET (1 .. k + 1) /\ k + 1 \notin t \ {k + 1}
      BY <3>1
    <3>3. new[t] = Received(e, h[t \ {k + 1}], ms[k + 1]) /\ new[t \ {k + 1}] = h[t \ {k + 1}]
      BY <2>2, <3>2
    <3> HIDE DEF new
    <3> QED
      BY <2>2, <3>1, <3>3
  <2>3. ASSUME NEW t \in SUBSET (1 .. k + 1), k + 1 \notin t PROVE new[t] = Value(new, t)
    <3>1. t \in SUBSET (1 .. k)
      BY <2>3
    <3>2. new[t] = h[t] /\ h[t] = Value(h, t)
      <4>1. new[t] = h[t]
        BY <2>3
      <4> HIDE DEF new, Value
      <4> QED
        BY <2>1, <3>1, <4>1
    <3>3. CASE t = {}
      <4> HIDE DEF new
      <4> QED
        BY <3>2, <3>3
    <3>4. CASE t # {}
      <4>1. t \ {Max(t)} \in SUBSET (1 .. k + 1) /\ k + 1 \notin t \ {Max(t)}
        BY <2>3
      <4>2. new[t \ {Max(t)}] = h[t \ {Max(t)}]
        BY <4>1
      <4> HIDE DEF new
      <4> QED
        BY <3>2, <3>4, <4>2
    <3> QED
      BY <3>3, <3>4
  <2>4. Folded(new, k + 1)
    <3> HIDE DEF Value
    <3>1. \A t \in SUBSET (1 .. k + 1) : new[t] = Value(new, t)
      BY <2>2, <2>3
    <3>2. new = [t \in SUBSET (1 .. k + 1) |-> new[t]]
      OBVIOUS
    <3> HIDE DEF new
    <3> QED
      BY <3>1, <3>2
  <2> HIDE DEF new, Folded
  <2> QED
    BY <2>4
<1>3. N \in Good
  <2> HIDE DEF Good, N
  <2> QED
    BY <1>0, <1>1, <1>2, Induct
<1>4. PICK g : Folded(g, N) /\ Read(e, s0, ms) = g[1 .. N]
  <2>1. \E h : h = [t \in SUBSET (DOMAIN ms) |-> Value(h, t)]
    BY <1>0, <1>3
  <2>2. \E h : /\ h = [t \in SUBSET (DOMAIN ms) |-> Value(h, t)]
               /\ Read(e, s0, ms) = h[DOMAIN ms]
    BY <2>1 DEF Read, FoldLeft, MapThenFoldSet
  <2> QED
    BY <1>0, <2>2
<1> DEFINE a == [k \in 0 .. N |-> g[1 .. k]]
<1>5. a[0] = s0
  <2>1. 1 .. 0 = {} /\ 0 \in 0 .. N
    BY <1>0
  <2> QED
    BY <1>4, <2>1
<1>6. ASSUME NEW k \in 1 .. N PROVE a[k] = Received(e, a[k - 1], ms[k])
  <2>1. k - 1 \in Nat /\ k - 1 \in 0 .. N /\ k \in 0 .. N /\ (k - 1) + 1 = k
    BY <1>0
  <2>2. 1 .. k \subseteq 1 .. (k - 1) + 1 /\ (k - 1) + 1 \in 1 .. k
    BY <2>1
  <2>3. Max(1 .. k) = k
    BY <2>1, <2>2, MaxOfInterval
  <2>4. (1 .. k) \ {k} = 1 .. k - 1 /\ 1 .. k # {} /\ 1 .. k \in SUBSET (1 .. N)
    <3>1. (1 .. k) \ {k} = 1 .. k - 1
      BY <2>1
    <3>2. k \in 1 .. k /\ \A i \in 1 .. k : i \in 1 .. N
      BY <1>0, <2>1
    <3> QED
      BY <3>1, <3>2
  <2> HIDE DEF N
  <2>5. g[1 .. k] = Received(e, g[1 .. k - 1], ms[k])
    BY <1>4, <2>3, <2>4
  <2> QED
    BY <2>1, <2>5
<1>7. Read(e, s0, ms) = a[Len(ms)]
  BY <1>0, <1>4
<1> HIDE DEF a
<1>8. ReadThrough(e, s0, ms, a)
  BY <1>0, <1>5, <1>6, <1>7 DEF ReadThrough
<1> QED
  BY <1>8

LEMMA OnlySteps ==
    ASSUME NEW S, NEW order \in Seq(Number)
    PROVE  \E a : /\ a[0] = <<>>
                  /\ \A k \in 1 .. Len(order) : a[k] = Keeps(S, a[k - 1], order[k])
                  /\ Only(order, S) = a[Len(order)]
<1> DEFINE Value(h, t) == IF t = {} THEN <<>> ELSE Keeps(S, h[t \ {Max(t)}], order[Max(t)])
           Folded(h, n) == h = [t \in SUBSET (1 .. n) |-> Value(h, t)]
           Good == {n \in Nat : \E h : Folded(h, n)}
           N == Len(order)
<1>0. N \in Nat /\ DOMAIN order = 1 .. N
  BY LenProperties
<1>1. 0 \in Good
  <2>1. Folded([t \in SUBSET (1 .. 0) |-> <<>>], 0)
    OBVIOUS
  <2> QED
    BY <2>1
<1>2. ASSUME NEW k \in 0 .. N - 1, k \in Good PROVE k + 1 \in Good
  <2>1. PICK h : Folded(h, k)
    BY <1>2
  <2> DEFINE new == [t \in SUBSET (1 .. k + 1) |->
                        IF k + 1 \in t THEN Keeps(S, h[t \ {k + 1}], order[k + 1]) ELSE h[t]]
  <2>2. ASSUME NEW t \in SUBSET (1 .. k + 1), k + 1 \in t PROVE new[t] = Value(new, t)
    <3>1. Max(t) = k + 1 /\ t \ {Max(t)} \in SUBSET (1 .. k)
      <4>1. k \in Nat /\ t \subseteq 1 .. k + 1
        BY <1>0
      <4> QED
        BY ONLY <2>2, <4>1, MaxOfInterval
    <3>2. t \ {k + 1} \in SUBSET (1 .. k + 1) /\ k + 1 \notin t \ {k + 1}
      BY <3>1
    <3>3. new[t] = Keeps(S, h[t \ {k + 1}], order[k + 1]) /\ new[t \ {k + 1}] = h[t \ {k + 1}]
      BY <2>2, <3>2
    <3> HIDE DEF new
    <3> QED
      BY <2>2, <3>1, <3>3
  <2>3. ASSUME NEW t \in SUBSET (1 .. k + 1), k + 1 \notin t PROVE new[t] = Value(new, t)
    <3>1. t \in SUBSET (1 .. k)
      BY <2>3
    <3>2. new[t] = h[t] /\ h[t] = Value(h, t)
      <4>1. new[t] = h[t]
        BY <2>3
      <4> HIDE DEF new, Value
      <4> QED
        BY <2>1, <3>1, <4>1
    <3>3. CASE t = {}
      <4> HIDE DEF new
      <4> QED
        BY <3>2, <3>3
    <3>4. CASE t # {}
      <4>1. t \ {Max(t)} \in SUBSET (1 .. k + 1) /\ k + 1 \notin t \ {Max(t)}
        BY <2>3
      <4>2. new[t \ {Max(t)}] = h[t \ {Max(t)}]
        BY <4>1
      <4> HIDE DEF new
      <4> QED
        BY <3>2, <3>4, <4>2
    <3> QED
      BY <3>3, <3>4
  <2>4. Folded(new, k + 1)
    <3> HIDE DEF Value
    <3>1. \A t \in SUBSET (1 .. k + 1) : new[t] = Value(new, t)
      BY <2>2, <2>3
    <3>2. new = [t \in SUBSET (1 .. k + 1) |-> new[t]]
      OBVIOUS
    <3> HIDE DEF new
    <3> QED
      BY <3>1, <3>2
  <2> HIDE DEF new, Folded
  <2> QED
    BY <2>4
<1>3. N \in Good
  <2> HIDE DEF Good, N
  <2> QED
    BY <1>0, <1>1, <1>2, Induct
<1>4. PICK g : Folded(g, N) /\ Only(order, S) = g[1 .. N]
  <2>1. \E h : h = [t \in SUBSET (DOMAIN order) |-> Value(h, t)]
    BY <1>0, <1>3
  <2>2. \E h : /\ h = [t \in SUBSET (DOMAIN order) |-> Value(h, t)]
               /\ Only(order, S) = h[DOMAIN order]
    BY <2>1 DEF Only, Keeps, FoldLeft, MapThenFoldSet
  <2> QED
    BY <1>0, <2>2
<1> DEFINE a == [k \in 0 .. N |-> g[1 .. k]]
<1>5. a[0] = <<>>
  <2>1. 1 .. 0 = {} /\ 0 \in 0 .. N
    BY <1>0
  <2> QED
    BY <1>4, <2>1
<1>6. ASSUME NEW k \in 1 .. N PROVE a[k] = Keeps(S, a[k - 1], order[k])
  <2>1. k - 1 \in Nat /\ k - 1 \in 0 .. N /\ k \in 0 .. N /\ (k - 1) + 1 = k
    BY <1>0
  <2>2. 1 .. k \subseteq 1 .. (k - 1) + 1 /\ (k - 1) + 1 \in 1 .. k
    BY <2>1
  <2>3. Max(1 .. k) = k
    BY <2>1, <2>2, MaxOfInterval
  <2>4. (1 .. k) \ {k} = 1 .. k - 1 /\ 1 .. k # {} /\ 1 .. k \in SUBSET (1 .. N)
    <3>1. (1 .. k) \ {k} = 1 .. k - 1
      BY <2>1
    <3>2. k \in 1 .. k /\ \A i \in 1 .. k : i \in 1 .. N
      BY <1>0, <2>1
    <3> QED
      BY <3>1, <3>2
  <2> HIDE DEF N
  <2>5. g[1 .. k] = Keeps(S, g[1 .. k - 1], order[k])
    BY <1>4, <2>3, <2>4
  <2> QED
    BY <2>1, <2>5
<1>7. Only(order, S) = a[Len(order)]
  BY <1>0, <1>4
<1> HIDE DEF a
<1> QED
  BY <1>5, <1>6, <1>7

\* Only keeps the members of S, in their order.
LEMMA OnlyKeeps ==
    ASSUME NEW S, NEW order \in Seq(Number),
           \A i, j \in DOMAIN order : order[i] = order[j] => i = j
    PROVE  /\ Only(order, S) \in Seq(Number)
           /\ \A q : q \in Range(Only(order, S)) <=> q \in Range(order) /\ q \in S
           /\ \A i, j \in DOMAIN Only(order, S) : Only(order, S)[i] = Only(order, S)[j] => i = j
<1> DEFINE N == Len(order)
           Kept(x, k) ==
              /\ x \in Seq(Number)
              /\ \A q : (\E i \in 1 .. Len(x) : q = x[i]) <=> (q \in S /\ \E i \in 1 .. k : q = order[i])
              /\ \A i, j \in 1 .. Len(x) : x[i] = x[j] => i = j
<1>0. N \in Nat /\ DOMAIN order = 1 .. N /\ \A i \in 1 .. N : order[i] \in Number
  BY LenProperties, ElementOfSeq
<1>1. PICK a : /\ a[0] = <<>>
               /\ \A k \in 1 .. N : a[k] = Keeps(S, a[k - 1], order[k])
               /\ Only(order, S) = a[N]
  BY OnlySteps
<1> DEFINE Good == {k \in 0 .. N : Kept(a[k], k)}
<1>2. 0 \in Good
  <2>1. Kept(<<>>, 0)
    OBVIOUS
  <2>2. 0 \in 0 .. N
    BY <1>0
  <2> HIDE DEF Kept
  <2> QED
    BY <1>1, <2>1, <2>2
<1>3. ASSUME NEW k \in 0 .. N - 1, k \in Good PROVE k + 1 \in Good
  <2> DEFINE x == a[k]
             q == order[k + 1]
  <2>1. Kept(x, k) /\ a[k + 1] = Keeps(S, x, q) /\ q \in Number /\ k + 1 \in 1 .. N
    BY <1>0, <1>1, <1>3
  <2>2. CASE q \notin S
    <3>1. a[k + 1] = x
      BY <2>1, <2>2 DEF Keeps
    <3>2. Kept(x, k + 1)
      BY <1>0, <2>1, <2>2
    <3>3. k + 1 \in 0 .. N
      BY <1>0
    <3> HIDE DEF Kept, x
    <3> QED
      BY <3>1, <3>2, <3>3
  <2>3. CASE q \in S
    <3> DEFINE y == Append(x, q)
    <3>1. a[k + 1] = y
      BY <2>1, <2>3 DEF Keeps
    <3>2. y \in Seq(Number) /\ Len(y) = Len(x) + 1 /\ Len(x) \in Nat
          /\ (\A i \in 1 .. Len(x) : y[i] = x[i]) /\ y[Len(x) + 1] = q
      BY <2>1, AppendProperties, LenProperties
    <3>3. \A i \in 1 .. Len(x) : x[i] # q
      <4> SUFFICES ASSUME NEW i \in 1 .. Len(x), x[i] = q PROVE FALSE
        OBVIOUS
      <4>1. PICK j \in 1 .. k : q = order[j]
        BY <2>1
      <4>2. j \in 1 .. N /\ k + 1 \in 1 .. N /\ j # k + 1
        BY <1>0
      <4> QED
        BY <1>0, <4>1, <4>2
    <3> HIDE DEF x, y
    <3>4. ASSUME NEW p PROVE (\E i \in 1 .. Len(y) : p = y[i]) <=> (p \in S /\ \E i \in 1 .. k + 1 : p = order[i])
      <4>1. (\E i \in 1 .. Len(y) : p = y[i]) <=> (\E i \in 1 .. Len(x) : p = x[i]) \/ p = q
        <5>1. \A i \in 1 .. Len(y) : i \in 1 .. Len(x) \/ i = Len(x) + 1
          BY <3>2
        <5>2. Len(x) + 1 \in 1 .. Len(y) /\ \A i \in 1 .. Len(x) : i \in 1 .. Len(y)
          BY <3>2
        <5>3. ASSUME NEW i \in 1 .. Len(y), p = y[i] PROVE (\E j \in 1 .. Len(x) : p = x[j]) \/ p = q
          <6>1. CASE i \in 1 .. Len(x)
            BY <3>2, <5>3, <6>1
          <6>2. CASE i = Len(x) + 1
            BY <3>2, <5>3, <6>2
          <6> QED
            BY <5>1, <6>1, <6>2
        <5>4. ASSUME NEW i \in 1 .. Len(x), p = x[i] PROVE \E j \in 1 .. Len(y) : p = y[j]
          BY <3>2, <5>2, <5>4
        <5>5. ASSUME p = q PROVE \E j \in 1 .. Len(y) : p = y[j]
          BY <3>2, <5>2, <5>5
        <5> HIDE DEF q
        <5> QED
          BY <5>3, <5>4, <5>5, Zenon
      <4>2. (\E i \in 1 .. k + 1 : p = order[i]) <=> (\E i \in 1 .. k : p = order[i]) \/ p = q
        <5>1. \A i \in 1 .. k + 1 : i \in 1 .. k \/ i = k + 1
          OBVIOUS
        <5>2. k + 1 \in 1 .. k + 1 /\ \A i \in 1 .. k : i \in 1 .. k + 1
          OBVIOUS
        <5> QED
          BY <5>1, <5>2
      <4> HIDE DEF q
      <4> QED
        BY <2>1, <2>3, <4>1, <4>2
    <3>5. \A i, j \in 1 .. Len(y) : y[i] = y[j] => i = j
      <4> TAKE i, j \in 1 .. Len(y)
      <4> HAVE y[i] = y[j]
      <4>1. (i \in 1 .. Len(x) \/ i = Len(x) + 1) /\ (j \in 1 .. Len(x) \/ j = Len(x) + 1)
        BY <3>2
      <4> HIDE DEF q
      <4>2. CASE i \in 1 .. Len(x) /\ j \in 1 .. Len(x)
        BY <2>1, <3>2, <4>2
      <4>3. CASE i \in 1 .. Len(x) /\ j = Len(x) + 1
        BY <3>2, <3>3, <4>3
      <4>4. CASE i = Len(x) + 1 /\ j \in 1 .. Len(x)
        BY <3>2, <3>3, <4>4
      <4> QED
        BY <4>1, <4>2, <4>3, <4>4
    <3>6. Kept(y, k + 1)
      BY <3>2, <3>4, <3>5
    <3>7. k + 1 \in 0 .. N
      BY <1>0
    <3> HIDE DEF Kept
    <3> QED
      BY <3>1, <3>6, <3>7
  <2> QED
    BY <2>2, <2>3
<1>4. Kept(a[N], N)
  <2>1. N \in Good
    <3> HIDE DEF Good, N
    <3>1. 0 .. N \subseteq Good
      BY <1>0, <1>2, <1>3, Induct, Zenon
    <3>2. N \in 0 .. N
      BY <1>0
    <3> QED
      BY <3>1, <3>2
  <2> QED
    BY <2>1
<1> DEFINE o == Only(order, S)
<1>5. o \in Seq(Number) /\ DOMAIN o = 1 .. Len(o)
  BY <1>1, <1>4, LenProperties
<1>6. \A q : q \in Range(o) <=> \E i \in 1 .. Len(o) : q = o[i]
  BY <1>5 DEF Range
<1>7. \A q : q \in Range(order) <=> \E i \in 1 .. N : q = order[i]
  BY <1>0 DEF Range
<1>8. /\ \A q : (\E i \in 1 .. Len(o) : q = o[i]) <=> (q \in S /\ \E i \in 1 .. N : q = order[i])
      /\ \A i, j \in 1 .. Len(o) : o[i] = o[j] => i = j
  BY <1>1, <1>4
<1> HIDE DEF o, N
<1> QED
  BY <1>5, <1>6, <1>7, <1>8 DEF o
-----------------------------------------------------------------------------
(* What a stream allows to change.                                         *)

LEMMA EndTyped ==
    ASSUME NEW s \in End
    PROVE  /\ s.fifo \in Seq(Body) /\ s.snMin \in Number /\ s.snMax \in Number /\ s.rn \in Number
           /\ s.order \in Seq(Number) /\ s.stash \in Stash /\ s.nack \in Number \cup {NoSeq}
           /\ s.rx \in Seq(Body) /\ s.out \in Seq(Message)
           /\ s.heard \in BOOLEAN /\ s.active \in BOOLEAN
           /\ Len(s.fifo) \in Nat /\ DOMAIN s.fifo = 1 .. Len(s.fifo)
           /\ s.snMin \in Int /\ s.snMax \in Int /\ s.rn \in Int
           /\ InWindow(s) = Off(s.snMax, s.snMin) /\ InWindow(s) \in Number /\ InWindow(s) \in Nat
           /\ DOMAIN s.stash \subseteq Number /\ \A q \in DOMAIN s.stash : s.stash[q] \in Body
<1>1. /\ s.fifo \in Seq(Body) /\ s.snMin \in Number /\ s.snMax \in Number /\ s.rn \in Number
      /\ s.order \in Seq(Number) /\ s.stash \in Stash /\ s.nack \in Number \cup {NoSeq}
      /\ s.rx \in Seq(Body) /\ s.out \in Seq(Message) /\ s.heard \in BOOLEAN /\ s.active \in BOOLEAN
  BY DEF End
<1>2. Len(s.fifo) \in Nat /\ DOMAIN s.fifo = 1 .. Len(s.fifo)
  BY <1>1, LenProperties
<1>3. Number \subseteq Int /\ Number \subseteq Nat
  BY Sizes DEF Number
<1>4. InWindow(s) = Off(s.snMax, s.snMin) /\ Off(s.snMax, s.snMin) \in Number
  BY <1>1, <1>3, OffTyped DEF InWindow, Off
<1>5. DOMAIN s.stash \subseteq Number /\ \A q \in DOMAIN s.stash : s.stash[q] \in Body
  BY <1>1 DEF Stash
<1> QED
  BY <1>1, <1>2, <1>3, <1>4, <1>5

LEMMA MessageTyped ==
    ASSUME NEW m \in Message
    PROVE  /\ m.seq \in Number /\ m.to \in Number /\ m.seq \in Int /\ m.to \in Int
           /\ m.kind \in {"frame", "ack", "plain"} /\ m.body \in Body \cup {<<>>}
           /\ m.kind = "frame" => m.body \in Body
<1>1. m \in Packet /\ (m.kind = "frame" => m.body \in Body)
  BY DEF Message
<1>2. /\ m.seq \in Number /\ m.to \in Number
      /\ m.kind \in {"frame", "ack", "plain"} /\ m.body \in Body \cup {<<>>}
  BY <1>1 DEF Packet
<1> QED
  BY <1>1, <1>2, Numbers

LEMMA FrameTyped ==
    ASSUME NEW q \in Number, NEW b \in Body
    PROVE  /\ Frame(q, b) \in Message /\ Frame(q, b).kind = "frame"
           /\ Frame(q, b).seq = q /\ Frame(q, b).body = b
<1>1. Frame(q, b) \in Packet
  BY Numbers DEF Frame, Packet
<1>2. Frame(q, b).kind = "frame" /\ Frame(q, b).seq = q /\ Frame(q, b).body = b
  BY DEF Frame
<1> QED
  BY <1>1, <1>2 DEF Message

LEMMA AckTyped ==
    ASSUME NEW q \in Number, NEW to \in Number
    PROVE  [kind |-> "ack", seq |-> q, to |-> to, body |-> <<>>] \in Message
<1> DEFINE m == [kind |-> "ack", seq |-> q, to |-> to, body |-> <<>>]
<1>1. m \in Packet
  BY DEF Packet
<1>2. m.kind # "frame"
  OBVIOUS
<1> HIDE DEF m
<1> QED
  BY <1>1, <1>2 DEF Message, m

\* v is a stretch of w.
Stretch(v, w) == \E c \in Nat : \A i \in DOMAIN v : i + c \in DOMAIN w /\ v[i] = w[i + c]

LEMMA StretchOfSub ==
    ASSUME NEW w \in Seq(Message), NEW m \in 1 .. Len(w) + 1, NEW n \in 0 .. Len(w)
    PROVE  SubSeq(w, m, n) \in Seq(Message) /\ Stretch(SubSeq(w, m, n), w)
<1>0. Len(w) \in Nat /\ DOMAIN w = 1 .. Len(w)
  BY LenProperties
<1>1. \A i \in m .. n : w[i] \in Message
  BY <1>0, ElementOfSeq
<1> DEFINE v == SubSeq(w, m, n)
<1>2. /\ v \in Seq(Message) /\ Len(v) = (IF m <= n THEN n - m + 1 ELSE 0)
      /\ \A i \in 1 .. n - m + 1 : v[i] = w[m + i - 1]
  BY <1>0, <1>1, SubSeqProperties
<1>3. DOMAIN v = 1 .. Len(v)
  BY <1>2, LenProperties
<1> HIDE DEF v
<1>4. \A i \in DOMAIN v : i + (m - 1) \in DOMAIN w /\ v[i] = w[i + (m - 1)]
  <2> SUFFICES ASSUME NEW i \in DOMAIN v PROVE i + (m - 1) \in DOMAIN w /\ v[i] = w[i + (m - 1)]
    OBVIOUS
  <2>1. m <= n /\ i \in 1 .. n - m + 1 /\ i \in Int
    BY <1>0, <1>2, <1>3
  <2>2. m + i - 1 = i + (m - 1)
    BY <1>0, <2>1
  <2>3. i + (m - 1) \in 1 .. Len(w)
    BY <1>0, <2>1
  <2>4. v[i] = w[m + i - 1]
    BY <1>2, <2>1
  <2> QED
    BY <1>0, <2>2, <2>3, <2>4
<1>5. m - 1 \in Nat
  BY <1>0
<1> QED
  BY <1>2, <1>4, <1>5 DEF v, Stretch

LEMMA StretchOfTail ==
    ASSUME NEW w \in Seq(Message), w # <<>>
    PROVE  Tail(w) \in Seq(Message) /\ Stretch(Tail(w), w)
<1>1. Tail(w) = SubSeq(w, 2, Len(w)) /\ Len(w) \in Nat /\ Len(w) # 0
  BY TailIsSubSeq, EmptySeq, LenProperties
<1>2. 2 \in 1 .. Len(w) + 1 /\ Len(w) \in 0 .. Len(w)
  BY <1>1
<1> QED
  BY <1>1, <1>2, StretchOfSub

LEMMA StretchEmpty == ASSUME NEW w PROVE Stretch(<<>>, w) /\ <<>> \in Seq(Message)
BY DEF Stretch

\* Losing messages harms no stream.
LEMMA StretchFrames ==
    ASSUME NEW k, NEW Q, NEW s, NEW r, NEW d, NEW w \in Seq(Message), NEW v \in Seq(Message),
           Stretch(v, w), FramesOK(k, Q, s, r, d, w)
    PROVE  FramesOK(k, Q, s, r, d, v)
<1>1. PICK c \in Nat : \A i \in DOMAIN v : i + c \in DOMAIN w /\ v[i] = w[i + c]
  BY DEF Stretch
<1>2. DOMAIN v \subseteq Int
  BY LenProperties
<1>3. \A i, j \in DOMAIN v : i < j => i + c < j + c
  BY <1>2
<1> HIDE DEF FrameOK
<1> QED
  BY <1>1, <1>3 DEF FramesOK

LEMMA StretchAcks ==
    ASSUME NEW Q, NEW s, NEW d, NEW w \in Seq(Message), NEW v \in Seq(Message),
           Stretch(v, w), AcksOK(Q, s, d, w)
    PROVE  AcksOK(Q, s, d, v)
<1>1. PICK c \in Nat : \A i \in DOMAIN v : i + c \in DOMAIN w /\ v[i] = w[i + c]
  BY DEF Stretch
<1>2. DOMAIN v \subseteq Int
  BY LenProperties
<1>3. \A i, j \in DOMAIN v : i < j => i + c < j + c
  BY <1>2
<1> QED
  BY <1>1, <1>3 DEF AcksOK

LEMMA StretchPair ==
    ASSUME NEW k, NEW Qs, NEW s, NEW ds, NEW Qp, NEW p, NEW dp,
           NEW ws \in Seq(Message), NEW wp \in Seq(Message),
           NEW us \in Seq(Message), NEW up_ \in Seq(Message),
           Stretch(us, ws), Stretch(up_, wp), Pair(k, Qs, s, ds, ws, Qp, p, dp, wp)
    PROVE  Pair(k, Qs, s, ds, us, Qp, p, dp, up_)
<1>1. FramesOK(k, Qs, s, p, dp, us) /\ FramesOK(k, Qp, p, s, ds, up_)
  BY StretchFrames DEF Pair, Stream
<1>2. AcksOK(Qs, s, dp, up_) /\ AcksOK(Qp, p, ds, us)
  BY StretchAcks DEF Pair, Stream
<1> QED
  BY <1>1, <1>2 DEF Pair, Stream

LEMMA StretchSelf == ASSUME NEW w \in Seq(Message) PROVE Stretch(w, w)
<1>1. \A i \in DOMAIN w : i + 0 \in DOMAIN w /\ w[i] = w[i + 0]
  BY LenProperties
<1> QED
  BY <1>1 DEF Stretch

\* Only these fields of the two ends matter to a stream.
LEMMA SameStream ==
    ASSUME NEW k, NEW Q, NEW s, NEW r, NEW d, NEW w, NEW b, NEW s2, NEW r2,
           s2.fifo = s.fifo, s2.snMin = s.snMin, s2.snMax = s.snMax, s2.order = s.order,
           r2.rn = r.rn, r2.stash = r.stash,
           Stream(k, Q, s, r, d, w, b)
    PROVE  Stream(k, Q, s2, r2, d, w, b)
<1>1. InWindow(s2) = InWindow(s)
  BY DEF InWindow
<1>2. Acked(Q, s2) = Acked(Q, s) /\ Sent(Q, s2) = Sent(Q, s)
  BY <1>1 DEF Acked, Sent
<1>3. SenderOK(k, Q, s2) /\ OrderOK(s2) /\ ReceiverOK(k, Q, s2, r2, d)
  BY <1>1, <1>2 DEF Stream, SenderOK, OrderOK, ReceiverOK
<1>4. FramesOK(k, Q, s2, r2, d, w)
  BY <1>1, <1>2 DEF Stream, FramesOK, FrameOK
<1>5. AcksOK(Q, s2, d, b)
  BY <1>1, <1>2 DEF Stream, AcksOK, AckOK
<1> QED
  BY <1>3, <1>4, <1>5 DEF Stream
-----------------------------------------------------------------------------
(* What may be put on the line.                                            *)

LEMMA Elements ==
    ASSUME NEW T, NEW w \in Seq(T), NEW x \in Seq(T)
    PROVE  /\ w \o x \in Seq(T) /\ Len(w) \in Nat /\ Len(x) \in Nat
           /\ DOMAIN w = 1 .. Len(w) /\ DOMAIN x = 1 .. Len(x)
           /\ \A i \in DOMAIN (w \o x) :
                \/ i \in DOMAIN w /\ (w \o x)[i] = w[i]
                \/ i - Len(w) \in DOMAIN x /\ (w \o x)[i] = x[i - Len(w)]
<1>1. /\ w \o x \in Seq(T) /\ Len(w \o x) = Len(w) + Len(x)
      /\ \A i \in 1 .. Len(w) + Len(x) :
            (w \o x)[i] = IF i <= Len(w) THEN w[i] ELSE x[i - Len(w)]
  BY ConcatProperties
<1>2. /\ Len(w) \in Nat /\ Len(x) \in Nat
      /\ DOMAIN w = 1 .. Len(w) /\ DOMAIN x = 1 .. Len(x)
      /\ DOMAIN (w \o x) = 1 .. Len(w \o x)
  BY <1>1, LenProperties
<1> DEFINE v == w \o x
<1> HIDE DEF v
<1>3. ASSUME NEW i \in DOMAIN v
      PROVE  \/ i \in DOMAIN w /\ v[i] = w[i]
             \/ i - Len(w) \in DOMAIN x /\ v[i] = x[i - Len(w)]
  <2>1. i \in 1 .. Len(w) + Len(x)
    BY <1>1, <1>2, <1>3 DEF v
  <2>2. v[i] = IF i <= Len(w) THEN w[i] ELSE x[i - Len(w)]
    BY <1>1, <2>1 DEF v
  <2>3. CASE i <= Len(w)
    <3>1. i \in 1 .. Len(w)
      BY <1>2, <2>1, <2>3
    <3> QED
      BY <1>2, <2>2, <2>3, <3>1
  <2>4. CASE ~(i <= Len(w))
    <3>1. i - Len(w) \in 1 .. Len(x)
      BY <1>2, <2>1, <2>4
    <3> QED
      BY <1>2, <2>2, <2>4, <3>1
  <2> QED
    BY <2>3, <2>4
<1> QED
  BY <1>1, <1>2, <1>3 DEF v

LEMMA BodyTyped == \A b \in Body : b[1] \in Nat /\ b[2] \in Nat /\ b = <<b[1], b[2]>>
BY DEF Body

LEMMA Counts ==
    ASSUME NEW Q \in Nat, NEW s \in End
    PROVE  Acked(Q, s) \in Int /\ Sent(Q, s) \in Int /\ Sent(Q, s) = Acked(Q, s) + InWindow(s)
           /\ Acked(Q, s) = Q - Len(s.fifo)
BY EndTyped DEF Acked, Sent

LEMMA Amounts ==
    ASSUME NEW k, NEW Q \in Nat, NEW s \in End, SenderOK(k, Q, s)
    PROVE  /\ Acked(Q, s) \in Nat /\ Sent(Q, s) \in Nat /\ InWindow(s) \in Nat
           /\ Sent(Q, s) = Acked(Q, s) + InWindow(s) /\ Acked(Q, s) = Q - Len(s.fifo)
           /\ InWindow(s) <= Window /\ InWindow(s) <= Len(s.fifo) /\ Len(s.fifo) \in Nat
<1>1. Len(s.fifo) \in Nat /\ InWindow(s) \in Nat
  BY EndTyped
<1>2. InWindow(s) <= Window /\ InWindow(s) <= Len(s.fifo) /\ Len(s.fifo) <= Q
  BY DEF SenderOK
<1>3. Acked(Q, s) = Q - Len(s.fifo) /\ Sent(Q, s) = Acked(Q, s) + InWindow(s)
  BY DEF Acked, Sent
<1> QED
  BY <1>1, <1>2, <1>3

LEMMA StashPlaces ==
    ASSUME NEW r \in End, NEW q \in DOMAIN r.stash
    PROVE  q \in Number /\ q \in Int /\ Off(q, r.rn) \in Nat /\ Off(q, r.rn) \in Number
<1>1. q \in Number /\ r.rn \in Int
  BY EndTyped
<1>2. Number \subseteq Nat /\ Number \subseteq Int
  BY Sizes DEF Number
<1>3. Off(q, r.rn) \in Number
  BY <1>1, <1>2, OffTyped
<1> QED
  BY <1>1, <1>2, <1>3

\* A frame that the sender has in its window.
OfWindow(k, Q, s, m) ==
    /\ m.body \in Body /\ m.body[1] = k /\ Acked(Q, s) < m.body[2] /\ m.body[2] <= Sent(Q, s)
    /\ m.seq = Step(s.snMin, m.body[2] - 1 - Acked(Q, s))

LEMMA MoreFrames ==
    ASSUME NEW k, NEW Q \in Nat, NEW s \in End, NEW r \in End, NEW d \in Seq(Body),
           NEW w \in Seq(Message), NEW x \in Seq(Message),
           SenderOK(k, Q, s), ReceiverOK(k, Q, s, r, d), FramesOK(k, Q, s, r, d, w),
           \A i \in DOMAIN x : x[i].kind = "frame" => OfWindow(k, Q, s, x[i])
    PROVE  FramesOK(k, Q, s, r, d, w \o x)
<1> DEFINE A == Acked(Q, s)
           M == Sent(Q, s)
           D == Len(d)
           v == w \o x
<1>1. /\ A \in Int /\ M \in Int /\ D \in Nat /\ M = A + InWindow(s) /\ A >= 0
      /\ InWindow(s) \in Nat /\ InWindow(s) <= Window /\ A <= D /\ D <= M
  <2>1. A <= D /\ D <= M
    BY DEF ReceiverOK
  <2>2. D \in Nat
    BY LenProperties
  <2> QED
    BY <2>1, <2>2, Amounts
<1>2. ASSUME NEW m, OfWindow(k, Q, s, m) PROVE FrameOK(k, Q, s, r, d, m)
  <2>1. m.body[2] \in Nat /\ A < m.body[2] /\ m.body[2] <= M /\ m.body[1] = k /\ m.body \in Body
    BY <1>2, BodyTyped DEF OfWindow
  <2>2. 1 <= m.body[2] /\ D < m.body[2] + Window
    <3> DEFINE j == m.body[2]
               L == InWindow(s)
    <3>1. j \in Nat /\ A < j
      BY <2>1
    <3>2. A \in Int /\ A >= 0 /\ D \in Nat /\ L \in Nat /\ D <= A + L /\ L <= Window /\ Window \in Nat
      <4>1. A \in Int /\ A >= 0 /\ D \in Nat /\ L \in Nat /\ L <= Window
        BY <1>1
      <4>2. D <= M /\ M = A + L
        BY <1>1
      <4> HIDE DEF A, M, D, L
      <4> QED
        BY <4>1, <4>2, Sizes
    <3> HIDE DEF A, D, j, L
    <3>3. 1 <= j /\ D < j + Window
      BY <3>1, <3>2
    <3> QED
      BY <3>3 DEF j
  <2>3. ASSUME NEW q \in DOMAIN r.stash PROVE D + 1 + Off(q, r.rn) < m.body[2] + Window
    <3>1. D + 1 + Off(q, r.rn) <= M
      BY DEF ReceiverOK, D, M
    <3>2. Off(q, r.rn) \in Int
      BY StashPlaces
    <3>3. M \in Int /\ D \in Int /\ A \in Int /\ M <= A + Window /\ Window \in Int
      <4> HIDE DEF A, M, D
      <4> QED
        BY <1>1, Sizes
    <3> HIDE DEF A, M, D
    <3> DEFINE j == m.body[2]
               o == Off(q, r.rn)
    <3>4. j \in Int /\ A < j
      BY <2>1
    <3> HIDE DEF j, o
    <3>5. D + 1 + o < j + Window
      BY <3>1, <3>2, <3>3, <3>4 DEF o
    <3> QED
      BY <3>5 DEF j, o
  <2> QED
    BY <1>2, <2>1, <2>2, <2>3 DEF FrameOK, OfWindow, A, M, D
<1>3. /\ v \in Seq(Message) /\ Len(w) \in Nat /\ Len(x) \in Nat
      /\ DOMAIN w = 1 .. Len(w) /\ DOMAIN x = 1 .. Len(x) /\ DOMAIN v = 1 .. Len(v)
      /\ \A i \in DOMAIN v : \/ i \in DOMAIN w /\ v[i] = w[i]
                             \/ i - Len(w) \in DOMAIN x /\ v[i] = x[i - Len(w)]
  BY Elements, LenProperties
<1> HIDE DEF v
<1>4. ASSUME NEW i \in DOMAIN v, v[i].kind = "frame" PROVE FrameOK(k, Q, s, r, d, v[i])
  <2>1. CASE i \in DOMAIN w /\ v[i] = w[i]
    BY <1>4, <2>1 DEF FramesOK
  <2>2. CASE i - Len(w) \in DOMAIN x /\ v[i] = x[i - Len(w)]
    BY <1>2, <1>4, <2>2
  <2> QED
    BY <1>3, <2>1, <2>2
<1>5. ASSUME NEW i \in DOMAIN v, NEW j \in DOMAIN v, i < j, v[i].kind = "frame", v[j].kind = "frame"
      PROVE  v[i].body[2] < v[j].body[2] + Window
  <2>1. v[i].body[2] \in Nat /\ v[j].body[2] \in Nat /\ v[i].body[2] <= M
    BY <1>4, <1>5, BodyTyped DEF FrameOK
  <2>2. CASE j \in DOMAIN w /\ v[j] = w[j]
    <3>1. i \in DOMAIN w
      BY <1>3, <1>5, <2>2
    <3>2. v[i] = w[i]
      BY <1>3, <3>1
    <3> QED
      BY <1>5, <2>2, <3>1, <3>2 DEF FramesOK
  <2>3. CASE j - Len(w) \in DOMAIN x /\ v[j] = x[j - Len(w)]
    <3>1. A < v[j].body[2]
      BY <1>5, <2>3 DEF OfWindow
    <3> DEFINE early == v[i].body[2]
               late == v[j].body[2]
               L == InWindow(s)
    <3>2. early \in Nat /\ late \in Nat /\ early <= M /\ A < late
      BY <2>1, <3>1
    <3>3. A \in Int /\ L \in Nat /\ M = A + L /\ L <= Window /\ Window \in Nat
      <4> HIDE DEF A, M, L
      <4> QED
        BY <1>1, Sizes DEF L
    <3> HIDE DEF A, M, L, early, late
    <3>4. early < late + Window
      BY <3>2, <3>3
    <3> QED
      BY <3>4 DEF early, late
  <2> QED
    BY <1>3, <2>2, <2>3
<1> QED
  BY <1>4, <1>5 DEF FramesOK, v

LEMMA MoreAcks ==
    ASSUME NEW Q \in Nat, NEW s \in End, NEW d \in Seq(Body),
           NEW w \in Seq(Message), NEW x \in Seq(Message), AcksOK(Q, s, d, w),
           \A i \in DOMAIN x : x[i].kind = "ack" =>
              AckOK(Q, s, d, x[i]) /\ Off(x[i].seq, s.snMin) = Len(d) - Acked(Q, s)
    PROVE  AcksOK(Q, s, d, w \o x)
<1> DEFINE v == w \o x
<1>1. /\ v \in Seq(Message) /\ Len(w) \in Nat /\ Len(x) \in Nat
      /\ DOMAIN w = 1 .. Len(w) /\ DOMAIN x = 1 .. Len(x) /\ DOMAIN v = 1 .. Len(v)
      /\ \A i \in DOMAIN v : \/ i \in DOMAIN w /\ v[i] = w[i]
                             \/ i - Len(w) \in DOMAIN x /\ v[i] = x[i - Len(w)]
  BY Elements, LenProperties
<1> HIDE DEF v
<1>2. ASSUME NEW i \in DOMAIN v, v[i].kind = "ack" PROVE AckOK(Q, s, d, v[i])
  <2>1. CASE i \in DOMAIN w /\ v[i] = w[i]
    BY <1>2, <2>1 DEF AcksOK
  <2>2. CASE i - Len(w) \in DOMAIN x /\ v[i] = x[i - Len(w)]
    BY <1>2, <2>2
  <2> QED
    BY <1>1, <2>1, <2>2
<1>3. ASSUME NEW i \in DOMAIN v, NEW j \in DOMAIN v, i < j, v[i].kind = "ack", v[j].kind = "ack"
      PROVE  Off(v[i].seq, s.snMin) <= Off(v[j].seq, s.snMin)
  <2>1. CASE j \in DOMAIN w /\ v[j] = w[j]
    <3>1. i \in DOMAIN w
      BY <1>1, <1>3, <2>1
    <3>2. v[i] = w[i]
      BY <1>1, <3>1
    <3> QED
      BY <1>3, <2>1, <3>1, <3>2 DEF AcksOK
  <2>2. CASE j - Len(w) \in DOMAIN x /\ v[j] = x[j - Len(w)]
    BY <1>2, <1>3, <2>2 DEF AckOK
  <2> QED
    BY <1>1, <2>1, <2>2
<1> QED
  BY <1>2, <1>3 DEF AcksOK, v
-----------------------------------------------------------------------------
(* What a sender does to its stream.                                       *)

\* The number after a window of n.
LEMMA NextNumber ==
    ASSUME NEW q \in Number, NEW f \in Int, Off(q, f) + 1 \in Number
    PROVE  Step(q, 1) \in Number /\ Off(Step(q, 1), f) = Off(q, f) + 1
<1> DEFINE i == Off(q, f)
<1>1. q \in Int /\ i \in Int /\ i + 1 \in Number
  BY OffTyped, Sizes DEF Number
<1>2. q = Step(f, i)
  BY Placed
<1> HIDE DEF i
<1>3. Step(q, 1) = Step(f, i + 1)
  BY <1>1, <1>2, StepStep
<1> QED
  BY <1>1, <1>3, Place, StepTyped DEF i

\* One frame more in the window.
OneMore(s, s2) ==
    /\ s2.fifo = s.fifo /\ s2.snMin = s.snMin /\ s2.snMax = Step(s.snMax, 1)
    /\ s2.order = Append(s.order, s.snMax)

\* A sender that is still sound, with one frame more on its way.
Grew(k, Q, s, s2) ==
    /\ SenderOK(k, Q, s2) /\ OrderOK(s2) /\ InWindow(s2) = InWindow(s) + 1
    /\ Acked(Q, s2) = Acked(Q, s) /\ Sent(Q, s2) = Sent(Q, s) + 1
    /\ s2.fifo = s.fifo /\ s2.snMin = s.snMin

LEMMA OneMoreSender ==
    ASSUME NEW k, NEW Q \in Nat, NEW s \in End, NEW s2 \in End, SenderOK(k, Q, s), OrderOK(s),
           InWindow(s) < Window, InWindow(s) < Len(s.fifo), OneMore(s, s2)
    PROVE  Grew(k, Q, s, s2)
<1> DEFINE L == InWindow(s)
           A == Acked(Q, s)
           M == Sent(Q, s)
<1>0. SenderOK(k, Q, s) /\ OrderOK(s)
  OBVIOUS
<1>1. A \in Nat /\ M \in Nat /\ L \in Nat /\ M = A + L /\ L + 1 <= Window
  BY <1>0, Amounts, Sizes
<1>11. L + 1 <= Len(s.fifo) /\ Len(s.fifo) \in Nat
  BY <1>0, Amounts
<1>2. /\ s.snMin \in Int /\ s.snMax \in Number /\ L = Off(s.snMax, s.snMin) /\ s.order \in Seq(Number)
      /\ DOMAIN s.fifo = 1 .. Len(s.fifo) /\ s.fifo \in Seq(Body)
  BY EndTyped
<1>3. InWindow(s2) = L + 1
  <2>1. L + 1 \in Number
    BY <1>1, Sizes DEF Number
  <2>2. InWindow(s2) = Off(s2.snMax, s2.snMin)
    BY DEF InWindow, Off
  <2>3. s2.snMax = Step(s.snMax, 1) /\ s2.snMin = s.snMin
    BY DEF OneMore
  <2> HIDE DEF L
  <2> QED
    BY <1>2, <2>1, <2>2, <2>3, NextNumber
<1>4. Acked(Q, s2) = A /\ Sent(Q, s2) = M + 1 /\ s2.fifo = s.fifo /\ s2.snMin = s.snMin
  <2>1. s2.fifo = s.fifo /\ s2.snMin = s.snMin
    BY DEF OneMore
  <2>2. Acked(Q, s2) = A
    BY <2>1 DEF Acked
  <2>3. Sent(Q, s2) = A + (L + 1)
    BY <1>3, <2>2 DEF Sent
  <2> HIDE DEF A, L, M
  <2> QED
    BY <1>1, <2>1, <2>2, <2>3
<1> HIDE DEF L, A, M
<1>5. SenderOK(k, Q, s2)
  BY <1>0, <1>1, <1>11, <1>3, <1>4 DEF SenderOK, A
<1>6. OrderOK(s2)
  <2> DEFINE o == s.order
             o2 == Append(o, s.snMax)
  <2>1. /\ o2 \in Seq(Number) /\ Len(o2) = Len(o) + 1 /\ Len(o) \in Nat
        /\ (\A i \in 1 .. Len(o) : o2[i] = o[i]) /\ o2[Len(o) + 1] = s.snMax
        /\ DOMAIN o = 1 .. Len(o) /\ DOMAIN o2 = 1 .. Len(o2)
    BY <1>2, AppendProperties, LenProperties
  <2>2. \A q : q \in Range(o) <=> \E i \in 1 .. Len(o) : q = o[i]
    BY <2>1 DEF Range
  <2>3. \A q : q \in Range(o2) <=> \E i \in 1 .. Len(o2) : q = o2[i]
    BY <2>1 DEF Range
  <2>4. /\ \A i, j \in DOMAIN o : o[i] = o[j] => i = j
        /\ \A q \in Number : q \in Range(o) <=> Off(q, s.snMin) < L
    BY <1>0 DEF OrderOK, L
  <2> HIDE DEF o, o2
  <2>5. \A q : q \in Range(o2) <=> q \in Range(o) \/ q = s.snMax
    <3>1. \A i \in 1 .. Len(o2) : i \in 1 .. Len(o) \/ i = Len(o) + 1
      BY <2>1
    <3>2. Len(o) + 1 \in 1 .. Len(o2) /\ \A i \in 1 .. Len(o) : i \in 1 .. Len(o2)
      BY <2>1
    <3> TAKE q
    <3>3. q \in Range(o2) <=> \E i \in 1 .. Len(o2) : q = o2[i]
      BY <2>3
    <3>4. q \in Range(o) <=> \E i \in 1 .. Len(o) : q = o[i]
      BY <2>2
    <3> QED
      BY <2>1, <3>1, <3>2, <3>3, <3>4
  <2>6. s.snMax \notin Range(o)
    BY <1>1, <1>2, <2>4
  <2>7. \A i, j \in DOMAIN o2 : o2[i] = o2[j] => i = j
    <3> TAKE i, j \in DOMAIN o2
    <3> HAVE o2[i] = o2[j]
    <3>1. (i \in 1 .. Len(o) \/ i = Len(o) + 1) /\ (j \in 1 .. Len(o) \/ j = Len(o) + 1)
      BY <2>1
    <3>2. \A h \in 1 .. Len(o) : o2[h] # s.snMax
      BY <2>1, <2>2, <2>6
    <3> QED
      BY <2>1, <2>4, <3>1, <3>2
  <2>8. \A q \in Number : q \in Range(o2) <=> Off(q, s.snMin) < L + 1
    <3> TAKE q \in Number
    <3>1. Off(q, s.snMin) \in Nat
      BY <1>2, OffNat, Numbers
    <3>2. q = s.snMax <=> Off(q, s.snMin) = L
      BY <1>2, SamePlace
    <3> QED
      BY <1>1, <2>4, <2>5, <3>1, <3>2
  <2> QED
    BY <1>3, <1>4, <2>7, <2>8 DEF OrderOK, o, o2, OneMore
<1> QED
  BY <1>3, <1>4, <1>5, <1>6 DEF L, A, M, Grew

LEMMA WindowGrows ==
    ASSUME NEW k, NEW Q \in Nat, NEW s \in End, NEW s2 \in End, NEW r \in End, NEW d \in Seq(Body),
           NEW w \in Seq(Message), NEW b \in Seq(Message), Stream(k, Q, s, r, d, w, b),
           InWindow(s) < Window, InWindow(s) < Len(s.fifo), OneMore(s, s2)
    PROVE  Stream(k, Q, s2, r, d, w, b) /\ InWindow(s2) = InWindow(s) + 1
           /\ OfWindow(k, Q, s2, Frame(s.snMax, s.fifo[InWindow(s) + 1]))
<1> DEFINE L == InWindow(s)
           A == Acked(Q, s)
           M == Sent(Q, s)
<1>0. SenderOK(k, Q, s) /\ OrderOK(s) /\ ReceiverOK(k, Q, s, r, d) /\ FramesOK(k, Q, s, r, d, w)
      /\ AcksOK(Q, s, d, b)
  BY DEF Stream
<1>1. A \in Nat /\ M \in Nat /\ L \in Nat /\ M = A + L /\ L + 1 <= Window
  BY <1>0, Amounts, Sizes
<1>11. L + 1 <= Len(s.fifo) /\ Len(s.fifo) \in Nat
  BY <1>0, Amounts
<1>2. /\ s.snMin \in Int /\ s.snMax \in Number /\ L = Off(s.snMax, s.snMin) /\ s.order \in Seq(Number)
      /\ DOMAIN s.fifo = 1 .. Len(s.fifo) /\ s.fifo \in Seq(Body)
  BY EndTyped
<1>12. Grew(k, Q, s, s2)
  BY <1>0, OneMoreSender
<1>3. InWindow(s2) = L + 1
  BY <1>12 DEF Grew
<1>4. Acked(Q, s2) = A /\ Sent(Q, s2) = M + 1 /\ s2.fifo = s.fifo /\ s2.snMin = s.snMin
  BY <1>12 DEF Grew
<1> HIDE DEF L, A, M
<1>5. SenderOK(k, Q, s2) /\ OrderOK(s2)
  BY <1>12 DEF Grew
<1>7. ReceiverOK(k, Q, s2, r, d)
  <2>1. Len(d) \in Nat /\ Len(d) <= M
    BY <1>0, LenProperties DEF ReceiverOK, M
  <2>2. \A q \in DOMAIN r.stash : Len(d) + 1 + Off(q, r.rn) <= M + 1
    <3> TAKE q \in DOMAIN r.stash
    <3>1. Len(d) + 1 + Off(q, r.rn) <= M /\ Off(q, r.rn) \in Nat
      BY <1>0, StashPlaces DEF ReceiverOK, M
    <3> QED
      BY <1>1, <2>1, <3>1
  <2>3. Len(d) <= M + 1
    BY <1>1, <2>1
  <2> QED
    BY <1>0, <1>4, <2>2, <2>3 DEF ReceiverOK, A
<1>8. FramesOK(k, Q, s2, r, d, w)
  <2>1. ASSUME NEW m, FrameOK(k, Q, s, r, d, m) PROVE FrameOK(k, Q, s2, r, d, m)
    <3>1. m.body[2] \in Nat /\ m.body[2] <= M
      BY <2>1, BodyTyped DEF FrameOK, M
    <3>2. m.body[2] <= M + 1
      BY <1>1, <3>1
    <3> QED
      BY <1>4, <2>1, <3>2 DEF FrameOK, A
  <2> HIDE DEF FrameOK
  <2> QED
    BY <1>0, <2>1 DEF FramesOK
<1>9. AcksOK(Q, s2, d, b)
  <2>1. ASSUME NEW m \in Message, AckOK(Q, s, d, m) PROVE AckOK(Q, s2, d, m)
    <3>1. m.seq \in Int /\ m.to \in Int
      BY MessageTyped
    <3>2. Off(m.seq, s.snMin) \in Nat /\ Off(m.to, m.seq) \in Nat
      BY <1>2, <3>1, OffNat
    <3>3. Off(m.seq, s.snMin) + Off(m.to, m.seq) <= L + 1
      <4>1. Off(m.seq, s.snMin) + Off(m.to, m.seq) <= L
        BY <2>1 DEF AckOK, L
      <4> QED
        BY <1>1, <3>2, <4>1
    <3> QED
      BY <1>3, <1>4, <2>1, <3>3 DEF AckOK, A
  <2>2. \A i \in DOMAIN b : b[i] \in Message
    BY LenProperties, ElementOfSeq
  <2> HIDE DEF AckOK
  <2> QED
    BY <1>0, <1>4, <2>1, <2>2 DEF AcksOK
<1>10. OfWindow(k, Q, s2, Frame(s.snMax, s.fifo[L + 1]))
  <2> DEFINE m == Frame(s.snMax, s.fifo[L + 1])
  <2>1. m.body = s.fifo[L + 1] /\ m.seq = s.snMax
    BY DEF Frame
  <2>2. L + 1 \in DOMAIN s.fifo
    BY <1>1, <1>11, <1>2
  <2>3. s.fifo[L + 1] = <<k, A + (L + 1)>> /\ s.fifo[L + 1] \in Body
    BY <1>0, <1>2, <2>2, ElementOfSeq DEF SenderOK, A
  <2>4. A + (L + 1) - 1 - A = L /\ A < A + (L + 1) /\ A + (L + 1) <= M + 1
    BY <1>1
  <2>5. s.snMax = Step(s.snMin, L)
    BY <1>2, Placed
  <2> HIDE DEF m
  <2>7. m.body[1] = k /\ m.body[2] = A + (L + 1) /\ m.body \in Body
    BY <2>1, <2>3
  <2>8. m.seq = Step(s.snMin, m.body[2] - 1 - A)
    <3>1. m.body[2] - 1 - A = L
      BY <1>1, <2>7
    <3> QED
      BY <2>1, <2>5, <3>1
  <2>9. A < m.body[2] /\ m.body[2] <= M + 1
    BY <2>4, <2>7
  <2>10. OfWindow(k, Q, s2, m)
    BY <1>4, <2>7, <2>8, <2>9 DEF OfWindow
  <2> QED
    BY <2>10 DEF m
<1> QED
  BY <1>3, <1>5, <1>7, <1>8, <1>9, <1>10 DEF Stream, L

LEMMA InNumbersFrom ==
    ASSUME NEW f \in Int, NEW n \in Nat, n <= SeqCount, NEW q \in Number
    PROVE  q \in NumbersFrom(f, n) <=> Off(q, f) < n
<1>1. ASSUME Off(q, f) < n PROVE q \in NumbersFrom(f, n)
  <2>1. q = Step(f, Off(q, f))
    BY Placed
  <2>2. Off(q, f) \in 0 .. n - 1
    BY <1>1, OffNat, Numbers
  <2> QED
    BY <2>1, <2>2 DEF NumbersFrom, Step
<1>2. ASSUME q \in NumbersFrom(f, n) PROVE Off(q, f) < n
  <2>1. PICK i \in 0 .. n - 1 : q = Step(f, i)
    BY <1>2 DEF NumbersFrom, Step
  <2>2. i \in Number
    BY Sizes DEF Number
  <2>3. Off(q, f) = i
    BY <2>1, <2>2, Place
  <2> QED
    BY <2>3
<1> QED
  BY <1>1, <1>2

\* The first frames of the window have been acknowledged, up to `to`.
Slid(s, s2, to) ==
    /\ s2.snMin = to /\ s2.snMax = s.snMax
    /\ s2.fifo = SubSeq(s.fifo, Off(to, s.snMin) + 1, Len(s.fifo))
    /\ s2.order = Only(s.order, NumbersFrom(to, InWindow(s) - Off(to, s.snMin)))

LEMMA SlidWindow ==
    ASSUME NEW s \in End, NEW s2 \in End, NEW to \in Number, Slid(s, s2, to), Off(to, s.snMin) <= InWindow(s)
    PROVE  InWindow(s2) = InWindow(s) - Off(to, s.snMin)
<1>1. s.snMin \in Int /\ s.snMax \in Int /\ to \in Int /\ InWindow(s) = Off(s.snMax, s.snMin)
  BY EndTyped, Numbers
<1>2. s2.snMin = to /\ s2.snMax = s.snMax
  BY DEF Slid
<1>3. InWindow(s2) = Off(s2.snMax, s2.snMin)
  BY DEF InWindow, Off
<1> QED
  BY <1>1, <1>2, <1>3, Forward

LEMMA SlidSender ==
    ASSUME NEW k, NEW Q \in Nat, NEW s \in End, NEW s2 \in End, NEW to \in Number,
           SenderOK(k, Q, s), OrderOK(s), Off(to, s.snMin) <= InWindow(s), Slid(s, s2, to)
    PROVE  /\ SenderOK(k, Q, s2) /\ OrderOK(s2)
           /\ InWindow(s2) = InWindow(s) - Off(to, s.snMin)
           /\ Acked(Q, s2) = Acked(Q, s) + Off(to, s.snMin) /\ Sent(Q, s2) = Sent(Q, s)
           /\ \A q \in Number : Off(to, s.snMin) <= Off(q, s.snMin) =>
                 Off(q, s2.snMin) = Off(q, s.snMin) - Off(to, s.snMin)
           /\ \A n \in Int : Step(s.snMin, n) = Step(s2.snMin, n - Off(to, s.snMin))
<1> DEFINE L == InWindow(s)
           A == Acked(Q, s)
           a == Off(to, s.snMin)
<1>0. /\ s2.snMin = to /\ s2.snMax = s.snMax
      /\ s2.fifo = SubSeq(s.fifo, a + 1, Len(s.fifo))
      /\ s2.order = Only(s.order, NumbersFrom(to, L - a))
  BY DEF Slid
<1>1. /\ s.snMin \in Int /\ s.snMax \in Number /\ s.snMax \in Int /\ to \in Int /\ L = Off(s.snMax, s.snMin)
      /\ s.order \in Seq(Number) /\ DOMAIN s.fifo = 1 .. Len(s.fifo) /\ s.fifo \in Seq(Body)
      /\ s.snMin \in Number
  BY EndTyped, Numbers
<1>2. /\ a \in Nat /\ L \in Nat /\ a <= L /\ L <= Window /\ L <= Len(s.fifo) /\ Len(s.fifo) \in Nat
  BY <1>1, OffNat, Amounts
<1>11. a \in Nat /\ a \in Int /\ L \in Nat /\ a <= L
  BY <1>2
<1>3. \A q \in Number : a <= Off(q, s.snMin) => Off(q, s2.snMin) = Off(q, s.snMin) - a
  <2> TAKE q \in Number
  <2>1. q \in Int
    BY Numbers
  <2> QED
    BY <1>0, <1>1, <2>1, Forward
<1>4. InWindow(s2) = L - a
  <2>1. InWindow(s2) = Off(s2.snMax, s2.snMin)
    BY DEF InWindow, Off
  <2>2. a <= Off(s.snMax, s.snMin)
    BY <1>1, <1>2
  <2> HIDE DEF L, a
  <2> QED
    BY <1>0, <1>1, <1>3, <2>1, <2>2
<1>5. /\ s2.fifo \in Seq(Body) /\ Len(s2.fifo) = Len(s.fifo) - a
      /\ \A i \in 1 .. Len(s.fifo) - a : s2.fifo[i] = s.fifo[a + i]
  <2>1. a + 1 \in Int /\ Len(s.fifo) \in Int
    BY <1>2
  <2>2. \A i \in a + 1 .. Len(s.fifo) : s.fifo[i] \in Body
    <3> TAKE i \in a + 1 .. Len(s.fifo)
    <3>1. i \in 1 .. Len(s.fifo)
      BY <1>2
    <3> QED
      BY <1>1, <3>1, ElementOfSeq
  <2> DEFINE v == SubSeq(s.fifo, a + 1, Len(s.fifo))
             m == a + 1
             n == Len(s.fifo)
  <2>3. /\ v \in Seq(Body) /\ Len(v) = (IF m <= n THEN n - m + 1 ELSE 0)
        /\ \A i \in 1 .. n - m + 1 : v[i] = s.fifo[m + i - 1]
    BY <2>1, <2>2, SubSeqProperties
  <2> HIDE DEF a, v
  <2>4. n - m + 1 = n - a /\ (m <= n \/ n = a)
    BY <1>2
  <2>5. \A i \in 1 .. n - a : m + i - 1 = a + i
    BY <1>2
  <2>6. Len(v) = n - a
    BY <1>2, <2>3, <2>4
  <2>7. \A i \in 1 .. n - a : v[i] = s.fifo[a + i]
    BY <2>3, <2>4, <2>5
  <2> QED
    BY <1>0, <2>3, <2>6, <2>7 DEF v
<1>6. Acked(Q, s2) = A + a
  <2>1. Acked(Q, s2) = Q - (Len(s.fifo) - a) /\ A = Q - Len(s.fifo)
    BY <1>5 DEF Acked
  <2> HIDE DEF a, A
  <2>2. \A f \in Nat : Q - (f - a) = (Q - f) + a
    BY <1>2
  <2> QED
    BY <1>2, <2>1, <2>2
<1>7. Sent(Q, s2) = Sent(Q, s)
  <2>1. Sent(Q, s2) = (A + a) + (L - a) /\ Sent(Q, s) = A + L
    BY <1>4, <1>6 DEF Sent
  <2>2. A \in Nat
    BY Amounts
  <2> HIDE DEF a, A, L
  <2> QED
    BY <1>2, <2>1, <2>2
<1>8. SenderOK(k, Q, s2)
  <2>1. L - a <= Window /\ L - a <= Len(s.fifo) - a
    BY <1>2, Sizes
  <2>2. Len(s2.fifo) <= Q
    BY <1>2, <1>5 DEF SenderOK
  <2>3. \A i \in DOMAIN s2.fifo : s2.fifo[i] = <<k, (A + a) + i>>
    <3> TAKE i \in DOMAIN s2.fifo
    <3>1. i \in 1 .. Len(s.fifo) - a
      BY <1>5, LenProperties
    <3> HIDE DEF a, A
    <3>2. a + i \in 1 .. Len(s.fifo)
      BY <1>2, <3>1
    <3>3. s2.fifo[i] = <<k, A + (a + i)>>
      BY <1>1, <1>5, <3>1, <3>2 DEF SenderOK, A
    <3>4. A \in Nat
      BY Amounts DEF A
    <3>5. A + (a + i) = (A + a) + i
      BY <1>2, <3>1, <3>4
    <3> QED
      BY <3>3, <3>5
  <2> HIDE DEF a, A, L
  <2> QED
    BY <1>4, <1>5, <1>6, <2>1, <2>2, <2>3 DEF SenderOK
<1>9. OrderOK(s2)
  <2> DEFINE S == NumbersFrom(to, L - a)
             o == Only(s.order, S)
  <2>1. /\ o \in Seq(Number)
        /\ \A q : q \in Range(o) <=> q \in Range(s.order) /\ q \in S
        /\ \A i, j \in DOMAIN o : o[i] = o[j] => i = j
    BY <1>1, OnlyKeeps DEF OrderOK
  <2>2. \A q \in Number : q \in S <=> Off(q, to) < L - a
    <3>1. L - a \in Nat /\ L - a <= SeqCount
      BY <1>2, Sizes
    <3> QED
      BY <1>1, <3>1, InNumbersFrom
  <2> HIDE DEF S, o
  <2>3. \A q \in Number : q \in Range(o) <=> Off(q, to) < L - a
    <3> TAKE q \in Number
    <3>1. q \in Range(s.order) <=> Off(q, s.snMin) < L
      BY DEF OrderOK
    <3>2. ASSUME Off(q, to) < L - a PROVE Off(q, s.snMin) < L
      <4>1. Off(q, s.snMin) \in Nat
        BY <1>1, OffNat, Numbers
      <4>2. a <= Off(q, s.snMin) => Off(q, to) = Off(q, s.snMin) - a
        BY <1>0, <1>3
      <4> HIDE DEF a, L
      <4> QED
        BY <1>11, <3>2, <4>1, <4>2
    <3>3. q \in Range(o) <=> q \in Range(s.order) /\ q \in S
      BY <2>1
    <3>4. q \in S <=> Off(q, to) < L - a
      BY <2>2
    <3> QED
      BY <3>1, <3>2, <3>3, <3>4
  <2> QED
    BY <1>0, <1>4, <2>1, <2>3 DEF OrderOK, o, S
<1>10. \A n \in Int : Step(s.snMin, n) = Step(s2.snMin, n - a)
  <2> TAKE n \in Int
  <2>1. to = Step(s.snMin, a)
    BY <1>1, Placed
  <2> HIDE DEF a
  <2>2. n - a \in Int /\ a + (n - a) = n
    BY <1>11
  <2> DEFINE z == n - a
  <2>3. Step(Step(s.snMin, a), z) = Step(s.snMin, a + z)
    <3>1. s.snMin \in Int /\ a \in Int /\ z \in Int
      BY <1>1, <1>11, <2>2
    <3> HIDE DEF z
    <3> QED
      BY ONLY <3>1, StepStep, Zenon
  <2> QED
    BY <1>0, <2>1, <2>2, <2>3
<1> QED
  BY <1>3, <1>4, <1>6, <1>7, <1>8, <1>9, <1>10

LEMMA HeadOf ==
    ASSUME NEW w \in Seq(Message), w # <<>>
    PROVE  /\ Head(w) \in Message /\ Head(w) = w[1] /\ 1 \in DOMAIN w
           /\ Tail(w) \in Seq(Message)
           /\ \A i \in DOMAIN Tail(w) : i \in Nat /\ i + 1 \in DOMAIN w /\ Tail(w)[i] = w[i + 1] /\ 1 < i + 1
<1>1. /\ Head(w) \in Message /\ Tail(w) \in Seq(Message)
      /\ Len(Tail(w)) = Len(w) - 1 /\ \A i \in 1 .. Len(Tail(w)) : Tail(w)[i] = w[i + 1]
  BY HeadTailProperties
<1>2. Len(w) \in Nat /\ Len(w) # 0 /\ DOMAIN w = 1 .. Len(w)
  BY EmptySeq, LenProperties
<1>3. DOMAIN Tail(w) = 1 .. Len(w) - 1
  BY <1>1, <1>2, LenProperties
<1>4. Head(w) = w[1]
  BY DEF Head
<1>5. 1 \in DOMAIN w
  BY <1>2
<1>6. \A i \in 1 .. Len(w) - 1 : i \in Nat /\ i + 1 \in 1 .. Len(w) /\ 1 < i + 1
  BY <1>2
<1> QED
  BY <1>1, <1>2, <1>3, <1>4, <1>5, <1>6

LEMMA WindowSlides ==
    ASSUME NEW k, NEW Q \in Nat, NEW s \in End, NEW s2 \in End, NEW r \in End, NEW d \in Seq(Body),
           NEW w \in Seq(Message), NEW b \in Seq(Message), Stream(k, Q, s, r, d, w, b),
           NEW m, 1 \in DOMAIN b, m = b[1], m.kind = "ack", Slid(s, s2, m.seq)
    PROVE  /\ Stream(k, Q, s2, r, d, w, b)
           /\ Off(m.seq, s.snMin) <= InWindow(s)
           /\ Off(m.seq, s.snMin) + Off(m.to, m.seq) <= InWindow(s)
<1> DEFINE L == InWindow(s)
           A == Acked(Q, s)
           M == Sent(Q, s)
           a == Off(m.seq, s.snMin)
           D == Len(d)
<1>0. SenderOK(k, Q, s) /\ OrderOK(s) /\ ReceiverOK(k, Q, s, r, d) /\ FramesOK(k, Q, s, r, d, w)
      /\ AcksOK(Q, s, d, b)
  BY DEF Stream
<1>1. m \in Message /\ 1 \in DOMAIN b /\ m = b[1]
  <2>1. DOMAIN b = 1 .. Len(b)
    BY LenProperties
  <2> QED
    BY <2>1, ElementOfSeq
<1>2. /\ m.seq \in Number /\ m.to \in Number /\ m.seq \in Int /\ m.to \in Int
      /\ s.snMin \in Int /\ s.snMin \in Number /\ r.rn \in Number /\ r.rn \in Int
  BY <1>1, MessageTyped, EndTyped
<1>3. /\ a \in Nat /\ L \in Nat /\ A \in Nat /\ D \in Nat /\ M = A + L /\ Off(m.to, m.seq) \in Nat
  <2>1. a \in Nat /\ Off(m.to, m.seq) \in Nat
    BY <1>2, OffNat
  <2>2. L \in Nat /\ A \in Nat /\ M = A + L
    BY ONLY <1>0, Amounts, Q \in Nat, s \in End
  <2> QED
    BY <2>1, <2>2, LenProperties
<1>4. AckOK(Q, s, d, m)
  BY <1>0, <1>1 DEF AcksOK
<1>5. a <= D - A /\ a + Off(m.to, m.seq) <= L
  BY <1>4 DEF AckOK
<1>6. a <= L /\ Off(m.to, m.seq) <= L - a
  <2> HIDE DEF a, L, A, D
  <2> QED
    BY <1>3, <1>5
<1>7. /\ SenderOK(k, Q, s2) /\ OrderOK(s2) /\ InWindow(s2) = L - a
      /\ Acked(Q, s2) = A + a /\ Sent(Q, s2) = M
      /\ \A q \in Number : a <= Off(q, s.snMin) => Off(q, s2.snMin) = Off(q, s.snMin) - a
      /\ \A n \in Int : Step(s.snMin, n) = Step(s2.snMin, n - a)
  BY <1>0, <1>2, <1>6, SlidSender
<1>8. ReceiverOK(k, Q, s2, r, d)
  <2>1. A <= D /\ D <= M /\ Off(r.rn, s.snMin) = D - A
    BY <1>0 DEF ReceiverOK
  <2>2. a <= Off(r.rn, s.snMin)
    BY <1>5, <2>1
  <2>3. Off(r.rn, s2.snMin) = (D - A) - a
    BY <1>2, <1>7, <2>1, <2>2
  <2> HIDE DEF a, A, D, M
  <2>4. (D - A) - a = D - (A + a) /\ A + a <= D
    BY <1>3, <1>5
  <2> QED
    BY <1>0, <1>7, <2>1, <2>3, <2>4 DEF ReceiverOK, D, M
<1>9. FramesOK(k, Q, s2, r, d, w)
  <2>1. ASSUME NEW x, FrameOK(k, Q, s, r, d, x) PROVE FrameOK(k, Q, s2, r, d, x)
    <3>1. x.body[2] \in Nat /\ x.seq = Step(s.snMin, x.body[2] - 1 - A)
      BY <2>1, BodyTyped DEF FrameOK
    <3> HIDE DEF a, A, M, D, L
    <3>2. x.body[2] - 1 - A \in Int /\ (x.body[2] - 1 - A) - a = x.body[2] - 1 - (A + a)
      <4>1. \A j \in Nat : j - 1 - A \in Int /\ (j - 1 - A) - a = j - 1 - (A + a)
        BY <1>3
      <4> QED
        BY <3>1, <4>1
    <3>3. x.seq = Step(s2.snMin, x.body[2] - 1 - (A + a))
      BY <1>7, <3>1, <3>2
    <3> QED
      BY <1>7, <2>1, <3>3 DEF FrameOK, M
  <2> HIDE DEF FrameOK
  <2> QED
    BY <1>0, <2>1 DEF FramesOK
<1>10. \A i \in DOMAIN b : b[i].kind = "ack" =>
          /\ b[i] \in Message /\ a <= Off(b[i].seq, s.snMin)
          /\ Off(b[i].seq, s2.snMin) = Off(b[i].seq, s.snMin) - a
  <2> SUFFICES ASSUME NEW i \in DOMAIN b, b[i].kind = "ack"
               PROVE  /\ b[i] \in Message /\ a <= Off(b[i].seq, s.snMin)
                      /\ Off(b[i].seq, s2.snMin) = Off(b[i].seq, s.snMin) - a
    OBVIOUS
  <2>1. b[i] \in Message /\ i \in 1 .. Len(b) /\ Len(b) \in Nat
    BY LenProperties, ElementOfSeq
  <2>2. b[i].seq \in Number
    BY <2>1, MessageTyped
  <2>3. CASE i = 1
    <3>1. Off(b[i].seq, s.snMin) = a
      BY <1>1, <2>3
    <3>2. a <= Off(b[i].seq, s.snMin)
      BY <1>3, <3>1
    <3> QED
      BY <1>7, <2>1, <2>2, <3>2
  <2>4. CASE i # 1
    <3>1. 1 < i
      BY <2>1, <2>4
    <3>2. a <= Off(b[i].seq, s.snMin)
      BY <1>0, <1>1, <3>1 DEF AcksOK
    <3> QED
      BY <1>7, <2>1, <2>2, <3>2
  <2> QED
    BY <2>3, <2>4
<1>11. ASSUME NEW i \in DOMAIN b, b[i].kind = "ack" PROVE AckOK(Q, s2, d, b[i])
  <2>1. AckOK(Q, s, d, b[i]) /\ b[i] \in Message
    BY <1>0, <1>10, <1>11 DEF AcksOK
  <2> DEFINE x == Off(b[i].seq, s.snMin)
             y == Off(b[i].to, b[i].seq)
  <2>2. x \in Nat /\ y \in Nat /\ Off(b[i].seq, s2.snMin) = x - a
    BY <1>2, <1>10, <1>11, <2>1, MessageTyped, OffNat
  <2>3. x <= D - A /\ x + y <= L
    BY <2>1 DEF AckOK
  <2> HIDE DEF x, y, a, A, D, L
  <2>4. x - a <= D - (A + a) /\ (x - a) + y <= L - a
    BY <1>3, <2>2, <2>3
  <2> QED
    BY <1>7, <2>2, <2>4 DEF AckOK, y, D
<1>12. ASSUME NEW i \in DOMAIN b, NEW j \in DOMAIN b, i < j, b[i].kind = "ack", b[j].kind = "ack"
       PROVE  Off(b[i].seq, s2.snMin) <= Off(b[j].seq, s2.snMin)
  <2> DEFINE x == Off(b[i].seq, s.snMin)
             y == Off(b[j].seq, s.snMin)
  <2>1. x <= y
    BY <1>0, <1>12 DEF AcksOK
  <2>2. b[i] \in Message /\ b[j] \in Message /\ Off(b[i].seq, s2.snMin) = x - a
        /\ Off(b[j].seq, s2.snMin) = y - a
    BY <1>10, <1>12
  <2>3. x \in Nat /\ y \in Nat
    BY <1>2, <2>2, MessageTyped, OffNat
  <2> HIDE DEF x, y, a
  <2> QED
    BY <1>3, <2>1, <2>2, <2>3
<1>13. AcksOK(Q, s2, d, b)
  BY <1>11, <1>12 DEF AcksOK
<1> QED
  BY <1>5, <1>6, <1>7, <1>8, <1>9, <1>13 DEF Stream
-----------------------------------------------------------------------------
(* What a receiver does to the stream of its peer.                         *)

LEMMA StepBack == \A f \in Int, z \in Int : -SeqCount <= z /\ z < 0 => Step(f, z) = Step(f, z + SeqCount)
<1> TAKE f \in Int, z \in Int
<1> HAVE -SeqCount <= z /\ z < 0
<1>1. ((z % SeqCount) + f) % SeqCount = (z + f) % SeqCount
  BY AddFirst
<1>2. z % SeqCount = z + SeqCount
  BY Wraps
<1>3. z + f = f + z /\ (z + SeqCount) + f = f + (z + SeqCount)
  BY Sizes
<1> QED
  BY <1>1, <1>2, <1>3 DEF Step

\* A frame within the receiving window is as far ahead as its number says.
LEMMA FrameWhere ==
    ASSUME NEW k, NEW Q \in Nat, NEW s \in End, NEW r \in End, NEW d \in Seq(Body), NEW m \in Message,
           SenderOK(k, Q, s), ReceiverOK(k, Q, s, r, d), FrameOK(k, Q, s, r, d, m)
    PROVE  Off(m.seq, r.rn) < RxWindow => m.body = <<k, Len(d) + 1 + Off(m.seq, r.rn)>>
<1> DEFINE A == Acked(Q, s)
           M == Sent(Q, s)
           L == InWindow(s)
           D == Len(d)
           j == m.body[2]
           z == j - 1 - D
<1>1. /\ j \in Nat /\ m.body[1] = k /\ m.body = <<k, j>> /\ j <= M /\ D < j + Window
      /\ m.seq = Step(s.snMin, j - 1 - A)
  BY BodyTyped DEF FrameOK
<1>2. A \in Nat /\ M \in Nat /\ L \in Nat /\ M = A + L /\ L <= Window /\ D \in Nat
  BY Amounts, LenProperties
<1>3. A <= D /\ D <= M /\ Off(r.rn, s.snMin) = D - A
  BY DEF ReceiverOK
<1>4. r.rn \in Number /\ r.rn \in Int /\ s.snMin \in Int
  BY EndTyped, Numbers
<1>5. r.rn = Step(s.snMin, D - A)
  BY <1>3, <1>4, Placed
<1>6. z \in Int /\ m.seq = Step(r.rn, z)
  <2> HIDE DEF A, D, j, M, L
  <2>1. z \in Int /\ D - A \in Int /\ (D - A) + z = j - 1 - A
    BY <1>1, <1>2
  <2>2. Step(Step(s.snMin, D - A), z) = Step(s.snMin, (D - A) + z)
    BY <1>4, <2>1, StepStep
  <2> QED
    BY <1>1, <1>5, <2>1, <2>2
<1>7. CASE z >= 0
  <2>1. z \in Number /\ j = D + 1 + z
    <3> HIDE DEF A, D, j, M, L
    <3>1. 0 <= z /\ z <= Window - 1
      BY <1>1, <1>2, <1>3, <1>7, Sizes
    <3>2. j = D + 1 + z
      BY <1>1, <1>2
    <3> HIDE DEF z
    <3> QED
      BY <1>6, <3>1, <3>2, Sizes DEF Number
  <2>2. Off(m.seq, r.rn) = z
    BY <1>4, <1>6, <2>1, Place
  <2> HIDE DEF z, D, j
  <2> QED
    BY <1>1, <2>1, <2>2 DEF D
<1>8. CASE z < 0
  <2>1. -Window <= z
    <3> HIDE DEF A, D, j, M, L
    <3> QED
      BY <1>1, <1>2, Sizes
  <2> HIDE DEF z
  <2>2. -SeqCount <= z /\ z + SeqCount \in Number /\ z + SeqCount >= RxWindow
    BY <1>6, <1>8, <2>1, Sizes DEF Number
  <2>3. m.seq = Step(r.rn, z + SeqCount)
    BY <1>4, <1>6, <1>8, <2>2, StepBack
  <2>4. Off(m.seq, r.rn) = z + SeqCount
    BY <1>4, <2>2, <2>3, Place
  <2>5. ~(z + SeqCount < RxWindow)
    BY <1>6, <2>2, Sizes
  <2> QED
    BY <2>4, <2>5
<1> QED
  <2> HIDE DEF z
  <2>1. z >= 0 \/ z < 0
    BY <1>6
  <2> QED
    BY <1>7, <1>8, <2>1

\* A frame that came early is kept.
Kept(r, r2, m) ==
    /\ r2.rn = r.rn /\ DOMAIN r2.stash = DOMAIN r.stash \cup {m.seq}
    /\ \A q \in DOMAIN r2.stash : r2.stash[q] = IF q = m.seq THEN m.body ELSE r.stash[q]

LEMMA FrameKept ==
    ASSUME NEW k, NEW Q \in Nat, NEW s \in End, NEW r \in End, NEW r2 \in End, NEW d \in Seq(Body),
           NEW w \in Seq(Message), NEW b \in Seq(Message), Stream(k, Q, s, r, d, w, b),
           w # <<>>, Head(w).kind = "frame", Head(w).seq # r.rn, Off(Head(w).seq, r.rn) < RxWindow,
           Kept(r, r2, Head(w))
    PROVE  /\ Stream(k, Q, s, r2, d, Tail(w), b)
           /\ (Len(d) - Acked(Q, s)) + Off(Head(w).seq, r.rn) <= InWindow(s)
<1> DEFINE A == Acked(Q, s)
           M == Sent(Q, s)
           L == InWindow(s)
           D == Len(d)
           m == Head(w)
           j == m.body[2]
           o == Off(m.seq, r.rn)
<1>0. SenderOK(k, Q, s) /\ OrderOK(s) /\ ReceiverOK(k, Q, s, r, d) /\ FramesOK(k, Q, s, r, d, w)
      /\ AcksOK(Q, s, d, b)
  BY DEF Stream
<1>1. /\ m \in Message /\ m = w[1] /\ 1 \in DOMAIN w /\ Tail(w) \in Seq(Message)
      /\ \A i \in DOMAIN Tail(w) : i \in Nat /\ i + 1 \in DOMAIN w /\ Tail(w)[i] = w[i + 1] /\ 1 < i + 1
  BY HeadOf
<1>2. FrameOK(k, Q, s, r, d, m)
  BY <1>0, <1>1 DEF FramesOK
<1>3. m.body = <<k, D + 1 + o>> /\ j = D + 1 + o /\ j <= M /\ j \in Nat
  <2>1. m.body = <<k, D + 1 + o>>
    BY <1>0, <1>1, <1>2, FrameWhere
  <2> QED
    BY <1>2, <2>1, BodyTyped DEF FrameOK
<1>4. /\ m.seq \in Number /\ m.seq \in Int /\ r.rn \in Number /\ r.rn \in Int
  BY <1>1, MessageTyped, EndTyped
<1>5. o \in Nat /\ D \in Nat /\ A \in Nat /\ L \in Nat /\ M = A + L /\ M \in Nat
  BY <1>0, <1>4, OffNat, LenProperties, Amounts
<1>6. o # 0
  <2> SUFFICES ASSUME o = 0 PROVE FALSE
    OBVIOUS
  <2>1. 0 \in Number /\ Off(Step(r.rn, 0), r.rn) = 0
    BY <1>4, Place, Numbers
  <2>2. Step(r.rn, 0) \in Number
    BY <1>4, StepTyped
  <2>3. Step(r.rn, 0) = (r.rn + 0) % SeqCount /\ r.rn + 0 = r.rn
    BY <1>4 DEF Step
  <2>4. r.rn % SeqCount = r.rn
    BY <1>4, Small
  <2> QED
    BY <1>4, <2>1, <2>3, <2>4, SamePlace
<1>7. r2.rn = r.rn /\ DOMAIN r2.stash = DOMAIN r.stash \cup {m.seq}
      /\ \A q \in DOMAIN r2.stash : r2.stash[q] = IF q = m.seq THEN m.body ELSE r.stash[q]
  BY DEF Kept
<1>8. ASSUME NEW q \in DOMAIN r2.stash
      PROVE  /\ Off(q, r2.rn) \in 1 .. RxWindow - 1
             /\ D + 1 + Off(q, r2.rn) <= M
             /\ r2.stash[q] = <<k, D + 1 + Off(q, r2.rn)>>
  <2>1. CASE q = m.seq
    <3>1. Off(q, r2.rn) = o
      BY <1>7, <2>1
    <3>2. o \in 1 .. RxWindow - 1
      <4> HIDE DEF o
      <4>1. o < RxWindow
        BY DEF o
      <4> QED
        BY <1>5, <1>6, <4>1, Sizes
    <3> HIDE DEF o
    <3> QED
      BY <1>3, <1>7, <2>1, <3>1, <3>2
  <2>2. CASE q # m.seq
    BY <1>0, <1>7, <2>2 DEF ReceiverOK
  <2> QED
    BY <2>1, <2>2
<1>9. ReceiverOK(k, Q, s, r2, d)
  BY <1>0, <1>7, <1>8 DEF ReceiverOK
<1>10. FramesOK(k, Q, s, r2, d, Tail(w))
  <2> DEFINE v == Tail(w)
  <2>1. FramesOK(k, Q, s, r, d, v)
    BY <1>0, <1>1, StretchOfTail, StretchFrames
  <2>2. ASSUME NEW i \in DOMAIN v, v[i].kind = "frame" PROVE FrameOK(k, Q, s, r2, d, v[i])
    <3>1. FrameOK(k, Q, s, r, d, v[i])
      BY <2>1, <2>2 DEF FramesOK
    <3>2. j < v[i].body[2] + Window
      <4>1. i + 1 \in DOMAIN w /\ v[i] = w[i + 1] /\ 1 < i + 1
        BY <1>1
      <4> QED
        BY <1>0, <1>1, <2>2, <4>1 DEF FramesOK
    <3>3. \A q \in DOMAIN r2.stash : D + 1 + Off(q, r2.rn) < v[i].body[2] + Window
      <4> TAKE q \in DOMAIN r2.stash
      <4>1. CASE q = m.seq
        BY <1>3, <1>7, <3>2, <4>1
      <4>2. CASE q # m.seq
        BY <1>7, <3>1, <4>2 DEF FrameOK
      <4> QED
        BY <4>1, <4>2
    <3> QED
      BY <3>1, <3>3 DEF FrameOK
  <2> HIDE DEF v
  <2> QED
    BY <2>1, <2>2 DEF FramesOK, v
<1>11. (D - A) + o <= L
  <2>1. A \in Int /\ D \in Int /\ o \in Int /\ L \in Int
    BY <1>5
  <2> HIDE DEF A, D, o, L, M, j
  <2>2. M = A + L /\ j = D + 1 + o /\ j <= M
    BY <1>3, <1>5
  <2> QED
    BY ONLY <2>1, <2>2
<1> QED
  BY <1>0, <1>9, <1>10, <1>11 DEF Stream

\* The frame that was waited for is taken, together with n kept ones.
Taken(r, r2, d, d2, m, n) ==
    /\ r2.rn = Step(r.rn, n + 1)
    /\ d2 = (d \o <<m.body>>) \o [i \in 1 .. n |-> r.stash[Step(r.rn, i)]]
    /\ \A i \in 1 .. n : Step(r.rn, i) \in DOMAIN r.stash
    /\ Step(r.rn, n + 1) \notin DOMAIN r.stash
    /\ \A q \in DOMAIN r2.stash : /\ q \in DOMAIN r.stash /\ r2.stash[q] = r.stash[q]
                                  /\ \A i \in 1 .. n : q # Step(r.rn, i)

\* Only frames less than a window ahead can have been kept.
LEMMA KeptAhead ==
    ASSUME NEW k, NEW Q \in Nat, NEW s \in End, NEW r \in End, NEW d \in Seq(Body), NEW n \in Nat,
           SenderOK(k, Q, s), ReceiverOK(k, Q, s, r, d),
           \A i \in 1 .. n : Step(r.rn, i) \in DOMAIN r.stash
    PROVE  /\ n < RxWindow
           /\ \A i \in 1 .. n : /\ Off(Step(r.rn, i), r.rn) = i
                                /\ r.stash[Step(r.rn, i)] = <<k, Len(d) + 1 + i>>
                                /\ Len(d) + 1 + i <= Sent(Q, s)
<1>1. r.rn \in Int
  BY EndTyped
<1>2. n < RxWindow
  <2> SUFFICES ASSUME ~(n < RxWindow) PROVE FALSE
    OBVIOUS
  <2>1. RxWindow \in 1 .. n /\ RxWindow \in Number
    BY Sizes DEF Number
  <2>2. Off(Step(r.rn, RxWindow), r.rn) = RxWindow
    BY <1>1, <2>1, Place
  <2>3. Off(Step(r.rn, RxWindow), r.rn) \in 1 .. RxWindow - 1
    BY <2>1 DEF ReceiverOK
  <2>4. RxWindow \in 1 .. RxWindow - 1
    BY <2>2, <2>3
  <2> QED
    BY <2>4, Sizes
<1>3. ASSUME NEW i \in 1 .. n
      PROVE  /\ Off(Step(r.rn, i), r.rn) = i
             /\ r.stash[Step(r.rn, i)] = <<k, Len(d) + 1 + i>>
             /\ Len(d) + 1 + i <= Sent(Q, s)
  <2>1. i \in Number
    BY <1>2, Sizes DEF Number
  <2>2. Off(Step(r.rn, i), r.rn) = i
    BY <1>1, <2>1, Place
  <2>3. /\ r.stash[Step(r.rn, i)] = <<k, Len(d) + 1 + Off(Step(r.rn, i), r.rn)>>
        /\ Len(d) + 1 + Off(Step(r.rn, i), r.rn) <= Sent(Q, s)
    BY DEF ReceiverOK
  <2> QED
    BY <2>2, <2>3
<1> QED
  BY <1>2, <1>3

\* The sequence e is d, then x, then the n members of g.
Extends(e, d, x, n, g) ==
    /\ e \in Seq(Body) /\ Len(e) = Len(d) + 1 + n
    /\ \A i \in 1 .. Len(d) : e[i] = d[i]
    /\ e[Len(d) + 1] = x
    /\ \A i \in 1 .. n : e[Len(d) + 1 + i] = g[i]

LEMMA Grown ==
    ASSUME NEW d \in Seq(Body), NEW x \in Body, NEW n \in Nat, NEW g \in Seq(Body), Len(g) = n
    PROVE  Extends((d \o <<x>>) \o g, d, x, n, g)
<1> DEFINE e == Append(d, x)
           f == e \o g
           D == Len(d)
<1>1. e = d \o <<x>>
  BY AppendIsConcat
<1>2. e \in Seq(Body) /\ Len(e) = D + 1 /\ (\A i \in 1 .. D : e[i] = d[i]) /\ e[D + 1] = x
  BY AppendProperties
<1> HIDE DEF e
<1>3. f \in Seq(Body) /\ Len(f) = Len(e) + n
      /\ \A i \in 1 .. Len(e) + n : f[i] = IF i <= Len(e) THEN e[i] ELSE g[i - Len(e)]
  BY <1>2, ConcatProperties
<1>4. D \in Nat
  BY LenProperties
<1> HIDE DEF f, D
<1>5. \A i \in 1 .. D : f[i] = d[i]
  <2> TAKE i \in 1 .. D
  <2>1. i \in 1 .. Len(e) + n /\ i <= Len(e)
    BY <1>2, <1>4
  <2> QED
    BY <1>2, <1>3, <2>1
<1>6. f[D + 1] = x
  <2>1. D + 1 \in 1 .. Len(e) + n /\ D + 1 <= Len(e)
    BY <1>2, <1>4
  <2> QED
    BY <1>2, <1>3, <2>1
<1>7. \A i \in 1 .. n : f[D + 1 + i] = g[i]
  <2> TAKE i \in 1 .. n
  <2>1. D + 1 + i \in 1 .. Len(e) + n /\ ~(D + 1 + i <= Len(e)) /\ (D + 1 + i) - Len(e) = i
    BY <1>2, <1>4
  <2> QED
    BY <1>3, <2>1
<1>8. f \in Seq(Body) /\ Len(f) = D + 1 + n
  BY <1>2, <1>3
<1>9. f = (d \o <<x>>) \o g
  BY <1>1 DEF f
<1> QED
  BY ONLY <1>5, <1>6, <1>7, <1>8, <1>9, Zenon DEF D, Extends

LEMMA FrameTaken ==
    ASSUME NEW k, NEW Q \in Nat, NEW s \in End, NEW r \in End, NEW r2 \in End, NEW d \in Seq(Body),
           NEW d2, NEW w \in Seq(Message), NEW b \in Seq(Message), Stream(k, Q, s, r, d, w, b),
           w # <<>>, Head(w).kind = "frame", Head(w).seq = r.rn,
           NEW n \in Nat, Taken(r, r2, d, d2, Head(w), n)
    PROVE  d2 \in Seq(Body) /\ Stream(k, Q, s, r2, d2, Tail(w), b)
<1> DEFINE A == Acked(Q, s)
           M == Sent(Q, s)
           L == InWindow(s)
           D == Len(d)
           m == Head(w)
           g == [i \in 1 .. n |-> r.stash[Step(r.rn, i)]]
<1>0. SenderOK(k, Q, s) /\ OrderOK(s) /\ ReceiverOK(k, Q, s, r, d) /\ FramesOK(k, Q, s, r, d, w)
      /\ AcksOK(Q, s, d, b)
  BY DEF Stream
<1>1. /\ m \in Message /\ m = w[1] /\ 1 \in DOMAIN w /\ Tail(w) \in Seq(Message)
      /\ \A i \in DOMAIN Tail(w) : i \in Nat /\ i + 1 \in DOMAIN w /\ Tail(w)[i] = w[i + 1] /\ 1 < i + 1
  BY HeadOf
<1>2. FrameOK(k, Q, s, r, d, m)
  BY <1>0, <1>1 DEF FramesOK
<1>3. r.rn \in Number /\ r.rn \in Int /\ s.snMin \in Int /\ s.snMin \in Number /\ r2.rn \in Number /\ r2.rn \in Int
  BY EndTyped, Numbers
<1>4. D \in Nat /\ A \in Nat /\ L \in Nat /\ M = A + L /\ M \in Nat /\ L <= Window
  BY <1>0, LenProperties, Amounts
<1>5. m.body = <<k, D + 1>> /\ m.body \in Body /\ D + 1 <= M
  <2>1. Off(m.seq, r.rn) = 0
    <3>1. m.seq - r.rn = 0
      BY <1>3
    <3>2. 0 % SeqCount = 0
      BY Small, Numbers
    <3> QED
      BY <3>1, <3>2 DEF Off
  <2>2. 0 < RxWindow
    BY Sizes
  <2>3. m.body = <<k, D + 1 + 0>>
    <3>1. Off(m.seq, r.rn) < RxWindow => m.body = <<k, D + 1 + Off(m.seq, r.rn)>>
      BY <1>0, <1>1, <1>2, FrameWhere
    <3> HIDE DEF m
    <3> QED
      BY <2>1, <2>2, <3>1
  <2>4. m.body \in Body /\ m.body[2] <= M /\ D + 1 + 0 = D + 1
    BY <1>2, <1>4 DEF FrameOK
  <2> QED
    BY <2>3, <2>4
<1>6. /\ r2.rn = Step(r.rn, n + 1) /\ d2 = (d \o <<m.body>>) \o g
      /\ \A i \in 1 .. n : Step(r.rn, i) \in DOMAIN r.stash
      /\ Step(r.rn, n + 1) \notin DOMAIN r.stash
      /\ \A q \in DOMAIN r2.stash : /\ q \in DOMAIN r.stash /\ r2.stash[q] = r.stash[q]
                                    /\ \A i \in 1 .. n : q # Step(r.rn, i)
  BY DEF Taken
<1>7. /\ n < RxWindow
      /\ \A i \in 1 .. n : /\ Off(Step(r.rn, i), r.rn) = i
                           /\ r.stash[Step(r.rn, i)] = <<k, D + 1 + i>>
                           /\ D + 1 + i <= M
  BY <1>0, <1>6, KeptAhead
<1>8. D + 1 + n <= M
  <2>1. CASE n = 0
    BY <1>4, <1>5, <2>1
  <2>2. CASE n # 0
    <3>1. n \in 1 .. n
      BY <2>2
    <3> QED
      BY <1>7, <3>1
  <2> QED
    BY <2>1, <2>2
<1>9. /\ d2 \in Seq(Body) /\ Len(d2) = D + 1 + n
      /\ \A i \in DOMAIN d2 : d2[i] = <<k, i>>
  <2>1. \A i \in 1 .. n : r.stash[Step(r.rn, i)] \in Body
    BY <1>6, EndTyped
  <2>2. g \in [1 .. n -> Body]
    BY <2>1
  <2>3. g \in Seq(Body) /\ Len(g) = n
    <3>1. g \in Seq(Body)
      <4> HIDE DEF g
      <4> QED
        BY <2>2, SeqDef
    <3>2. DOMAIN g = 1 .. Len(g) /\ Len(g) \in Nat /\ DOMAIN g = 1 .. n
      BY <3>1, LenProperties
    <3>3. Len(g) = n
      <4> HIDE DEF g
      <4> QED
        BY <3>2, SameInterval
    <3> QED
      BY <3>1, <3>3
  <2>4. \A i \in 1 .. n : g[i] = <<k, D + 1 + i>>
    BY <1>7
  <2> HIDE DEF g, D
  <2>5. /\ d2 \in Seq(Body) /\ Len(d2) = D + 1 + n
        /\ \A i \in 1 .. D : d2[i] = d[i]
        /\ d2[D + 1] = m.body
        /\ \A i \in 1 .. n : d2[D + 1 + i] = g[i]
    <3> DEFINE y == m.body
    <3>1. y \in Body
      BY <1>5
    <3> HIDE DEF y, m
    <3>2. Extends((d \o <<y>>) \o g, d, y, n, g)
      BY ONLY <2>3, <3>1, Grown, d \in Seq(Body), n \in Nat, Zenon
    <3>3. d2 = (d \o <<y>>) \o g
      BY <1>6 DEF y, g
    <3>4. Extends(d2, d, y, n, g)
      BY ONLY <3>2, <3>3, Zenon
    <3> QED
      BY ONLY <3>4, Zenon DEF D, y, Extends
  <2>6. DOMAIN d2 = 1 .. D + 1 + n /\ DOMAIN d = 1 .. D
    BY <2>5, LenProperties DEF D
  <2>7. \A i \in DOMAIN d2 : d2[i] = <<k, i>>
    <3> TAKE i \in DOMAIN d2
    <3>1. i \in 1 .. D \/ i = D + 1 \/ (i - (D + 1) \in 1 .. n /\ i = D + 1 + (i - (D + 1)))
      <4>1. D \in Nat /\ n \in Nat
        BY <1>4
      <4>2. i \in 1 .. D + 1 + n
        BY <2>6
      <4> QED
        BY ONLY <4>1, <4>2
    <3>2. CASE i \in 1 .. D
      <4>1. d[i] = <<k, i>>
        BY <1>0, <2>6, <3>2 DEF ReceiverOK
      <4> QED
        BY <2>5, <3>2, <4>1
    <3>3. CASE i = D + 1
      BY <1>5, <2>5, <3>3
    <3>4. CASE i - (D + 1) \in 1 .. n /\ i = D + 1 + (i - (D + 1))
      BY <2>4, <2>5, <3>4
    <3> QED
      BY <3>1, <3>2, <3>3, <3>4
  <2> QED
    BY <2>5, <2>7
<1> HIDE DEF g
<1>10. n + 1 \in Number /\ Off(r2.rn, r.rn) = n + 1
  <2>1. n + 1 \in Number
    BY <1>7, Sizes DEF Number
  <2> QED
    BY <1>3, <1>6, <2>1, Place
<1>11. Off(r2.rn, s.snMin) = (D + 1 + n) - A
  <2>1. A <= D /\ Off(r.rn, s.snMin) = D - A
    BY <1>0 DEF ReceiverOK
  <2>2. r.rn = Step(s.snMin, D - A)
    BY <1>3, <2>1, Placed
  <2> HIDE DEF D, A, L, M
  <2>3. D - A \in Int /\ n + 1 \in Int /\ (D - A) + (n + 1) = (D + 1 + n) - A
    BY <1>4
  <2>4. (D + 1 + n) - A \in Number
    <3>1. 0 <= (D + 1 + n) - A /\ (D + 1 + n) - A <= Window
      <4>1. A <= D /\ n \in Nat
        BY <2>1
      <4> QED
        BY ONLY <1>4, <1>8, <4>1, Sizes
    <3>2. (D + 1 + n) - A \in Int
      BY <1>4
    <3> QED
      BY <3>1, <3>2, Sizes DEF Number
  <2>5. r2.rn = Step(s.snMin, (D + 1 + n) - A)
    <3>1. Step(Step(s.snMin, D - A), n + 1) = Step(s.snMin, (D - A) + (n + 1))
      BY <1>3, <2>3, StepStep
    <3> QED
      BY <1>6, <2>2, <2>3, <3>1
  <2> QED
    BY <1>3, <2>4, <2>5, Place
<1>12. ASSUME NEW q \in DOMAIN r2.stash
       PROVE  /\ q \in DOMAIN r.stash /\ r2.stash[q] = r.stash[q]
              /\ Off(q, r2.rn) = Off(q, r.rn) - (n + 1) /\ Off(q, r.rn) > n + 1
              /\ Off(q, r.rn) \in Nat
  <2> DEFINE o == Off(q, r.rn)
  <2>1. q \in DOMAIN r.stash /\ r2.stash[q] = r.stash[q] /\ \A i \in 1 .. n : q # Step(r.rn, i)
    BY <1>6
  <2>2. q \in Number /\ q \in Int /\ o \in Nat /\ o \in 1 .. RxWindow - 1
    BY <1>0, <2>1, StashPlaces DEF ReceiverOK
  <2>3. q = Step(r.rn, o)
    BY <1>3, <2>2, Placed
  <2>4. o \notin 1 .. n /\ o # n + 1
    BY <1>6, <2>1, <2>3
  <2> HIDE DEF o
  <2>5. o > n + 1
    BY <2>2, <2>4, Sizes
  <2>6. n + 1 <= o
    BY <2>2, <2>5
  <2>7. Off(q, r2.rn) = o - (n + 1)
    BY <1>3, <1>10, <2>2, <2>6, Forward DEF o
  <2> QED
    BY <2>1, <2>2, <2>5, <2>7 DEF o
<1>13. ReceiverOK(k, Q, s, r2, d2)
  <2>1. ASSUME NEW q \in DOMAIN r2.stash
        PROVE  /\ Off(q, r2.rn) \in 1 .. RxWindow - 1
               /\ Len(d2) + 1 + Off(q, r2.rn) <= M
               /\ r2.stash[q] = <<k, Len(d2) + 1 + Off(q, r2.rn)>>
    <3> DEFINE o == Off(q, r.rn)
    <3>1. o \in 1 .. RxWindow - 1 /\ D + 1 + o <= M /\ r.stash[q] = <<k, D + 1 + o>>
      BY <1>0, <1>12 DEF ReceiverOK
    <3>2. o \in Nat /\ o > n + 1 /\ Off(q, r2.rn) = o - (n + 1) /\ r2.stash[q] = r.stash[q]
      BY <1>12
    <3> HIDE DEF o, D, M, A, L
    <3>3. (D + 1 + n) + 1 + (o - (n + 1)) = D + 1 + o
      BY <1>4, <3>2
    <3>4. o - (n + 1) \in 1 .. RxWindow - 1
      BY <3>1, <3>2, Sizes
    <3> QED
      BY <1>9, <3>1, <3>2, <3>3, <3>4
  <2>2. A <= D + 1 + n
    <3>1. A <= D
      BY <1>0 DEF ReceiverOK
    <3> HIDE DEF A, D, M, L
    <3> QED
      BY <1>4, <3>1
  <2> QED
    BY <1>8, <1>9, <1>11, <2>1, <2>2 DEF ReceiverOK
<1>14. FramesOK(k, Q, s, r2, d2, Tail(w))
  <2> DEFINE v == Tail(w)
  <2>1. FramesOK(k, Q, s, r, d, v)
    BY <1>0, <1>1, StretchOfTail, StretchFrames
  <2>2. ASSUME NEW i \in DOMAIN v, v[i].kind = "frame" PROVE FrameOK(k, Q, s, r2, d2, v[i])
    <3> DEFINE j == v[i].body[2]
    <3>1. FrameOK(k, Q, s, r, d, v[i])
      BY <2>1, <2>2 DEF FramesOK
    <3>2. j \in Nat
      BY <3>1, BodyTyped DEF FrameOK
    <3>3. D + 1 < j + Window
      <4>1. i + 1 \in DOMAIN w /\ v[i] = w[i + 1] /\ 1 < i + 1
        BY <1>1
      <4>2. m.body[2] < j + Window
        BY <1>0, <1>1, <2>2, <4>1 DEF FramesOK
      <4> QED
        BY <1>5, <4>2
    <3>4. Len(d2) < j + Window
      <4>1. CASE n = 0
        <5>1. D + 1 + n = D + 1
          BY <1>4, <4>1
        <5> QED
          BY <1>9, <3>3, <5>1
      <4>2. CASE n # 0
        <5>1. n \in 1 .. n
          BY <4>2
        <5>2. D + 1 + Off(Step(r.rn, n), r.rn) < j + Window
          BY <1>6, <3>1, <5>1 DEF FrameOK
        <5> QED
          BY <1>7, <1>9, <5>1, <5>2
      <4> QED
        BY <4>1, <4>2
    <3>5. ASSUME NEW q \in DOMAIN r2.stash PROVE Len(d2) + 1 + Off(q, r2.rn) < j + Window
      <4> DEFINE o == Off(q, r.rn)
      <4>1. D + 1 + o < j + Window
        BY <1>12, <3>1 DEF FrameOK
      <4>2. o \in Nat /\ Off(q, r2.rn) = o - (n + 1)
        BY <1>12
      <4> HIDE DEF o, D, j, A, L, M
      <4>3. (D + 1 + n) + 1 + (o - (n + 1)) = D + 1 + o
        BY <1>4, <4>2
      <4> QED
        BY <1>9, <4>1, <4>2, <4>3
    <3> QED
      BY <3>1, <3>4, <3>5 DEF FrameOK
  <2> HIDE DEF v
  <2> QED
    BY <2>1, <2>2 DEF FramesOK, v
<1>15. AcksOK(Q, s, d2, b)
  <2>1. ASSUME NEW x \in Message, AckOK(Q, s, d, x) PROVE AckOK(Q, s, d2, x)
    <3>1. Off(x.seq, s.snMin) \in Nat /\ Off(x.seq, s.snMin) <= D - A
      <4>1. x.seq \in Int
        BY MessageTyped
      <4> QED
        BY <1>3, <2>1, <4>1, OffNat DEF AckOK
    <3>2. Off(x.seq, s.snMin) <= (D + 1 + n) - A
      <4> HIDE DEF D, A, L, M
      <4> QED
        BY <1>4, <3>1
    <3> QED
      BY <1>9, <2>1, <3>2 DEF AckOK
  <2>2. \A i \in DOMAIN b : b[i] \in Message
    BY LenProperties, ElementOfSeq
  <2> HIDE DEF AckOK
  <2> QED
    BY <1>0, <2>1, <2>2 DEF AcksOK
<1> QED
  BY <1>0, <1>9, <1>13, <1>14, <1>15 DEF Stream
-----------------------------------------------------------------------------
(* What an end sends is right for both of its streams.                     *)

Sendable(k, Qs, s, ds, Qp, p, m) ==
    /\ m.kind = "frame" => OfWindow(k, Qs, s, m)
    /\ m.kind = "ack" => /\ AckOK(Qp, p, ds, m)
                         /\ Off(m.seq, p.snMin) = Len(ds) - Acked(Qp, p)

LEMMA PairMore ==
    ASSUME NEW k, NEW Qs \in Nat, NEW s \in End, NEW ds \in Seq(Body), NEW ws \in Seq(Message),
           NEW Qp \in Nat, NEW p \in End, NEW dp \in Seq(Body), NEW wp \in Seq(Message),
           Pair(k, Qs, s, ds, ws, Qp, p, dp, wp), NEW x \in Seq(Message),
           \A i \in DOMAIN x : Sendable(k, Qs, s, ds, Qp, p, x[i])
    PROVE  Pair(k, Qs, s, ds, ws \o x, Qp, p, dp, wp) /\ ws \o x \in Seq(Message)
<1>1. Stream(k, Qs, s, p, dp, ws, wp) /\ Stream(k, Qp, p, s, ds, wp, ws)
  BY DEF Pair
<1>2. FramesOK(k, Qs, s, p, dp, ws \o x)
  <2>1. SenderOK(k, Qs, s) /\ ReceiverOK(k, Qs, s, p, dp) /\ FramesOK(k, Qs, s, p, dp, ws)
    BY <1>1 DEF Stream
  <2>2. \A i \in DOMAIN x : x[i].kind = "frame" => OfWindow(k, Qs, s, x[i])
    BY DEF Sendable
  <2> QED
    BY <2>1, <2>2, MoreFrames
<1>3. AcksOK(Qp, p, ds, ws \o x)
  <2>1. AcksOK(Qp, p, ds, ws)
    BY <1>1 DEF Stream
  <2>2. \A i \in DOMAIN x : x[i].kind = "ack" =>
           AckOK(Qp, p, ds, x[i]) /\ Off(x[i].seq, p.snMin) = Len(ds) - Acked(Qp, p)
    BY DEF Sendable
  <2> QED
    BY <2>1, <2>2, MoreAcks
<1>4. ws \o x \in Seq(Message)
  BY ConcatProperties
<1> QED
  BY <1>1, <1>2, <1>3, <1>4 DEF Pair, Stream

Ack(s, to) == [kind |-> "ack", seq |-> s.rn, to |-> to, body |-> <<>>]

LEMMA AckSendable ==
    ASSUME NEW k, NEW Qs, NEW s \in End, NEW ds \in Seq(Body), NEW Qp \in Nat, NEW p \in End,
           SenderOK(k, Qp, p), ReceiverOK(k, Qp, p, s, ds), NEW to \in Number,
           to = s.rn \/ (Len(ds) - Acked(Qp, p)) + Off(to, s.rn) <= InWindow(p)
    PROVE  Ack(s, to) \in Message /\ Sendable(k, Qs, s, ds, Qp, p, Ack(s, to))
<1> DEFINE m == Ack(s, to)
           D == Len(ds)
           A == Acked(Qp, p)
           L == InWindow(p)
<1>1. m.kind = "ack" /\ m.seq = s.rn /\ m.to = to /\ m \in Message
  BY EndTyped, AckTyped DEF Ack
<1>2. A \in Nat /\ L \in Nat /\ Sent(Qp, p) = A + L /\ D \in Nat
  BY Amounts, LenProperties
<1>3. Off(s.rn, p.snMin) = D - A /\ D <= Sent(Qp, p)
  BY DEF ReceiverOK
<1>4. Off(s.rn, s.rn) = 0
  <2>1. s.rn - s.rn = 0 /\ 0 % SeqCount = 0
    BY EndTyped, Small, Numbers
  <2> QED
    BY <2>1 DEF Off
<1>5. (D - A) + Off(to, s.rn) <= L
  <2>1. CASE to = s.rn
    <3>1. Off(to, s.rn) = 0
      BY <1>4, <2>1
    <3> HIDE DEF D, A, L
    <3> QED
      BY <1>2, <1>3, <3>1
  <2> QED
    BY <2>1
<1>6. D - A <= D - A
  BY <1>2
<1> HIDE DEF m
<1>7. AckOK(Qp, p, ds, m)
  BY <1>1, <1>3, <1>5, <1>6 DEF AckOK
<1> QED
  BY <1>1, <1>3, <1>7 DEF Sendable, m

\* Sending one message more.
LEMMA OneSendable ==
    ASSUME NEW k, NEW Qs, NEW s, NEW ds, NEW Qp, NEW p, NEW m \in Message,
           Sendable(k, Qs, s, ds, Qp, p, m)
    PROVE  <<m>> \in Seq(Message) /\ \A i \in DOMAIN <<m>> : Sendable(k, Qs, s, ds, Qp, p, <<m>>[i])
<1>1. <<m>> \in Seq(Message)
  OBVIOUS
<1>2. \A i \in DOMAIN <<m>> : <<m>>[i] = m
  OBVIOUS
<1> QED
  BY <1>1, <1>2

\* Numbers of frames that are in the window, each named once.
Outstanding(s, qs) ==
    /\ \A i \in DOMAIN qs : Off(qs[i], s.snMin) < InWindow(s)
    /\ \A i, j \in DOMAIN qs : qs[i] = qs[j] => i = j

LEMMA OrderResent ==
    ASSUME NEW s \in End, NEW s2, OrderOK(s), NEW qs \in Seq(Number), Outstanding(s, qs),
           s2.snMin = s.snMin, s2.snMax = s.snMax,
           s2.order = Only(s.order, Range(s.order) \ Range(qs)) \o qs
    PROVE  OrderOK(s2) /\ s2.order \in Seq(Number)
<1> DEFINE o == Only(s.order, Range(s.order) \ Range(qs))
           v == o \o qs
<1>0. /\ \A i \in DOMAIN qs : Off(qs[i], s.snMin) < InWindow(s)
      /\ \A i, j \in DOMAIN qs : qs[i] = qs[j] => i = j
  BY DEF Outstanding
<1>1. s.order \in Seq(Number) /\ \A i, j \in DOMAIN s.order : s.order[i] = s.order[j] => i = j
  BY EndTyped DEF OrderOK
<1>2. /\ o \in Seq(Number)
      /\ \A q : q \in Range(o) <=> q \in Range(s.order) /\ q \in Range(s.order) \ Range(qs)
      /\ \A i, j \in DOMAIN o : o[i] = o[j] => i = j
  BY <1>1, OnlyKeeps
<1> HIDE DEF o
<1>3. /\ v \in Seq(Number) /\ Len(o) \in Nat /\ Len(qs) \in Nat
      /\ DOMAIN o = 1 .. Len(o) /\ DOMAIN qs = 1 .. Len(qs) /\ DOMAIN v = 1 .. Len(v)
      /\ Len(v) = Len(o) + Len(qs)
      /\ \A i \in DOMAIN v : \/ i \in DOMAIN o /\ v[i] = o[i]
                             \/ i - Len(o) \in DOMAIN qs /\ v[i] = qs[i - Len(o)]
  BY <1>2, Elements, LenProperties, ConcatProperties
<1>4. Range(v) = Range(o) \cup Range(qs)
  BY <1>2, RangeConcatenation
<1> HIDE DEF v
<1>5. \A i, j \in DOMAIN v : v[i] = v[j] => i = j
  <2> TAKE i, j \in DOMAIN v
  <2> HAVE v[i] = v[j]
  <2>1. \A h \in DOMAIN o, l \in DOMAIN qs : o[h] # qs[l]
    <3> TAKE h \in DOMAIN o, l \in DOMAIN qs
    <3>1. o[h] \in Range(o) /\ qs[l] \in Range(qs)
      BY DEF Range
    <3> QED
      BY <1>2, <3>1
  <2>2. \/ i \in DOMAIN o /\ v[i] = o[i]
        \/ i - Len(o) \in DOMAIN qs /\ v[i] = qs[i - Len(o)]
    BY <1>3
  <2>3. \/ j \in DOMAIN o /\ v[j] = o[j]
        \/ j - Len(o) \in DOMAIN qs /\ v[j] = qs[j - Len(o)]
    BY <1>3
  <2>4. CASE i \in DOMAIN o /\ v[i] = o[i] /\ j \in DOMAIN o /\ v[j] = o[j]
    BY <1>2, <2>4
  <2>5. CASE /\ i - Len(o) \in DOMAIN qs /\ v[i] = qs[i - Len(o)]
             /\ j - Len(o) \in DOMAIN qs /\ v[j] = qs[j - Len(o)]
    <3>1. i - Len(o) = j - Len(o)
      BY <1>0, <2>5
    <3>2. i \in Int /\ j \in Int
      BY <1>3
    <3> QED
      BY <1>3, <3>1, <3>2
  <2> QED
    BY <2>1, <2>2, <2>3, <2>4, <2>5
<1>6. \A q \in Number : q \in Range(v) <=> Off(q, s.snMin) < InWindow(s)
  <2> TAKE q \in Number
  <2>1. q \in Range(s.order) <=> Off(q, s.snMin) < InWindow(s)
    BY DEF OrderOK
  <2>2. q \in Range(qs) => Off(q, s.snMin) < InWindow(s)
    <3> SUFFICES ASSUME q \in Range(qs) PROVE Off(q, s.snMin) < InWindow(s)
      OBVIOUS
    <3>1. PICK i \in DOMAIN qs : q = qs[i]
      BY DEF Range
    <3> QED
      BY <1>0, <3>1
  <2>3. q \in Range(o) <=> q \in Range(s.order) /\ q \notin Range(qs)
    BY <1>2
  <2> QED
    BY <1>4, <2>1, <2>2, <2>3
<1>7. InWindow(s2) = InWindow(s) /\ s2.order = v
  BY DEF InWindow, o, v
<1> QED
  BY <1>3, <1>5, <1>6, <1>7 DEF OrderOK
-----------------------------------------------------------------------------
(* What an end keeps to itself, whatever it reads.                         *)

Own(e, k, Q, s) == s \in End /\ Sound(k, Q, s) /\ (e = "device" => DOMAIN s.stash = {})

LEMMA OwnSame ==
    ASSUME NEW e, NEW k, NEW Q, NEW s, NEW s2 \in End,
           s2.fifo = s.fifo, s2.snMin = s.snMin, s2.snMax = s.snMax, s2.order = s.order,
           s2.rn = s.rn, DOMAIN s2.stash \subseteq DOMAIN s.stash, Own(e, k, Q, s)
    PROVE  Own(e, k, Q, s2)
<1>1. InWindow(s2) = InWindow(s) /\ Acked(Q, s2) = Acked(Q, s)
  BY DEF InWindow, Acked
<1>2. SenderOK(k, Q, s2) /\ OrderOK(s2)
  BY <1>1 DEF Own, Sound, SenderOK, OrderOK
<1>3. StashOK(s2) /\ (e = "device" => DOMAIN s2.stash = {})
  BY DEF Own, Sound, StashOK
<1> QED
  BY <1>2, <1>3 DEF Own, Sound

LEMMA AckSent ==
    ASSUME NEW s \in End, NEW to \in Number
    PROVE  LET t == SendAck(s, to)
           IN  /\ t \in End /\ t.out = Append(s.out, Ack(s, to))
               /\ t.fifo = s.fifo /\ t.snMin = s.snMin /\ t.snMax = s.snMax /\ t.order = s.order
               /\ t.rn = s.rn /\ t.stash = s.stash /\ t.rx = s.rx
<1> DEFINE out == Append(s.out, Ack(s, to))
           t == SendAck(s, to)
<1>1. t = [s EXCEPT !.out = out]
  BY DEF SendAck, Send, Ack
<1>2. out \in Seq(Message)
  <2>1. s.out \in Seq(Message) /\ Ack(s, to) \in Message
    BY EndTyped, AckTyped DEF Ack
  <2> QED
    BY <2>1, AppendProperties
<1> HIDE DEF out, t
<1>3. /\ t.fifo = s.fifo /\ t.snMin = s.snMin /\ t.snMax = s.snMax /\ t.order = s.order
      /\ t.rn = s.rn /\ t.stash = s.stash /\ t.rx = s.rx /\ t.out = out
  BY <1>1 DEF End
<1>4. t \in End
  BY <1>1, <1>2 DEF End
<1> QED
  BY <1>3, <1>4 DEF t, out

LEMMA AckOwn ==
    ASSUME NEW e, NEW k, NEW Q, NEW s, Own(e, k, Q, s), NEW to \in Number
    PROVE  Own(e, k, Q, SendAck(s, to))
<1>1. s \in End
  BY DEF Own
<1> DEFINE t == SendAck(s, to)
<1>2. /\ t \in End /\ t.fifo = s.fifo /\ t.snMin = s.snMin /\ t.snMax = s.snMax /\ t.order = s.order
      /\ t.rn = s.rn /\ t.stash = s.stash
  BY <1>1, AckSent
<1> HIDE DEF t
<1>3. Own(e, k, Q, t)
  BY <1>2, OwnSame
<1> QED
  BY <1>3 DEF t

LEMMA NackOwn ==
    ASSUME NEW e, NEW k, NEW Q, NEW s, Own(e, k, Q, s), NEW to \in Number
    PROVE  Own(e, k, Q, Nack(s, to)) /\ Nack(s, to).rn = s.rn
<1> DEFINE t == [s EXCEPT !.nack = to]
<1>1. Nack(s, to) = SendAck(t, to)
  BY DEF Nack
<1>2. t = [s EXCEPT !.nack = to] /\ s \in End
  BY DEF Own
<1> HIDE DEF t
<1>3. /\ t.fifo = s.fifo /\ t.snMin = s.snMin /\ t.snMax = s.snMax /\ t.order = s.order
      /\ t.rn = s.rn /\ t.stash = s.stash
  BY <1>2 DEF End
<1>4. t \in End
  BY <1>2 DEF End
<1>5. Own(e, k, Q, t)
  BY <1>3, <1>4, OwnSame
<1>6. Own(e, k, Q, SendAck(t, to))
  BY <1>5, AckOwn
<1>7. SendAck(t, to).rn = t.rn
  BY <1>4, AckSent
<1> QED
  BY <1>1, <1>3, <1>6, <1>7

\* The frames qs of the window as they are sent again.
Again(s, qs) == [i \in DOMAIN qs |-> Frame(qs[i], s.fifo[1 + Off(qs[i], s.snMin)])]

LEMMA AgainTyped ==
    ASSUME NEW s \in End, InWindow(s) <= Len(s.fifo), NEW qs \in Seq(Number), Outstanding(s, qs)
    PROVE  Again(s, qs) \in Seq(Message)
<1> DEFINE x == Again(s, qs)
<1>1. /\ s.snMin \in Int /\ s.fifo \in Seq(Body) /\ Len(s.fifo) \in Nat /\ InWindow(s) \in Nat
      /\ Len(qs) \in Nat /\ DOMAIN qs = 1 .. Len(qs)
  BY EndTyped, LenProperties
<1>2. ASSUME NEW i \in 1 .. Len(qs) PROVE x[i] \in Message
  <2> DEFINE o == Off(qs[i], s.snMin)
  <2>1. qs[i] \in Number /\ o \in Nat /\ o < InWindow(s)
    BY <1>1, ElementOfSeq, OffNat, Numbers DEF Outstanding
  <2>2. x[i] = Frame(qs[i], s.fifo[1 + o])
    BY <1>1 DEF Again
  <2> HIDE DEF o, x
  <2>3. 1 + o \in 1 .. Len(s.fifo)
    BY <1>1, <2>1
  <2>4. s.fifo[1 + o] \in Body
    BY <1>1, <2>3, ElementOfSeq
  <2> QED
    BY ONLY <2>1, <2>2, <2>4, FrameTyped
<1>3. x = [i \in 1 .. Len(qs) |-> x[i]]
  BY <1>1 DEF Again
<1> HIDE DEF x
<1>4. x \in [1 .. Len(qs) -> Message]
  BY <1>2, <1>3
<1> QED
  BY <1>1, <1>4, IsSeq DEF x

LEMMA ResentTyped ==
    ASSUME NEW s \in End, InWindow(s) <= Len(s.fifo), OrderOK(s), NEW qs \in Seq(Number),
           Outstanding(s, qs)
    PROVE  LET t == Resend(s, qs)
           IN  /\ t \in End /\ OrderOK(t) /\ t.out = s.out \o Again(s, qs)
               /\ t.fifo = s.fifo /\ t.snMin = s.snMin /\ t.snMax = s.snMax
               /\ t.rn = s.rn /\ t.stash = s.stash /\ t.rx = s.rx
<1> DEFINE out == s.out \o Again(s, qs)
           order == Only(s.order, Range(s.order) \ Range(qs)) \o qs
           t == Resend(s, qs)
<1>1. t = [s EXCEPT !.out = out, !.order = order]
  BY DEF Resend, Again
<1>2. order = Only(s.order, Range(s.order) \ Range(qs)) \o qs
  OBVIOUS
<1>3. out \in Seq(Message)
  BY EndTyped, AgainTyped, ConcatProperties
<1> HIDE DEF t, out, order
<1>4. /\ t.fifo = s.fifo /\ t.snMin = s.snMin /\ t.snMax = s.snMax /\ t.rn = s.rn /\ t.stash = s.stash
      /\ t.rx = s.rx /\ t.out = out /\ t.order = order
  BY <1>1 DEF End
<1>5. OrderOK(t) /\ t.order \in Seq(Number)
  BY <1>2, <1>4, OrderResent, Zenon
<1>6. t \in End
  <2>1. order \in Seq(Number)
    BY <1>4, <1>5
  <2> QED
    BY <1>1, <1>3, <2>1 DEF End
<1> QED
  BY <1>4, <1>5, <1>6 DEF t, out

LEMMA ResendOwn ==
    ASSUME NEW e, NEW k, NEW Q, NEW s, Own(e, k, Q, s), NEW qs \in Seq(Number), Outstanding(s, qs)
    PROVE  Own(e, k, Q, Resend(s, qs))
<1> DEFINE t == Resend(s, qs)
<1>1. /\ s \in End /\ SenderOK(k, Q, s) /\ OrderOK(s) /\ StashOK(s)
      /\ (e = "device" => DOMAIN s.stash = {}) /\ InWindow(s) <= Len(s.fifo)
  BY DEF Own, Sound, SenderOK
<1>2. /\ t \in End /\ OrderOK(t) /\ t.fifo = s.fifo /\ t.snMin = s.snMin /\ t.snMax = s.snMax
      /\ t.rn = s.rn /\ t.stash = s.stash
  BY <1>1, ResentTyped
<1> HIDE DEF t
<1>3. InWindow(t) = InWindow(s) /\ Acked(Q, t) = Acked(Q, s)
  BY <1>2 DEF InWindow, Acked
<1>4. SenderOK(k, Q, t)
  BY <1>1, <1>2, <1>3 DEF SenderOK
<1>5. StashOK(t)
  BY <1>1, <1>2 DEF StashOK
<1>6. Own(e, k, Q, t)
  BY <1>1, <1>2, <1>4, <1>5 DEF Own, Sound
<1> QED
  BY <1>6 DEF t

\* A plausible acknowledgement slides the window and asks for some of the rest.
AckTaken(e, s, m, t, qs) ==
    /\ Slid(s, t, m.seq)
    /\ t.rn = s.rn /\ t.stash = s.stash /\ t.rx = s.rx /\ t.out = s.out
    /\ Outstanding(t, qs)
    /\ GotAck(e, s, m) = IF e = "device" THEN Resend(t, qs) ELSE t

LEMMA AckSlides ==
    ASSUME NEW e, NEW s \in End, OrderOK(s), NEW m \in Message, Plausible(s, m)
    PROVE  \E t \in End, qs \in Seq(Number) : AckTaken(e, s, m, t, qs)
<1> DEFINE a == Off(m.seq, s.snMin)
           L == InWindow(s)
           fifo == SubSeq(s.fifo, a + 1, Len(s.fifo))
           order == Only(s.order, NumbersFrom(m.seq, L - a))
           t == [s EXCEPT !.snMin = m.seq, !.fifo = fifo, !.order = order]
<1>1. m.seq \in Number /\ m.to \in Number /\ m.seq \in Int /\ m.to \in Int
  BY MessageTyped
<1>2. a <= L
  BY DEF Plausible
<1>3. /\ s.snMin \in Int /\ s.snMax \in Int /\ s.fifo \in Seq(Body) /\ s.order \in Seq(Number)
      /\ L = Off(s.snMax, s.snMin)
  BY EndTyped
<1>4. fifo \in Seq(Body)
  <2>1. a \in Nat /\ Len(s.fifo) \in Nat
    BY <1>1, <1>3, OffNat, EndTyped
  <2>2. \A i \in a + 1 .. Len(s.fifo) : s.fifo[i] \in Body
    <3> TAKE i \in a + 1 .. Len(s.fifo)
    <3> HIDE DEF a
    <3>1. i \in 1 .. Len(s.fifo)
      BY <2>1
    <3> QED
      BY <1>3, <3>1, ElementOfSeq
  <2> HIDE DEF a
  <2>3. a + 1 \in Int /\ Len(s.fifo) \in Int
    BY <2>1
  <2> QED
    BY <2>2, <2>3, SubSeqProperties
<1>5. order \in Seq(Number)
  BY <1>3, OnlyKeeps DEF OrderOK
<1>6. /\ t \in End /\ t.snMin = m.seq /\ t.snMax = s.snMax /\ t.fifo = fifo /\ t.order = order
      /\ t.rn = s.rn /\ t.stash = s.stash /\ t.rx = s.rx /\ t.out = s.out
  <2> HIDE DEF fifo, order
  <2>1. /\ t.snMin = m.seq /\ t.snMax = s.snMax /\ t.fifo = fifo /\ t.order = order
        /\ t.rn = s.rn /\ t.stash = s.stash /\ t.rx = s.rx /\ t.out = s.out
    BY DEF End
  <2>2. t \in End
    BY <1>1, <1>4, <1>5 DEF End
  <2> QED
    BY <2>1, <2>2
<1>7. Slid(s, t, m.seq)
  <2> HIDE DEF t
  <2> QED
    BY <1>6 DEF Slid
<1> DEFINE wanted == Off(m.to, m.seq)
           n == IF wanted <= L - a THEN wanted ELSE L - a
           qs == [i \in 1 .. n |-> Step(m.seq, i - 1)]
<1>8. GotAck(e, s, m) = IF e = "device" THEN Resend(t, qs) ELSE t
  BY DEF GotAck
<1> HIDE DEF t
<1>9. InWindow(t) = L - a
  BY <1>1, <1>2, <1>6, <1>7, SlidWindow
<1>10. qs \in Seq(Number) /\ Outstanding(t, qs)
  <2>1. a \in Nat /\ L \in Nat /\ wanted \in Nat /\ a <= L /\ L < SeqCount
    <3>1. a \in Nat /\ wanted \in Nat
      BY <1>1, <1>3, OffNat
    <3>2. L \in Nat /\ L < SeqCount
      <4> HIDE DEF L
      <4> QED
        BY ONLY <1>3, OffNat
    <3> HIDE DEF a, L, wanted
    <3> QED
      BY ONLY <3>1, <3>2, <1>2
  <2>2. n \in Nat /\ n <= L - a
    <3> HIDE DEF a, L, wanted
    <3> QED
      BY <2>1
  <2>3. ASSUME NEW i \in 1 .. n
        PROVE  qs[i] = Step(m.seq, i - 1) /\ qs[i] \in Number /\ Off(qs[i], m.seq) = i - 1
    <3> HIDE DEF n
    <3>1. i - 1 \in Int
      BY <1>1, <2>2
    <3>2. qs[i] = Step(m.seq, i - 1)
      OBVIOUS
    <3>3. i - 1 \in Number
      <4> HIDE DEF a, L, qs
      <4> QED
        BY <2>1, <2>2, Sizes DEF Number
    <3> HIDE DEF qs
    <3> QED
      BY <1>1, <3>2, <3>3, Place, StepTyped, Numbers
  <2>4. DOMAIN qs = 1 .. n
    OBVIOUS
  <2>5. qs \in [1 .. n -> Number]
    <3>1. qs = [i \in 1 .. n |-> qs[i]]
      OBVIOUS
    <3> HIDE DEF qs, n
    <3> QED
      BY <2>3, <3>1
  <2> HIDE DEF qs, n
  <2>6. qs \in Seq(Number)
    BY <2>2, <2>5, IsSeq
  <2>7. \A i \in DOMAIN qs : Off(qs[i], t.snMin) < InWindow(t)
    <3> TAKE i \in DOMAIN qs
    <3>1. Off(qs[i], m.seq) = i - 1 /\ i \in 1 .. n
      BY <2>3, <2>4
    <3>2. i - 1 < L - a
      <4> HIDE DEF a, L
      <4> QED
        BY <2>1, <2>2, <3>1
    <3> QED
      BY <1>6, <1>9, <3>1, <3>2
  <2>8. \A i, j \in DOMAIN qs : qs[i] = qs[j] => i = j
    <3> TAKE i, j \in DOMAIN qs
    <3> HAVE qs[i] = qs[j]
    <3>1. i \in 1 .. n /\ j \in 1 .. n
      BY <2>4
    <3>2. Off(qs[i], m.seq) = i - 1 /\ Off(qs[j], m.seq) = j - 1
      BY <2>3, <3>1
    <3>3. i - 1 = j - 1
      BY <3>2
    <3> QED
      BY ONLY <3>1, <3>3, <2>2
  <2> QED
    BY <2>6, <2>7, <2>8 DEF Outstanding
<1> HIDE DEF qs
<1>11. AckTaken(e, s, m, t, qs)
  BY <1>6, <1>7, <1>8, <1>10 DEF AckTaken
<1> QED
  BY <1>6, <1>10, <1>11

LEMMA GotAckOwn ==
    ASSUME NEW e, NEW k, NEW Q \in Nat, NEW s, Own(e, k, Q, s), NEW m \in Message
    PROVE  Own(e, k, Q, GotAck(e, s, m))
<1>1. /\ s \in End /\ SenderOK(k, Q, s) /\ OrderOK(s) /\ StashOK(s)
      /\ (e = "device" => DOMAIN s.stash = {})
  BY DEF Own, Sound
<1>2. CASE ~Plausible(s, m)
  BY <1>2 DEF GotAck
<1>3. CASE Plausible(s, m)
  <2>1. PICK t \in End, qs \in Seq(Number) : AckTaken(e, s, m, t, qs)
    BY <1>1, <1>3, AckSlides
  <2>2. m.seq \in Number /\ Off(m.seq, s.snMin) <= InWindow(s)
    BY <1>3, MessageTyped DEF Plausible
  <2>3. SenderOK(k, Q, t) /\ OrderOK(t)
    BY <1>1, <2>1, <2>2, SlidSender DEF AckTaken
  <2>4. StashOK(t)
    BY <1>1, <2>1 DEF StashOK, AckTaken
  <2>5. Own(e, k, Q, t)
    BY <1>1, <2>1, <2>3, <2>4 DEF Own, Sound, AckTaken
  <2>6. Own(e, k, Q, Resend(t, qs))
    BY <2>1, <2>5, ResendOwn DEF AckTaken
  <2> QED
    BY <2>1, <2>5, <2>6 DEF AckTaken
<1> QED
  BY <1>2, <1>3

\* There is a gap behind the frame that is waited for: the stash is bounded.
LEMMA GapBehind ==
    ASSUME NEW s \in End, StashOK(s)
    PROVE  /\ Joined(s) \in Nat /\ Joined(s) < RxWindow
           /\ \A i \in 1 .. Joined(s) : Step(s.rn, i) \in DOMAIN s.stash
           /\ Step(s.rn, Joined(s) + 1) \notin DOMAIN s.stash
<1> DEFINE Gap == {n \in Nat : Step(s.rn, n + 1) \notin DOMAIN s.stash}
           R == RxWindow - 1
<1>1. R \in Nat /\ R + 1 \in Number /\ R + 1 = RxWindow /\ s.rn \in Int
  BY Sizes, EndTyped DEF Number
<1>2. R \in Gap
  <2>1. SUFFICES ASSUME Step(s.rn, R + 1) \in DOMAIN s.stash PROVE FALSE
    BY <1>1
  <2>2. Off(Step(s.rn, R + 1), s.rn) \in 1 .. RxWindow - 1
    BY <2>1 DEF StashOK
  <2> HIDE DEF R
  <2>3. Off(Step(s.rn, R + 1), s.rn) = R + 1
    BY <1>1, Place
  <2> QED
    BY <1>1, <2>2, <2>3, Sizes
<1>3. PICK n \in Gap : \A x \in Gap : n <= x
  <2>1. Gap \in SUBSET Nat /\ Gap # {}
    BY <1>2
  <2> HIDE DEF Gap
  <2> QED
    BY <2>1, LeastOf
<1>4. n \in Nat /\ n <= R /\ n \in 0 .. SeqCount /\ Step(s.rn, n + 1) \notin DOMAIN s.stash
  <2>1. n \in Nat /\ n <= R /\ Step(s.rn, n + 1) \notin DOMAIN s.stash
    BY <1>2, <1>3
  <2> QED
    BY <1>1, <2>1, Sizes
<1>5. \A i \in 1 .. n : Step(s.rn, i) \in DOMAIN s.stash
  <2> TAKE i \in 1 .. n
  <2>1. i - 1 \in Nat /\ (i - 1) + 1 = i /\ ~(n <= i - 1)
    BY <1>4
  <2>2. i - 1 \notin Gap
    BY <1>3, <2>1
  <2> QED
    BY <2>1, <2>2
<1> HIDE DEF Gap
<1>6. /\ Joined(s) \in 0 .. SeqCount
      /\ \A i \in 1 .. Joined(s) : Step(s.rn, i) \in DOMAIN s.stash
      /\ Step(s.rn, Joined(s) + 1) \notin DOMAIN s.stash
  BY <1>4, <1>5 DEF Joined
<1>7. Joined(s) <= n
  <2>1. SUFFICES ASSUME n < Joined(s) PROVE FALSE
    BY <1>4, <1>6
  <2>2. n + 1 \in 1 .. Joined(s)
    BY <1>4, <1>6, <2>1
  <2> QED
    BY <1>4, <1>6, <2>2
<1> QED
  BY <1>1, <1>4, <1>6, <1>7

\* t is s with the frame m and the n kept behind it handed on.
HandedOn(s, m, n, t, g) ==
    /\ t \in End /\ g \in Seq(Body) /\ g = [i \in 1 .. n |-> s.stash[Step(s.rn, i)]]
    /\ t.fifo = s.fifo /\ t.snMin = s.snMin /\ t.snMax = s.snMax /\ t.order = s.order
    /\ t.out = s.out
    /\ t.rx = (s.rx \o <<m.body>>) \o g /\ t.rn = Step(s.rn, n + 1)
    /\ \A q \in DOMAIN t.stash : /\ q \in DOMAIN s.stash /\ t.stash[q] = s.stash[q]
                                 /\ \A i \in 1 .. n : q # Step(s.rn, i)

LEMMA TakingTyped ==
    ASSUME NEW s \in End, NEW m, m.body \in Body, NEW n \in Nat,
           \A i \in 1 .. n : Step(s.rn, i) \in DOMAIN s.stash
    PROVE  \E g : HandedOn(s, m, n, Taking(s, m, n), g)
<1> DEFINE t == Taking(s, m, n)
           g == [i \in 1 .. n |-> s.stash[Step(s.rn, i)]]
           rn == Step(s.rn, n + 1)
           rx == (s.rx \o <<m.body>>) \o g
           K == DOMAIN s.stash \ {Step(s.rn, i) : i \in 1 .. n}
           stash == [q \in K |-> s.stash[q]]
           nack == IF \E i \in 1 .. n : Step(s.rn, i + 1) = s.nack THEN NoSeq ELSE s.nack
<1>1. t = [s EXCEPT !.rn = rn, !.rx = rx, !.stash = stash, !.nack = nack]
  BY DEF Taking
<1>2. g \in Seq(Body)
  <2>1. g \in [1 .. n -> Body]
    BY EndTyped
  <2> HIDE DEF g
  <2> QED
    BY <2>1, IsSeq
<1>3. rn \in Number /\ nack \in Number \cup {NoSeq}
  <2>1. s.rn \in Int /\ n + 1 \in Int
    BY EndTyped
  <2> QED
    BY <2>1, EndTyped, StepTyped
<1>4. rx \in Seq(Body)
  <2>1. s.rx \in Seq(Body) /\ <<m.body>> \in Seq(Body)
    BY EndTyped
  <2> HIDE DEF g
  <2> QED
    BY <1>2, <2>1, ConcatProperties
<1>5. stash \in Stash
  <2>1. K \in SUBSET Number /\ stash \in [K -> Body]
    BY EndTyped
  <2> HIDE DEF K, stash
  <2> QED
    BY <2>1 DEF Stash
<1>6. \A q \in DOMAIN stash : /\ q \in DOMAIN s.stash /\ stash[q] = s.stash[q]
                              /\ \A i \in 1 .. n : q # Step(s.rn, i)
  OBVIOUS
<1> HIDE DEF t, rn, rx, stash, nack, g
<1>7. /\ t.fifo = s.fifo /\ t.snMin = s.snMin /\ t.snMax = s.snMax /\ t.order = s.order
      /\ t.out = s.out /\ t.rx = rx /\ t.rn = rn /\ t.stash = stash
  BY <1>1 DEF End
<1>8. t \in End
  BY <1>1, <1>3, <1>4, <1>5 DEF End
<1>9. g = [i \in 1 .. n |-> s.stash[Step(s.rn, i)]]
  BY DEF g
<1>10. HandedOn(s, m, n, t, g)
  BY <1>2, <1>6, <1>7, <1>8, <1>9 DEF HandedOn, rn, rx
<1> QED
  BY <1>10 DEF t

LEMMA NoneKept == <<>> \in Stash /\ DOMAIN <<>> = {}
<1>1. <<>> = [q \in {} |-> <<0, 0>>]
  OBVIOUS
<1>2. <<>> \in [{} -> Body] /\ {} \in SUBSET Number
  BY <1>1
<1> QED
  BY <1>2 DEF Stash

\* What stays kept when the frames before the gap are taken lies beyond the gap.
LEMMA TakenOwn ==
    ASSUME NEW e, NEW k, NEW Q, NEW s, Own(e, k, Q, s), NEW m, m.body \in Body, NEW n \in Nat,
           \A i \in 1 .. n : Step(s.rn, i) \in DOMAIN s.stash,
           Step(s.rn, n + 1) \notin DOMAIN s.stash
    PROVE  Own(e, k, Q, Taking(s, m, n))
<1> DEFINE t == Taking(s, m, n)
<1>1. /\ s \in End /\ SenderOK(k, Q, s) /\ OrderOK(s) /\ StashOK(s)
      /\ (e = "device" => DOMAIN s.stash = {})
  BY DEF Own, Sound
<1>2. PICK g : HandedOn(s, m, n, t, g)
  BY <1>1, TakingTyped
<1> HIDE DEF t
<1>3. /\ t \in End /\ t.fifo = s.fifo /\ t.snMin = s.snMin /\ t.snMax = s.snMax /\ t.order = s.order
      /\ t.rn = Step(s.rn, n + 1)
      /\ \A q \in DOMAIN t.stash : q \in DOMAIN s.stash /\ \A i \in 1 .. n : q # Step(s.rn, i)
  BY <1>2 DEF HandedOn
<1>4. InWindow(t) = InWindow(s) /\ Acked(Q, t) = Acked(Q, s)
  BY <1>3 DEF InWindow, Acked
<1>5. SenderOK(k, Q, t) /\ OrderOK(t)
  BY <1>1, <1>3, <1>4 DEF SenderOK, OrderOK
<1>6. StashOK(t)
  <2> SUFFICES ASSUME NEW q \in DOMAIN t.stash PROVE Off(q, t.rn) \in 1 .. RxWindow - 1
    BY DEF StashOK
  <2> DEFINE o == Off(q, s.rn)
             b == Step(s.rn, n + 1)
  <2>1. q \in DOMAIN s.stash /\ q \in Number /\ q \in Int /\ s.rn \in Int
    BY <1>1, <1>3, EndTyped, Numbers
  <2>2. o \in 1 .. RxWindow - 1 /\ q = Step(s.rn, o)
    BY <1>1, <2>1, Placed DEF StashOK
  <2>3. o \notin 1 .. n /\ o # n + 1
    BY <1>3, <2>1, <2>2
  <2> HIDE DEF o, b
  <2>4. n + 1 < o
    BY <2>2, <2>3, Sizes
  <2>5. n + 1 \in Number
    BY <2>2, <2>4, Sizes DEF Number
  <2>6. Off(b, s.rn) = n + 1 /\ b \in Int
    BY <2>1, <2>5, Place, StepTyped, Numbers DEF b
  <2>7. Off(q, b) = o - (n + 1)
    BY <2>1, <2>2, <2>4, <2>6, Forward DEF o
  <2>8. o - (n + 1) \in 1 .. RxWindow - 1
    BY <2>2, <2>4, Sizes
  <2> QED
    BY <1>3, <2>7, <2>8 DEF b
<1>7. e = "device" => DOMAIN t.stash = {}
  BY <1>1, <1>3
<1> QED
  BY <1>3, <1>5, <1>6, <1>7 DEF Own, Sound, t

\* Two numbers lie at the same place only if they are the same.
LEMMA Apart ==
    ASSUME NEW q \in Number, NEW f \in Number, q # f
    PROVE  Off(q, f) \in Nat /\ Off(q, f) # 0
<1>1. q \in Int /\ f \in Int
  BY Numbers
<1>2. Off(q, f) = 0 => q = f
  <2> HAVE Off(q, f) = 0
  <2>1. q = Step(f, 0)
    BY <1>1, Placed
  <2>2. f + 0 = f
    BY <1>1
  <2> QED
    BY <2>1, <2>2, Small DEF Step
<1> QED
  BY <1>1, <1>2, OffNat

LEMMA KeptTyped ==
    ASSUME NEW s \in End, NEW m, m.seq \in Number, m.body \in Body
    PROVE  LET t == Keeping(s, m)
           IN  /\ t \in End /\ t.fifo = s.fifo /\ t.snMin = s.snMin /\ t.snMax = s.snMax
               /\ t.order = s.order /\ t.rn = s.rn /\ t.rx = s.rx /\ t.out = s.out
               /\ Kept(s, t, m)
<1> DEFINE t == Keeping(s, m)
           K == DOMAIN s.stash \cup {m.seq}
           stash == [q \in K |-> IF q = m.seq THEN m.body ELSE s.stash[q]]
<1>1. stash \in Stash
  <2>1. K \in SUBSET Number /\ stash \in [K -> Body]
    BY EndTyped
  <2> HIDE DEF K, stash
  <2> QED
    BY <2>1 DEF Stash
<1>2. t = [s EXCEPT !.stash = stash]
  BY DEF Keeping
<1>3. DOMAIN stash = DOMAIN s.stash \cup {m.seq} /\ stash[m.seq] = m.body
      /\ \A q \in DOMAIN s.stash : q # m.seq => stash[q] = s.stash[q]
  OBVIOUS
<1> HIDE DEF t, stash
<1>4. /\ t.fifo = s.fifo /\ t.snMin = s.snMin /\ t.snMax = s.snMax /\ t.order = s.order
      /\ t.rn = s.rn /\ t.stash = stash /\ t.rx = s.rx /\ t.out = s.out
  BY <1>2 DEF End
<1>5. t \in End
  BY <1>1, <1>2 DEF End
<1>6. Kept(s, t, m)
  BY <1>3, <1>4 DEF Kept
<1> QED
  BY <1>4, <1>5, <1>6 DEF t

LEMMA KeptOwn ==
    ASSUME NEW k, NEW Q, NEW s, Own("host", k, Q, s), NEW m, m.seq \in Number, m.body \in Body,
           m.seq # s.rn, Ahead(s, m.seq)
    PROVE  Own("host", k, Q, Keeping(s, m))
<1> DEFINE t == Keeping(s, m)
<1>1. s \in End /\ SenderOK(k, Q, s) /\ OrderOK(s) /\ StashOK(s)
  BY DEF Own, Sound
<1>2. /\ t \in End /\ t.fifo = s.fifo /\ t.snMin = s.snMin /\ t.snMax = s.snMax
      /\ t.order = s.order /\ t.rn = s.rn /\ Kept(s, t, m)
  BY <1>1, KeptTyped
<1> HIDE DEF t
<1>3. InWindow(t) = InWindow(s) /\ Acked(Q, t) = Acked(Q, s)
  BY <1>2 DEF InWindow, Acked
<1>4. SenderOK(k, Q, t) /\ OrderOK(t)
  BY <1>1, <1>2, <1>3 DEF SenderOK, OrderOK
<1>5. Off(m.seq, s.rn) \in 1 .. RxWindow - 1
  BY <1>1, EndTyped, Apart, Sizes DEF Ahead
<1>6. StashOK(t)
  BY <1>1, <1>2, <1>5 DEF StashOK, Kept
<1> QED
  BY <1>2, <1>4, <1>6 DEF Own, Sound, t

LEMMA HostFrameOwn ==
    ASSUME NEW k, NEW Q \in Nat, NEW s, Own("host", k, Q, s), NEW m \in Message, m.kind = "frame"
    PROVE  Own("host", k, Q, HostFrame(s, m))
<1>1. s \in End /\ StashOK(s) /\ m.seq \in Number /\ m.body \in Body
  BY MessageTyped DEF Own, Sound
<1>2. CASE m.seq = s.rn
  <2> DEFINE n == Joined(s)
             t == Taking(s, m, n)
  <2>1. /\ n \in Nat /\ \A i \in 1 .. n : Step(s.rn, i) \in DOMAIN s.stash
        /\ Step(s.rn, n + 1) \notin DOMAIN s.stash
    BY <1>1, GapBehind
  <2> HIDE DEF n
  <2>2. Own("host", k, Q, t) /\ t \in End
    BY <1>1, <2>1, TakenOwn DEF Own
  <2>3. HostFrame(s, m) = IF t.nack # NoSeq \/ DOMAIN t.stash = {} THEN SendAck(t, t.rn)
                          ELSE LET earliest == CHOOSE q \in DOMAIN t.stash :
                                                  \A r \in DOMAIN t.stash : q <= r
                               IN  IF Ahead(t, earliest) THEN Nack(t, earliest)
                                   ELSE SendAck([t EXCEPT !.stash = <<>>], t.rn)
    BY <1>2 DEF HostFrame, n
  <2> HIDE DEF t
  <2>4. t.rn \in Number
    BY <2>2, EndTyped
  <2>5. Own("host", k, Q, SendAck(t, t.rn))
    BY <2>2, <2>4, AckOwn
  <2>6. CASE t.nack # NoSeq \/ DOMAIN t.stash = {}
    BY <2>3, <2>5, <2>6
  <2>7. CASE ~(t.nack # NoSeq \/ DOMAIN t.stash = {})
    <3> DEFINE earliest == CHOOSE q \in DOMAIN t.stash : \A r \in DOMAIN t.stash : q <= r
               u == [t EXCEPT !.stash = <<>>]
    <3>1. earliest \in Number
      <4>1. DOMAIN t.stash \in SUBSET Nat /\ DOMAIN t.stash # {} /\ DOMAIN t.stash \subseteq Number
        BY <2>2, <2>7, EndTyped, Numbers
      <4> QED
        BY <4>1, LeastOf
    <3> HIDE DEF earliest
    <3>2. Own("host", k, Q, Nack(t, earliest))
      BY <2>2, <3>1, NackOwn
    <3>3. Own("host", k, Q, SendAck(u, t.rn))
      <4> DEFINE none == <<>>
      <4>1. none \in Stash /\ DOMAIN none = {}
        BY NoneKept
      <4>2. u = [t EXCEPT !.stash = none]
        OBVIOUS
      <4> HIDE DEF u, none
      <4>3. /\ u.fifo = t.fifo /\ u.snMin = t.snMin /\ u.snMax = t.snMax /\ u.order = t.order
            /\ u.rn = t.rn /\ u.stash = none
        BY <2>2, <4>2 DEF End
      <4>4. u \in End
        BY <2>2, <4>1, <4>2 DEF End
      <4>5. Own("host", k, Q, u)
        BY <2>2, <4>1, <4>3, <4>4, OwnSame
      <4> QED
        BY <2>4, <4>5, AckOwn
    <3>4. HostFrame(s, m) = IF Ahead(t, earliest) THEN Nack(t, earliest) ELSE SendAck(u, t.rn)
      BY <2>3, <2>7 DEF earliest
    <3> QED
      BY <3>2, <3>3, <3>4
  <2> QED
    BY <2>6, <2>7
<1>3. CASE m.seq # s.rn /\ Ahead(s, m.seq)
  <2> DEFINE t == IF s.nack = NoSeq THEN Nack(s, m.seq) ELSE s
  <2>1. HostFrame(s, m) = Keeping(t, m)
    BY <1>3 DEF HostFrame
  <2>2. Own("host", k, Q, t) /\ t.rn = s.rn
    BY <1>1, NackOwn
  <2> HIDE DEF t
  <2>3. Ahead(t, m.seq)
    BY <1>3, <2>2 DEF Ahead
  <2> QED
    BY <1>1, <1>3, <2>1, <2>2, <2>3, KeptOwn
<1>4. CASE m.seq # s.rn /\ ~Ahead(s, m.seq)
  BY <1>4 DEF HostFrame
<1> QED
  BY <1>2, <1>3, <1>4

\* The frame that was waited for, without its acknowledgement.
DeviceTaking(s, m) == [s EXCEPT !.rn = Step(@, 1), !.rx = Append(@, m.body)]

LEMMA DeviceTakingTyped ==
    ASSUME NEW s \in End, NEW m, m.body \in Body
    PROVE  LET t == DeviceTaking(s, m)
           IN  t.stash = s.stash /\ HandedOn(s, m, 0, t, <<>>)
<1> DEFINE rn == Step(s.rn, 1)
           rx == Append(s.rx, m.body)
           t == DeviceTaking(s, m)
<1>1. t = [s EXCEPT !.rn = rn, !.rx = rx]
  BY DEF DeviceTaking
<1>2. rn \in Number /\ rx \in Seq(Body) /\ rx = (s.rx \o <<m.body>>) \o <<>>
  <2>1. s.rn \in Int /\ s.rx \in Seq(Body) /\ s.rn \in Number
    BY EndTyped
  <2>2. rx \in Seq(Body) /\ rx = s.rx \o <<m.body>>
    BY <2>1, AppendProperties, AppendIsConcat
  <2>3. rx \o <<>> = rx
    <3> HIDE DEF rx
    <3> QED
      BY <2>2, ConcatEmptySeq
  <2>4. rn \in Number
    BY <2>1, StepTyped
  <2> QED
    BY <2>2, <2>3, <2>4
<1> HIDE DEF t, rn, rx
<1>3. /\ t.fifo = s.fifo /\ t.snMin = s.snMin /\ t.snMax = s.snMax /\ t.order = s.order
      /\ t.out = s.out /\ t.rx = rx /\ t.rn = rn /\ t.stash = s.stash
  BY <1>1 DEF End
<1>4. t \in End
  BY <1>1, <1>2 DEF End
<1>5. <<>> = [i \in 1 .. 0 |-> s.stash[Step(s.rn, i)]] /\ <<>> \in Seq(Body) /\ 0 + 1 = 1
  OBVIOUS
<1>6. HandedOn(s, m, 0, t, <<>>)
  BY <1>2, <1>3, <1>4, <1>5 DEF HandedOn, rn
<1> QED
  BY <1>3, <1>6 DEF t

LEMMA DeviceFrameOwn ==
    ASSUME NEW k, NEW Q \in Nat, NEW s, Own("device", k, Q, s), NEW m \in Message, m.kind = "frame"
    PROVE  Own("device", k, Q, DeviceFrame(s, m))
<1> DEFINE t == DeviceTaking(s, m)
<1>1. s \in End /\ m.body \in Body /\ SenderOK(k, Q, s) /\ OrderOK(s) /\ DOMAIN s.stash = {}
  BY MessageTyped DEF Own, Sound
<1>2. t.stash = s.stash /\ HandedOn(s, m, 0, t, <<>>)
  BY <1>1, DeviceTakingTyped
<1>3. DeviceFrame(s, m) = IF m.seq = s.rn THEN SendAck(t, t.rn) ELSE s
  BY DEF DeviceFrame, DeviceTaking
<1> HIDE DEF t
<1>4. /\ t \in End /\ t.fifo = s.fifo /\ t.snMin = s.snMin /\ t.snMax = s.snMax /\ t.order = s.order
  BY <1>2 DEF HandedOn
<1>5. InWindow(t) = InWindow(s) /\ Acked(Q, t) = Acked(Q, s)
  BY <1>4 DEF InWindow, Acked
<1>6. SenderOK(k, Q, t) /\ OrderOK(t)
  BY <1>1, <1>4, <1>5 DEF SenderOK, OrderOK
<1>7. Own("device", k, Q, t)
  BY <1>1, <1>2, <1>4, <1>6 DEF Own, Sound, StashOK
<1>8. Own("device", k, Q, SendAck(t, t.rn))
  BY <1>4, <1>7, EndTyped, AckOwn
<1> QED
  BY <1>3, <1>8

LEMMA ReceivedOwn ==
    ASSUME NEW e \in Ends, NEW k, NEW Q \in Nat, NEW s0, Own(e, k, Q, s0), NEW m \in Message
    PROVE  Own(e, k, Q, Received(e, s0, m))
<1> DEFINE active == s0.active \/ m.kind = "frame"
           s == [s0 EXCEPT !.heard = TRUE, !.active = active]
           t == Received(e, s0, m)
<1>1. m.kind \in {"frame", "ack", "plain"} /\ s0 \in End
  BY MessageTyped DEF Own
<1>2. s = [s0 EXCEPT !.heard = TRUE, !.active = active] /\ active \in BOOLEAN
  BY <1>1, EndTyped
<1>3. /\ m.kind = "ack" => t = GotAck(e, s, m)
      /\ m.kind = "frame" => t = IF e = "host" THEN HostFrame(s, m) ELSE DeviceFrame(s, m)
      /\ m.kind = "plain" => t = s
  BY DEF Received
<1> HIDE DEF s, t, active
<1>4. /\ s.fifo = s0.fifo /\ s.snMin = s0.snMin /\ s.snMax = s0.snMax /\ s.order = s0.order
      /\ s.rn = s0.rn /\ s.stash = s0.stash
  BY <1>1, <1>2 DEF End
<1>5. s \in End
  BY <1>1, <1>2 DEF End
<1>6. Own(e, k, Q, s)
  BY <1>4, <1>5, OwnSame
<1>7. CASE m.kind = "ack"
  BY <1>3, <1>6, <1>7, GotAckOwn DEF t
<1>8. CASE m.kind = "frame" /\ e = "host"
  BY <1>3, <1>6, <1>8, HostFrameOwn DEF t
<1>9. CASE m.kind = "frame" /\ e = "device"
  BY <1>3, <1>6, <1>9, DeviceFrameOwn DEF t
<1>10. CASE m.kind = "plain"
  BY <1>3, <1>6, <1>10 DEF t
<1> QED
  BY <1>1, <1>7, <1>8, <1>9, <1>10 DEF Ends

\* a lists the states of end e as it reads the first n messages of w.
Passes(e, w, a, n) == \A j \in 1 .. n : a[j] = Received(e, a[j - 1], w[j])

LEMMA PassesOwn ==
    ASSUME NEW e \in Ends, NEW k, NEW Q \in Nat, NEW n \in Nat, NEW w,
           \A i \in 1 .. n : w[i] \in Message,
           NEW a, Own(e, k, Q, a[0]), Passes(e, w, a, n)
    PROVE  Own(e, k, Q, a[n])
<1> DEFINE Good == {j \in 0 .. n : Own(e, k, Q, a[j])}
<1>1. 0 \in Good
  OBVIOUS
<1>2. \A j \in 0 .. n - 1 : j \in Good => j + 1 \in Good
  <2> TAKE j \in 0 .. n - 1
  <2> HAVE j \in Good
  <2> DEFINE b == a[j]
  <2>1. j + 1 \in 1 .. n /\ (j + 1) - 1 = j /\ j + 1 \in 0 .. n
    OBVIOUS
  <2>2. a[j + 1] = Received(e, b, w[j + 1]) /\ w[j + 1] \in Message /\ Own(e, k, Q, b)
    BY <2>1 DEF Passes
  <2> HIDE DEF b
  <2>3. Own(e, k, Q, Received(e, b, w[j + 1]))
    BY <2>2, ReceivedOwn
  <2> QED
    BY <2>1, <2>2, <2>3
<1>3. n \in Good
  <2>1. n \in 0 .. n
    OBVIOUS
  <2> HIDE DEF Good
  <2> QED
    BY <1>1, <1>2, <2>1, Induct
<1> QED
  BY <1>3

LEMMA ReadOwn ==
    ASSUME NEW e \in Ends, NEW k, NEW Q \in Nat, NEW s, Own(e, k, Q, s), NEW ms \in Seq(Message)
    PROVE  Own(e, k, Q, Read(e, s, ms))
<1>1. PICK a : ReadThrough(e, s, ms, a)
  BY ReadSteps
<1>2. a[0] = s /\ Passes(e, ms, a, Len(ms)) /\ Read(e, s, ms) = a[Len(ms)]
  BY <1>1 DEF ReadThrough, Passes
<1>3. Len(ms) \in Nat /\ \A i \in 1 .. Len(ms) : ms[i] \in Message
  BY LenProperties, ElementOfSeq
<1>4. Own(e, k, Q, a[Len(ms)])
  BY <1>2, <1>3, PassesOwn
<1> QED
  BY <1>2, <1>4

\* Everything read, up to the RESET that the host left behind.
LEMMA ResetRead ==
    ASSUME NEW e \in Ends, NEW k, NEW Q \in Nat, NEW s, Own(e, k, Q, s), NEW w \in Seq(Message)
    PROVE  \E u \in End : Read(e, s, Append(w, Reset)) = Cleared(u)
<1> DEFINE T == Message \cup {Reset}
           ms == Append(w, Reset)
           n == Len(w)
<1>1. n \in Nat /\ n + 1 \in Nat /\ (n + 1) - 1 = n /\ n \in 0 .. n
  BY LenProperties
<1>2. /\ ms \in Seq(T) /\ Len(ms) = n + 1 /\ ms[n + 1] = Reset
      /\ \A i \in 1 .. n : ms[i] = w[i] /\ w[i] \in Message
  <2>1. w \in Seq(T) /\ Reset \in T
    OBVIOUS
  <2>2. \A i \in 1 .. n : w[i] \in Message
    BY ElementOfSeq
  <2> HIDE DEF T
  <2> QED
    BY <2>1, <2>2, AppendProperties
<1> HIDE DEF ms, T, n
<1>3. PICK a : ReadThrough(e, s, ms, a)
  BY <1>2, ReadSteps
<1>4. /\ a[0] = s
      /\ \A j \in 1 .. n + 1 : a[j] = Received(e, a[j - 1], ms[j])
      /\ Read(e, s, ms) = a[n + 1]
  BY <1>2, <1>3 DEF ReadThrough
<1>5. Own(e, k, Q, a[n])
  <2>1. Passes(e, w, a, n)
    BY <1>1, <1>2, <1>4 DEF Passes
  <2> QED
    BY <1>1, <1>2, <1>4, <2>1, PassesOwn
<1>6. a[n + 1] = Received(e, a[n], Reset)
  BY <1>1, <1>2, <1>4
<1> DEFINE b == a[n]
           u == [b EXCEPT !.heard = TRUE, !.active = b.active \/ Reset.kind = "frame"]
<1>7. Received(e, b, Reset) = Cleared(u)
  BY DEF Received, Reset
<1>8. u \in End
  <2>1. b \in End
    BY <1>5 DEF Own
  <2> HIDE DEF b
  <2> QED
    BY <2>1, EndTyped DEF End
<1> QED
  BY <1>4, <1>6, <1>7, <1>8 DEF ms

\* s with the next frame of its FIFO sent.
SentNew(s) == [Send(s, Frame(s.snMax, s.fifo[InWindow(s) + 1]))
                  EXCEPT !.snMax = Step(@, 1), !.order = Append(@, s.snMax)]

LEMMA SentNewTyped ==
    ASSUME NEW s \in End, InWindow(s) < Len(s.fifo)
    PROVE  LET m == Frame(s.snMax, s.fifo[InWindow(s) + 1])
               t == SentNew(s)
           IN  /\ m \in Message /\ m.kind = "frame"
               /\ t \in End /\ OneMore(s, t) /\ t.out = Append(s.out, m)
               /\ t.rn = s.rn /\ t.stash = s.stash /\ t.rx = s.rx
<1> DEFINE m == Frame(s.snMax, s.fifo[InWindow(s) + 1])
           out == Append(s.out, m)
           snMax == Step(s.snMax, 1)
           order == Append(s.order, s.snMax)
           t == SentNew(s)
<1>1. t = [s EXCEPT !.out = out, !.snMax = snMax, !.order = order]
  BY DEF SentNew, Send, End
<1>2. /\ s.out \in Seq(Message) /\ s.order \in Seq(Number)
      /\ s.snMax \in Number /\ s.snMax \in Int /\ s.fifo \in Seq(Body) /\ Len(s.fifo) \in Nat
      /\ InWindow(s) \in Nat
  BY EndTyped
<1>3. m \in Message /\ m.kind = "frame"
  <2>1. InWindow(s) + 1 \in 1 .. Len(s.fifo)
    BY <1>2
  <2>2. s.fifo[InWindow(s) + 1] \in Body
    BY <1>2, <2>1, ElementOfSeq
  <2>3. s.snMax \in Number
    BY <1>2
  <2> QED
    BY ONLY <2>2, <2>3, FrameTyped DEF m
<1>4. snMax \in Number /\ order \in Seq(Number) /\ out \in Seq(Message)
  <2> HIDE DEF m
  <2> QED
    BY <1>2, <1>3, StepTyped, AppendProperties
<1> HIDE DEF t, out, snMax, order, m
<1>5. /\ t.fifo = s.fifo /\ t.snMin = s.snMin /\ t.snMax = snMax /\ t.order = order
      /\ t.rn = s.rn /\ t.stash = s.stash /\ t.rx = s.rx /\ t.out = out
  BY <1>1 DEF End
<1>6. t \in End
  BY <1>1, <1>4 DEF End
<1>7. OneMore(s, t)
  BY <1>5 DEF OneMore, snMax, order
<1> QED
  BY <1>3, <1>5, <1>6, <1>7 DEF t, m, out

LEMMA SentNewOwn ==
    ASSUME NEW e, NEW k, NEW Q \in Nat, NEW s, Own(e, k, Q, s),
           InWindow(s) < Window, InWindow(s) < Len(s.fifo)
    PROVE  Own(e, k, Q, SentNew(s))
<1> DEFINE t == SentNew(s)
<1>1. /\ s \in End /\ SenderOK(k, Q, s) /\ OrderOK(s) /\ StashOK(s)
      /\ (e = "device" => DOMAIN s.stash = {})
  BY DEF Own, Sound
<1>2. t \in End /\ OneMore(s, t) /\ t.rn = s.rn /\ t.stash = s.stash
  BY <1>1, SentNewTyped
<1> HIDE DEF t
<1>3. SenderOK(k, Q, t) /\ OrderOK(t)
  BY <1>1, <1>2, OneMoreSender DEF Grew
<1>4. StashOK(t)
  BY <1>1, <1>2 DEF StashOK
<1> QED
  BY <1>1, <1>2, <1>3, <1>4 DEF Own, Sound, t

\* The frame sent least recently is one of the window.
LEMMA LeastRecent ==
    ASSUME NEW s \in End, OrderOK(s), InWindow(s) > 0
    PROVE  /\ <<Head(s.order)>> \in Seq(Number)
           /\ \A i \in DOMAIN <<Head(s.order)>> : Off(<<Head(s.order)>>[i], s.snMin) < InWindow(s)
           /\ \A i, j \in DOMAIN <<Head(s.order)>> :
                 <<Head(s.order)>>[i] = <<Head(s.order)>>[j] => i = j
<1> DEFINE q == Head(s.order)
           qs == <<q>>
<1>1. /\ s.snMin \in Number /\ s.snMin \in Int /\ s.order \in Seq(Number)
      /\ DOMAIN s.order = 1 .. Len(s.order) /\ Len(s.order) \in Nat
  BY EndTyped, LenProperties
<1>2. Off(s.snMin, s.snMin) < InWindow(s)
  <2>1. Off(Step(s.snMin, 0), s.snMin) = 0 /\ Step(s.snMin, 0) = s.snMin
    <3>1. s.snMin + 0 = s.snMin
      BY <1>1
    <3>2. Step(s.snMin, 0) = s.snMin
      BY <1>1, <3>1, Small DEF Step
    <3> QED
      BY <1>1, <3>2, Place, Numbers
  <2> QED
    BY <2>1
<1>3. s.snMin \in Range(s.order)
  BY <1>1, <1>2 DEF OrderOK
<1>4. 1 \in DOMAIN s.order /\ s.order # <<>>
  <2>1. PICK i \in DOMAIN s.order : s.order[i] = s.snMin
    BY <1>3 DEF Range
  <2> QED
    BY <1>1, <2>1
<1>5. q = s.order[1] /\ q \in Number
  <2>1. q = s.order[1]
    BY <1>1, <1>4
  <2> QED
    BY <1>1, <1>4, <2>1, ElementOfSeq
<1>6. q \in Range(s.order)
  BY <1>4, <1>5 DEF Range
<1>7. Off(q, s.snMin) < InWindow(s)
  BY <1>5, <1>6 DEF OrderOK
<1> HIDE DEF q
<1>8. qs \in Seq(Number) /\ DOMAIN qs = {1} /\ qs[1] = q
  BY <1>5
<1> HIDE DEF qs
<1>9. \A i \in DOMAIN qs : Off(qs[i], s.snMin) < InWindow(s)
  BY <1>7, <1>8
<1>10. \A i, j \in DOMAIN qs : qs[i] = qs[j] => i = j
  BY <1>8
<1> QED
  BY <1>8, <1>9, <1>10 DEF qs, q

\* The frame that Transmitted sends, if any.
OneSent(s, sampled, room, resendDue) ==
    IF room = 0 THEN s
    ELSE IF InWindow(s) < Window /\ Len(s.fifo) > InWindow(s) THEN SentNew(s)
    ELSE IF InWindow(s) > 0 /\ sampled.heard /\ resendDue THEN Resend(s, <<Head(s.order)>>)
    ELSE s

LEMMA TransmittedOwn ==
    ASSUME NEW e, NEW k, NEW Q \in Nat, NEW s, Own(e, k, Q, s),
           NEW sampled, NEW room, NEW resendDue, NEW ackDue
    PROVE  Own(e, k, Q, Transmitted(s, sampled, room, resendDue, ackDue))
<1> DEFINE fresh == InWindow(s) < Window /\ Len(s.fifo) > InWindow(s)
           qs == <<Head(s.order)>>
           c == OneSent(s, sampled, room, resendDue)
           t == Transmitted(s, sampled, room, resendDue, ackDue)
<1>1. s \in End /\ OrderOK(s)
  BY DEF Own, Sound
<1>2. t = IF ackDue /\ sampled.active THEN SendAck(c, c.rn) ELSE c
  BY DEF Transmitted, OneSent, SentNew
<1>3. fresh => Own(e, k, Q, SentNew(s))
  <2> HAVE fresh
  <2>1. InWindow(s) < Window /\ InWindow(s) < Len(s.fifo)
    BY <1>1, EndTyped
  <2> QED
    BY <2>1, SentNewOwn
<1>4. InWindow(s) > 0 => Own(e, k, Q, Resend(s, qs))
  <2> HAVE InWindow(s) > 0
  <2>1. qs \in Seq(Number) /\ Outstanding(s, qs)
    BY <1>1, LeastRecent DEF Outstanding
  <2> HIDE DEF qs
  <2> QED
    BY <2>1, ResendOwn
<1>5. Own(e, k, Q, c)
  <2> HIDE DEF fresh
  <2>1. \/ c = s
        \/ fresh /\ c = SentNew(s)
        \/ InWindow(s) > 0 /\ c = Resend(s, qs)
    BY DEF OneSent, fresh
  <2> QED
    BY <1>3, <1>4, <2>1
<1> HIDE DEF c, t
<1>6. Own(e, k, Q, SendAck(c, c.rn))
  BY <1>5, EndTyped, AckOwn DEF Own
<1> QED
  BY <1>2, <1>5, <1>6 DEF t

\* What an end that has read ms may have to send.
Answer(e, s, ms, sent) ==
    \E sampled, room, resendDue, ackDue :
       sent = Transmitted(Read(e, s, ms), sampled, room, resendDue, ackDue)

\* With everything handed on and everything on the line.
Emptied(s) == [s EXCEPT !.rx = <<>>, !.out = <<>>]

LEMMA EmptiedTyped ==
    ASSUME NEW s \in End
    PROVE  LET t == Emptied(s)
           IN  /\ t \in End /\ t.rx = <<>> /\ t.out = <<>>
               /\ t.fifo = s.fifo /\ t.snMin = s.snMin /\ t.snMax = s.snMax /\ t.order = s.order
               /\ t.rn = s.rn /\ t.stash = s.stash
<1> DEFINE none == <<>>
           t == Emptied(s)
<1>1. none \in Seq(Body) /\ none \in Seq(Message) /\ t = [s EXCEPT !.rx = none, !.out = none]
  BY DEF Emptied
<1> HIDE DEF none, t
<1>2. /\ t.fifo = s.fifo /\ t.snMin = s.snMin /\ t.snMax = s.snMax
      /\ t.order = s.order /\ t.rn = s.rn /\ t.stash = s.stash
      /\ t.rx = none /\ t.out = none
  BY <1>1 DEF End
<1>3. t \in End
  BY <1>1 DEF End
<1> QED
  BY <1>2, <1>3 DEF t, none

\* One poll, whatever was read, but for a RESET.
LEMMA PollOwn ==
    ASSUME NEW e \in Ends, NEW k, NEW Q \in Nat, NEW s, Own(e, k, Q, s), NEW ms \in Seq(Message),
           NEW sent, Answer(e, s, ms, sent)
    PROVE  Own(e, k, Q, sent) /\ Own(e, k, Q, Emptied(sent))
<1>1. Own(e, k, Q, Read(e, s, ms))
  BY ReadOwn
<1>2. Own(e, k, Q, sent)
  <2>1. PICK sampled, room, resendDue, ackDue :
          sent = Transmitted(Read(e, s, ms), sampled, room, resendDue, ackDue)
    BY DEF Answer
  <2> QED
    BY <1>1, <2>1, TransmittedOwn
<1>3. sent \in End
  BY <1>2 DEF Own
<1> DEFINE t == Emptied(sent)
<1>4. /\ t \in End /\ t.fifo = sent.fifo /\ t.snMin = sent.snMin /\ t.snMax = sent.snMax
      /\ t.order = sent.order /\ t.rn = sent.rn /\ t.stash = sent.stash
  BY <1>3, EmptiedTyped
<1> HIDE DEF t
<1>5. Own(e, k, Q, t)
  BY <1>2, <1>4, OwnSame
<1> QED
  BY <1>2, <1>5 DEF t
-----------------------------------------------------------------------------
(* Reading one message.  The end s has accepted d0 in earlier polls, and  *)
(* f0 is what it has on the line since then.                               *)

At(k, Qs, s, d0, f0, Qp, p, dp, wp) ==
    Pair(k, Qs, s, d0 \o s.rx, f0 \o s.out, Qp, p, dp, wp)

LEMMA PairSame ==
    ASSUME NEW k, NEW Qs, NEW s, NEW ds, NEW ws, NEW Qp, NEW p, NEW dp, NEW wp, NEW s2,
           s2.fifo = s.fifo, s2.snMin = s.snMin, s2.snMax = s.snMax, s2.order = s.order,
           s2.rn = s.rn, s2.stash = s.stash,
           Pair(k, Qs, s, ds, ws, Qp, p, dp, wp)
    PROVE  Pair(k, Qs, s2, ds, ws, Qp, p, dp, wp)
<1>1. Stream(k, Qs, s, p, dp, ws, wp) /\ Stream(k, Qp, p, s, ds, wp, ws)
  BY DEF Pair
<1>2. Stream(k, Qs, s2, p, dp, ws, wp)
  BY <1>1, SameStream
<1>3. Stream(k, Qp, p, s2, ds, wp, ws)
  BY <1>1, SameStream
<1> QED
  BY <1>2, <1>3 DEF Pair

\* The end t is s after a transmission that keeps what s knows of its peer.
Resent(s, t, k, Qs, d0, f0, Qp, p, dp, wp) ==
    t \in End /\ At(k, Qs, t, d0, f0, Qp, p, dp, wp) /\ t.stash = s.stash /\ t.fifo = s.fifo

LEMMA Resending ==
    ASSUME NEW k, NEW Qs \in Nat, NEW s \in End, NEW d0 \in Seq(Body), NEW f0 \in Seq(Message),
           NEW Qp \in Nat, NEW p \in End, NEW dp \in Seq(Body), NEW wp \in Seq(Message),
           At(k, Qs, s, d0, f0, Qp, p, dp, wp), NEW qs \in Seq(Number), Outstanding(s, qs)
    PROVE  Resent(s, Resend(s, qs), k, Qs, d0, f0, Qp, p, dp, wp)
<1> DEFINE x == [i \in DOMAIN qs |-> Frame(qs[i], s.fifo[1 + Off(qs[i], s.snMin)])]
           t == Resend(s, qs)
           ds == d0 \o s.rx
           ws == f0 \o s.out
           L == InWindow(s)
           A == Acked(Qs, s)
<1>0. Pair(k, Qs, s, ds, ws, Qp, p, dp, wp) /\ Stream(k, Qs, s, p, dp, ws, wp)
      /\ Stream(k, Qp, p, s, ds, wp, ws)
  BY DEF At, Pair
<1>1. SenderOK(k, Qs, s) /\ OrderOK(s)
  BY <1>0 DEF Stream
<1>2. /\ s.snMin \in Int /\ s.rx \in Seq(Body) /\ s.out \in Seq(Message) /\ s.fifo \in Seq(Body)
      /\ DOMAIN s.fifo = 1 .. Len(s.fifo)
  BY EndTyped
<1>3. ds \in Seq(Body) /\ ws \in Seq(Message)
  BY <1>2, ConcatProperties
<1>4. A \in Nat /\ L \in Nat /\ Sent(Qs, s) = A + L /\ L <= Len(s.fifo) /\ Len(s.fifo) \in Nat
  BY <1>1, Amounts
<1>5. \A i \in DOMAIN qs : qs[i] \in Number
  BY LenProperties, ElementOfSeq
<1>6. /\ \A i \in DOMAIN qs : Off(qs[i], s.snMin) < InWindow(s)
      /\ \A i, j \in DOMAIN qs : qs[i] = qs[j] => i = j
  BY DEF Outstanding
<1>7. ASSUME NEW i \in DOMAIN qs PROVE x[i] \in Message /\ Sendable(k, Qs, s, ds, Qp, p, x[i])
  <2> DEFINE o == Off(qs[i], s.snMin)
             m == Frame(qs[i], s.fifo[1 + o])
  <2>1. o \in Nat /\ o < L /\ qs[i] \in Number
    BY <1>2, <1>5, <1>6, OffNat, Numbers
  <2>2. 1 + o \in 1 .. Len(s.fifo)
    <3> HIDE DEF o, L
    <3> QED
      BY <1>4, <2>1
  <2>3. s.fifo[1 + o] = <<k, A + (1 + o)>> /\ s.fifo[1 + o] \in Body
    <3> HIDE DEF o
    <3> QED
      BY <1>1, <1>2, <2>2, ElementOfSeq DEF SenderOK
  <2>4. qs[i] = Step(s.snMin, o)
    BY <1>2, <2>1, Placed
  <2>5. m.kind = "frame" /\ m.seq = qs[i] /\ m.body = s.fifo[1 + o] /\ m \in Message
    <3>1. qs[i] \in Number /\ s.fifo[1 + o] \in Body
      BY <2>1, <2>3
    <3> HIDE DEF o
    <3> QED
      BY ONLY <3>1, FrameTyped DEF m
  <2>6. x[i] = m
    OBVIOUS
  <2> HIDE DEF m, x
  <2>7. OfWindow(k, Qs, s, m)
    <3>1. m.body[2] = A + (1 + o) /\ m.body[1] = k /\ m.body \in Body
      BY <2>3, <2>5
    <3>2. A + (1 + o) - 1 - A = o /\ A < A + (1 + o) /\ A + (1 + o) <= A + L
      <4> HIDE DEF A, o, L
      <4> QED
        BY <1>4, <2>1
    <3>3. m.seq = Step(s.snMin, m.body[2] - 1 - A)
      <4> HIDE DEF A, o, L
      <4>1. A \in Nat /\ o \in Nat
        BY <1>4, <2>1
      <4>2. m.body[2] - 1 - A = o
        BY <3>1, <4>1
      <4> QED
        BY <2>4, <2>5, <4>2
    <3> HIDE DEF o
    <3> QED
      BY <1>4, <3>1, <3>2, <3>3 DEF OfWindow
  <2> QED
    BY <2>5, <2>6, <2>7 DEF Sendable
<1>8. x \in Seq(Message) /\ DOMAIN x = DOMAIN qs /\ x = Again(s, qs)
  <2>1. Again(s, qs) \in Seq(Message)
    BY <1>4, AgainTyped
  <2> QED
    BY <2>1 DEF Again
<1>9. Pair(k, Qs, s, ds, ws \o x, Qp, p, dp, wp)
  <2>1. \A i \in DOMAIN x : Sendable(k, Qs, s, ds, Qp, p, x[i])
    BY <1>7, <1>8
  <2> HIDE DEF x, ds, ws
  <2> QED
    BY <1>0, <1>3, <1>8, <2>1, PairMore
<1>10. /\ t \in End /\ OrderOK(t) /\ t.out = s.out \o x
       /\ t.fifo = s.fifo /\ t.snMin = s.snMin /\ t.snMax = s.snMax
       /\ t.rn = s.rn /\ t.stash = s.stash /\ t.rx = s.rx
  <2> HIDE DEF x
  <2> QED
    BY <1>1, <1>4, <1>8, ResentTyped
<1> HIDE DEF x, t
<1>14. f0 \o t.out = ws \o x
  <2>1. (f0 \o s.out) \o x = f0 \o (s.out \o x)
    <3>1. s.out \in Seq(Message) /\ x \in Seq(Message) /\ f0 \in Seq(Message)
      BY <1>2, <1>8
    <3>2. Regroups(f0, s.out, x)
      BY ONLY <3>1, RegroupMessages, Zenon
    <3> QED
      BY ONLY <3>2, Zenon DEF Regroups
  <2> QED
    BY <1>10, <2>1
<1>15. Stream(k, Qs, t, p, dp, ws \o x, wp)
  <2>1. Stream(k, Qs, s, p, dp, ws \o x, wp)
    BY <1>9 DEF Pair
  <2>2. InWindow(t) = InWindow(s)
    BY <1>10 DEF InWindow
  <2>3. Acked(Qs, t) = Acked(Qs, s) /\ Sent(Qs, t) = Sent(Qs, s)
    BY <1>10, <2>2 DEF Acked, Sent
  <2>4. SenderOK(k, Qs, t) /\ ReceiverOK(k, Qs, t, p, dp)
    BY <1>10, <2>1, <2>2, <2>3 DEF Stream, SenderOK, ReceiverOK
  <2>5. FramesOK(k, Qs, t, p, dp, ws \o x)
    BY <1>10, <2>1, <2>2, <2>3 DEF Stream, FramesOK, FrameOK
  <2>6. AcksOK(Qs, t, dp, wp)
    BY <1>10, <2>1, <2>2, <2>3 DEF Stream, AcksOK, AckOK
  <2> QED
    BY <1>10, <2>4, <2>5, <2>6 DEF Stream
<1>16. Stream(k, Qp, p, t, ds, wp, ws \o x)
  BY <1>9, <1>10, SameStream DEF Pair
<1>17. At(k, Qs, t, d0, f0, Qp, p, dp, wp)
  BY <1>10, <1>14, <1>15, <1>16 DEF At, Pair
<1> QED
  BY <1>10, <1>17 DEF t, Resent

\* An acknowledgement that arrives is plausible, and slides the window.
LEMMA AckRead ==
    ASSUME NEW e, NEW k, NEW Qs \in Nat, NEW s \in End, NEW d0 \in Seq(Body), NEW f0 \in Seq(Message),
           NEW Qp \in Nat, NEW p \in End, NEW dp \in Seq(Body), NEW wp \in Seq(Message),
           At(k, Qs, s, d0, f0, Qp, p, dp, wp), wp # <<>>, Head(wp).kind = "ack"
    PROVE  /\ GotAck(e, s, Head(wp)) \in End
           /\ At(k, Qs, GotAck(e, s, Head(wp)), d0, f0, Qp, p, dp, Tail(wp))
           /\ DOMAIN s.stash = {} => DOMAIN GotAck(e, s, Head(wp)).stash = {}
<1> DEFINE m == Head(wp)
           v == Tail(wp)
           a == Off(m.seq, s.snMin)
           L == InWindow(s)
           ds == d0 \o s.rx
           ws == f0 \o s.out
<1>0. Stream(k, Qs, s, p, dp, ws, wp) /\ Stream(k, Qp, p, s, ds, wp, ws)
  BY DEF At, Pair
<1>1. /\ m \in Message /\ v \in Seq(Message) /\ m.seq \in Number /\ m.to \in Number
      /\ m.seq \in Int /\ m.to \in Int
  BY HeadOf, MessageTyped
<1>2. SenderOK(k, Qs, s) /\ OrderOK(s)
  BY <1>0 DEF Stream
<1>3. s.rx \in Seq(Body) /\ s.out \in Seq(Message) /\ ds \in Seq(Body) /\ ws \in Seq(Message)
  BY EndTyped, ConcatProperties
<1> HIDE DEF v
<1>4. 1 \in DOMAIN wp /\ m = wp[1] /\ m.kind = "ack"
  BY HeadOf
<1>5. Plausible(s, m)
  <2>1. AckOK(Qs, s, dp, m)
    <3> HIDE DEF m
    <3> QED
      BY <1>0, <1>4 DEF Stream, AcksOK
  <2>2. a \in Nat /\ Off(m.to, m.seq) \in Nat /\ a + Off(m.to, m.seq) <= L /\ L \in Nat
    BY <1>1, <2>1, EndTyped, OffNat DEF AckOK
  <2> HIDE DEF a, L
  <2>3. a <= L
    BY <2>2
  <2> QED
    BY <2>3 DEF Plausible, a, L
<1>12. PICK t \in End, qs \in Seq(Number) : AckTaken(e, s, m, t, qs)
  <2> HIDE DEF m
  <2> QED
    BY <1>1, <1>2, <1>5, AckSlides
<1>6. /\ Slid(s, t, m.seq)
      /\ t.rn = s.rn /\ t.stash = s.stash /\ t.rx = s.rx /\ t.out = s.out
      /\ Outstanding(t, qs)
      /\ GotAck(e, s, m) = IF e = "device" THEN Resend(t, qs) ELSE t
  BY <1>12 DEF AckTaken
<1>7. Stream(k, Qs, t, p, dp, ws, v)
  <2> HIDE DEF ds, ws, m
  <2>1. Stream(k, Qs, t, p, dp, ws, wp)
    BY ONLY <1>0, <1>3, <1>4, <1>6, WindowSlides, Qs \in Nat, s \in End, p \in End,
            dp \in Seq(Body), wp \in Seq(Message), Zenon DEF m
  <2>2. AcksOK(Qs, t, dp, v)
    BY <1>1, <2>1, StretchOfTail, StretchAcks DEF Stream, v
  <2> QED
    BY <2>1, <2>2 DEF Stream
<1>8. Stream(k, Qp, p, t, ds, v, ws)
  <2> HIDE DEF ds, ws
  <2>1. Stream(k, Qp, p, t, ds, wp, ws)
    BY <1>0, <1>6, SameStream
  <2>2. FramesOK(k, Qp, p, t, ds, v)
    BY <1>1, <2>1, StretchOfTail, StretchFrames DEF Stream, v
  <2> QED
    BY <2>1, <2>2 DEF Stream
<1>9. At(k, Qs, t, d0, f0, Qp, p, dp, v)
  BY <1>6, <1>7, <1>8 DEF At, Pair
<1>10. CASE e = "device"
  <2>1. Resent(t, Resend(t, qs), k, Qs, d0, f0, Qp, p, dp, v)
    BY ONLY <1>1, <1>6, <1>9, Resending, Qs \in Nat, d0 \in Seq(Body), f0 \in Seq(Message),
            Qp \in Nat, p \in End, dp \in Seq(Body), Zenon
  <2>2. /\ Resend(t, qs) \in End /\ At(k, Qs, Resend(t, qs), d0, f0, Qp, p, dp, v)
        /\ Resend(t, qs).stash = t.stash
    BY ONLY <2>1, Zenon DEF Resent
  <2> QED
    BY <1>6, <1>10, <2>2 DEF v
<1>11. CASE e # "device"
  BY <1>6, <1>9, <1>11 DEF v
<1> QED
  BY <1>10, <1>11

LEMMA AtSame ==
    ASSUME NEW k, NEW Qs, NEW s, NEW d0, NEW f0, NEW Qp, NEW p, NEW dp, NEW wp, NEW s2,
           s2.fifo = s.fifo, s2.snMin = s.snMin, s2.snMax = s.snMax, s2.order = s.order,
           s2.rn = s.rn, s2.stash = s.stash, s2.rx = s.rx, s2.out = s.out,
           At(k, Qs, s, d0, f0, Qp, p, dp, wp)
    PROVE  At(k, Qs, s2, d0, f0, Qp, p, dp, wp)
BY PairSame DEF At

\* The receiver s may ask for the frames before `to`.
Askable(Qp, p, s, ds, to) ==
    to = s.rn \/ (Len(ds) - Acked(Qp, p)) + Off(to, s.rn) <= InWindow(p)

LEMMA SendingAck ==
    ASSUME NEW k, NEW Qs \in Nat, NEW s \in End, NEW d0 \in Seq(Body), NEW f0 \in Seq(Message),
           NEW Qp \in Nat, NEW p \in End, NEW dp \in Seq(Body), NEW wp \in Seq(Message),
           At(k, Qs, s, d0, f0, Qp, p, dp, wp), NEW to \in Number,
           Askable(Qp, p, s, d0 \o s.rx, to)
    PROVE  /\ SendAck(s, to) \in End /\ At(k, Qs, SendAck(s, to), d0, f0, Qp, p, dp, wp)
           /\ SendAck(s, to).stash = s.stash
<1> DEFINE ds == d0 \o s.rx
           ws == f0 \o s.out
           m == Ack(s, to)
           t == SendAck(s, to)
<1>1. s.rx \in Seq(Body) /\ s.out \in Seq(Message) /\ ds \in Seq(Body) /\ ws \in Seq(Message)
  BY EndTyped, ConcatProperties
<1>2. Pair(k, Qs, s, ds, ws, Qp, p, dp, wp)
  BY DEF At
<1>3. SenderOK(k, Qp, p) /\ ReceiverOK(k, Qp, p, s, ds)
  BY <1>2 DEF Pair, Stream
<1>4. m \in Message /\ Sendable(k, Qs, s, ds, Qp, p, m)
  <2> HIDE DEF m
  <2> QED
    BY <1>1, <1>3, AckSendable DEF m, Askable
<1>5. <<m>> \in Seq(Message) /\ \A i \in DOMAIN <<m>> : Sendable(k, Qs, s, ds, Qp, p, <<m>>[i])
  <2> HIDE DEF m, ds
  <2> QED
    BY <1>4, OneSendable
<1>6. Pair(k, Qs, s, ds, ws \o <<m>>, Qp, p, dp, wp)
  <2> HIDE DEF m, ds, ws
  <2> QED
    BY <1>1, <1>2, <1>5, PairMore
<1>7. /\ t.fifo = s.fifo /\ t.snMin = s.snMin /\ t.snMax = s.snMax /\ t.order = s.order
      /\ t.rn = s.rn /\ t.stash = s.stash /\ t.rx = s.rx /\ t.out = Append(s.out, m)
      /\ t \in End
  BY AckSent
<1> HIDE DEF t, m
<1>8. f0 \o t.out = ws \o <<m>>
  <2>1. Append(s.out, m) = s.out \o <<m>>
    BY <1>1, <1>4, AppendIsConcat
  <2>2. (f0 \o s.out) \o <<m>> = f0 \o (s.out \o <<m>>)
    <3>1. f0 \in Seq(Message) /\ s.out \in Seq(Message) /\ <<m>> \in Seq(Message)
      BY <1>1, <1>5
    <3>2. Regroups(f0, s.out, <<m>>)
      BY ONLY <3>1, RegroupMessages, Zenon
    <3> QED
      BY ONLY <3>2, Zenon DEF Regroups
  <2> QED
    BY <1>7, <2>1, <2>2
<1>9. At(k, Qs, t, d0, f0, Qp, p, dp, wp)
  <2>1. Pair(k, Qs, t, ds, ws \o <<m>>, Qp, p, dp, wp)
    BY <1>6, <1>7, PairSame
  <2> QED
    BY <1>7, <1>8, <2>1 DEF At
<1> QED
  BY <1>7, <1>9 DEF t

\* The frame that was waited for, n kept ones behind it: the state t without
\* its acknowledgement.
LEMMA TakingFrame ==
    ASSUME NEW k, NEW Qs \in Nat, NEW s \in End, NEW d0 \in Seq(Body), NEW f0 \in Seq(Message),
           NEW Qp \in Nat, NEW p \in End, NEW dp \in Seq(Body), NEW wp \in Seq(Message),
           At(k, Qs, s, d0, f0, Qp, p, dp, wp), wp # <<>>, Head(wp).kind = "frame",
           Head(wp).seq = s.rn, NEW n \in Nat, NEW t \in End,
           t.fifo = s.fifo, t.snMin = s.snMin, t.snMax = s.snMax, t.order = s.order, t.out = s.out,
           NEW g \in Seq(Body), g = [i \in 1 .. n |-> s.stash[Step(s.rn, i)]],
           t.rx = (s.rx \o <<Head(wp).body>>) \o g,
           t.rn = Step(s.rn, n + 1),
           \A i \in 1 .. n : Step(s.rn, i) \in DOMAIN s.stash,
           Step(s.rn, n + 1) \notin DOMAIN s.stash,
           \A q \in DOMAIN t.stash : /\ q \in DOMAIN s.stash /\ t.stash[q] = s.stash[q]
                                     /\ \A i \in 1 .. n : q # Step(s.rn, i)
    PROVE  At(k, Qs, t, d0, f0, Qp, p, dp, Tail(wp))
<1> DEFINE ds == d0 \o s.rx
           ws == f0 \o s.out
           m == Head(wp)
           d2 == (ds \o <<m.body>>) \o g
<1>0. Stream(k, Qs, s, p, dp, ws, wp) /\ Stream(k, Qp, p, s, ds, wp, ws)
  BY DEF At, Pair
<1>1. s.rx \in Seq(Body) /\ s.out \in Seq(Message) /\ ds \in Seq(Body) /\ ws \in Seq(Message)
  BY EndTyped, ConcatProperties
<1>2. Taken(s, t, ds, d2, m, n)
  BY DEF Taken
<1>3. Stream(k, Qp, p, t, d2, Tail(wp), ws)
  <2> HIDE DEF d2, ds, ws
  <2> QED
    BY <1>0, <1>1, <1>2, FrameTaken
<1>4. m.body \in Body
  <2>1. FramesOK(k, Qp, p, s, ds, wp)
    BY <1>0 DEF Stream
  <2>2. m = wp[1] /\ 1 \in DOMAIN wp
    BY HeadOf
  <2>3. FrameOK(k, Qp, p, s, ds, m)
    BY <2>1, <2>2 DEF FramesOK
  <2> QED
    BY <2>3 DEF FrameOK
<1>5. d0 \o t.rx = d2
  <2> DEFINE one == <<m.body>>
  <2>1. one \in Seq(Body)
    BY <1>4
  <2> HIDE DEF one
  <2>2. s.rx \o one \in Seq(Body)
    BY <1>1, <2>1, ConcatProperties
  <2>3. (d0 \o (s.rx \o one)) \o g = d0 \o ((s.rx \o one) \o g)
    <3>1. d0 \in Seq(Body) /\ s.rx \o one \in Seq(Body) /\ g \in Seq(Body)
      BY <2>2
    <3>2. Regroups(d0, s.rx \o one, g)
      BY ONLY <3>1, RegroupBodies, Zenon
    <3> QED
      BY ONLY <3>2, Zenon DEF Regroups
  <2>4. (d0 \o s.rx) \o one = d0 \o (s.rx \o one)
    <3>1. d0 \in Seq(Body) /\ s.rx \in Seq(Body) /\ one \in Seq(Body)
      BY <1>1, <2>1
    <3>2. Regroups(d0, s.rx, one)
      BY ONLY <3>1, RegroupBodies, Zenon
    <3> QED
      BY ONLY <3>2, Zenon DEF Regroups
  <2> QED
    BY <2>3, <2>4 DEF one
<1>6. Stream(k, Qs, t, p, dp, ws, Tail(wp))
  <2>1. Stream(k, Qs, t, p, dp, ws, wp)
    BY <1>0, SameStream
  <2>2. Tail(wp) \in Seq(Message) /\ AcksOK(Qs, t, dp, Tail(wp))
    BY <2>1, StretchOfTail, StretchAcks DEF Stream
  <2> QED
    BY <2>1, <2>2 DEF Stream
<1> HIDE DEF d2
<1> QED
  BY <1>3, <1>5, <1>6 DEF At, Pair

\* Kept frames may be dropped.
LEMMA StashDropped ==
    ASSUME NEW k, NEW Qs, NEW s, NEW d0, NEW f0, NEW Qp, NEW p, NEW dp, NEW wp, NEW s2,
           s2.fifo = s.fifo, s2.snMin = s.snMin, s2.snMax = s.snMax, s2.order = s.order,
           s2.rn = s.rn, s2.rx = s.rx, s2.out = s.out, DOMAIN s2.stash = {},
           At(k, Qs, s, d0, f0, Qp, p, dp, wp)
    PROVE  At(k, Qs, s2, d0, f0, Qp, p, dp, wp)
<1> DEFINE ds == d0 \o s.rx
           ws == f0 \o s.out
<1>1. Stream(k, Qs, s, p, dp, ws, wp) /\ Stream(k, Qp, p, s, ds, wp, ws)
  BY DEF At, Pair
<1> HIDE DEF ds, ws
<1>2. Stream(k, Qs, s2, p, dp, ws, wp)
  BY <1>1, SameStream
<1>3. ReceiverOK(k, Qp, p, s2, ds)
  BY <1>1 DEF Stream, ReceiverOK
<1>4. FramesOK(k, Qp, p, s2, ds, wp)
  <2>1. ASSUME NEW m, FrameOK(k, Qp, p, s, ds, m) PROVE FrameOK(k, Qp, p, s2, ds, m)
    BY <2>1 DEF FrameOK
  <2> QED
    BY <1>1, <2>1 DEF Stream, FramesOK
<1>5. Stream(k, Qp, p, s2, ds, wp, ws)
  BY <1>1, <1>3, <1>4 DEF Stream
<1> QED
  BY <1>2, <1>5 DEF At, Pair, ds, ws

LEMMA Nacking ==
    ASSUME NEW k, NEW Qs \in Nat, NEW s \in End, NEW d0 \in Seq(Body), NEW f0 \in Seq(Message),
           NEW Qp \in Nat, NEW p \in End, NEW dp \in Seq(Body), NEW wp \in Seq(Message),
           At(k, Qs, s, d0, f0, Qp, p, dp, wp), NEW to \in Number,
           Askable(Qp, p, s, d0 \o s.rx, to)
    PROVE  /\ Nack(s, to) \in End /\ At(k, Qs, Nack(s, to), d0, f0, Qp, p, dp, wp)
           /\ Nack(s, to).stash = s.stash /\ Nack(s, to).rn = s.rn
<1> DEFINE t == [s EXCEPT !.nack = to]
<1>1. t = [s EXCEPT !.nack = to]
  OBVIOUS
<1>2. Nack(s, to) = SendAck(t, to)
  BY DEF Nack
<1> HIDE DEF t
<1>3. /\ t.fifo = s.fifo /\ t.snMin = s.snMin /\ t.snMax = s.snMax /\ t.order = s.order
      /\ t.rn = s.rn /\ t.stash = s.stash /\ t.rx = s.rx /\ t.out = s.out
  BY <1>1 DEF End
<1>4. t \in End
  BY <1>1 DEF End
<1>5. At(k, Qs, t, d0, f0, Qp, p, dp, wp)
  BY <1>3, AtSame
<1>6. Askable(Qp, p, t, d0 \o t.rx, to)
  BY <1>3 DEF Askable
<1>7. SendAck(t, to) \in End /\ At(k, Qs, SendAck(t, to), d0, f0, Qp, p, dp, wp)
  BY <1>4, <1>5, <1>6, SendingAck
<1>8. SendAck(t, to).rn = t.rn /\ SendAck(t, to).stash = t.stash
  BY <1>4 DEF SendAck, Send, End
<1> QED
  BY <1>2, <1>3, <1>7, <1>8

LEMMA KeepingFrame ==
    ASSUME NEW k, NEW Qs \in Nat, NEW s \in End, NEW d0 \in Seq(Body), NEW f0 \in Seq(Message),
           NEW Qp \in Nat, NEW p \in End, NEW dp \in Seq(Body), NEW wp \in Seq(Message),
           At(k, Qs, s, d0, f0, Qp, p, dp, wp), wp # <<>>, Head(wp).kind = "frame",
           Head(wp).seq # s.rn, Off(Head(wp).seq, s.rn) < RxWindow
    PROVE  /\ Keeping(s, Head(wp)) \in End
           /\ At(k, Qs, Keeping(s, Head(wp)), d0, f0, Qp, p, dp, Tail(wp))
           /\ Askable(Qp, p, s, d0 \o s.rx, Head(wp).seq)
<1> DEFINE ds == d0 \o s.rx
           ws == f0 \o s.out
           m == Head(wp)
           t == Keeping(s, m)
<1>1. Stream(k, Qs, s, p, dp, ws, wp) /\ Stream(k, Qp, p, s, ds, wp, ws)
  BY DEF At, Pair
<1>2. s.rx \in Seq(Body) /\ s.out \in Seq(Message) /\ ds \in Seq(Body) /\ ws \in Seq(Message)
  BY EndTyped, ConcatProperties
<1>3. m.seq \in Number /\ m.body \in Body
  <2>1. FramesOK(k, Qp, p, s, ds, wp)
    BY <1>1 DEF Stream
  <2>2. m = wp[1] /\ 1 \in DOMAIN wp /\ m \in Message
    BY HeadOf
  <2>3. FrameOK(k, Qp, p, s, ds, m)
    BY <2>1, <2>2 DEF FramesOK
  <2> QED
    BY <2>2, <2>3, MessageTyped DEF FrameOK
<1>7. /\ t \in End /\ t.fifo = s.fifo /\ t.snMin = s.snMin /\ t.snMax = s.snMax
      /\ t.order = s.order /\ t.rn = s.rn /\ t.rx = s.rx /\ t.out = s.out
      /\ Kept(s, t, m)
  <2> HIDE DEF m
  <2> QED
    BY <1>3, KeptTyped
<1> HIDE DEF t, ds, ws
<1>10. /\ Stream(k, Qp, p, t, ds, Tail(wp), ws)
       /\ (Len(ds) - Acked(Qp, p)) + Off(m.seq, s.rn) <= InWindow(p)
  BY <1>1, <1>2, <1>7, FrameKept
<1>11. Stream(k, Qs, t, p, dp, ws, Tail(wp))
  <2>1. Stream(k, Qs, t, p, dp, ws, wp)
    BY <1>1, <1>7, SameStream
  <2>2. Tail(wp) \in Seq(Message) /\ AcksOK(Qs, t, dp, Tail(wp))
    BY <2>1, StretchOfTail, StretchAcks DEF Stream
  <2> QED
    BY <2>1, <2>2 DEF Stream
<1>12. At(k, Qs, t, d0, f0, Qp, p, dp, Tail(wp))
  BY <1>7, <1>10, <1>11 DEF At, Pair, ds, ws
<1> QED
  BY <1>7, <1>10, <1>12 DEF t, ds, Askable

\* A frame that arrives at the host.
LEMMA HostFrameRead ==
    ASSUME NEW k, NEW Qs \in Nat, NEW s \in End, NEW d0 \in Seq(Body), NEW f0 \in Seq(Message),
           NEW Qp \in Nat, NEW p \in End, NEW dp \in Seq(Body), NEW wp \in Seq(Message),
           At(k, Qs, s, d0, f0, Qp, p, dp, wp), wp # <<>>, Head(wp).kind = "frame"
    PROVE  /\ HostFrame(s, Head(wp)) \in End
           /\ At(k, Qs, HostFrame(s, Head(wp)), d0, f0, Qp, p, dp, Tail(wp))
<1> DEFINE m == Head(wp)
           v == Tail(wp)
           ds == d0 \o s.rx
<1>0. Stream(k, Qp, p, s, ds, wp, f0 \o s.out)
  BY DEF At, Pair
<1>1. m \in Message /\ v \in Seq(Message) /\ Stretch(v, wp) /\ m.seq \in Number /\ m.body \in Body
  <2>1. FramesOK(k, Qp, p, s, ds, wp) /\ m = wp[1] /\ 1 \in DOMAIN wp /\ m \in Message
    BY <1>0, HeadOf DEF Stream
  <2>2. FrameOK(k, Qp, p, s, ds, m)
    BY <2>1 DEF FramesOK
  <2> QED
    BY <2>1, <2>2, StretchOfTail, MessageTyped DEF FrameOK
<1>2. CASE m.seq = s.rn
  <2> DEFINE n == Joined(s)
             t == Taking(s, m, n)
  <2>1. /\ n \in Nat /\ \A i \in 1 .. n : Step(s.rn, i) \in DOMAIN s.stash
        /\ Step(s.rn, n + 1) \notin DOMAIN s.stash
    BY <1>0, GapBehind DEF Stream, ReceiverOK, StashOK
  <2> HIDE DEF n
  <2>2. t \in End /\ At(k, Qs, t, d0, f0, Qp, p, dp, v)
    <3>1. PICK g : HandedOn(s, m, n, t, g)
      <4> HIDE DEF m
      <4> QED
        BY <1>1, <2>1, TakingTyped
    <3> HIDE DEF t
    <3>2. At(k, Qs, t, d0, f0, Qp, p, dp, v)
      BY <1>2, <2>1, <3>1, TakingFrame DEF HandedOn
    <3> QED
      BY <3>1, <3>2 DEF HandedOn
  <2>3. HostFrame(s, m) = IF t.nack # NoSeq \/ DOMAIN t.stash = {} THEN SendAck(t, t.rn)
                          ELSE LET earliest == CHOOSE q \in DOMAIN t.stash :
                                                  \A r \in DOMAIN t.stash : q <= r
                               IN  IF Ahead(t, earliest) THEN Nack(t, earliest)
                                   ELSE SendAck([t EXCEPT !.stash = <<>>], t.rn)
    BY <1>2 DEF HostFrame, n
  <2> HIDE DEF t, m, v, ds
  <2>4. t.rn \in Number /\ Askable(Qp, p, t, d0 \o t.rx, t.rn)
    BY <2>2, EndTyped DEF Askable
  <2>5. SendAck(t, t.rn) \in End /\ At(k, Qs, SendAck(t, t.rn), d0, f0, Qp, p, dp, v)
    BY <1>1, <2>2, <2>4, SendingAck
  <2>6. CASE t.nack # NoSeq \/ DOMAIN t.stash = {}
    BY <2>3, <2>5, <2>6 DEF m, v
  <2>7. CASE ~(t.nack # NoSeq \/ DOMAIN t.stash = {})
    <3> DEFINE earliest == CHOOSE q \in DOMAIN t.stash : \A r \in DOMAIN t.stash : q <= r
               u == [t EXCEPT !.stash = <<>>]
    <3>1. earliest \in DOMAIN t.stash /\ earliest \in Number
      <4>1. DOMAIN t.stash \in SUBSET Nat /\ DOMAIN t.stash # {} /\ DOMAIN t.stash \subseteq Number
        BY <2>2, <2>7, EndTyped, Numbers
      <4> QED
        BY <4>1, LeastOf
    <3> HIDE DEF earliest
    <3>2. Askable(Qp, p, t, d0 \o t.rx, earliest)
      <4>1. ReceiverOK(k, Qp, p, t, d0 \o t.rx)
        BY <2>2 DEF At, Pair, Stream
      <4> DEFINE D == Len(d0 \o t.rx)
                 A == Acked(Qp, p)
                 L == InWindow(p)
                 o == Off(earliest, t.rn)
      <4>2. D + 1 + o <= A + L
        BY <3>1, <4>1 DEF ReceiverOK, Sent
      <4>3. D \in Nat /\ A \in Int /\ L \in Int /\ o \in Nat
        <5>1. t.rx \in Seq(Body) /\ d0 \o t.rx \in Seq(Body)
          BY <2>2, EndTyped, ConcatProperties
        <5>2. D \in Nat
          BY <5>1, LenProperties
        <5>3. A \in Int /\ L \in Int
          BY EndTyped, Counts
        <5>4. o \in Nat
          BY <2>2, <3>1, StashPlaces
        <5> QED
          BY <5>2, <5>3, <5>4
      <4> HIDE DEF D, A, L, o
      <4>4. (D - A) + o <= L
        BY <4>2, <4>3
      <4> QED
        BY <4>4 DEF Askable, D, A, L, o
    <3>3. Nack(t, earliest) \in End /\ At(k, Qs, Nack(t, earliest), d0, f0, Qp, p, dp, v)
      BY <1>1, <2>2, <3>1, <3>2, Nacking
    <3>4. SendAck(u, t.rn) \in End /\ At(k, Qs, SendAck(u, t.rn), d0, f0, Qp, p, dp, v)
      <4> DEFINE none == <<>>
      <4>1. none \in Stash /\ DOMAIN none = {}
        BY NoneKept
      <4>2. u = [t EXCEPT !.stash = none]
        OBVIOUS
      <4> HIDE DEF u, none
      <4>3. /\ u.fifo = t.fifo /\ u.snMin = t.snMin /\ u.snMax = t.snMax /\ u.order = t.order
            /\ u.rn = t.rn /\ u.stash = none /\ u.rx = t.rx /\ u.out = t.out
        BY <2>2, <4>2 DEF End
      <4>4. u \in End
        BY <2>2, <4>1, <4>2 DEF End
      <4>5. At(k, Qs, u, d0, f0, Qp, p, dp, v)
        BY <2>2, <4>1, <4>3, StashDropped
      <4>6. Askable(Qp, p, u, d0 \o u.rx, t.rn)
        BY <4>3 DEF Askable
      <4> QED
        BY <1>1, <2>4, <4>4, <4>5, <4>6, SendingAck
    <3>5. HostFrame(s, m) = IF Ahead(t, earliest) THEN Nack(t, earliest) ELSE SendAck(u, t.rn)
      BY <2>3, <2>7 DEF earliest
    <3> QED
      BY <3>3, <3>4, <3>5 DEF m, v
  <2> QED
    BY <2>6, <2>7
<1>3. CASE m.seq # s.rn /\ Off(m.seq, s.rn) < RxWindow
  <2> DEFINE t == IF s.nack = NoSeq THEN Nack(s, m.seq) ELSE s
  <2>1. HostFrame(s, m) = Keeping(t, m)
    BY <1>3 DEF HostFrame, Ahead
  <2>2. Askable(Qp, p, s, ds, m.seq)
    BY <1>3, KeepingFrame
  <2>3. t \in End /\ At(k, Qs, t, d0, f0, Qp, p, dp, wp) /\ t.rn = s.rn
    <3> HIDE DEF m
    <3>1. Nack(s, m.seq) \in End /\ At(k, Qs, Nack(s, m.seq), d0, f0, Qp, p, dp, wp)
      BY <1>1, <2>2, Nacking
    <3>2. Nack(s, m.seq).rn = s.rn
      BY DEF Nack, SendAck, Send, End
    <3> QED
      BY <3>1, <3>2
  <2> HIDE DEF t
  <2>4. Keeping(t, m) \in End /\ At(k, Qs, Keeping(t, m), d0, f0, Qp, p, dp, v)
    BY <1>3, <2>3, KeepingFrame
  <2> QED
    BY <2>1, <2>4
<1>4. CASE m.seq # s.rn /\ ~(Off(m.seq, s.rn) < RxWindow)
  <2>1. HostFrame(s, m) = s
    BY <1>4 DEF HostFrame, Ahead
  <2>2. s.out \in Seq(Message) /\ f0 \o s.out \in Seq(Message)
    BY EndTyped, ConcatProperties
  <2>3. At(k, Qs, s, d0, f0, Qp, p, dp, v)
    <3> DEFINE ws == f0 \o s.out
    <3>1. ws \in Seq(Message) /\ Pair(k, Qs, s, ds, ws, Qp, p, dp, wp)
      BY <2>2 DEF At
    <3> HIDE DEF ws, ds, v
    <3>2. Pair(k, Qs, s, ds, ws, Qp, p, dp, v)
      BY <1>1, <3>1, StretchSelf, StretchPair
    <3> QED
      BY <3>2 DEF At, ws, ds
  <2> QED
    BY <2>1, <2>3
<1> QED
  BY <1>2, <1>3, <1>4

\* A frame that arrives at the device.
LEMMA DeviceFrameRead ==
    ASSUME NEW k, NEW Qs \in Nat, NEW s \in End, NEW d0 \in Seq(Body), NEW f0 \in Seq(Message),
           NEW Qp \in Nat, NEW p \in End, NEW dp \in Seq(Body), NEW wp \in Seq(Message),
           At(k, Qs, s, d0, f0, Qp, p, dp, wp), wp # <<>>, Head(wp).kind = "frame",
           DOMAIN s.stash = {}
    PROVE  /\ DeviceFrame(s, Head(wp)) \in End
           /\ At(k, Qs, DeviceFrame(s, Head(wp)), d0, f0, Qp, p, dp, Tail(wp))
           /\ DOMAIN DeviceFrame(s, Head(wp)).stash = {}
<1> DEFINE m == Head(wp)
           v == Tail(wp)
           ds == d0 \o s.rx
<1>0. Stream(k, Qp, p, s, ds, wp, f0 \o s.out)
  BY DEF At, Pair
<1>1. m \in Message /\ v \in Seq(Message) /\ Stretch(v, wp) /\ m.body \in Body
  <2>1. FramesOK(k, Qp, p, s, ds, wp) /\ m = wp[1] /\ 1 \in DOMAIN wp /\ m \in Message
    BY <1>0, HeadOf DEF Stream
  <2>2. FrameOK(k, Qp, p, s, ds, m)
    BY <2>1 DEF FramesOK
  <2> QED
    BY <2>1, <2>2, StretchOfTail DEF FrameOK
<1>2. CASE m.seq = s.rn
  <2> DEFINE t == DeviceTaking(s, m)
  <2>1. DeviceFrame(s, m) = SendAck(t, t.rn)
    BY <1>2 DEF DeviceFrame, DeviceTaking
  <2>2. t.stash = s.stash /\ HandedOn(s, m, 0, t, <<>>)
    BY <1>1, DeviceTakingTyped
  <2> HIDE DEF t, m, v, ds
  <2>4. t \in End
    BY <2>2 DEF HandedOn
  <2>6. At(k, Qs, t, d0, f0, Qp, p, dp, v)
    <3>1. 0 \in Nat /\ \A i \in 1 .. 0 : Step(s.rn, i) \in DOMAIN s.stash
      OBVIOUS
    <3>2. Step(s.rn, 0 + 1) \notin DOMAIN s.stash
      OBVIOUS
    <3> QED
      BY <1>2, <2>2, <3>1, <3>2, TakingFrame DEF HandedOn, m, v
  <2>7. t.rn \in Number /\ Askable(Qp, p, t, d0 \o t.rx, t.rn)
    BY <2>4, EndTyped DEF Askable
  <2>8. SendAck(t, t.rn) \in End /\ At(k, Qs, SendAck(t, t.rn), d0, f0, Qp, p, dp, v)
    BY <1>1, <2>4, <2>6, <2>7, SendingAck
  <2>9. SendAck(t, t.rn).stash = t.stash
    BY <2>4 DEF SendAck, Send, End
  <2> QED
    BY <2>1, <2>2, <2>8, <2>9 DEF m, v
<1>3. CASE m.seq # s.rn
  <2>1. DeviceFrame(s, m) = s
    BY <1>3 DEF DeviceFrame
  <2>2. s.out \in Seq(Message) /\ f0 \o s.out \in Seq(Message)
    BY EndTyped, ConcatProperties
  <2>3. At(k, Qs, s, d0, f0, Qp, p, dp, v)
    <3> DEFINE ws == f0 \o s.out
    <3>1. ws \in Seq(Message) /\ Pair(k, Qs, s, ds, ws, Qp, p, dp, wp)
      BY <2>2 DEF At
    <3> HIDE DEF ws, ds, v
    <3>2. Pair(k, Qs, s, ds, ws, Qp, p, dp, v)
      BY <1>1, <3>1, StretchSelf, StretchPair
    <3> QED
      BY <3>2 DEF At, ws, ds
  <2> QED
    BY <2>1, <2>3
<1> QED
  BY <1>2, <1>3

\* One frame read, whatever it is but a RESET.
LEMMA OneRead ==
    ASSUME NEW e \in Ends, NEW k, NEW Qs \in Nat, NEW s0 \in End, NEW d0 \in Seq(Body),
           NEW f0 \in Seq(Message),
           NEW Qp \in Nat, NEW p \in End, NEW dp \in Seq(Body), NEW wp \in Seq(Message),
           At(k, Qs, s0, d0, f0, Qp, p, dp, wp), wp # <<>>,
           e = "device" => DOMAIN s0.stash = {}
    PROVE  /\ Received(e, s0, Head(wp)) \in End
           /\ At(k, Qs, Received(e, s0, Head(wp)), d0, f0, Qp, p, dp, Tail(wp))
           /\ e = "device" => DOMAIN Received(e, s0, Head(wp)).stash = {}
<1> DEFINE m == Head(wp)
           v == Tail(wp)
           active == s0.active \/ m.kind = "frame"
           s == [s0 EXCEPT !.heard = TRUE, !.active = active]
           t == Received(e, s0, m)
<1>1. m \in Message /\ v \in Seq(Message) /\ Stretch(v, wp) /\ m.kind \in {"frame", "ack", "plain"}
  <2>1. m \in Message /\ v \in Seq(Message) /\ Stretch(v, wp)
    BY HeadOf, StretchOfTail
  <2> QED
    BY <2>1, MessageTyped
<1>2. s = [s0 EXCEPT !.heard = TRUE, !.active = active] /\ active \in BOOLEAN
  BY EndTyped
<1>3. /\ m.kind = "ack" => t = GotAck(e, s, m)
      /\ m.kind = "frame" => t = IF e = "host" THEN HostFrame(s, m) ELSE DeviceFrame(s, m)
      /\ m.kind = "plain" => t = s
  BY DEF Received
<1> HIDE DEF s, t, m, v, active
<1>4. /\ s.fifo = s0.fifo /\ s.snMin = s0.snMin /\ s.snMax = s0.snMax /\ s.order = s0.order
      /\ s.rn = s0.rn /\ s.stash = s0.stash /\ s.rx = s0.rx /\ s.out = s0.out
  BY <1>2 DEF End
<1>5. s \in End
  BY <1>2 DEF End
<1>6. At(k, Qs, s, d0, f0, Qp, p, dp, wp)
  BY <1>4, AtSame
<1>7. CASE m.kind = "ack"
  <2>1. GotAck(e, s, m) \in End /\ At(k, Qs, GotAck(e, s, m), d0, f0, Qp, p, dp, v)
    BY <1>5, <1>6, <1>7, AckRead DEF m, v
  <2>2. e = "device" => DOMAIN GotAck(e, s, m).stash = {}
    BY <1>4, <1>5, <1>6, <1>7, AckRead DEF m, v
  <2> QED
    BY <1>3, <1>4, <1>7, <2>1, <2>2 DEF t, m, v
<1>8. CASE m.kind = "frame" /\ e = "host"
  <2>1. HostFrame(s, m) \in End /\ At(k, Qs, HostFrame(s, m), d0, f0, Qp, p, dp, v)
    BY <1>5, <1>6, <1>8, HostFrameRead DEF m, v
  <2> QED
    BY <1>3, <1>8, <2>1 DEF t, m, v
<1>9. CASE m.kind = "frame" /\ e = "device"
  <2>1. /\ DeviceFrame(s, m) \in End /\ At(k, Qs, DeviceFrame(s, m), d0, f0, Qp, p, dp, v)
        /\ DOMAIN DeviceFrame(s, m).stash = {}
    BY <1>4, <1>5, <1>6, <1>9, DeviceFrameRead DEF m, v
  <2> QED
    BY <1>3, <1>9, <2>1 DEF t, m, v
<1>10. CASE m.kind = "plain"
  <2> DEFINE ds == d0 \o s.rx
             ws == f0 \o s.out
  <2>1. ws \in Seq(Message) /\ Pair(k, Qs, s, ds, ws, Qp, p, dp, wp)
    BY <1>5, <1>6, EndTyped, ConcatProperties DEF At
  <2> HIDE DEF ws, ds
  <2>2. Pair(k, Qs, s, ds, ws, Qp, p, dp, v)
    BY <1>1, <2>1, StretchSelf, StretchPair
  <2>3. At(k, Qs, s, d0, f0, Qp, p, dp, v)
    BY <2>2 DEF At, ws, ds
  <2> QED
    BY <1>3, <1>4, <1>5, <1>10, <2>3 DEF t, m, v
<1> QED
  BY <1>1, <1>7, <1>8, <1>9, <1>10 DEF Ends

\* What is left of a sequence when its first j elements are taken.
LEMMA Rest ==
    ASSUME NEW w \in Seq(Message), NEW j \in Nat, j < Len(w)
    PROVE  LET v == SubSeq(w, j + 1, Len(w))
           IN  /\ v \in Seq(Message) /\ v # <<>> /\ Head(v) = w[j + 1]
               /\ Tail(v) = SubSeq(w, (j + 1) + 1, Len(w))
<1> DEFINE v == SubSeq(w, j + 1, Len(w))
           n == Len(w)
           u == SubSeq(w, (j + 1) + 1, n)
<1>1. n \in Nat /\ j + 1 \in Nat /\ (j + 1) + 1 \in Nat /\ j < n
  BY LenProperties
<1>2. v \in Seq(Message) /\ Len(v) = n - j /\ \A i \in 1 .. n - j : v[i] = w[j + i]
  <2>1. j + 1 \in 1 .. n + 1 /\ n \in 0 .. n
    BY <1>1
  <2>2. v \in Seq(Message)
    BY <2>1, SubSeqProperties
  <2>3. Len(v) = n - j /\ \A i \in 1 .. n - j : v[i] = w[j + i]
    <3>1. /\ Len(v) = IF j + 1 <= n THEN n - (j + 1) + 1 ELSE 0
          /\ \A i \in 1 .. (n - (j + 1) + 1) : v[i] = w[(j + 1) + i - 1]
      BY <2>1, SubSeqProperties
    <3> HIDE DEF v, n
    <3> QED
      BY <1>1, <3>1
  <2> QED
    BY <2>2, <2>3
<1>3. u \in Seq(Message) /\ Len(u) = (n - j) - 1 /\ \A i \in 1 .. (n - j) - 1 : u[i] = w[(j + 1) + i]
  <2>1. (j + 1) + 1 \in 1 .. n + 1 /\ n \in 0 .. n
    BY <1>1
  <2>2. u \in Seq(Message)
    BY <2>1, SubSeqProperties
  <2>3. Len(u) = (n - j) - 1 /\ \A i \in 1 .. (n - j) - 1 : u[i] = w[(j + 1) + i]
    <3>1. /\ Len(u) = IF (j + 1) + 1 <= n THEN n - ((j + 1) + 1) + 1 ELSE 0
          /\ \A i \in 1 .. (n - ((j + 1) + 1) + 1) : u[i] = w[((j + 1) + 1) + i - 1]
      BY <2>1, SubSeqProperties
    <3> HIDE DEF u, n
    <3>2. n - ((j + 1) + 1) + 1 = (n - j) - 1
      BY <1>1
    <3>3. Len(u) = (n - j) - 1
      BY <1>1, <3>1
    <3>4. ASSUME NEW i \in 1 .. (n - j) - 1 PROVE u[i] = w[(j + 1) + i]
      <4>1. i \in 1 .. (n - ((j + 1) + 1) + 1)
        BY <3>2
      <4>2. u[i] = w[((j + 1) + 1) + i - 1]
        BY <3>1, <4>1
      <4>3. ((j + 1) + 1) + i - 1 = (j + 1) + i
        BY <1>1
      <4> QED
        BY <4>2, <4>3
    <3> QED
      BY <3>3, <3>4
  <2> QED
    BY <2>2, <2>3
<1> HIDE DEF v, u, n
<1>4. v # <<>> /\ Head(v) = w[j + 1]
  <2>1. Len(v) > 0 /\ 1 \in 1 .. n - j
    BY <1>1, <1>2
  <2>2. v # <<>>
    BY <1>2, <2>1, EmptySeq
  <2> QED
    BY <1>2, <2>1, <2>2, HeadOf
<1>5. Tail(v) = u
  <2>1. Tail(v) \in Seq(Message) /\ Len(Tail(v)) = Len(v) - 1
        /\ \A i \in 1 .. Len(Tail(v)) : Tail(v)[i] = v[i + 1]
    BY <1>2, <1>4, HeadTailProperties
  <2>2. Len(Tail(v)) = Len(u)
    BY <1>1, <1>2, <1>3, <2>1
  <2>3. \A i \in 1 .. Len(Tail(v)) : Tail(v)[i] = u[i]
    <3> TAKE i \in 1 .. Len(Tail(v))
    <3>1. i + 1 \in 1 .. n - j /\ i \in 1 .. (n - j) - 1 /\ j + (i + 1) = (j + 1) + i
      BY <1>1, <1>2, <2>1
    <3>2. Tail(v)[i] = v[i + 1]
      BY <2>1
    <3> QED
      BY <1>2, <1>3, <3>1, <3>2
  <2> QED
    BY <1>3, <2>1, <2>2, <2>3, SeqEqual
<1> QED
  BY <1>2, <1>4, <1>5 DEF v, u, n

\* n frames read.
LEMMA StepsRead ==
    ASSUME NEW e \in Ends, NEW k, NEW Qs \in Nat, NEW s \in End, NEW d0 \in Seq(Body),
           NEW f0 \in Seq(Message),
           NEW Qp \in Nat, NEW p \in End, NEW dp \in Seq(Body), NEW wp \in Seq(Message),
           At(k, Qs, s, d0, f0, Qp, p, dp, wp), e = "device" => DOMAIN s.stash = {},
           NEW n \in 0 .. Len(wp), NEW a, a[0] = s, Passes(e, wp, a, n)
    PROVE  /\ a[n] \in End /\ At(k, Qs, a[n], d0, f0, Qp, p, dp, SubSeq(wp, n + 1, Len(wp)))
           /\ e = "device" => DOMAIN a[n].stash = {}
<1>1. n \in Nat /\ n <= Len(wp) /\ Len(wp) \in Nat
  BY LenProperties
<1> DEFINE Good == {j \in 0 .. n :
                       /\ a[j] \in End
                       /\ At(k, Qs, a[j], d0, f0, Qp, p, dp, SubSeq(wp, j + 1, Len(wp)))
                       /\ e = "device" => DOMAIN a[j].stash = {}}
<1>4. 0 \in Good
  <2> DEFINE v == SubSeq(wp, 0 + 1, Len(wp))
             b == a[0]
  <2>1. v = wp
    <3>1. 0 + 1 = 1
      OBVIOUS
    <3> QED
      BY <3>1, SubSeqFull
  <2>2. b = s
    OBVIOUS
  <2> HIDE DEF v, b
  <2>3. b \in End /\ At(k, Qs, b, d0, f0, Qp, p, dp, v) /\ (e = "device" => DOMAIN b.stash = {})
    BY <2>1, <2>2
  <2>4. 0 \in 0 .. n
    BY <1>1
  <2> QED
    BY <2>3, <2>4 DEF v, b
<1>5. \A j \in 0 .. n - 1 : j \in Good => j + 1 \in Good
  <2> TAKE j \in 0 .. n - 1
  <2> HAVE j \in Good
  <2> DEFINE v == SubSeq(wp, j + 1, Len(wp))
             b == a[j]
  <2>1. j \in Nat /\ j < Len(wp) /\ j + 1 \in 1 .. n /\ (j + 1) - 1 = j /\ j + 1 \in 0 .. n
    BY <1>1
  <2>2. /\ v \in Seq(Message) /\ v # <<>> /\ Head(v) = wp[j + 1]
        /\ Tail(v) = SubSeq(wp, (j + 1) + 1, Len(wp))
    BY <2>1, Rest
  <2>4. b \in End /\ At(k, Qs, b, d0, f0, Qp, p, dp, v) /\ (e = "device" => DOMAIN b.stash = {})
    OBVIOUS
  <2>5. a[j + 1] = Received(e, b, Head(v))
    BY <2>1, <2>2 DEF Passes
  <2> HIDE DEF v, b
  <2>6. /\ Received(e, b, Head(v)) \in End
        /\ At(k, Qs, Received(e, b, Head(v)), d0, f0, Qp, p, dp, Tail(v))
        /\ e = "device" => DOMAIN Received(e, b, Head(v)).stash = {}
    BY <2>2, <2>4, OneRead
  <2> QED
    BY <2>1, <2>2, <2>5, <2>6
<1>6. n \in Good
  <2>1. n \in 0 .. n
    BY <1>1
  <2> HIDE DEF Good
  <2> QED
    BY <1>1, <1>4, <1>5, <2>1, Induct
<1> QED
  BY <1>6

LEMMA AllRead ==
    ASSUME NEW e \in Ends, NEW k, NEW Qs \in Nat, NEW s \in End, NEW d0 \in Seq(Body),
           NEW f0 \in Seq(Message),
           NEW Qp \in Nat, NEW p \in End, NEW dp \in Seq(Body), NEW wp \in Seq(Message),
           At(k, Qs, s, d0, f0, Qp, p, dp, wp), e = "device" => DOMAIN s.stash = {},
           NEW n \in 0 .. Len(wp)
    PROVE  LET t == Read(e, s, SubSeq(wp, 1, n))
           IN  /\ t \in End /\ At(k, Qs, t, d0, f0, Qp, p, dp, SubSeq(wp, n + 1, Len(wp)))
               /\ e = "device" => DOMAIN t.stash = {}
<1> DEFINE ms == SubSeq(wp, 1, n)
<1>1. n \in Nat /\ n <= Len(wp) /\ Len(wp) \in Nat
  BY LenProperties
<1>2. ms \in Seq(Message) /\ Len(ms) = n /\ \A i \in 1 .. n : ms[i] = wp[i]
  <2>1. 1 \in 1 .. Len(wp) + 1 /\ n \in 0 .. Len(wp)
    BY <1>1
  <2>2. ms \in Seq(Message) /\ Len(ms) = (IF 1 <= n THEN n - 1 + 1 ELSE 0)
        /\ \A i \in 1 .. (n - 1 + 1) : ms[i] = wp[1 + i - 1]
    BY <2>1, SubSeqProperties
  <2> HIDE DEF ms
  <2> QED
    BY <1>1, <2>2
<1> HIDE DEF ms
<1>3. PICK a : ReadThrough(e, s, ms, a)
  BY <1>2, ReadSteps
<1>4. /\ a[0] = s
      /\ Passes(e, wp, a, n)
      /\ Read(e, s, ms) = a[n]
  BY <1>2, <1>3 DEF ReadThrough, Passes
<1>5. /\ a[n] \in End /\ At(k, Qs, a[n], d0, f0, Qp, p, dp, SubSeq(wp, n + 1, Len(wp)))
      /\ e = "device" => DOMAIN a[n].stash = {}
  BY <1>4, StepsRead
<1> QED
  BY <1>4, <1>5 DEF ms

\* A frame sent for the first time.
LEMMA SendingNew ==
    ASSUME NEW k, NEW Qs \in Nat, NEW s \in End, NEW d0 \in Seq(Body), NEW f0 \in Seq(Message),
           NEW Qp \in Nat, NEW p \in End, NEW dp \in Seq(Body), NEW wp \in Seq(Message),
           At(k, Qs, s, d0, f0, Qp, p, dp, wp),
           InWindow(s) < Window, InWindow(s) < Len(s.fifo)
    PROVE  LET t == SentNew(s)
           IN  t \in End /\ At(k, Qs, t, d0, f0, Qp, p, dp, wp) /\ t.stash = s.stash
<1> DEFINE ds == d0 \o s.rx
           ws == f0 \o s.out
           m == Frame(s.snMax, s.fifo[InWindow(s) + 1])
           t == SentNew(s)
<1>1. /\ m \in Message /\ m.kind = "frame"
      /\ t \in End /\ OneMore(s, t) /\ t.out = Append(s.out, m)
      /\ t.rn = s.rn /\ t.stash = s.stash /\ t.rx = s.rx
  BY SentNewTyped
<1>2. s.rx \in Seq(Body) /\ s.out \in Seq(Message) /\ ds \in Seq(Body) /\ ws \in Seq(Message)
  BY EndTyped, ConcatProperties
<1> HIDE DEF t, m, ds, ws
<1>3. Append(s.out, m) = s.out \o <<m>>
  BY <1>1, <1>2, AppendIsConcat
<1>8. Stream(k, Qs, s, p, dp, ws, wp) /\ Stream(k, Qp, p, s, ds, wp, ws)
  BY DEF At, Pair, ds, ws
<1>9. Stream(k, Qs, t, p, dp, ws, wp) /\ OfWindow(k, Qs, t, m)
  BY <1>1, <1>2, <1>8, WindowGrows DEF m
<1>10. Stream(k, Qp, p, t, ds, wp, ws)
  BY <1>1, <1>8, SameStream DEF OneMore
<1>11. Pair(k, Qs, t, ds, ws \o <<m>>, Qp, p, dp, wp)
  <2>1. Sendable(k, Qs, t, ds, Qp, p, m)
    BY <1>1, <1>9 DEF Sendable
  <2>2. <<m>> \in Seq(Message) /\ \A i \in DOMAIN <<m>> : Sendable(k, Qs, t, ds, Qp, p, <<m>>[i])
    BY <1>1, <2>1, OneSendable
  <2>3. Pair(k, Qs, t, ds, ws, Qp, p, dp, wp)
    BY <1>9, <1>10 DEF Pair
  <2> QED
    BY <1>1, <1>2, <2>2, <2>3, PairMore
<1>12. f0 \o t.out = ws \o <<m>>
  <2> DEFINE one == <<m>>
  <2>1. one \in Seq(Message)
    BY <1>1
  <2> HIDE DEF one
  <2>2. (f0 \o s.out) \o one = f0 \o (s.out \o one)
    <3>1. s.out \in Seq(Message) /\ f0 \in Seq(Message)
      BY <1>2
    <3>2. Regroups(f0, s.out, one)
      BY ONLY <2>1, <3>1, RegroupMessages, Zenon
    <3> QED
      BY ONLY <3>2, Zenon DEF Regroups
  <2> QED
    BY <1>1, <1>3, <2>2 DEF one, ws
<1>13. At(k, Qs, t, d0, f0, Qp, p, dp, wp)
  BY <1>1, <1>11, <1>12 DEF At, ds
<1> QED
  BY <1>1, <1>13 DEF t

\* The sending half of a poll.
LEMMA Sending ==
    ASSUME NEW k, NEW Qs \in Nat, NEW s \in End, NEW d0 \in Seq(Body), NEW f0 \in Seq(Message),
           NEW Qp \in Nat, NEW p \in End, NEW dp \in Seq(Body), NEW wp \in Seq(Message),
           At(k, Qs, s, d0, f0, Qp, p, dp, wp),
           NEW sampled, NEW room, NEW resendDue, NEW ackDue
    PROVE  LET t == Transmitted(s, sampled, room, resendDue, ackDue)
           IN  /\ t \in End /\ At(k, Qs, t, d0, f0, Qp, p, dp, wp)
               /\ DOMAIN s.stash = {} => DOMAIN t.stash = {}
<1> DEFINE fresh == InWindow(s) < Window /\ Len(s.fifo) > InWindow(s)
           a == SentNew(s)
           qs == <<Head(s.order)>>
           b == Resend(s, qs)
           c == OneSent(s, sampled, room, resendDue)
           t == Transmitted(s, sampled, room, resendDue, ackDue)
<1>1. t = IF ackDue /\ sampled.active THEN SendAck(c, c.rn) ELSE c
  BY DEF Transmitted, OneSent, SentNew
<1>2. fresh => a \in End /\ At(k, Qs, a, d0, f0, Qp, p, dp, wp) /\ a.stash = s.stash
  <2> HAVE fresh
  <2>1. InWindow(s) < Window /\ InWindow(s) < Len(s.fifo)
    BY EndTyped
  <2> QED
    BY <2>1, SendingNew
<1>3. InWindow(s) > 0 => b \in End /\ At(k, Qs, b, d0, f0, Qp, p, dp, wp) /\ b.stash = s.stash
  <2> HAVE InWindow(s) > 0
  <2>1. OrderOK(s)
    BY DEF At, Pair, Stream
  <2>2. qs \in Seq(Number) /\ Outstanding(s, qs)
    BY <2>1, LeastRecent DEF Outstanding
  <2> HIDE DEF qs
  <2>3. b \in End /\ At(k, Qs, b, d0, f0, Qp, p, dp, wp)
    BY <2>2, Resending, Zenon DEF Resent
  <2>4. b.stash = s.stash
    BY DEF Resend, End
  <2> QED
    BY <2>3, <2>4
<1>4. c \in End /\ At(k, Qs, c, d0, f0, Qp, p, dp, wp) /\ c.stash = s.stash
  <2>1. \/ c = s
        \/ fresh /\ c = a
        \/ InWindow(s) > 0 /\ c = b
    BY DEF OneSent
  <2> HIDE DEF a, b, c, fresh
  <2> QED
    BY <1>2, <1>3, <2>1
<1> HIDE DEF t
<1> HIDE DEF c
<1>5. SendAck(c, c.rn) \in End /\ At(k, Qs, SendAck(c, c.rn), d0, f0, Qp, p, dp, wp)
  <2>1. c.rn \in Number /\ Askable(Qp, p, c, d0 \o c.rx, c.rn)
    BY <1>4, EndTyped DEF Askable
  <2> QED
    BY <1>4, <2>1, SendingAck
<1>6. SendAck(c, c.rn).stash = c.stash
  BY <1>4 DEF SendAck, Send, End
<1> QED
  BY <1>1, <1>4, <1>5, <1>6 DEF t

\* However much of what was sent the line carries.
Answered(k, Qs, s, d, f0, Qp, p, dp, wp, out) ==
    \A us \in Seq(Message) : Stretch(us, f0 \o out) => Pair(k, Qs, s, d, us, Qp, p, dp, wp)

\* One poll.  What the line carries of the answer is a stretch of it.
LEMMA Polling ==
    ASSUME NEW e \in Ends, NEW k, NEW Qs \in Nat, NEW s \in End, NEW d0 \in Seq(Body),
           NEW f0 \in Seq(Message),
           NEW Qp \in Nat, NEW p \in End, NEW dp \in Seq(Body), NEW wp \in Seq(Message),
           Pair(k, Qs, s, d0, f0, Qp, p, dp, wp), s.rx = <<>>, s.out = <<>>,
           e = "device" => DOMAIN s.stash = {},
           NEW n \in 0 .. Len(wp),
           NEW sent, NEW s2, Answer(e, s, SubSeq(wp, 1, n), sent), s2 = Emptied(sent)
    PROVE  /\ sent \in End /\ s2 \in End /\ (e = "device" => DOMAIN s2.stash = {})
           /\ s2.rx = <<>> /\ s2.out = <<>>
           /\ Answered(k, Qs, s2, d0 \o sent.rx, f0, Qp, p, dp, SubSeq(wp, n + 1, Len(wp)), sent.out)
<1> DEFINE read == Read(e, s, SubSeq(wp, 1, n))
           v == SubSeq(wp, n + 1, Len(wp))
<1>1. At(k, Qs, s, d0, f0, Qp, p, dp, wp)
  <2>1. d0 \o <<>> = d0 /\ f0 \o <<>> = f0
    BY ConcatEmptySeq
  <2> QED
    BY <2>1 DEF At
<1>2. read \in End /\ At(k, Qs, read, d0, f0, Qp, p, dp, v) /\ (e = "device" => DOMAIN read.stash = {})
  BY <1>1, AllRead
<1>3. v \in Seq(Message)
  <2>1. n + 1 \in 1 .. Len(wp) + 1 /\ Len(wp) \in 0 .. Len(wp)
    BY LenProperties
  <2> QED
    BY <2>1, SubSeqProperties
<1>4. PICK sampled, room, resendDue, ackDue :
        sent = Transmitted(read, sampled, room, resendDue, ackDue)
  BY DEF Answer
<1> HIDE DEF read, v
<1>5. sent \in End /\ At(k, Qs, sent, d0, f0, Qp, p, dp, v) /\ (e = "device" => DOMAIN sent.stash = {})
  <2> DEFINE t == Transmitted(read, sampled, room, resendDue, ackDue)
  <2>1. t \in End /\ At(k, Qs, t, d0, f0, Qp, p, dp, v)
    BY <1>2, <1>3, Sending
  <2>2. DOMAIN read.stash = {} => DOMAIN t.stash = {}
    BY <1>2, <1>3, Sending
  <2> QED
    BY <1>2, <1>4, <2>1, <2>2
<1>7. /\ s2 \in End /\ s2.fifo = sent.fifo /\ s2.snMin = sent.snMin /\ s2.snMax = sent.snMax
      /\ s2.order = sent.order /\ s2.rn = sent.rn /\ s2.stash = sent.stash
      /\ s2.rx = <<>> /\ s2.out = <<>>
  BY <1>5, EmptiedTyped
<1>9. ASSUME NEW us \in Seq(Message), Stretch(us, f0 \o sent.out)
      PROVE  Pair(k, Qs, s2, d0 \o sent.rx, us, Qp, p, dp, v)
  <2> DEFINE ds == d0 \o sent.rx
             ws == f0 \o sent.out
  <2>1. ws \in Seq(Message) /\ Pair(k, Qs, sent, ds, ws, Qp, p, dp, v)
    BY <1>5, EndTyped, ConcatProperties DEF At
  <2>3. Stretch(us, ws)
    BY <1>9
  <2> HIDE DEF ws, ds
  <2>2. Pair(k, Qs, s2, ds, ws, Qp, p, dp, v)
    BY ONLY <1>7, <2>1, PairSame
  <2>4. Pair(k, Qs, s2, ds, us, Qp, p, dp, v)
    BY <1>3, <2>1, <2>2, <2>3, StretchSelf, StretchPair
  <2> QED
    BY <2>4 DEF ds
<1> QED
  BY <1>5, <1>7, <1>9 DEF v, Answered
-----------------------------------------------------------------------------
(* The states between the polls.                                           *)

LEMMA OffSelf == \A q \in Number : Off(q, q) = 0
<1> TAKE q \in Number
<1>1. q - q = 0 /\ 0 \in Number
  BY Numbers
<1> QED
  BY <1>1, Small DEF Off

\* Nothing was sent or accepted.
LEMMA EmptyStream ==
    ASSUME NEW k, NEW s \in End, NEW r \in End, s.fifo = <<>>, s.order = <<>>,
           s.snMax = s.snMin, r.rn = s.snMin, DOMAIN r.stash = {}
    PROVE  Stream(k, 0, s, r, <<>>, <<>>, <<>>)
<1>1. s.snMin \in Number /\ InWindow(s) = 0
  BY EndTyped, OffSelf
<1>2. Acked(0, s) = 0 /\ Sent(0, s) = 0
  <2> DEFINE L == Len(s.fifo)
  <2>1. L = 0 /\ Acked(0, s) = 0 - L
    BY DEF Acked
  <2> HIDE DEF L
  <2>2. Acked(0, s) = 0
    BY ONLY <2>1
  <2> QED
    BY <1>1, <2>2 DEF Sent
<1>3. SenderOK(k, 0, s)
  BY <1>1, <1>2, Sizes DEF SenderOK
<1>4. OrderOK(s)
  <2>1. ASSUME NEW q \in Number PROVE ~(Off(q, s.snMin) < InWindow(s))
    <3>1. Off(q, s.snMin) \in Nat
      BY <1>1, OffNat, Numbers
    <3> QED
      BY <1>1, <3>1
  <2> QED
    BY <2>1 DEF OrderOK, Range
<1>5. ReceiverOK(k, 0, s, r, <<>>)
  <2>1. Off(r.rn, s.snMin) = 0 /\ Len(<<>>) = 0 /\ DOMAIN <<>> = {}
    BY <1>1, OffSelf
  <2> QED
    BY <1>2, <2>1 DEF ReceiverOK
<1>6. FramesOK(k, 0, s, r, <<>>, <<>>) /\ AcksOK(0, s, <<>>, <<>>)
  BY DEF FramesOK, AcksOK
<1> QED
  BY <1>3, <1>4, <1>5, <1>6 DEF Stream

\* A frame is queued.
LEMMA QueuedSound ==
    ASSUME NEW k, NEW Q \in Nat, NEW s \in End, NEW s2 \in End, Sound(k, Q, s),
           s2.fifo = Append(s.fifo, <<k, Q + 1>>), <<k, Q + 1>> \in Body,
           s2.snMin = s.snMin, s2.snMax = s.snMax, s2.order = s.order, s2.rn = s.rn, s2.stash = s.stash
    PROVE  /\ Sound(k, Q + 1, s2)
           /\ Acked(Q + 1, s2) = Acked(Q, s) /\ Sent(Q + 1, s2) = Sent(Q, s)
           /\ InWindow(s2) = InWindow(s)
<1> DEFINE x == <<k, Q + 1>>
<1>0. x \in Body /\ x = <<k, Q + 1>> /\ s2.fifo = Append(s.fifo, x)
  OBVIOUS
<1> HIDE DEF x
<1>1. /\ s.fifo \in Seq(Body) /\ Len(s.fifo) \in Nat /\ DOMAIN s.fifo = 1 .. Len(s.fifo)
      /\ Len(s2.fifo) = Len(s.fifo) + 1 /\ s2.fifo[Len(s.fifo) + 1] = x
      /\ \A i \in 1 .. Len(s.fifo) : s2.fifo[i] = s.fifo[i]
      /\ DOMAIN s2.fifo = 1 .. Len(s.fifo) + 1
  <2>1. s.fifo \in Seq(Body) /\ s2.fifo \in Seq(Body)
    BY EndTyped
  <2>2. /\ Len(s2.fifo) = Len(s.fifo) + 1 /\ s2.fifo[Len(s.fifo) + 1] = x
        /\ \A i \in 1 .. Len(s.fifo) : s2.fifo[i] = s.fifo[i]
    BY <1>0, <2>1, AppendProperties
  <2> QED
    BY <2>1, <2>2, LenProperties
<1>2. InWindow(s2) = InWindow(s)
  BY DEF InWindow
<1> DEFINE L == Len(s.fifo)
           A == Acked(Q, s)
<1>3. Acked(Q + 1, s2) = A /\ A \in Int /\ A = Q - L
  <2>1. L \in Nat /\ Acked(Q, s) = Q - L /\ Acked(Q + 1, s2) = (Q + 1) - (L + 1)
    BY <1>1 DEF Acked
  <2> HIDE DEF L
  <2>2. (Q + 1) - (L + 1) = Q - L /\ Q - L \in Int
    BY <2>1
  <2> QED
    BY <2>1, <2>2
<1>4. Sent(Q + 1, s2) = Sent(Q, s)
  BY <1>2, <1>3 DEF Sent
<1>5. SenderOK(k, Q + 1, s2)
  <2>1. SenderOK(k, Q, s)
    BY DEF Sound
  <2>2. InWindow(s2) <= Window /\ InWindow(s2) <= Len(s2.fifo) /\ Len(s2.fifo) <= Q + 1
    BY <1>1, <1>2, <2>1, EndTyped DEF SenderOK
  <2>3. ASSUME NEW i \in DOMAIN s2.fifo PROVE s2.fifo[i] = <<k, Acked(Q, s) + i>>
    <3>1. CASE i \in 1 .. Len(s.fifo)
      BY <1>1, <2>1, <3>1 DEF SenderOK
    <3>2. CASE i = Len(s.fifo) + 1
      <4>1. A + i = Q + 1
        <5>1. L \in Nat /\ i = L + 1
          BY <1>1, <3>2
        <5> HIDE DEF L, A
        <5> QED
          BY <1>3, <5>1
      <4> QED
        BY <1>0, <1>1, <3>2, <4>1
    <3> QED
      BY <1>1, <3>1, <3>2
  <2> QED
    BY <1>3, <2>2, <2>3 DEF SenderOK
<1>6. OrderOK(s2)
  BY <1>2 DEF Sound, OrderOK
<1>7. StashOK(s2)
  BY DEF Sound, StashOK
<1> QED
  BY <1>2, <1>3, <1>4, <1>5, <1>6, <1>7 DEF Sound

LEMMA QueuedStream ==
    ASSUME NEW k, NEW Q \in Nat, NEW s \in End, NEW s2 \in End, NEW r, NEW d, NEW w, NEW b,
           Stream(k, Q, s, r, d, w, b), Sound(k, Q, s),
           s2.fifo = Append(s.fifo, <<k, Q + 1>>), <<k, Q + 1>> \in Body,
           s2.snMin = s.snMin, s2.snMax = s.snMax, s2.order = s.order, s2.rn = s.rn, s2.stash = s.stash
    PROVE  Stream(k, Q + 1, s2, r, d, w, b)
<1>1. /\ SenderOK(k, Q + 1, s2) /\ OrderOK(s2) /\ Acked(Q + 1, s2) = Acked(Q, s)
      /\ Sent(Q + 1, s2) = Sent(Q, s) /\ InWindow(s2) = InWindow(s)
  BY QueuedSound DEF Sound
<1>2. ReceiverOK(k, Q + 1, s2, r, d)
  BY <1>1 DEF Stream, ReceiverOK
<1>3. FramesOK(k, Q + 1, s2, r, d, w)
  <2>1. ASSUME NEW m, FrameOK(k, Q, s, r, d, m) PROVE FrameOK(k, Q + 1, s2, r, d, m)
    BY <1>1, <2>1 DEF FrameOK
  <2> QED
    BY <2>1 DEF Stream, FramesOK
<1>4. AcksOK(Q + 1, s2, d, b)
  <2>1. ASSUME NEW m, AckOK(Q, s, d, m) PROVE AckOK(Q + 1, s2, d, m)
    BY <1>1, <2>1 DEF AckOK
  <2> QED
    BY <2>1 DEF Stream, AcksOK
<1> QED
  BY <1>1, <1>2, <1>3, <1>4 DEF Stream

LEMMA PairTurned ==
    ASSUME NEW k, NEW Qs, NEW s, NEW ds, NEW ws, NEW Qp, NEW p, NEW dp, NEW wp
    PROVE  Pair(k, Qs, s, ds, ws, Qp, p, dp, wp) <=> Pair(k, Qp, p, dp, wp, Qs, s, ds, ws)
BY DEF Pair

\* The pair may be seen from either end.
LEMMA LinkedTurned ==
    ASSUME NEW e \in Ends, Linked
    PROVE  Pair(session[e], queued[e], ep[e], accepted[e], Line(e),
                queued[Peer(e)], ep[Peer(e)], accepted[Peer(e)], Line(Peer(e)))
BY PairTurned DEF Linked, Ends, Peer

LEMMA TurnedLinked ==
    ASSUME NEW e \in Ends, session["host"] = session["device"], wire["host"] \in Seq(Message),
           Pair(session[e], queued[e], ep[e], accepted[e], Line(e),
                queued[Peer(e)], ep[Peer(e)], accepted[Peer(e)], Line(Peer(e)))
    PROVE  Linked
BY PairTurned DEF Linked, Ends, Peer

LEMMA TypedEnd ==
    ASSUME NEW e \in Ends, Typed
    PROVE  /\ Peer(e) \in Ends /\ Peer(e) # e /\ Peer(Peer(e)) = e
           /\ ep[e] \in End /\ accepted[e] \in Seq(Body) /\ queued[e] \in Nat /\ session[e] \in Nat
           /\ ep[e].rx = <<>> /\ ep[e].out = <<>> /\ (e = "device" => DOMAIN ep[e].stash = {})
           /\ wire[e] \in Seq(Message \cup {Reset}) /\ Len(wire[e]) \in Nat
           /\ (e = "device" => wire[e] \in Seq(Message))
           /\ (Linked => wire[e] \in Seq(Message) /\ Line(e) \in Seq(Message))
<1>1. Peer(e) \in Ends /\ Peer(e) # e /\ Peer(Peer(e)) = e
  BY DEF Ends, Peer
<1>2. /\ ep[e] \in End /\ accepted[e] \in Seq(Body) /\ queued[e] \in Nat /\ session[e] \in Nat
      /\ ep[e].rx = <<>> /\ ep[e].out = <<>> /\ (e = "device" => DOMAIN ep[e].stash = {})
      /\ wire[e] \in Seq(Message \cup {Reset})
      /\ (e = "device" => wire[e] \in Seq(Message))
  BY DEF Typed
<1>3. Linked => wire[e] \in Seq(Message) /\ Line(e) \in Seq(Message)
  <2> HAVE Linked
  <2>1. wire[e] \in Seq(Message)
    BY <1>2 DEF Linked, Ends
  <2>2. <<>> \in Seq(Message)
    OBVIOUS
  <2> QED
    BY <2>1, <2>2 DEF Line
<1> QED
  BY <1>1, <1>2, <1>3, LenProperties

LEMMA EmptyPair ==
    ASSUME NEW k, NEW s \in End, NEW p \in End,
           s.fifo = <<>>, s.order = <<>>, s.snMax = s.snMin, p.rn = s.snMin, DOMAIN p.stash = {},
           p.fifo = <<>>, p.order = <<>>, p.snMax = p.snMin, s.rn = p.snMin, DOMAIN s.stash = {}
    PROVE  Pair(k, 0, s, <<>>, <<>>, 0, p, <<>>, <<>>)
BY EmptyStream DEF Pair

\* An end with nothing queued and nothing kept is sound.
LEMMA EmptySound ==
    ASSUME NEW k, NEW s \in End, s.fifo = <<>>, s.order = <<>>, s.snMax = s.snMin,
           DOMAIN s.stash = {}
    PROVE  Sound(k, 0, s)
<1> DEFINE from == s.snMin
           r == [s EXCEPT !.rn = from]
<1>1. from \in Number
  BY EndTyped
<1>2. r \in End /\ r.rn = from /\ r.stash = s.stash
  <2> HIDE DEF from
  <2> QED
    BY <1>1 DEF End
<1> HIDE DEF r
<1>3. Stream(k, 0, s, r, <<>>, <<>>, <<>>)
  BY <1>2, EmptyStream
<1> QED
  BY <1>3 DEF Stream, Sound, StashOK

LEMMA FreshTyped == Fresh \in End /\ DOMAIN Fresh.stash = {}
<1> DEFINE none == <<>>
<1>1. none \in Seq(Body) /\ none \in Seq(Number) /\ none \in Seq(Message)
  OBVIOUS
<1>2. none \in Stash /\ DOMAIN none = {}
  <2>1. none = [q \in {} |-> <<0, 0>>]
    OBVIOUS
  <2>2. none \in [{} -> Body] /\ {} \in SUBSET Number
    BY <2>1
  <2> QED
    BY <2>1, <2>2 DEF Stash
<1>3. Fresh = [fifo |-> none, snMin |-> 0, snMax |-> 0, rn |-> 0, order |-> none,
               stash |-> none, nack |-> NoSeq, rx |-> none, out |-> none,
               heard |-> TRUE, active |-> FALSE]
  BY DEF Fresh
<1> HIDE DEF none
<1> QED
  BY <1>1, <1>2, <1>3, Numbers DEF End

LEMMA FreshSound == ASSUME NEW k PROVE Sound(k, 0, Fresh)
<1>1. /\ Fresh \in End /\ DOMAIN Fresh.stash = {} /\ Fresh.fifo = <<>> /\ Fresh.order = <<>>
      /\ Fresh.snMax = Fresh.snMin
  BY FreshTyped DEF Fresh
<1> HIDE DEF Fresh
<1> QED
  BY <1>1, EmptySound

LEMMA InitLine == Init => LineInv
<1> SUFFICES ASSUME Init PROVE LineInv
  OBVIOUS
<1>1. PICK n \in StartSeqs : ep = [e \in Ends |-> [Fresh EXCEPT !.snMin = n, !.snMax = n, !.rn = n]]
  BY DEF Init
<1> DEFINE s == [Fresh EXCEPT !.snMin = n, !.snMax = n, !.rn = n]
<1>2. n \in Number
  BY Sizes
<1>3. /\ s \in End /\ s.fifo = <<>> /\ s.order = <<>> /\ s.snMin = n /\ s.snMax = n /\ s.rn = n
      /\ DOMAIN s.stash = {} /\ s.rx = <<>> /\ s.out = <<>>
  <2>1. s \in End
    BY <1>2, FreshTyped DEF End
  <2>2. s.stash = Fresh.stash
    BY DEF Fresh
  <2>3. s.fifo = <<>> /\ s.order = <<>> /\ s.snMin = n /\ s.snMax = n /\ s.rn = n /\ s.rx = <<>> /\ s.out = <<>>
    BY DEF Fresh
  <2> QED
    BY <2>1, <2>2, <2>3, FreshTyped
<1>4. \A e \in Ends : ep[e] = s
  BY <1>1
<1> HIDE DEF s
<1>5. /\ \A e \in Ends : wire[e] = <<>> /\ accepted[e] = <<>> /\ queued[e] = 0 /\ session[e] = 0
      /\ DOMAIN wire = Ends /\ DOMAIN accepted = Ends /\ DOMAIN queued = Ends
      /\ open = TRUE /\ up = TRUE /\ faults = 0 /\ "host" \in Ends /\ "device" \in Ends
  BY DEF Init, Ends
<1>6. Typed
  <2>1. /\ ep \in [Ends -> End] /\ wire \in [Ends -> Seq(Message \cup {Reset})]
        /\ accepted \in [Ends -> Seq(Body)] /\ queued \in [Ends -> Nat] /\ session \in [Ends -> Nat]
        /\ wire["device"] \in Seq(Message)
    BY <1>1, <1>3, <1>4, <1>5 DEF Init, s
  <2>2. /\ 0 \in 0 .. MaxFaults /\ 0 <= MaxSession /\ Len(<<>>) <= LinkCap
        /\ Len(<<>>) <= LinkCap + (IF open THEN 0 ELSE 1)
    BY <1>5, Sizes, WindowAssumption
  <2> QED
    BY <1>3, <1>4, <1>5, <2>1, <2>2 DEF Typed
<1>7. Linked
  <2>1. Pair(0, 0, s, <<>>, <<>>, 0, s, <<>>, <<>>)
    BY <1>3, EmptyPair
  <2>2. <<>> \in Seq(Message)
    OBVIOUS
  <2> QED
    BY <1>4, <1>5, <2>1, <2>2 DEF Linked, Line
<1>8. Alone
  BY <1>3, <1>4, <1>5, EmptySound DEF Alone
<1> QED
  BY <1>6, <1>7, <1>8 DEF LineInv

LEMMA LinkedNext ==
    ASSUME NEW e \in Ends, session'["host"] = session'["device"], wire'["host"] \in Seq(Message),
           Pair(session'[e], queued'[e], ep'[e], accepted'[e], Line(e)',
                queued'[Peer(e)], ep'[Peer(e)], accepted'[Peer(e)], Line(Peer(e))')
    PROVE  Linked'
BY PairTurned DEF Linked, Line, Ends, Peer

\* The rest of a sequence that ends in a RESET.
LEMMA RestReset ==
    ASSUME NEW w \in Seq(Message), NEW n \in 0 .. Len(w)
    PROVE  /\ SubSeq(w, n + 1, Len(w)) \in Seq(Message)
           /\ SubSeq(Append(w, Reset), 1, n) = SubSeq(w, 1, n)
           /\ SubSeq(Append(w, Reset), n + 1, Len(Append(w, Reset))) =
                 Append(SubSeq(w, n + 1, Len(w)), Reset)
<1> DEFINE T == Message \cup {Reset}
           L == Len(w)
           x == Append(w, Reset)
           v == SubSeq(w, n + 1, L)
           y == SubSeq(x, n + 1, L + 1)
           z == Append(v, Reset)
<1>1. L \in Nat /\ n \in Nat /\ n <= L /\ w \in Seq(T) /\ Reset \in T /\ n + 1 \in 1 .. L + 1
      /\ L \in 0 .. L
  BY LenProperties
<1> HIDE DEF T
<1>2. x \in Seq(T) /\ Len(x) = L + 1 /\ x[L + 1] = Reset /\ \A i \in 1 .. L : x[i] = w[i]
  BY <1>1, AppendProperties
<1>3. v \in Seq(Message) /\ v \in Seq(T) /\ Len(v) = L - n /\ \A i \in 1 .. L - n : v[i] = w[n + i]
  <2>1. v \in Seq(Message)
    BY <1>1, SubSeqProperties
  <2>2. /\ v \in Seq(T)
        /\ Len(v) = IF n + 1 <= L THEN L - (n + 1) + 1 ELSE 0
        /\ \A i \in 1 .. L - (n + 1) + 1 : v[i] = w[(n + 1) + i - 1]
    BY <1>1, SubSeqProperties
  <2> HIDE DEF v, L, x
  <2>3. Len(v) = L - n
    BY <1>1, <2>2
  <2>4. \A i \in 1 .. L - n : v[i] = w[n + i]
    BY <1>1, <2>2
  <2> QED
    BY <2>1, <2>2, <2>3, <2>4
<1> HIDE DEF x, v, L
<1>4. y \in Seq(T) /\ Len(y) = L + 1 - n /\ \A i \in 1 .. L + 1 - n : y[i] = x[n + i]
  <2>1. n + 1 \in 1 .. (L + 1) + 1 /\ L + 1 \in 0 .. L + 1
    BY <1>1
  <2>2. /\ y \in Seq(T)
        /\ Len(y) = IF n + 1 <= L + 1 THEN (L + 1) - (n + 1) + 1 ELSE 0
        /\ \A i \in 1 .. (L + 1) - (n + 1) + 1 : y[i] = x[(n + 1) + i - 1]
    BY <1>2, <2>1, SubSeqProperties
  <2> HIDE DEF y
  <2>3. Len(y) = L + 1 - n
    BY <1>1, <2>2
  <2>4. \A i \in 1 .. L + 1 - n : y[i] = x[n + i]
    BY <1>1, <2>2
  <2> QED
    BY <2>2, <2>3, <2>4
<1>5. z \in Seq(T) /\ Len(z) = (L - n) + 1 /\ z[(L - n) + 1] = Reset
      /\ \A i \in 1 .. L - n : z[i] = v[i]
  BY <1>1, <1>3, AppendProperties
<1> HIDE DEF y, z
<1>6. y = z
  <2>1. Len(y) = Len(z)
    BY <1>1, <1>4, <1>5
  <2>2. ASSUME NEW i \in 1 .. Len(y) PROVE y[i] = z[i]
    <3>1. CASE i \in 1 .. L - n
      <4>1. i \in 1 .. L + 1 - n /\ n + i \in 1 .. L
        BY <1>1, <3>1
      <4> QED
        BY <1>2, <1>3, <1>4, <1>5, <3>1, <4>1
    <3>2. CASE i = (L - n) + 1
      <4>1. i \in 1 .. L + 1 - n /\ n + i = L + 1
        BY <1>1, <3>2
      <4> QED
        BY <1>2, <1>4, <1>5, <3>2, <4>1
    <3> QED
      BY <1>1, <1>4, <3>1, <3>2
  <2> QED
    BY <1>4, <1>5, <2>1, <2>2, SeqEqual
<1>7. SubSeq(x, 1, n) = SubSeq(w, 1, n)
  <2> DEFINE a == SubSeq(x, 1, n)
             b == SubSeq(w, 1, n)
  <2>1. 1 \in 1 .. L + 1 /\ n \in 0 .. L /\ L = Len(w) /\ 1 \in 1 .. (L + 1) + 1 /\ n \in 0 .. L + 1
    BY <1>1 DEF L
  <2>2. /\ b \in Seq(T) /\ Len(b) = (IF 1 <= n THEN n - 1 + 1 ELSE 0)
        /\ \A i \in 1 .. (n - 1 + 1) : b[i] = w[1 + i - 1]
    BY <1>1, <2>1, SubSeqProperties
  <2>3. /\ a \in Seq(T) /\ Len(a) = (IF 1 <= n THEN n - 1 + 1 ELSE 0)
        /\ \A i \in 1 .. (n - 1 + 1) : a[i] = x[1 + i - 1]
    BY <1>2, <2>1, SubSeqProperties
  <2> HIDE DEF a, b
  <2>4. Len(a) = n /\ Len(b) = n
    BY <1>1, <2>2, <2>3
  <2>5. \A i \in 1 .. n : a[i] = b[i]
    <3> TAKE i \in 1 .. n
    <3>1. i \in 1 .. (n - 1 + 1) /\ 1 + i - 1 = i /\ i \in 1 .. L
      BY <1>1
    <3> QED
      BY <1>2, <2>2, <2>3, <3>1
  <2>6. a = b
    BY <2>2, <2>3, <2>4, <2>5, SeqEqual
  <2> QED
    BY <2>6 DEF a, b
<1> QED
  BY <1>2, <1>3, <1>6, <1>7 DEF L, x, v, y, z

LEMMA WithReset ==
    ASSUME NEW w \in Seq(Message)
    PROVE  /\ Append(w, Reset) \notin Seq(Message) /\ Len(w) \in Nat
           /\ Len(Append(w, Reset)) = Len(w) + 1 /\ Append(w, Reset)[Len(w) + 1] = Reset
<1> DEFINE x == Append(w, Reset)
           L == Len(w)
<1>1. w \in Seq(Message \cup {Reset}) /\ Reset \in Message \cup {Reset} /\ L \in Nat
  BY LenProperties
<1>2. Len(x) = L + 1 /\ x[L + 1] = Reset
  BY <1>1, AppendProperties
<1>3. Reset \notin Message
  BY MessageTyped DEF Reset
<1> HIDE DEF x, L
<1>4. ASSUME x \in Seq(Message) PROVE FALSE
  <2>1. L + 1 \in 1 .. Len(x)
    BY <1>1, <1>2
  <2> QED
    BY <1>2, <1>3, <1>4, <2>1, ElementOfSeq
<1> QED
  BY <1>1, <1>2, <1>4 DEF x, L

\* With the port open no RESET is on the line.
LEMMA OpenWire == LineInv /\ open => wire["host"] \in Seq(Message)
BY DEF LineInv, Linked, Parted, ResetLast

\* What an end reads are messages, unless it reads everything to the RESET.
LEMMA ReadMessages ==
    ASSUME LineInv, NEW e \in Ends, Running(e), NEW n \in 0 .. Len(wire[Peer(e)]),
           wire["host"] \notin Seq(Message) => n < Len(wire[Peer(e)])
    PROVE  /\ SubSeq(wire[Peer(e)], 1, n) \in Seq(Message)
           /\ wire["host"] \in Seq(Message) =>
                 SubSeq(wire[Peer(e)], n + 1, Len(wire[Peer(e)])) \in Seq(Message)
           /\ wire["host"] \notin Seq(Message) =>
                 \E v \in Seq(Message) :
                    SubSeq(wire[Peer(e)], n + 1, Len(wire[Peer(e)])) = Append(v, Reset)
<1>1. Typed /\ Peer(e) \in Ends
  BY TypedEnd DEF LineInv
<1>2. CASE wire["host"] \in Seq(Message)
  <2> DEFINE w == wire[Peer(e)]
  <2>1. w \in Seq(Message)
    BY <1>1, <1>2 DEF Typed, Ends
  <2> HIDE DEF w
  <2>2. n \in 0 .. Len(w) /\ 1 \in 1 .. Len(w) + 1 /\ n \in 0 .. Len(w)
    BY <2>1, LenProperties DEF w
  <2>3. SubSeq(w, 1, n) \in Seq(Message)
    BY <2>1, <2>2, SubSeqProperties
  <2>4. SubSeq(w, n + 1, Len(w)) \in Seq(Message)
    BY <2>1, <2>2, RestReset
  <2> QED
    BY <1>2, <2>3, <2>4 DEF w
<1>3. CASE wire["host"] \notin Seq(Message)
  <2>1. ~open
    BY <1>3, OpenWire
  <2>2. Peer(e) = "host"
    BY <2>1 DEF Running, Peer
  <2>3. PICK w \in Seq(Message) : wire["host"] = Append(w, Reset)
    BY <1>3 DEF LineInv, Linked, Parted, ResetLast
  <2> DEFINE x == Append(w, Reset)
  <2>4. x = wire[Peer(e)]
    BY <2>2, <2>3
  <2>5. n \in 0 .. Len(w)
    <3>1. Len(x) = Len(w) + 1 /\ Len(w) \in Nat /\ n < Len(x) /\ n \in 0 .. Len(x)
      BY <1>3, <2>4, WithReset
    <3> HIDE DEF x
    <3> QED
      BY <3>1
  <2>6. /\ SubSeq(w, n + 1, Len(w)) \in Seq(Message)
        /\ SubSeq(x, 1, n) = SubSeq(w, 1, n)
        /\ SubSeq(x, n + 1, Len(x)) = Append(SubSeq(w, n + 1, Len(w)), Reset)
    BY ONLY <2>5, RestReset, w \in Seq(Message)
  <2>7. SubSeq(w, 1, n) \in Seq(Message)
    <3>1. 1 \in 1 .. Len(w) + 1
      BY LenProperties
    <3> QED
      BY <2>5, <3>1, SubSeqProperties
  <2> HIDE DEF x
  <2> QED
    BY <1>3, <2>4, <2>6, <2>7
<1> QED
  BY <1>2, <1>3

\* A step of one end, which reads n messages.
LEMMA OneEnd ==
    ASSUME LineInv, Typed', NEW e \in Ends, Running(e), session' = session, open' = open,
           NEW n \in 0 .. Len(wire[Peer(e)]),
           wire["host"] \notin Seq(Message) => n < Len(wire[Peer(e)]),
           ep'[Peer(e)] = ep[Peer(e)], queued'[Peer(e)] = queued[Peer(e)],
           accepted'[Peer(e)] = accepted[Peer(e)],
           wire'[Peer(e)] = SubSeq(wire[Peer(e)], n + 1, Len(wire[Peer(e)])),
           e = "host" /\ wire["host"] \in Seq(Message) => wire'["host"] \in Seq(Message),
           Sound(session[e], queued'[e], ep'[e]),
           Linked => Pair(session[e], queued'[e], ep'[e], accepted'[e], Line(e)',
                          queued[Peer(e)], ep[Peer(e)], accepted[Peer(e)], wire'[Peer(e)])
    PROVE  LineInv'
<1>1. Typed /\ Alone /\ Peer(e) \in Ends /\ \A f \in Ends : f = e \/ f = Peer(e)
  BY TypedEnd DEF LineInv, Ends, Peer
<1>2. Line(Peer(e))' = wire'[Peer(e)]
  BY DEF Running, Line, Peer, Ends
<1>3. Alone'
  BY <1>1 DEF Alone
<1>4. wire["host"] \in Seq(Message) => wire'["host"] \in Seq(Message)
  <2> HAVE wire["host"] \in Seq(Message)
  <2>1. CASE Peer(e) = "host"
    BY <2>1, ReadMessages
  <2> QED
    BY <2>1 DEF Ends, Peer
<1>5. CASE Linked
  <2>1. wire'["host"] \in Seq(Message) /\ session'["host"] = session'["device"]
    BY <1>4, <1>5 DEF Linked
  <2>2. Pair(session'[e], queued'[e], ep'[e], accepted'[e], Line(e)',
             queued'[Peer(e)], ep'[Peer(e)], accepted'[Peer(e)], Line(Peer(e))')
    BY <1>2, <1>5
  <2>3. Linked'
    BY <2>1, <2>2, LinkedNext
  <2> QED
    BY <1>3, <2>3 DEF LineInv
<1>6. CASE Parted
  <2>1. ~open => Peer(e) = "host"
    BY DEF Running, Peer
  <2>2. Left'
    BY <1>6, <2>1 DEF Parted, Left
  <2>3. ResetLast'
    <3>1. CASE wire["host"] \in Seq(Message)
      BY <1>4, <3>1 DEF ResetLast
    <3>2. CASE wire["host"] \notin Seq(Message)
      <4>1. ~open
        BY <3>2, OpenWire
      <4>2. \E v \in Seq(Message) : wire'["host"] = Append(v, Reset)
        BY <2>1, <3>2, <4>1, ReadMessages
      <4> QED
        BY <4>1, <4>2 DEF ResetLast
    <3> QED
      BY <3>1, <3>2
  <2>4. Parted'
    BY <1>6, <2>2, <2>3 DEF Parted
  <2> QED
    BY <1>3, <2>4 DEF LineInv
<1> QED
  BY <1>5, <1>6 DEF LineInv

\* A step of one end that reads nothing.
LEMMA OneEndQuiet ==
    ASSUME LineInv, Typed', NEW e \in Ends, Running(e), session' = session, open' = open,
           ep'[Peer(e)] = ep[Peer(e)], queued'[Peer(e)] = queued[Peer(e)],
           accepted'[Peer(e)] = accepted[Peer(e)], wire'[Peer(e)] = wire[Peer(e)],
           e = "host" /\ wire["host"] \in Seq(Message) => wire'["host"] \in Seq(Message),
           Sound(session[e], queued'[e], ep'[e]),
           \A Qp \in Nat, p \in End, dp \in Seq(Body), wp \in Seq(Message) :
              Pair(session[e], queued[e], ep[e], accepted[e], Line(e), Qp, p, dp, wp)
              => Pair(session[e], queued'[e], ep'[e], accepted'[e], Line(e)', Qp, p, dp, wp)
    PROVE  LineInv'
<1> DEFINE wq == wire[Peer(e)]
<1>0. Typed /\ Peer(e) \in Ends
  BY TypedEnd DEF LineInv
<1>1. wq \in Seq(Message \cup {Reset}) /\ Len(wq) \in Nat /\ 0 \in 0 .. Len(wq) /\ 0 + 1 = 1
  BY <1>0, TypedEnd
<1>2. wire["host"] \notin Seq(Message) => 0 < Len(wq)
  <2> HAVE wire["host"] \notin Seq(Message)
  <2>1. ~open
    BY OpenWire
  <2>2. Peer(e) = "host"
    BY <2>1 DEF Running, Peer
  <2>3. wq # <<>>
    <3>1. <<>> \in Seq(Message)
      OBVIOUS
    <3> QED
      BY <2>2, <3>1
  <2> HIDE DEF wq
  <2> QED
    BY <1>1, <2>3, EmptySeq
<1>3. wire'[Peer(e)] = SubSeq(wq, 0 + 1, Len(wq))
  <2> HIDE DEF wq
  <2>1. SubSeq(wq, 0 + 1, Len(wq)) = wq
    BY <1>1, SubSeqFull
  <2> QED
    BY <2>1 DEF wq
<1>4. Linked => Pair(session[e], queued'[e], ep'[e], accepted'[e], Line(e)',
                     queued[Peer(e)], ep[Peer(e)], accepted[Peer(e)], wire'[Peer(e)])
  <2> HAVE Linked
  <2>1. /\ wire[Peer(e)] \in Seq(Message) /\ queued[Peer(e)] \in Nat /\ ep[Peer(e)] \in End
        /\ accepted[Peer(e)] \in Seq(Body)
    BY <1>0, TypedEnd
  <2>2. Line(Peer(e)) = wire[Peer(e)]
    BY DEF Running, Line, Peer, Ends
  <2>3. Pair(session[e], queued[e], ep[e], accepted[e], Line(e),
             queued[Peer(e)], ep[Peer(e)], accepted[Peer(e)], wire[Peer(e)])
    BY <2>2, LinkedTurned
  <2> QED
    BY <2>1, <2>3
<1> QED
  BY <1>1, <1>2, <1>3, <1>4, OneEnd

LEMMA QueueFrameLine ==
    ASSUME LineInv, NEW e \in Ends, QueueFrame(e)
    PROVE  LineInv'
<1> DEFINE x == <<session[e], queued[e] + 1>>
           fifo == Append(ep[e].fifo, x)
           t == [ep[e] EXCEPT !.fifo = fifo]
<1>0. Typed
  BY DEF LineInv
<1>1. /\ ep[e] \in End /\ Peer(e) \in Ends /\ Peer(e) # e /\ session[e] \in Nat /\ queued[e] \in Nat
      /\ ep[e].fifo \in Seq(Body) /\ (e = "device" => DOMAIN ep[e].stash = {})
      /\ ep[e].rx = <<>> /\ ep[e].out = <<>>
  BY <1>0, TypedEnd, EndTyped
<1>2. x \in Body /\ queued[e] + 1 \in Nat
  BY <1>1 DEF Body
<1>3. fifo \in Seq(Body)
  <2> HIDE DEF x
  <2> QED
    BY <1>1, <1>2, AppendProperties
<1>4. t = [ep[e] EXCEPT !.fifo = fifo] /\ ep' = [ep EXCEPT ![e] = t]
      /\ queued' = [queued EXCEPT ![e] = queued[e] + 1]
      /\ UNCHANGED <<wire, accepted, session, open, up, faults>> /\ Running(e)
  BY DEF QueueFrame
<1> HIDE DEF t, fifo, x
<1>5. /\ t.fifo = fifo /\ t.snMin = ep[e].snMin /\ t.snMax = ep[e].snMax /\ t.order = ep[e].order
      /\ t.rn = ep[e].rn /\ t.stash = ep[e].stash /\ t.rx = ep[e].rx /\ t.out = ep[e].out
  BY <1>1, <1>4 DEF End
<1>6. t \in End
  BY <1>1, <1>3, <1>4 DEF End
<1>7. /\ ep'[e] = t /\ ep'[Peer(e)] = ep[Peer(e)]
      /\ queued'[e] = queued[e] + 1 /\ queued'[Peer(e)] = queued[Peer(e)]
      /\ ep' \in [Ends -> End] /\ queued' \in [Ends -> Nat]
  BY <1>0, <1>1, <1>2, <1>4, <1>6 DEF Typed
<1>8. Typed'
  <2>1. \A f \in Ends : ep'[f].rx = <<>> /\ ep'[f].out = <<>>
    BY <1>0, <1>1, <1>4, <1>5 DEF Typed
  <2>2. DOMAIN ep'["device"].stash = {}
    <3>1. CASE e = "device"
      BY <1>1, <1>5, <1>7, <3>1
    <3>2. CASE e # "device"
      <4>1. Peer(e) = "device" /\ DOMAIN ep["device"].stash = {}
        BY <1>0, <3>2 DEF Typed, Peer, Ends
      <4> QED
        BY <1>7, <4>1
    <3> QED
      BY <3>1, <3>2
  <2> QED
    BY <1>0, <1>4, <1>7, <2>1, <2>2 DEF Typed
<1>9. ASSUME NEW Qp \in Nat, NEW p \in End, NEW dp \in Seq(Body), NEW wp \in Seq(Message),
             Pair(session[e], queued[e], ep[e], accepted[e], Line(e), Qp, p, dp, wp)
      PROVE  Pair(session[e], queued'[e], ep'[e], accepted'[e], Line(e)', Qp, p, dp, wp)
  <2>1. Line(e)' = Line(e) /\ accepted' = accepted
    BY <1>4 DEF Line
  <2>2. Stream(session[e], queued[e] + 1, t, p, dp, Line(e), wp)
    BY <1>1, <1>2, <1>5, <1>6, <1>9, QueuedStream DEF Pair, LineInv, Alone, fifo, x
  <2>3. Stream(session[e], Qp, p, t, accepted[e], wp, Line(e))
    BY <1>5, <1>9, SameStream DEF Pair
  <2> QED
    BY <1>7, <2>1, <2>2, <2>3 DEF Pair
<1>10. Sound(session[e], queued'[e], ep'[e])
  <2>1. Sound(session[e], queued[e], ep[e])
    BY DEF LineInv, Alone
  <2>2. Sound(session[e], queued[e] + 1, t)
    BY <1>1, <1>2, <1>5, <1>6, <2>1, QueuedSound DEF fifo, x
  <2> QED
    BY <1>7, <2>2
<1> QED
  BY <1>4, <1>7, <1>8, <1>9, <1>10, OneEndQuiet

LEMMA IdleTimeoutLine ==
    ASSUME LineInv, NEW e \in Ends, IdleTimeout(e)
    PROVE  LineInv'
<1>0. Typed
  BY DEF LineInv
<1>1. /\ ep[e] \in End /\ Peer(e) \in Ends /\ Peer(e) # e /\ (e = "device" => DOMAIN ep[e].stash = {})
      /\ ep[e].rx = <<>> /\ ep[e].out = <<>>
  BY <1>0, TypedEnd
<1>2. PICK quiet \in BOOLEAN : ep' = [ep EXCEPT ![e].active = FALSE, ![e].heard = @ /\ ~quiet]
  BY DEF IdleTimeout
<1> DEFINE heard == ep[e].heard /\ ~quiet
           t == [ep[e] EXCEPT !.active = FALSE, !.heard = heard]
<1>3. heard \in BOOLEAN
  OBVIOUS
<1>4. t = [ep[e] EXCEPT !.active = FALSE, !.heard = heard]
      /\ UNCHANGED <<wire, accepted, queued, session, open, up, faults>> /\ Running(e)
  BY DEF IdleTimeout
<1>5. ep' = [ep EXCEPT ![e] = t]
  BY <1>0, <1>2 DEF Typed
<1> HIDE DEF t, heard
<1>6. /\ t.fifo = ep[e].fifo /\ t.snMin = ep[e].snMin /\ t.snMax = ep[e].snMax /\ t.order = ep[e].order
      /\ t.rn = ep[e].rn /\ t.stash = ep[e].stash /\ t.rx = ep[e].rx /\ t.out = ep[e].out
  BY <1>1, <1>4 DEF End
<1>7. t \in End
  BY <1>1, <1>3, <1>4 DEF End
<1>8. ep'[e] = t /\ ep'[Peer(e)] = ep[Peer(e)] /\ ep' \in [Ends -> End]
  BY <1>0, <1>1, <1>5, <1>7 DEF Typed
<1>9. Typed'
  <2>1. \A f \in Ends : ep'[f].rx = <<>> /\ ep'[f].out = <<>>
    BY <1>0, <1>1, <1>5, <1>6 DEF Typed
  <2>2. DOMAIN ep'["device"].stash = {}
    <3>1. CASE e = "device"
      BY <1>1, <1>6, <1>8, <3>1
    <3>2. CASE e # "device"
      <4>1. Peer(e) = "device" /\ DOMAIN ep["device"].stash = {}
        BY <1>0, <3>2 DEF Typed, Peer, Ends
      <4> QED
        BY <1>8, <4>1
    <3> QED
      BY <3>1, <3>2
  <2> QED
    BY <1>0, <1>4, <1>8, <2>1, <2>2 DEF Typed
<1>10. ASSUME NEW Qp \in Nat, NEW p \in End, NEW dp \in Seq(Body), NEW wp \in Seq(Message),
              Pair(session[e], queued[e], ep[e], accepted[e], Line(e), Qp, p, dp, wp)
       PROVE  Pair(session[e], queued'[e], ep'[e], accepted'[e], Line(e)', Qp, p, dp, wp)
  <2>1. Line(e)' = Line(e) /\ accepted' = accepted /\ queued' = queued
    BY <1>4 DEF Line
  <2> QED
    BY <1>6, <1>8, <1>10, <2>1, PairSame
<1>11. Sound(session[e], queued'[e], ep'[e])
  <2>1. Own("host", session[e], queued[e], ep[e])
    BY <1>1 DEF LineInv, Alone, Own
  <2>2. Own("host", session[e], queued[e], t)
    BY <1>6, <1>7, <2>1, OwnSame
  <2> QED
    BY <1>4, <1>8, <2>2 DEF Own
<1> QED
  BY <1>4, <1>8, <1>9, <1>10, <1>11, OneEndQuiet

\* The line carries the beginning of what is sent, as far as it has room.
LEMMA CarriedStretch ==
    ASSUME NEW e \in Ends, wire[e] \in Seq(Message), NEW out \in Seq(Message)
    PROVE  /\ Carried(e, out) \in Seq(Message) /\ Stretch(Carried(e, out), wire[e] \o out)
           /\ Len(wire[e]) <= LinkCap => Len(Carried(e, out)) <= LinkCap
           /\ Fits(e, out) /\ ~up => Carried(e, out) = wire[e]
<1> DEFINE w == wire[e]
           x == w \o out
<1>1. w \in Seq(Message) /\ x \in Seq(Message) /\ Len(x) = Len(w) + Len(out) /\ Len(w) \in Nat
      /\ Len(out) \in Nat /\ LinkCap \in Nat /\ LinkCap > 0
  BY ConcatProperties, LenProperties, Sizes
<1>2. CASE ~up
  <2>1. Carried(e, out) = w
    BY <1>2 DEF Carried
  <2>2. Stretch(w, x)
    <3>1. \A i \in DOMAIN w : i + 0 \in DOMAIN x /\ w[i] = x[i + 0]
      <4> TAKE i \in DOMAIN w
      <4>1. i \in 1 .. Len(w) /\ i + 0 = i /\ i \in 1 .. Len(x)
        BY <1>1, LenProperties
      <4>2. x[i] = w[i]
        BY <1>1, <4>1, ConcatProperties
      <4> QED
        BY <1>1, <4>1, <4>2, LenProperties
    <3> HIDE DEF w, x
    <3> QED
      BY <3>1 DEF Stretch
  <2> QED
    BY <1>1, <2>1, <2>2
<1>3. CASE up /\ Fits(e, out)
  <2>1. Carried(e, out) = x
    BY <1>3 DEF Carried
  <2>2. Len(x) <= LinkCap
    BY <1>1, <1>3 DEF Fits
  <2> QED
    BY <1>1, <1>3, <2>1, <2>2, StretchSelf
<1>4. CASE up /\ ~Fits(e, out)
  <2>1. Carried(e, out) = SubSeq(x, 1, LinkCap)
    BY <1>4 DEF Carried
  <2>2. ~(Len(w) + Len(out) <= LinkCap)
    BY <1>4 DEF Fits
  <2>3. 1 \in 1 .. Len(x) + 1 /\ LinkCap \in 0 .. Len(x)
    <3> HIDE DEF w, x
    <3> QED
      BY <1>1, <2>2
  <2>4. SubSeq(x, 1, LinkCap) \in Seq(Message) /\ Stretch(SubSeq(x, 1, LinkCap), x)
    BY <1>1, <2>3, StretchOfSub
  <2>5. Len(SubSeq(x, 1, LinkCap)) <= LinkCap
    <3>1. Len(SubSeq(x, 1, LinkCap)) = IF 1 <= LinkCap THEN LinkCap - 1 + 1 ELSE 0
      BY <1>1, <2>3, SubSeqProperties
    <3> HIDE DEF x
    <3> QED
      BY <1>1, <3>1
  <2> QED
    BY <1>4, <2>1, <2>4, <2>5
<1> QED
  BY <1>2, <1>3, <1>4

LEMMA SendFrameLine ==
    ASSUME LineInv, NEW e \in Ends, SendFrame(e)
    PROVE  LineInv'
<1> DEFINE c == Carried(e, <<Plain>>)
           out == <<Plain>>
<1>0. Typed
  BY DEF LineInv
<1>1. /\ Peer(e) \in Ends /\ Peer(e) # e
      /\ ep[e] \in End /\ accepted[e] \in Seq(Body) /\ queued[e] \in Nat
  BY <1>0, TypedEnd
<1>2. /\ wire' = [wire EXCEPT ![e] = c] /\ Running(e) /\ wire[e] = <<>>
      /\ UNCHANGED <<ep, accepted, queued, session, open, up, faults>>
  BY DEF SendFrame
<1>3. Plain \in Message /\ out \in Seq(Message)
  <2>1. Plain \in Message
    BY Numbers DEF Plain, Message, Packet
  <2> QED
    BY <2>1
<1>4. wire[e] \in Seq(Message) /\ Len(wire[e]) <= LinkCap
  <2>1. <<>> \in Seq(Message) /\ Len(<<>>) = 0
    OBVIOUS
  <2> QED
    BY <1>2, <2>1, Sizes
<1>5. c \in Seq(Message) /\ Stretch(c, wire[e] \o out) /\ Len(c) <= LinkCap
  BY <1>3, <1>4, CarriedStretch
<1> HIDE DEF c, out
<1>6. /\ wire'[e] = c /\ wire'[Peer(e)] = wire[Peer(e)] /\ c \in Seq(Message \cup {Reset})
      /\ wire' \in [Ends -> Seq(Message \cup {Reset})]
  <2>1. c \in Seq(Message \cup {Reset})
    BY <1>5
  <2> QED
    BY <1>0, <1>1, <1>2, <2>1 DEF Typed
<1>7. Typed'
  <2>1. wire'["device"] \in Seq(Message) /\ Len(wire'["device"]) <= LinkCap
        /\ Len(wire'["host"]) <= LinkCap + (IF open THEN 0 ELSE 1)
    <3>1. CASE e = "device"
      <4>1. wire'["device"] = c /\ wire'["host"] = wire["host"]
        BY <1>6, <3>1 DEF Peer
      <4> QED
        BY <1>0, <1>5, <4>1 DEF Typed
    <3>2. CASE e = "host"
      <4>1. wire'["host"] = c /\ wire'["device"] = wire["device"] /\ open
        BY <1>2, <1>6, <3>2 DEF Peer, Running
      <4>2. Len(c) <= LinkCap + 0
        <5>1. Len(c) \in Nat
          BY <1>5, LenProperties
        <5> QED
          BY <1>5, <5>1, Sizes
      <4> QED
        BY <1>0, <4>1, <4>2 DEF Typed
    <3> QED
      BY <3>1, <3>2 DEF Ends
  <2> QED
    BY <1>0, <1>2, <1>6, <2>1 DEF Typed
<1>8. ASSUME NEW Qp \in Nat, NEW p \in End, NEW dp \in Seq(Body), NEW wp \in Seq(Message),
             Pair(session[e], queued[e], ep[e], accepted[e], Line(e), Qp, p, dp, wp)
      PROVE  Pair(session[e], queued'[e], ep'[e], accepted'[e], Line(e)', Qp, p, dp, wp)
  <2>1. CASE open \/ e = "host"
    <3>1. Line(e) = wire[e] /\ Line(e)' = c
      BY <1>2, <1>6, <2>1 DEF Line
    <3>2. \A i \in DOMAIN out :
             Sendable(session[e], queued[e], ep[e], accepted[e], Qp, p, out[i])
      BY DEF out, Sendable, Plain
    <3>3. /\ Pair(session[e], queued[e], ep[e], accepted[e], wire[e] \o out, Qp, p, dp, wp)
          /\ wire[e] \o out \in Seq(Message)
      BY <1>1, <1>3, <1>4, <1>8, <3>1, <3>2, PairMore DEF out
    <3>4. Pair(session[e], queued[e], ep[e], accepted[e], c, Qp, p, dp, wp)
      BY <1>5, <3>3, StretchSelf, StretchPair
    <3> QED
      BY <1>2, <3>1, <3>4
  <2>2. CASE ~(open \/ e = "host")
    <3>1. Line(e) = <<>> /\ Line(e)' = <<>>
      BY <1>2, <2>2 DEF Line
    <3> QED
      BY <1>2, <1>8, <3>1
  <2> QED
    BY <2>1, <2>2
<1>9. Sound(session[e], queued'[e], ep'[e])
  BY <1>2 DEF LineInv, Alone
<1> QED
  BY <1>2, <1>5, <1>6, <1>7, <1>8, <1>9, OneEndQuiet

\* What a poll that read n messages leaves behind.
Polled(e, n, sent, reset) ==
    /\ Running(e) /\ UNCHANGED <<open, up, faults>>
    /\ reset = (\E i \in 1 .. n : SubSeq(wire[Peer(e)], 1, n)[i].kind = "reset")
    /\ (e = "host" => Fits(e, sent.out))
    /\ wire' = [wire EXCEPT ![Peer(e)] = SubSeq(wire[Peer(e)], n + 1, Len(wire[Peer(e)])),
                            ![e] = Carried(e, sent.out)]
    /\ ep' = [ep EXCEPT ![e] = Emptied(sent)]
    /\ accepted' = [accepted EXCEPT ![e] = IF reset THEN sent.rx ELSE accepted[e] \o sent.rx]
    /\ (e = "host" => handed' = handed)
    /\ (e = "device" => \E h \in Handings(sent.rx) : handed' = IF reset THEN h ELSE handed \o h)
    /\ session' = [session EXCEPT ![e] = IF reset THEN session[Peer(e)] ELSE session[e]]
    /\ queued' = [queued EXCEPT ![e] = IF reset THEN 0 ELSE queued[e]]

Answering(e, n, sent, reset) ==
    Polled(e, n, sent, reset) /\ Answer(e, ep[e], SubSeq(wire[Peer(e)], 1, n), sent)

LEMMA PollSteps ==
    ASSUME Typed, NEW e \in Ends, Poll(e)
    PROVE  \E n \in 0 .. Len(wire[Peer(e)]), reset \in BOOLEAN : \E sent :
              Answering(e, n, sent, reset)
<1>1. PICK n \in 0 .. Len(wire[Peer(e)]), resendDue \in {FALSE, InWindow(ep[e]) > 0},
           ackDue \in {FALSE, ep[e].active} : PollReading(e, n, resendDue, ackDue, FALSE)
  BY DEF Poll
<1> DEFINE p == Peer(e)
           got == SubSeq(wire[p], 1, n)
           reset == \E i \in 1 .. n : got[i].kind = "reset"
           read == Read(e, ep[e], got)
           room == IF e = "host" \/ ~up THEN LinkCap ELSE LinkCap - Len(Carried(e, read.out))
           sampled == IF e = "host" THEN ep[e] ELSE read
           sent == Transmitted(read, sampled, room, resendDue, ackDue)
<1>2. DOMAIN wire = Ends /\ DOMAIN accepted = Ends /\ DOMAIN session = Ends /\ DOMAIN queued = Ends
      /\ p \in Ends /\ p # e
  BY DEF Typed, Ends, Peer
<1>3. /\ Running(e) /\ UNCHANGED <<open, up, faults>>
      /\ (e = "host" => Fits(e, sent.out))
      /\ wire' = [wire EXCEPT ![p] = SubSeq(@, n + 1, Len(@)), ![e] = Carried(e, sent.out)]
      /\ ep' = [ep EXCEPT ![e] = [sent EXCEPT !.rx = <<>>, !.out = <<>>]]
      /\ accepted' = [accepted EXCEPT ![e] = IF reset THEN sent.rx ELSE @ \o sent.rx]
      /\ (IF e = "host" THEN UNCHANGED handed
          ELSE \E h \in Handings(sent.rx) : handed' = IF reset THEN h ELSE handed \o h)
      /\ session' = [session EXCEPT ![e] = IF reset THEN session[p] ELSE @]
      /\ queued' = [queued EXCEPT ![e] = IF reset THEN 0 ELSE @]
  BY <1>1 DEF PollReading
<1> HIDE DEF sent
<1>4. Polled(e, n, sent, reset)
  BY <1>2, <1>3 DEF Polled, Emptied
<1>5. Answer(e, ep[e], SubSeq(wire[Peer(e)], 1, n), sent)
  BY DEF sent, Answer
<1>6. reset \in BOOLEAN
  OBVIOUS
<1> HIDE DEF reset, read, room, sampled, got, p
<1>7. Answering(e, n, sent, reset)
  BY <1>4, <1>5 DEF Answering
<1> QED
  BY <1>6, <1>7

LEMMA PolledTyped ==
    ASSUME LineInv, NEW e \in Ends, NEW n \in 0 .. Len(wire[Peer(e)]), NEW sent \in End,
           NEW reset \in BOOLEAN, Polled(e, n, sent, reset),
           e = "device" => DOMAIN sent.stash = {}, reset => e = "device"
    PROVE  Typed'
<1> DEFINE none == <<>>
           t == Emptied(sent)
           rest == SubSeq(wire[Peer(e)], n + 1, Len(wire[Peer(e)]))
           c == Carried(e, sent.out)
<1>0. Typed
  BY DEF LineInv
<1>1. /\ Peer(e) \in Ends /\ Peer(e) # e /\ wire[e] \in Seq(Message \cup {Reset})
      /\ wire[Peer(e)] \in Seq(Message \cup {Reset}) /\ Len(wire[Peer(e)]) \in Nat
      /\ accepted[e] \in Seq(Body) /\ queued[e] \in Nat /\ session[e] \in Nat
  BY <1>0, TypedEnd
<1>2. none \in Seq(Body) /\ none \in Seq(Message) /\ t = [sent EXCEPT !.rx = none, !.out = none]
  BY DEF Emptied
<1>3. sent.rx \in Seq(Body) /\ sent.out \in Seq(Message)
  BY EndTyped
<1> HIDE DEF t, none
<1>4. t \in End /\ t.rx = none /\ t.out = none /\ t.stash = sent.stash
  BY <1>2 DEF End
<1>5. ep' \in [Ends -> End] /\ ep'[e] = t /\ ep'[Peer(e)] = ep[Peer(e)]
  BY <1>0, <1>1, <1>4 DEF Polled, Typed, t
<1>6. /\ \A f \in Ends : ep'[f].rx = <<>> /\ ep'[f].out = <<>>
      /\ DOMAIN ep'["device"].stash = {}
  <2>1. \A f \in Ends : f = e \/ f = Peer(e)
    BY DEF Ends, Peer
  <2>2. "device" \in Ends
    BY DEF Ends
  <2>3. ASSUME NEW f \in Ends
        PROVE  /\ ep'[f].rx = <<>> /\ ep'[f].out = <<>>
               /\ (f = "device" => DOMAIN ep'[f].stash = {})
    <3>1. CASE f = e
      BY <1>4, <1>5, <3>1 DEF none
    <3>2. CASE f = Peer(e)
      BY <1>0, <1>1, <1>5, <3>2, TypedEnd
    <3> QED
      BY <2>1, <3>1, <3>2
  <2> QED
    BY <2>2, <2>3
<1>7. accepted' \in [Ends -> Seq(Body)] /\ queued' \in [Ends -> Nat] /\ session' \in [Ends -> Nat]
  <2>1. accepted[e] \o sent.rx \in Seq(Body) /\ session[Peer(e)] \in Nat
    BY <1>0, <1>1, <1>3, TypedEnd, ConcatProperties
  <2> QED
    BY <1>0, <1>1, <1>3, <2>1 DEF Polled, Typed
<1>8. wire[e] \in Seq(Message) /\ Len(wire[e]) <= LinkCap
  <2>1. CASE e = "device"
    BY <1>0, <2>1 DEF Typed
  <2>2. CASE e = "host"
    <3>1. open
      BY <2>2 DEF Polled, Running
    <3>2. wire["host"] \in Seq(Message)
      BY <3>1, OpenWire
    <3>3. Len(wire["host"]) <= LinkCap + 0 /\ Len(wire["host"]) \in Nat
      BY <1>0, <3>1, <3>2, LenProperties DEF Typed
    <3> QED
      BY <2>2, <3>2, <3>3, Sizes
  <2> QED
    BY <2>1, <2>2 DEF Ends
<1>9. c \in Seq(Message) /\ Len(c) <= LinkCap /\ Len(c) \in Nat /\ c \in Seq(Message \cup {Reset})
  <2>1. c \in Seq(Message) /\ Len(c) <= LinkCap
    BY <1>3, <1>8, CarriedStretch
  <2> HIDE DEF c
  <2> QED
    BY <2>1, LenProperties
<1>10. /\ rest \in Seq(Message \cup {Reset}) /\ Len(rest) <= Len(wire[Peer(e)])
       /\ (wire[Peer(e)] \in Seq(Message) => rest \in Seq(Message))
       /\ Len(rest) \in Nat
  <2> DEFINE w == wire[Peer(e)]
  <2>1. n + 1 \in 1 .. Len(w) + 1 /\ Len(w) \in 0 .. Len(w) /\ w \in Seq(Message \cup {Reset})
        /\ Len(w) \in Nat
    BY <1>1
  <2> HIDE DEF w
  <2>2. /\ SubSeq(w, n + 1, Len(w)) \in Seq(Message \cup {Reset})
        /\ Len(SubSeq(w, n + 1, Len(w))) = IF n + 1 <= Len(w) THEN Len(w) - (n + 1) + 1 ELSE 0
    BY <2>1, SubSeqProperties
  <2>3. w \in Seq(Message) => SubSeq(w, n + 1, Len(w)) \in Seq(Message)
    BY <2>1, SubSeqProperties
  <2>4. Len(SubSeq(w, n + 1, Len(w))) <= Len(w)
    BY <2>1, <2>2
  <2> QED
    BY <2>2, <2>3, <2>4, LenProperties DEF w
<1> HIDE DEF rest, c
<1>11. wire' \in [Ends -> Seq(Message \cup {Reset})] /\ wire'[e] = c /\ wire'[Peer(e)] = rest
  BY <1>0, <1>1, <1>9, <1>10 DEF Polled, Typed, rest, c
<1>12. /\ wire'["device"] \in Seq(Message) /\ Len(wire'["device"]) <= LinkCap
       /\ Len(wire'["host"]) <= LinkCap + (IF open THEN 0 ELSE 1)
  <2>1. CASE e = "device"
    <3>1. wire'["device"] = c /\ wire'["host"] = rest /\ Len(rest) <= Len(wire["host"])
          /\ Len(wire["host"]) \in Nat
      BY <1>1, <1>10, <1>11, <2>1 DEF Peer
    <3>2. Len(wire["host"]) <= LinkCap + (IF open THEN 0 ELSE 1)
      BY <1>0 DEF Typed
    <3>3. Len(rest) <= LinkCap + (IF open THEN 0 ELSE 1)
      BY <1>10, <3>1, <3>2, Sizes
    <3> QED
      BY <1>9, <3>1, <3>3
  <2>2. CASE e = "host"
    <3>1. wire'["host"] = c /\ wire'["device"] = rest /\ Len(rest) <= Len(wire["device"])
          /\ Len(wire["device"]) \in Nat /\ rest \in Seq(Message)
      BY <1>0, <1>1, <1>10, <1>11, <2>2 DEF Peer, Typed
    <3>2. Len(wire["device"]) <= LinkCap
      BY <1>0 DEF Typed
    <3>3. Len(rest) <= LinkCap /\ Len(c) <= LinkCap + (IF open THEN 0 ELSE 1)
      BY <1>9, <1>10, <3>1, <3>2, Sizes
    <3> QED
      BY <3>1, <3>3
  <2> QED
    BY <2>1, <2>2 DEF Ends
<1>13. session'["host"] <= MaxSession
  <2>1. session'["host"] = session["host"]
    BY <1>0 DEF Polled, Typed, Ends
  <2> QED
    BY <1>0, <2>1 DEF Typed
<1> QED
  BY <1>0, <1>5, <1>6, <1>7, <1>11, <1>12, <1>13 DEF Polled, Typed

LEMMA NoReset ==
    ASSUME NEW v \in Seq(Message), NEW n \in 0 .. Len(v)
    PROVE  ~\E i \in 1 .. n : v[i].kind = "reset"
<1>1. ASSUME NEW i \in 1 .. n PROVE v[i].kind # "reset"
  <2>1. i \in 1 .. Len(v)
    BY LenProperties
  <2>2. v[i] \in Message
    BY <2>1, ElementOfSeq
  <2> QED
    BY <2>2, MessageTyped
<1> QED
  BY <1>1

\* A poll that reads no RESET.
LEMMA PollPlain ==
    ASSUME LineInv, NEW e \in Ends, NEW n \in 0 .. Len(wire[Peer(e)]),
           NEW sent, NEW reset \in BOOLEAN,
           Polled(e, n, sent, reset), Answer(e, ep[e], SubSeq(wire[Peer(e)], 1, n), sent),
           wire["host"] \notin Seq(Message) => n < Len(wire[Peer(e)])
    PROVE  LineInv' /\ sent \in End
<1>0. Typed
  BY DEF LineInv
<1>1. /\ Peer(e) \in Ends /\ Peer(e) # e /\ wire[Peer(e)] \in Seq(Message \cup {Reset})
      /\ Len(wire[Peer(e)]) \in Nat
      /\ ep[e] \in End /\ accepted[e] \in Seq(Body) /\ queued[e] \in Nat /\ session[e] \in Nat
      /\ ep[e].rx = <<>> /\ ep[e].out = <<>> /\ (e = "device" => DOMAIN ep[e].stash = {})
      /\ n \in Nat /\ n <= Len(wire[Peer(e)]) /\ Running(e)
  BY <1>0, TypedEnd DEF Polled
<1> DEFINE got == SubSeq(wire[Peer(e)], 1, n)
           t == Emptied(sent)
           c == Carried(e, sent.out)
<1>2. got \in Seq(Message)
  BY <1>1, ReadMessages
<1>3. Own(e, session[e], queued[e], sent) /\ Own(e, session[e], queued[e], t)
  <2>1. Own(e, session[e], queued[e], ep[e])
    BY <1>1 DEF LineInv, Alone, Own
  <2>2. Answer(e, ep[e], got, sent)
    OBVIOUS
  <2> HIDE DEF got
  <2> QED
    BY <1>1, <1>2, <2>1, <2>2, PollOwn
<1>4. /\ sent \in End /\ t \in End /\ (e = "device" => DOMAIN sent.stash = {})
      /\ Sound(session[e], queued[e], t)
  BY <1>3 DEF Own
<1>5. reset = FALSE
  <2>1. n \in 0 .. Len(got)
    <3>1. n \in 0 .. Len(wire[Peer(e)]) /\ 1 \in 1 .. Len(wire[Peer(e)]) + 1
      BY <1>1
    <3>2. Len(got) = IF 1 <= n THEN n - 1 + 1 ELSE 0
      BY <1>1, <3>1, SubSeqProperties
    <3> HIDE DEF got
    <3> QED
      BY <1>1, <3>2
  <2> QED
    BY <1>2, <2>1, NoReset DEF Polled
<1> HIDE DEF t, c, got
<1>7. Typed'
  BY <1>4, <1>5, PolledTyped
<1>8. /\ ep'[e] = t /\ ep'[Peer(e)] = ep[Peer(e)] /\ queued' = queued /\ session' = session
      /\ accepted'[e] = accepted[e] \o sent.rx /\ accepted'[Peer(e)] = accepted[Peer(e)]
      /\ wire'[Peer(e)] = SubSeq(wire[Peer(e)], n + 1, Len(wire[Peer(e)]))
      /\ wire'[e] = c /\ open' = open
  <2>1. ep'[e] = t /\ ep'[Peer(e)] = ep[Peer(e)]
    BY <1>0, <1>1 DEF Polled, Typed, t
  <2>2. queued' = queued /\ session' = session
    BY <1>0, <1>1, <1>5 DEF Polled, Typed
  <2>3. /\ accepted'[e] = accepted[e] \o sent.rx /\ accepted'[Peer(e)] = accepted[Peer(e)]
        /\ wire'[Peer(e)] = SubSeq(wire[Peer(e)], n + 1, Len(wire[Peer(e)]))
        /\ wire'[e] = c /\ open' = open
    BY <1>0, <1>1, <1>5 DEF Polled, Typed, c
  <2> QED
    BY <2>1, <2>2, <2>3
<1>9. wire[e] \in Seq(Message)
  <2>1. CASE e = "device"
    BY <1>0, <2>1 DEF Typed
  <2>2. CASE e = "host"
    BY <1>1, <2>2, OpenWire DEF Running
  <2> QED
    BY <2>1, <2>2 DEF Ends
<1>10. sent.out \in Seq(Message) /\ c \in Seq(Message) /\ Stretch(c, wire[e] \o sent.out)
  <2>1. sent.out \in Seq(Message)
    BY <1>4, EndTyped
  <2> QED
    BY <1>9, <2>1, CarriedStretch DEF c
<1>11. Line(e)' \in Seq(Message) /\ Stretch(Line(e)', Line(e) \o sent.out)
  <2>1. CASE open \/ e = "host"
    <3>1. Line(e)' = c /\ Line(e) = wire[e]
      BY <1>8, <2>1 DEF Line
    <3> QED
      BY <1>10, <3>1
  <2>2. CASE ~(open \/ e = "host")
    <3>1. Line(e)' = <<>>
      BY <1>8, <2>2 DEF Line
    <3> QED
      BY <3>1, StretchEmpty
  <2> QED
    BY <2>1, <2>2
<1>12. ASSUME Linked
       PROVE  Pair(session[e], queued'[e], ep'[e], accepted'[e], Line(e)',
                   queued[Peer(e)], ep[Peer(e)], accepted[Peer(e)], wire'[Peer(e)])
  <2> DEFINE s == ep[e]
             k == session[e]
             Q == queued[e]
             d == accepted[e]
             f0 == Line(e)
             Qp == queued[Peer(e)]
             p == ep[Peer(e)]
             dp == accepted[Peer(e)]
             wp == wire[Peer(e)]
  <2>1. /\ wp \in Seq(Message) /\ Qp \in Nat /\ p \in End /\ dp \in Seq(Body) /\ f0 \in Seq(Message)
    BY <1>0, <1>1, <1>12, TypedEnd
  <2>2. Pair(k, Q, s, d, f0, Qp, p, dp, wp)
    <3>1. Line(Peer(e)) = wp
      BY <1>1 DEF Running, Line, Peer, Ends
    <3> QED
      BY <1>12, <3>1, LinkedTurned
  <2>3. /\ s \in End /\ Q \in Nat /\ d \in Seq(Body) /\ s.rx = <<>> /\ s.out = <<>>
        /\ (e = "device" => DOMAIN s.stash = {}) /\ n \in 0 .. Len(wp)
        /\ Answer(e, s, SubSeq(wp, 1, n), sent) /\ t = Emptied(sent)
    BY <1>1 DEF t
  <2>4. /\ ep'[e] = t /\ queued'[e] = Q /\ accepted'[e] = d \o sent.rx
        /\ wire'[Peer(e)] = SubSeq(wp, n + 1, Len(wp))
    BY <1>8
  <2>5. Line(e)' \in Seq(Message) /\ Stretch(Line(e)', f0 \o sent.out)
    BY <1>11
  <2> HIDE DEF s, k, Q, d, f0, Qp, p, dp, wp
  <2>6. Answered(k, Q, t, d \o sent.rx, f0, Qp, p, dp, SubSeq(wp, n + 1, Len(wp)), sent.out)
    BY ONLY <2>1, <2>2, <2>3, Polling, e \in Ends, Zenon
  <2>7. Pair(k, Q, t, d \o sent.rx, Line(e)', Qp, p, dp, SubSeq(wp, n + 1, Len(wp)))
    BY <2>5, <2>6 DEF Answered
  <2>8. Pair(k, queued'[e], ep'[e], accepted'[e], Line(e)', Qp, p, dp, wire'[Peer(e)])
    BY <2>4, <2>7
  <2> QED
    BY <2>8 DEF k, Qp, p, dp
<1>13. e = "host" /\ wire["host"] \in Seq(Message) => wire'["host"] \in Seq(Message)
  BY <1>8, <1>10
<1>14. Sound(session[e], queued'[e], ep'[e])
  BY <1>4, <1>8
<1> QED
  BY <1>1, <1>4, <1>7, <1>8, <1>12, <1>13, <1>14, OneEnd

\* An end that has been reset has nothing to send but an acknowledgement.
Clear(s) == /\ s.fifo = <<>> /\ s.order = <<>> /\ s.snMin = 0 /\ s.snMax = 0 /\ s.rn = 0
            /\ DOMAIN s.stash = {} /\ s.rx = <<>>

LEMMA ClearedSends ==
    ASSUME NEW u \in End, NEW c, c = Cleared(u), NEW sampled, NEW room, NEW resendDue, NEW ackDue,
           NEW sent, sent = Transmitted(c, sampled, room, resendDue, ackDue)
    PROVE  sent \in End /\ Clear(sent)
<1>1. u.nack \in Number \cup {NoSeq} /\ u.out \in Seq(Message)
  BY EndTyped
<1>2. c = [Fresh EXCEPT !.nack = u.nack, !.out = u.out]
  BY DEF Cleared
<1>3. c \in End
  BY <1>1, <1>2, FreshTyped DEF End
<1>4. Clear(c)
  <2>1. c.stash = Fresh.stash
    BY <1>2 DEF Fresh
  <2>2. c.fifo = <<>> /\ c.order = <<>> /\ c.snMin = 0 /\ c.snMax = 0 /\ c.rn = 0 /\ c.rx = <<>>
    BY <1>2 DEF Fresh
  <2> QED
    BY <2>1, <2>2, FreshTyped DEF Clear
<1>5. InWindow(c) = 0 /\ Len(c.fifo) = 0
  BY <1>3, <1>4, EndTyped, OffSelf, Numbers DEF Clear
<1>6. sent = IF ackDue /\ sampled.active THEN SendAck(c, c.rn) ELSE c
  BY <1>5 DEF Transmitted
<1> DEFINE m == [kind |-> "ack", seq |-> c.rn, to |-> c.rn, body |-> <<>>]
           out == Append(c.out, m)
           t == SendAck(c, c.rn)
<1>7. m \in Message /\ c.out \in Seq(Message)
  BY <1>3, EndTyped, AckTyped
<1>8. t = [c EXCEPT !.out = out]
  BY DEF SendAck, Send
<1>9. out \in Seq(Message)
  <2> HIDE DEF m
  <2> QED
    BY <1>7, AppendProperties
<1> HIDE DEF out, t
<1>10. t \in End /\ Clear(t)
  BY <1>3, <1>4, <1>8, <1>9 DEF End, Clear
<1> QED
  BY <1>3, <1>4, <1>6, <1>10 DEF t

\* A poll that reads the RESET: both ends start again.
LEMMA PollReset ==
    ASSUME LineInv, NEW e \in Ends, NEW n \in 0 .. Len(wire[Peer(e)]),
           NEW sent, NEW reset \in BOOLEAN,
           Polled(e, n, sent, reset), Answer(e, ep[e], SubSeq(wire[Peer(e)], 1, n), sent),
           wire["host"] \notin Seq(Message), n = Len(wire[Peer(e)])
    PROVE  LineInv' /\ sent \in End
<1>0. Typed /\ Alone /\ Parted
  BY DEF LineInv, Linked
<1>1. e = "device" /\ Peer(e) = "host" /\ ~open /\ "host" \in Ends
  BY OpenWire DEF Polled, Running, Ends, Peer
<1>2. PICK w \in Seq(Message) : wire["host"] = Append(w, Reset)
  BY <1>0 DEF Parted, ResetLast
<1> DEFINE T == Message \cup {Reset}
           x == Append(w, Reset)
           s == ep["device"]
<1>3. /\ s \in End /\ s.rx = <<>> /\ s.out = <<>> /\ DOMAIN s.stash = {}
      /\ queued["device"] \in Nat /\ accepted["device"] \in Seq(Body)
  BY <1>0, <1>1, TypedEnd
<1>4. x \in Seq(T) /\ Len(x) = Len(w) + 1 /\ x[Len(w) + 1] = Reset /\ Len(w) \in Nat
  <2>1. w \in Seq(T) /\ Reset \in T /\ Len(w) \in Nat
    BY LenProperties
  <2> HIDE DEF T
  <2> QED
    BY <2>1, AppendProperties
<1>5. wire["host"] = x /\ n = Len(x) /\ SubSeq(x, 1, n) = x
  <2>1. wire["host"] = x /\ n = Len(x)
    BY <1>1, <1>2
  <2> HIDE DEF x, T
  <2> QED
    BY <1>4, <2>1, SubSeqFull
<1>6. reset = TRUE
  <2>1. Len(w) + 1 \in 1 .. n /\ x[Len(w) + 1].kind = "reset"
    BY <1>4, <1>5 DEF Reset
  <2>2. reset = (\E i \in 1 .. n : x[i].kind = "reset")
    BY <1>1, <1>5 DEF Polled
  <2> HIDE DEF x
  <2> QED
    BY <2>1, <2>2
<1>7. PICK u \in End : Read(e, s, x) = Cleared(u)
  <2>1. Own(e, session["device"], queued["device"], s)
    BY <1>0, <1>1, <1>3 DEF Alone, Own
  <2> HIDE DEF x, s
  <2>2. \E u \in End : Read(e, s, Append(w, Reset)) = Cleared(u)
    BY ONLY e \in Ends, w \in Seq(Message), <1>3, <2>1, ResetRead
  <2> QED
    BY <2>2 DEF x
<1>8. sent \in End /\ Clear(sent)
  <2>1. Answer(e, s, x, sent)
    BY <1>1, <1>5
  <2> HIDE DEF x, s
  <2>2. PICK sampled, room, resendDue, ackDue :
          sent = Transmitted(Read(e, s, x), sampled, room, resendDue, ackDue)
    BY <2>1 DEF Answer
  <2> QED
    BY <1>7, <2>2, ClearedSends
<1>9. Typed'
  BY <1>1, <1>8, PolledTyped DEF Clear
<1> DEFINE t == Emptied(sent)
<1>10. t \in End /\ Clear(t)
  <2> DEFINE none == <<>>
  <2>1. none \in Seq(Body) /\ none \in Seq(Message) /\ t = [sent EXCEPT !.rx = none, !.out = none]
    BY DEF Emptied
  <2>2. Clear(sent) /\ none = <<>>
    BY <1>8
  <2> HIDE DEF t, none
  <2>3. t \in End
    BY <1>8, <2>1 DEF End
  <2> QED
    BY <1>8, <2>1, <2>2, <2>3 DEF End, Clear
<1> HIDE DEF t, T, s
<1>11. /\ ep'["device"] = t /\ ep'["host"] = Fresh /\ queued'["device"] = 0 /\ queued'["host"] = 0
       /\ session'["device"] = session["host"] /\ session'["host"] = session["host"]
       /\ accepted'["device"] = <<>> /\ accepted'["host"] = <<>> /\ open' = open
  <2>1. ep'["device"] = t /\ ep'["host"] = Fresh
    BY <1>0, <1>1 DEF Polled, Typed, Parted, Left, t
  <2>2. queued'["device"] = 0 /\ queued'["host"] = 0
    BY <1>0, <1>1, <1>6 DEF Polled, Typed, Parted, Left
  <2>3. session'["device"] = session["host"] /\ session'["host"] = session["host"]
    BY <1>0, <1>1, <1>6 DEF Polled, Typed
  <2>4. accepted'["device"] = <<>> /\ accepted'["host"] = <<>> /\ open' = open
    BY <1>0, <1>1, <1>6, <1>8 DEF Polled, Typed, Parted, Left, Clear
  <2> QED
    BY <2>1, <2>2, <2>3, <2>4
<1>12. wire'["host"] = <<>> /\ <<>> \in Seq(Message)
  <2>1. wire'["host"] = SubSeq(x, n + 1, n)
    BY <1>0, <1>1, <1>5 DEF Polled, Typed
  <2>2. SubSeq(x, n + 1, n) = <<>>
    <3> HIDE DEF x
    <3>1. n \in Nat /\ n + 1 \in Int /\ n \in Int /\ n < n + 1
      BY <1>4, <1>5
    <3> QED
      BY <3>1, SubSeqEmpty
  <2>3. <<>> \in Seq(Message)
    OBVIOUS
  <2> QED
    BY <2>1, <2>2, <2>3
<1>13. Line("device")' = <<>> /\ Line("host")' = <<>>
  BY <1>1, <1>11, <1>12 DEF Line
<1>14. Pair(session'["device"], 0, t, <<>>, <<>>, 0, Fresh, <<>>, <<>>)
  <2>1. /\ Fresh \in End /\ DOMAIN Fresh.stash = {} /\ Fresh.fifo = <<>> /\ Fresh.order = <<>>
        /\ Fresh.snMin = 0 /\ Fresh.snMax = 0 /\ Fresh.rn = 0
    BY FreshTyped DEF Fresh
  <2> HIDE DEF Fresh
  <2> QED
    BY <1>10, <2>1, EmptyPair DEF Clear
<1>15. session'["host"] = session'["device"]
  BY <1>11
<1>16. Linked'
  BY <1>11, <1>12, <1>13, <1>14, <1>15 DEF Linked
<1>17. Alone'
  <2>1. Sound(session'["device"], 0, t) /\ Sound(session'["host"], 0, Fresh)
    <3>1. Sound(session'["device"], 0, t)
      BY <1>10, EmptySound DEF Clear
    <3> QED
      BY <3>1, FreshSound
  <2> HIDE DEF Fresh
  <2> QED
    BY <1>11, <2>1 DEF Alone, Ends
<1> QED
  BY <1>8, <1>9, <1>16, <1>17 DEF LineInv

PolledWith(e, sent) == \E n, reset : reset \in BOOLEAN /\ Polled(e, n, sent, reset)

LEMMA PollLine ==
    ASSUME LineInv, NEW e \in Ends, Poll(e)
    PROVE  /\ LineInv'
           /\ \E sent \in End : PolledWith(e, sent)
<1>1. Typed /\ Peer(e) \in Ends /\ Len(wire[Peer(e)]) \in Nat
  BY TypedEnd DEF LineInv
<1>2. PICK n \in 0 .. Len(wire[Peer(e)]), reset \in BOOLEAN : \E sent :
         Answering(e, n, sent, reset)
  BY <1>1, PollSteps
<1>3. PICK sent :
         Polled(e, n, sent, reset) /\ Answer(e, ep[e], SubSeq(wire[Peer(e)], 1, n), sent)
  BY <1>2 DEF Answering
<1>4. CASE wire["host"] \notin Seq(Message) => n < Len(wire[Peer(e)])
  <2>1. LineInv' /\ sent \in End
    BY <1>3, <1>4, PollPlain
  <2>2. PolledWith(e, sent)
    BY <1>3 DEF PolledWith
  <2> QED
    BY <2>1, <2>2
<1>5. CASE wire["host"] \notin Seq(Message) /\ ~(n < Len(wire[Peer(e)]))
  <2>1. n = Len(wire[Peer(e)])
    BY <1>1, <1>5
  <2>2. LineInv' /\ sent \in End
    BY <1>3, <1>5, <2>1, PollReset
  <2>3. PolledWith(e, sent)
    BY <1>3 DEF PolledWith
  <2> QED
    BY <2>2, <2>3
<1> QED
  BY <1>4, <1>5

LEMMA TailOfReset ==
    ASSUME NEW w \in Seq(Message), w # <<>>
    PROVE  Tail(Append(w, Reset)) = Append(Tail(w), Reset)
<1> DEFINE T == Message \cup {Reset}
<1>1. w \in Seq(T) /\ Reset \in T
  OBVIOUS
<1> HIDE DEF T
<1> QED
  BY <1>1, HeadTailAppend

LEMMA LoseLine ==
    ASSUME LineInv, NEW e \in Ends, Lose(e)
    PROVE  LineInv'
<1> DEFINE v == Tail(wire[e])
<1>0. Typed
  BY DEF LineInv
<1>1. /\ wire[e] # <<>> /\ faults < MaxFaults /\ faults' = faults + 1
      /\ wire' = [wire EXCEPT ![e] = v]
      /\ UNCHANGED <<ep, accepted, queued, session, open, up>>
  BY DEF Lose
<1>9. Alone'
  BY <1>1 DEF LineInv, Alone
<1>2. /\ Peer(e) \in Ends /\ Peer(e) # e /\ wire[e] \in Seq(Message \cup {Reset})
      /\ Len(wire[e]) \in Nat
  BY <1>0, TypedEnd
<1>3. v \in Seq(Message \cup {Reset}) /\ Len(v) = Len(wire[e]) - 1
      /\ (wire[e] \in Seq(Message) => v \in Seq(Message) /\ Stretch(v, wire[e]))
  BY <1>1, <1>2, HeadTailProperties, StretchOfTail
<1> HIDE DEF v
<1>4. /\ wire'[e] = v /\ \A f \in Ends : f # e => wire'[f] = wire[f]
      /\ wire' \in [Ends -> Seq(Message \cup {Reset})]
  BY <1>0, <1>1, <1>3 DEF Typed
<1>5. Typed'
  <2>1. Len(v) <= Len(wire[e]) /\ Len(v) \in Nat
    BY <1>2, <1>3, LenProperties
  <2>2. wire'["device"] \in Seq(Message) /\ Len(wire'["device"]) <= LinkCap
    <3>1. CASE e = "device"
      BY <1>0, <1>2, <1>3, <1>4, <2>1, <3>1, Sizes DEF Typed
    <3>2. CASE e # "device"
      <4>1. wire'["device"] = wire["device"]
        BY <1>4, <3>2 DEF Ends
      <4> QED
        BY <1>0, <4>1 DEF Typed
    <3> QED
      BY <3>1, <3>2
  <2>3. Len(wire'["host"]) <= LinkCap + (IF open THEN 0 ELSE 1)
    <3>1. CASE e = "host"
      <4>1. Len(wire[e]) <= LinkCap + (IF open THEN 0 ELSE 1)
        BY <1>0, <3>1 DEF Typed
      <4> QED
        BY <1>2, <1>4, <2>1, <3>1, <4>1, Sizes
    <3>2. CASE e # "host"
      <4>1. wire'["host"] = wire["host"]
        BY <1>4, <3>2 DEF Ends
      <4> QED
        BY <1>0, <4>1 DEF Typed
    <3> QED
      BY <3>1, <3>2
  <2>4. faults' \in 0 .. MaxFaults
    BY <1>0, <1>1, WindowAssumption DEF Typed
  <2> QED
    BY <1>0, <1>1, <1>4, <2>2, <2>3, <2>4 DEF Typed
<1>6. CASE Linked
  <2>1. /\ wire[e] \in Seq(Message) /\ Line(e) \in Seq(Message) /\ Line(Peer(e)) \in Seq(Message)
    BY <1>0, <1>2, <1>6, TypedEnd
  <2>2. Line(Peer(e))' = Line(Peer(e))
    BY <1>1, <1>2, <1>4 DEF Line
  <2>3. Line(e)' \in Seq(Message) /\ Stretch(Line(e)', Line(e))
    <3>1. CASE open \/ e = "host"
      <4>1. Line(e) = wire[e] /\ Line(e)' = v
        BY <1>1, <1>4, <3>1 DEF Line
      <4> QED
        BY <1>3, <2>1, <4>1
    <3>2. CASE ~(open \/ e = "host")
      <4>1. Line(e)' = <<>>
        BY <1>1, <3>2 DEF Line
      <4> QED
        BY <4>1, StretchEmpty
    <3> QED
      BY <3>1, <3>2
  <2>4. Pair(session[e], queued[e], ep[e], accepted[e], Line(e),
             queued[Peer(e)], ep[Peer(e)], accepted[Peer(e)], Line(Peer(e)))
    BY <1>6, LinkedTurned
  <2>5. Pair(session[e], queued[e], ep[e], accepted[e], Line(e)',
             queued[Peer(e)], ep[Peer(e)], accepted[Peer(e)], Line(Peer(e)))
    BY <2>1, <2>3, <2>4, StretchSelf, StretchPair
  <2>6. wire'["host"] \in Seq(Message)
    <3>1. CASE e = "host"
      BY <1>3, <1>4, <2>1, <3>1
    <3>2. CASE e # "host"
      BY <1>4, <1>6, <3>2 DEF Linked, Ends
    <3> QED
      BY <3>1, <3>2
  <2>7. Linked'
    BY <1>1, <1>6, <2>2, <2>5, <2>6, LinkedNext DEF Linked
  <2> QED
    BY <1>5, <1>9, <2>7 DEF LineInv
\* The RESET itself may be lost.
<1>7. CASE Parted
  <2>1. Left'
    BY <1>1, <1>7 DEF Parted, Left
  <2>2. ResetLast'
    <3>1. CASE e # "host"
      <4>1. wire'["host"] = wire["host"]
        BY <1>4, <3>1 DEF Ends
      <4> QED
        BY <1>1, <1>7, <4>1 DEF Parted, ResetLast
    <3>2. CASE e = "host" /\ wire["host"] \in Seq(Message)
      BY <1>3, <1>4, <3>2 DEF ResetLast
    <3>3. CASE e = "host" /\ wire["host"] \notin Seq(Message)
      <4>1. PICK w \in Seq(Message) : wire["host"] = Append(w, Reset) /\ ~open
        BY <1>7, <3>3 DEF Parted, ResetLast
      <4>2. CASE w = <<>>
        <5>1. wire["host"] = <<Reset>>
          BY <4>1, <4>2
        <5>2. v = <<>> /\ <<>> \in Seq(Message)
          BY <3>3, <5>1 DEF v
        <5> QED
          BY <1>4, <3>3, <5>2 DEF ResetLast
      <4>3. CASE w # <<>>
        <5> DEFINE u == Tail(w)
        <5>1. u \in Seq(Message) /\ v = Append(u, Reset)
          BY <3>3, <4>1, <4>3, TailOfReset, StretchOfTail DEF v
        <5> HIDE DEF u
        <5> QED
          BY <1>1, <1>4, <3>3, <4>1, <5>1 DEF ResetLast
      <4> QED
        BY <4>2, <4>3
    <3> QED
      BY <3>1, <3>2, <3>3
  <2>3. Parted'
    BY <1>1, <1>7, <2>1, <2>2 DEF Parted
  <2> QED
    BY <1>5, <1>9, <2>3 DEF LineInv
<1> QED
  BY <1>6, <1>7 DEF LineInv

\* The host leaves with a RESET behind what it has sent, or crashes.
LEMMA DisconnectLine ==
    ASSUME LineInv, NEW sendsReset \in BOOLEAN, Disconnect(sendsReset)
    PROVE  LineInv'
<1>0. Typed /\ "host" \in Ends /\ "device" \in Ends
  BY DEF LineInv, Ends
<1>1. /\ open /\ session["host"] < MaxSession
      /\ open' = FALSE
      /\ wire' = [wire EXCEPT !["host"] = IF sendsReset THEN Append(@, Reset) ELSE @]
      /\ ep' = [ep EXCEPT !["host"] = Fresh]
      /\ accepted' = [accepted EXCEPT !["host"] = <<>>]
      /\ queued' = [queued EXCEPT !["host"] = 0]
      /\ session' = [session EXCEPT !["host"] = @ + 1]
      /\ up' = up
  BY DEF Disconnect
<1>11. faults' \in 0 .. MaxFaults
  <2>1. faults' = (IF sendsReset THEN faults ELSE faults + 1) /\ (sendsReset \/ faults < MaxFaults)
    BY DEF Disconnect
  <2> QED
    BY <1>0, <2>1, WindowAssumption DEF Typed
<1>2. wire["host"] \in Seq(Message)
  BY <1>1, OpenWire
<1> DEFINE w == wire["host"]
           y == Append(w, Reset)
           x == IF sendsReset THEN y ELSE w
           T == Message \cup {Reset}
           none == <<>>
<1>3. /\ w \in Seq(Message) /\ Len(w) <= LinkCap /\ Len(w) \in Nat
      /\ x \in Seq(T) /\ Len(x) <= Len(w) + 1 /\ Len(x) \in Nat
  <2>1. w \in Seq(Message)
    BY <1>2
  <2>2. Len(w) <= LinkCap + 0
    BY <1>0, <1>1 DEF Typed
  <2>3. w \in Seq(T) /\ Reset \in T /\ Len(w) \in Nat
    BY <2>1, LenProperties
  <2> HIDE DEF w, T
  <2>4. x \in Seq(T) /\ Len(x) <= Len(w) + 1 /\ Len(x) \in Nat
    <3>1. y \in Seq(T) /\ Len(y) = Len(w) + 1
      BY <2>3, AppendProperties
    <3> HIDE DEF y
    <3> QED
      BY <2>3, <3>1
  <2> QED
    BY <2>1, <2>2, <2>3, <2>4, Sizes
<1>4. /\ wire' \in [Ends -> Seq(T)] /\ wire'["host"] = x /\ wire'["device"] = wire["device"]
  BY <1>0, <1>1, <1>3 DEF Typed
<1>5. /\ ep' \in [Ends -> End] /\ ep'["host"] = Fresh /\ ep'["device"] = ep["device"]
      /\ \A f \in Ends : ep'[f].rx = <<>> /\ ep'[f].out = <<>>
  <2>1. Fresh \in End /\ Fresh.rx = <<>> /\ Fresh.out = <<>>
    BY FreshTyped DEF Fresh
  <2> HIDE DEF Fresh
  <2> QED
    BY <1>0, <1>1, <2>1 DEF Typed
<1>6. /\ accepted' \in [Ends -> Seq(Body)] /\ accepted'["host"] = none
      /\ accepted'["device"] = accepted["device"]
  <2>1. none \in Seq(Body)
    OBVIOUS
  <2> HIDE DEF none
  <2> QED
    BY <1>0, <1>1, <2>1 DEF Typed, none
<1>7. /\ queued' \in [Ends -> Nat] /\ queued'["host"] = 0 /\ queued'["device"] = queued["device"]
      /\ session' \in [Ends -> Nat] /\ session'["host"] = session["host"] + 1
      /\ session'["device"] = session["device"]
  <2>1. queued' \in [Ends -> Nat] /\ queued'["host"] = 0 /\ queued'["device"] = queued["device"]
    BY <1>0, <1>1 DEF Typed
  <2>2. session["host"] + 1 \in Nat
    BY <1>0 DEF Typed
  <2>3. session' \in [Ends -> Nat] /\ session'["host"] = session["host"] + 1
        /\ session'["device"] = session["device"]
    BY <1>0, <1>1, <2>2 DEF Typed
  <2> QED
    BY <2>1, <2>3
<1>8. Typed'
  <2>1. session'["host"] <= MaxSession
    <3>1. session["host"] \in Nat /\ MaxSession \in Nat
      BY <1>0, WindowAssumption DEF Typed
    <3> QED
      BY <1>1, <1>7, <3>1
  <2>2. Len(wire'["host"]) <= LinkCap + (IF open' THEN 0 ELSE 1)
    <3> HIDE DEF x, w
    <3> QED
      BY <1>1, <1>3, <1>4, Sizes
  <2> HIDE DEF x, w
  <2> QED
    BY <1>0, <1>1, <1>4, <1>5, <1>6, <1>7, <1>11, <2>1, <2>2 DEF Typed
<1>9. Alone'
  <2>1. Sound(session'["host"], 0, Fresh)
    BY FreshSound
  <2>2. Sound(session["device"], queued["device"], ep["device"])
    BY <1>0 DEF LineInv, Alone
  <2> HIDE DEF Fresh
  <2> QED
    BY <1>5, <1>7, <2>1, <2>2 DEF Alone, Ends
<1>10. Parted'
  <2>1. session["device"] < session["host"] + 1
    <3>1. session["host"] \in Nat /\ session["device"] \in Nat
      BY <1>0 DEF Typed
    <3> QED
      BY <3>1 DEF LineInv, Linked, Parted
  <2>2. Left'
    BY <1>5, <1>6, <1>7 DEF Left
  <2>3. ResetLast'
    BY <1>1, <1>3, <1>4 DEF ResetLast
  <2> QED
    BY <1>7, <2>1, <2>2, <2>3 DEF Parted
<1> QED
  BY <1>8, <1>9, <1>10 DEF LineInv

\* The host comes back when the device has read what was on its way.
LEMMA ConnectLine ==
    ASSUME LineInv, Connect
    PROVE  LineInv'
<1>0. Typed /\ "host" \in Ends /\ "device" \in Ends
  BY DEF LineInv, Ends
<1>1. /\ ~open /\ wire["host"] = <<>> /\ open' = TRUE /\ wire' = [wire EXCEPT !["device"] = <<>>]
      /\ UNCHANGED <<ep, accepted, queued, session, up, faults>>
  BY DEF Connect
<1> DEFINE none == <<>>
           T == Message \cup {Reset}
<1>2. none \in Seq(Message) /\ none \in Seq(T) /\ Len(none) = 0
  OBVIOUS
<1>4. Alone'
  BY <1>1 DEF LineInv, Alone
<1>5. wire' \in [Ends -> Seq(T)] /\ wire'["host"] = none /\ wire'["device"] = none
  BY <1>0, <1>1, <1>2 DEF Typed
<1>6. Typed'
  <2>1. /\ wire'["device"] \in Seq(Message) /\ Len(wire'["device"]) <= LinkCap
        /\ Len(wire'["host"]) <= LinkCap + (IF open' THEN 0 ELSE 1)
    BY <1>1, <1>2, <1>5, Sizes
  <2> HIDE DEF none
  <2> QED
    BY <1>0, <1>1, <1>5, <2>1 DEF Typed
<1>7. Line("device")' = Line("device") /\ Line("host")' = Line("host")
  BY <1>1, <1>5 DEF Line
<1>8. Linked => Linked'
  BY <1>1, <1>2, <1>5, <1>7 DEF Linked
<1>9. Parted => Parted'
  BY <1>1, <1>2, <1>5 DEF Parted, ResetLast, Left
<1> QED
  BY <1>4, <1>6, <1>8, <1>9 DEF LineInv

\* The cable is pulled out: everything on the line is lost.
LEMMA UnplugLine ==
    ASSUME LineInv, Unplug
    PROVE  LineInv'
<1>0. Typed /\ "host" \in Ends /\ "device" \in Ends
  BY DEF LineInv, Ends
<1>1. /\ open /\ up' = FALSE /\ faults < MaxFaults /\ faults' = faults + 1
      /\ wire' = [e \in Ends |-> <<>>] /\ UNCHANGED <<ep, accepted, queued, session, open>>
  BY DEF Unplug
<1> DEFINE none == <<>>
           T == Message \cup {Reset}
<1>2. none \in Seq(Message) /\ none \in Seq(T) /\ Len(none) = 0
  OBVIOUS
<1>3. Alone'
  BY <1>1 DEF LineInv, Alone
<1>4. wire' \in [Ends -> Seq(T)] /\ \A e \in Ends : wire'[e] = none
  BY <1>1, <1>2
<1>5. Typed'
  <2>1. /\ wire'["device"] \in Seq(Message) /\ Len(wire'["device"]) <= LinkCap
        /\ Len(wire'["host"]) <= LinkCap + (IF open' THEN 0 ELSE 1)
    BY <1>0, <1>1, <1>2, <1>4, Sizes
  <2>2. faults' \in 0 .. MaxFaults
    BY <1>0, <1>1, WindowAssumption DEF Typed
  <2> HIDE DEF none
  <2> QED
    BY <1>0, <1>1, <1>4, <2>1, <2>2 DEF Typed
<1>6. Line("device")' = none /\ Line("host")' = none
  BY <1>0, <1>1, <1>4 DEF Line
<1>7. Linked => Linked'
  <2> HAVE Linked
  <2>1. Line("device") \in Seq(Message) /\ Line("host") \in Seq(Message)
    BY <1>0, TypedEnd
  <2>2. Pair(session["device"], queued["device"], ep["device"], accepted["device"],
             Line("device"), queued["host"], ep["host"], accepted["host"], Line("host"))
    BY DEF Linked
  <2>3. Pair(session["device"], queued["device"], ep["device"], accepted["device"], none,
             queued["host"], ep["host"], accepted["host"], none)
    BY <2>1, <2>2, StretchEmpty, StretchPair
  <2> QED
    BY <1>0, <1>1, <1>2, <1>4, <1>6, <2>3 DEF Linked
<1>8. Parted => Parted'
  BY <1>0, <1>1, <1>2, <1>4 DEF Parted, ResetLast, Left
<1> QED
  BY <1>3, <1>5, <1>7, <1>8 DEF LineInv

LEMMA PlugLine ==
    ASSUME LineInv, Plug
    PROVE  LineInv'
<1>1. up' = TRUE /\ UNCHANGED <<ep, wire, accepted, queued, session, open, faults>>
  BY DEF Plug
<1>2. Typed'
  BY <1>1 DEF LineInv, Typed
<1>3. Alone' /\ (Linked => Linked') /\ (Parted => Parted')
  BY <1>1 DEF LineInv, Alone, Linked, Parted, ResetLast, Left, Line
<1> QED
  BY <1>2, <1>3 DEF LineInv

LEMMA NextLine ==
    ASSUME LineInv, [Next]_vars
    PROVE  LineInv'
<1>1. CASE UNCHANGED vars
  <2>1. UNCHANGED <<ep, wire, accepted, queued, session, open, up, faults>>
    BY <1>1 DEF vars
  <2>2. Typed' /\ Alone' /\ (Linked => Linked') /\ (Parted => Parted')
    BY <2>1 DEF LineInv, Typed, Alone, Linked, Parted, ResetLast, Left, Line
  <2> QED
    BY <2>2 DEF LineInv
<1>2. ASSUME NEW e \in Ends,
             QueueFrame(e) \/ SendFrame(e) \/ Poll(e) \/ Lose(e) \/ IdleTimeout(e)
      PROVE  LineInv'
  BY <1>2, QueueFrameLine, SendFrameLine, PollLine, LoseLine, IdleTimeoutLine
<1>3. ASSUME NEW sendsReset \in BOOLEAN, Disconnect(sendsReset) PROVE LineInv'
  BY <1>3, DisconnectLine
<1>4. CASE Connect
  BY <1>4, ConnectLine
<1>5. CASE Unplug
  BY <1>5, UnplugLine
<1>6. CASE Plug
  BY <1>6, PlugLine
<1> QED
  BY <1>1, <1>2, <1>3, <1>4, <1>5, <1>6 DEF Next

\* The invariant of the line: in the same session the two ends agree on both
\* streams; out of step each still guarantees what it can alone.
THEOREM LineAlways == Spec => []LineInv
<1>1. Init => LineInv
  BY InitLine
<1>2. LineInv /\ [Next]_vars => LineInv'
  BY NextLine
<1> QED
  BY <1>1, <1>2, PTL DEF Spec
-----------------------------------------------------------------------------
(* What the device calls its application with: h holds everything that d   *)
(* does, and no more frames.                                               *)

Covers(h, d) ==
    /\ h \in Seq(Body) /\ Len(h) = Len(d)
    /\ \A i \in DOMAIN d : \E n \in DOMAIN h : h[n] = d[i]
Handled == Covers(handed, accepted["device"])

LEMMA HandingCovers ==
    ASSUME NEW x \in Seq(Body), NEW h \in Handings(x)
    PROVE  Covers(h, x)
<1> DEFINE N == Len(x)
<1>1. N \in Nat /\ DOMAIN x = 1 .. N /\ x \in [1 .. N -> Body]
  BY LenProperties
<1>2. PICK turn \in Bijection(1 .. N, 1 .. N) : h = [i \in DOMAIN x |-> x[turn[i]]]
  BY DEF Handings, Overtakings
<1> HIDE DEF N
<1>3. turn \in [1 .. N -> 1 .. N] /\ \A j \in 1 .. N : \E i \in 1 .. N : turn[i] = j
  BY <1>2 DEF Bijection, Injection, Surjection
<1>4. h \in [1 .. N -> Body]
  BY <1>1, <1>2, <1>3
<1>5. h \in Seq(Body) /\ Len(h) = N /\ DOMAIN h = 1 .. N
  <2>1. h \in Seq(Body)
    BY <1>1, <1>4, IsSeq
  <2>2. DOMAIN h = 1 .. N /\ DOMAIN h = 1 .. Len(h) /\ Len(h) \in Nat
    BY <1>4, <2>1, LenProperties
  <2>3. 1 .. Len(h) = 1 .. N => Len(h) = N
    BY <1>1, <2>2
  <2> QED
    BY <2>1, <2>2, <2>3
<1>6. ASSUME NEW j \in DOMAIN x PROVE \E n \in DOMAIN h : h[n] = x[j]
  <2>1. PICK i \in 1 .. N : turn[i] = j
    BY <1>1, <1>3
  <2> QED
    BY <1>1, <1>2, <1>5, <2>1
<1> QED
  BY <1>5, <1>6 DEF Covers, N

LEMMA CoversMore ==
    ASSUME NEW h, NEW d \in Seq(Body), NEW g, NEW x \in Seq(Body), Covers(h, d), Covers(g, x)
    PROVE  Covers(h \o g, d \o x)
<1> DEFINE hg == h \o g
           dx == d \o x
           L == Len(d)
           M == Len(x)
<1>1. h \in Seq(Body) /\ g \in Seq(Body) /\ Len(h) = L /\ Len(g) = M /\ L \in Nat /\ M \in Nat
      /\ DOMAIN h = 1 .. L /\ DOMAIN g = 1 .. M /\ DOMAIN d = 1 .. L /\ DOMAIN x = 1 .. M
  <2>1. h \in Seq(Body) /\ g \in Seq(Body) /\ Len(h) = L /\ Len(g) = M
    BY DEF Covers
  <2>2. L \in Nat /\ M \in Nat /\ DOMAIN d = 1 .. L /\ DOMAIN x = 1 .. M
    BY LenProperties
  <2>3. DOMAIN h = 1 .. Len(h) /\ DOMAIN g = 1 .. Len(g)
    BY <2>1, LenProperties
  <2> QED
    BY <2>1, <2>2, <2>3
<1>2. /\ hg \in Seq(Body) /\ Len(hg) = L + M
      /\ \A i \in 1 .. L + M : hg[i] = IF i <= L THEN h[i] ELSE g[i - L]
  <2>1. h \in Seq(Body) /\ g \in Seq(Body) /\ Len(h) = L /\ Len(g) = M
    BY <1>1
  <2> HIDE DEF L, M
  <2> QED
    BY ONLY <2>1, ConcatProperties DEF hg
<1>3. /\ dx \in Seq(Body) /\ Len(dx) = L + M
      /\ \A i \in 1 .. L + M : dx[i] = IF i <= L THEN d[i] ELSE x[i - L]
  BY ONLY d \in Seq(Body), x \in Seq(Body), ConcatProperties
<1>4. DOMAIN hg = 1 .. L + M /\ DOMAIN dx = 1 .. L + M
  <2> HIDE DEF hg, dx, L, M
  <2> QED
    BY <1>2, <1>3, LenProperties
<1> HIDE DEF hg, dx, L, M
<1>5. ASSUME NEW i \in 1 .. L + M PROVE \E n \in 1 .. L + M : hg[n] = dx[i]
  <2>1. CASE i <= L
    <3>1. i \in 1 .. L
      BY <1>1, <2>1
    <3>2. PICK n \in 1 .. L : h[n] = d[i]
      BY <1>1, <3>1 DEF Covers
    <3>3. n \in 1 .. L + M /\ n <= L
      BY <1>1
    <3> QED
      BY <1>2, <1>3, <2>1, <3>2, <3>3
  <2>2. CASE ~(i <= L)
    <3>1. i - L \in 1 .. M
      BY <1>1, <2>2
    <3>2. PICK n \in 1 .. M : g[n] = x[i - L]
      BY <1>1, <3>1 DEF Covers
    <3>3. L + n \in 1 .. L + M /\ ~(L + n <= L) /\ (L + n) - L = n
      BY <1>1
    <3>4. hg[L + n] = g[n]
      BY <1>2, <3>3
    <3>5. dx[i] = x[i - L]
      BY <1>3, <2>2
    <3> QED
      BY <3>2, <3>3, <3>4, <3>5
  <2> QED
    BY <2>1, <2>2
<1> QED
  BY <1>2, <1>3, <1>4, <1>5 DEF Covers, hg, dx

LEMMA PollHandled ==
    ASSUME LineInv, Handled, NEW e \in Ends, Poll(e)
    PROVE  Handled'
<1>0. Typed
  BY DEF LineInv
<1>1. PICK sent \in End : PolledWith(e, sent)
  BY PollLine
<1>2. PICK n, reset : reset \in BOOLEAN /\ Polled(e, n, sent, reset)
  BY <1>1 DEF PolledWith
<1> DEFINE d == accepted["device"]
           x == sent.rx
<1>3. d \in Seq(Body) /\ x \in Seq(Body)
  BY <1>0, EndTyped DEF Typed, Ends
<1>4. CASE e = "host"
  <2>1. handed' = handed /\ accepted'["device"] = accepted["device"]
    BY <1>0, <1>2, <1>4 DEF Polled, Typed
  <2> QED
    BY <2>1 DEF Handled
<1>5. CASE e = "device"
  <2>1. accepted'["device"] = IF reset THEN x ELSE d \o x
    BY <1>0, <1>2, <1>5 DEF Polled, Typed
  <2>2. PICK h \in Handings(x) : handed' = IF reset THEN h ELSE handed \o h
    BY <1>2, <1>5 DEF Polled
  <2>3. Covers(h, x) /\ Covers(handed, d)
    BY <1>3, HandingCovers DEF Handled
  <2> HIDE DEF d, x
  <2>4. CASE reset
    BY <2>1, <2>2, <2>3, <2>4 DEF Handled
  <2>5. CASE ~reset
    <3>1. Covers(handed \o h, d \o x)
      BY <1>3, <2>3, CoversMore
    <3> QED
      BY <2>1, <2>2, <2>5, <3>1 DEF Handled
  <2> QED
    BY <2>4, <2>5
<1> QED
  BY <1>4, <1>5 DEF Ends

LEMMA NextHandled ==
    ASSUME LineInv, Handled, [Next]_vars
    PROVE  Handled'
<1>1. CASE UNCHANGED vars
  BY <1>1 DEF vars, Handled
<1>2. ASSUME NEW e \in Ends, QueueFrame(e) \/ SendFrame(e) \/ Lose(e) \/ IdleTimeout(e)
      PROVE  Handled'
  <2>1. UNCHANGED <<accepted, handed>>
    BY <1>2 DEF QueueFrame, SendFrame, Lose, IdleTimeout
  <2> QED
    BY <2>1 DEF Handled
<1>3. ASSUME NEW sendsReset \in BOOLEAN, Disconnect(sendsReset) PROVE Handled'
  <2>1. handed' = handed /\ accepted'["device"] = accepted["device"]
    BY <1>3 DEF Disconnect, LineInv, Typed
  <2> QED
    BY <2>1 DEF Handled
<1>4. CASE Connect \/ Unplug \/ Plug
  <2>1. UNCHANGED <<accepted, handed>>
    BY <1>4 DEF Connect, Unplug, Plug
  <2> QED
    BY <2>1 DEF Handled
<1> QED
  BY <1>1, <1>2, <1>3, <1>4, PollHandled DEF Next

\* The device calls its application once for each frame it has taken since
\* the last reset, in whatever order.
THEOREM HandledAlways == Spec => []Handled
<1>1. Init => Handled
  <2> SUFFICES ASSUME Init PROVE Handled
    OBVIOUS
  <2>1. handed = <<>> /\ accepted["device"] = <<>>
    BY DEF Init, Ends
  <2>2. <<>> \in Seq(Body) /\ Len(<<>>) = 0 /\ DOMAIN <<>> = {}
    OBVIOUS
  <2> QED
    BY <2>1, <2>2 DEF Handled, Covers
<1>2. LineInv /\ Handled /\ [Next]_vars => Handled'
  BY NextHandled
<1> QED
  BY <1>1, <1>2, LineAlways, PTL DEF Spec
-----------------------------------------------------------------------------
(* What the invariant says of the state.                                   *)

\* As many times of sending are compared as there are frames in the window.
LEMMA OrderLength ==
    ASSUME NEW s \in End, OrderOK(s)
    PROVE  /\ Len(s.order) = InWindow(s)
           /\ \A i \in DOMAIN s.order : Off(s.order[i], s.snMin) < InWindow(s)
<1> DEFINE n == Len(s.order)
           W == InWindow(s)
           f == [i \in 1 .. n |-> Off(s.order[i], s.snMin)]
<1>1. s.order \in Seq(Number) /\ W \in Nat /\ W \in Number /\ s.snMin \in Number /\ s.snMin \in Int
      /\ n \in Nat /\ DOMAIN s.order = 1 .. n
  BY EndTyped, LenProperties
<1>2. \A i \in 1 .. n : s.order[i] \in Number /\ s.order[i] \in Range(s.order)
  BY <1>1, ElementOfSeq DEF Range
<1>3. \A q \in Number : q \in Range(s.order) <=> Off(q, s.snMin) < W
  BY DEF OrderOK
<1>4. \A i \in 1 .. n : f[i] = Off(s.order[i], s.snMin) /\ f[i] \in Nat /\ f[i] < W
  <2> TAKE i \in 1 .. n
  <2>1. s.order[i] \in Number /\ s.order[i] \in Int /\ Off(s.order[i], s.snMin) < W
    BY <1>2, <1>3, Numbers
  <2> QED
    BY <1>1, <2>1, OffNat
<1>5. \A i \in 1 .. n : f[i] \in 0 .. W - 1
  <2> HIDE DEF f, n, W
  <2> QED
    BY <1>1, <1>4
<1>6. \A i, j \in 1 .. n : f[i] = f[j] => i = j
  <2> TAKE i, j \in 1 .. n
  <2> HAVE f[i] = f[j]
  <2>1. s.order[i] = s.order[j]
    BY <1>1, <1>2, <1>4, SamePlace
  <2> QED
    BY <1>1, <2>1 DEF OrderOK
<1>7. \A t \in 0 .. W - 1 : \E i \in 1 .. n : f[i] = t
  <2> TAKE t \in 0 .. W - 1
  <2>1. t \in Number /\ t \in Int
    <3> HIDE DEF W
    <3> QED
      BY <1>1, Sizes DEF Number
  <2>2. t < W
    <3> HIDE DEF W
    <3> QED
      BY <1>1
  <2> DEFINE q == Step(s.snMin, t)
  <2>3. q \in Number /\ Off(q, s.snMin) = t
    BY <1>1, <2>1, StepTyped, Place
  <2>4. q \in Range(s.order)
    BY <1>3, <2>2, <2>3
  <2>5. PICK i \in 1 .. n : s.order[i] = q
    BY <1>1, <2>4 DEF Range
  <2> QED
    BY <2>3, <2>5
<1>8. f \in Bijection(1 .. n, 0 .. W - 1)
  <2>1. f \in [1 .. n -> 0 .. W - 1]
    BY <1>5
  <2> HIDE DEF f, n, W
  <2> QED
    BY <1>6, <1>7, <2>1 DEF Bijection, Injection, Surjection, IsInjective
<1> HIDE DEF f, n, W
<1>9. n = W
  <2>1. ExistsBijection(1 .. n, 0 .. W - 1)
    BY <1>8 DEF ExistsBijection
  <2>2. IsFiniteSet(1 .. n) /\ Cardinality(1 .. n) = n
    <3>1. 1 \in Int /\ n \in Int
      BY <1>1
    <3>2. IsFiniteSet(1 .. n) /\ Cardinality(1 .. n) = IF 1 > n THEN 0 ELSE n - 1 + 1
      BY <3>1, FS_Interval
    <3>3. (IF 1 > n THEN 0 ELSE n - 1 + 1) = n
      BY <1>1
    <3> QED
      BY <3>2, <3>3
  <2>3. Cardinality(0 .. W - 1) = W
    <3>1. 0 \in Int /\ W - 1 \in Int
      BY <1>1
    <3>2. Cardinality(0 .. W - 1) = IF 0 > W - 1 THEN 0 ELSE (W - 1) - 0 + 1
      BY <3>1, FS_Interval
    <3>3. (IF 0 > W - 1 THEN 0 ELSE (W - 1) - 0 + 1) = W
      BY <1>1
    <3> QED
      BY <3>2, <3>3
  <2>4. Cardinality(0 .. W - 1) = Cardinality(1 .. n)
    BY <2>1, <2>2, FS_Bijection
  <2> QED
    BY <2>2, <2>3, <2>4
<1>10. \A i \in DOMAIN s.order : Off(s.order[i], s.snMin) < W
  BY <1>1, <1>2, <1>3
<1> QED
  BY <1>9, <1>10 DEF n, W

\* In the same session the line carries the two streams.
LEMMA InStepLinked == LineInv /\ InStep => Linked
<1> SUFFICES ASSUME LineInv, InStep PROVE Linked
  OBVIOUS
<1>1. session["host"] \in Nat /\ session["device"] \in Nat
  BY DEF LineInv, Typed, Ends
<1>2. ~Parted
  BY <1>1 DEF Parted, InStep
<1> QED
  BY <1>2 DEF LineInv

LEMMA TypeHolds == LineInv => TMinTypeOK
<1> SUFFICES ASSUME LineInv PROVE TMinTypeOK
  OBVIOUS
<1>0. Typed
  BY DEF LineInv
<1>1. session["device"] <= session["host"] /\ session["host"] <= MaxSession
      /\ session["host"] \in Nat /\ session["device"] \in Nat /\ MaxSession \in Nat
  <2>1. session["host"] \in Nat /\ session["device"] \in Nat
    BY <1>0 DEF Typed, Ends
  <2>2. session["host"] = session["device"] \/ session["device"] < session["host"]
    BY DEF LineInv, Linked, Parted
  <2>3. MaxSession \in Nat
    BY WindowAssumption
  <2>4. session["host"] <= MaxSession
    BY <1>0 DEF Typed
  <2> DEFINE h == session["host"]
             d == session["device"]
  <2> HIDE DEF h, d
  <2>5. d <= h
    <3>1. h \in Nat /\ d \in Nat /\ (h = d \/ d < h)
      BY <2>1, <2>2 DEF h, d
    <3> QED
      BY ONLY <3>1
  <2> QED
    BY <2>1, <2>3, <2>4, <2>5 DEF h, d
<1>2. ASSUME NEW e \in Ends PROVE ep[e].fifo \in Seq(Bodies)
  <2> DEFINE s == ep[e]
             k == session[e]
             A == Acked(queued[e], s)
  <2>1. s \in End /\ queued[e] \in Nat /\ k \in Nat
    BY <1>0, <1>2, TypedEnd
  <2>2. k \in 0 .. MaxSession
    BY <1>1, <1>2, <2>1 DEF Ends
  <2>4. SenderOK(k, queued[e], s)
    BY <1>2 DEF LineInv, Alone, Sound
  <2>5. s.fifo \in Seq(Bodies)
    <3>1. A \in Nat /\ Len(s.fifo) \in Nat /\ DOMAIN s.fifo = 1 .. Len(s.fifo) /\ s.fifo \in Seq(Body)
      BY <1>2, <2>1, <2>4, Amounts, EndTyped
    <3>2. \A i \in 1 .. Len(s.fifo) : s.fifo[i] \in Bodies
      <4> TAKE i \in 1 .. Len(s.fifo)
      <4>1. s.fifo[i] = <<k, A + i>>
        BY <2>4, <3>1 DEF SenderOK
      <4> HIDE DEF A
      <4>2. A + i \in Nat
        BY <3>1
      <4> QED
        BY <2>2, <4>1, <4>2 DEF Bodies
    <3> DEFINE f == s.fifo
               n == Len(s.fifo)
    <3>3. f \in [1 .. n -> Body]
      BY <3>1
    <3>4. \A i \in 1 .. n : f[i] \in Bodies
      BY <3>2
    <3>5. n \in Nat
      BY <3>1
    <3> HIDE DEF f, n
    <3>6. f \in [1 .. n -> Bodies]
      BY <3>3, <3>4
    <3> QED
      BY <3>5, <3>6, IsSeq DEF f
  <2> QED
    BY <2>5
<1>3. ASSUME NEW e \in Ends
      PROVE  /\ {ep[e].snMin, ep[e].snMax, ep[e].rn} \subseteq Number
             /\ DOMAIN ep[e].stash \subseteq Number
             /\ ep[e].nack \in {NoSeq} \cup Number
             /\ ep[e].rx = <<>> /\ ep[e].out = <<>>
  BY <1>0, <1>3, TypedEnd, EndTyped
<1>4. ASSUME NEW e \in Ends PROVE Len(wire[e]) <= LinkCap + 1
  <2>1. Len(wire[e]) \in Nat
    BY <1>0, TypedEnd
  <2>2. /\ Len(wire["device"]) <= LinkCap
        /\ Len(wire["host"]) <= LinkCap + (IF open THEN 0 ELSE 1)
    BY <1>0 DEF Typed
  <2>3. e = "device" \/ e = "host"
    BY DEF Ends
  <2> QED
    BY <2>1, <2>2, <2>3, Sizes
<1>5. faults \in 0 .. MaxFaults
  BY <1>0 DEF Typed
<1> QED
  BY <1>1, <1>2, <1>3, <1>4, <1>5 DEF TMinTypeOK, Number

LEMMA WindowHolds == LineInv => WindowSound
<1> SUFFICES ASSUME LineInv, NEW e \in Ends
             PROVE  LET s == ep[e] IN
                    /\ InWindow(s) <= Window /\ InWindow(s) <= Len(s.fifo)
                    /\ Len(s.order) = InWindow(s)
                    /\ \A i \in DOMAIN s.order : Off(s.order[i], s.snMin) < InWindow(s)
  BY DEF WindowSound
<1>0. ep[e] \in End
  BY TypedEnd DEF LineInv
<1>1. SenderOK(session[e], queued[e], ep[e]) /\ OrderOK(ep[e])
  BY DEF LineInv, Alone, Sound
<1> QED
  BY <1>0, <1>1, OrderLength DEF SenderOK

\* Seen from the sender, what is kept lies behind what was accepted.
LEMMA StashHolds == LineInv => StashIsAhead
<1> SUFFICES ASSUME LineInv, InStep,
                    NEW q \in DOMAIN ep["host"].stash
             PROVE  LET h == ep["host"]  d == ep["device"] IN
                    /\ Off(q, h.rn) \in 1..(RxWindow - 1)
                    /\ Off(q, d.snMin) < InWindow(d)
                    /\ h.stash[q] = d.fifo[1 + Off(q, d.snMin)]
  BY DEF StashIsAhead
<1> DEFINE h == ep["host"]
           d == ep["device"]
           k == session["device"]
           Q == queued["device"]
           D == Len(accepted["host"])
           A == Acked(Q, d)
           W == InWindow(d)
           j == Off(q, h.rn)
           x == Off(q, d.snMin)
           y == Off(h.rn, d.snMin)
<1>0. Typed /\ "host" \in Ends /\ "device" \in Ends
  BY DEF LineInv, Ends
<1>1. h \in End /\ d \in End /\ Q \in Nat /\ k \in Nat /\ D \in Nat
  BY <1>0, TypedEnd, LenProperties
<1>2. Linked
  BY InStepLinked
<1>3. SenderOK(k, Q, d) /\ ReceiverOK(k, Q, d, h, accepted["host"])
  BY <1>2 DEF Linked, Pair, Stream
<1>4. A \in Nat /\ W \in Nat /\ Sent(Q, d) = A + W /\ W <= Len(d.fifo) /\ Len(d.fifo) \in Nat
      /\ W < SeqCount /\ DOMAIN d.fifo = 1 .. Len(d.fifo)
  <2>1. W \in Number /\ DOMAIN d.fifo = 1 .. Len(d.fifo)
    BY <1>1, EndTyped
  <2>2. W < SeqCount
    <3> HIDE DEF W
    <3> QED
      BY <2>1, Sizes DEF Number
  <2> QED
    BY <1>1, <1>3, <2>1, <2>2, Amounts
<1>5. /\ j \in 1 .. RxWindow - 1 /\ D + 1 + j <= A + W /\ h.stash[q] = <<k, D + 1 + j>>
      /\ y = D - A /\ A <= D
  BY <1>3, <1>4 DEF ReceiverOK
<1>6. q \in Int /\ h.rn \in Int /\ d.snMin \in Int /\ j \in Nat /\ y \in Nat /\ x \in Nat /\ q \in Number
  BY <1>1, StashPlaces, EndTyped, OffNat
<1>7. x = j + y
  <2>1. q = Step(h.rn, j) /\ h.rn = Step(d.snMin, y)
    BY <1>1, <1>6, Placed, EndTyped
  <2> DEFINE rn == h.rn
             from == d.snMin
  <2>2. rn = Step(from, y) /\ q = Step(rn, j) /\ from \in Int /\ y \in Int /\ j \in Int
    BY <1>6, <2>1
  <2>3. y + j \in Number
    <3> HIDE DEF j, y, D, A, W
    <3> QED
      BY <1>1, <1>4, <1>5, <1>6, Sizes DEF Number
  <2> HIDE DEF j, y, rn, from
  <2>4. q = Step(from, y + j)
    BY <2>2, StepStep
  <2>5. Off(Step(from, y + j), from) = y + j
    BY <2>2, <2>3, Place
  <2>6. Off(q, from) = y + j
    BY <2>4, <2>5
  <2>7. y + j = j + y
    BY <2>2
  <2> QED
    BY <2>6, <2>7 DEF from
<1> HIDE DEF j, x, y, D, A, W
<1>8. x < W /\ 1 + x \in 1 .. Len(d.fifo) /\ A + (1 + x) = D + 1 + j
  BY <1>1, <1>4, <1>5, <1>6, <1>7
<1>9. d.fifo[1 + x] = <<k, A + (1 + x)>>
  BY <1>3, <1>4, <1>8 DEF SenderOK, A
<1>10. h.stash[q] = d.fifo[1 + x]
  BY <1>5, <1>8, <1>9
<1> QED
  BY <1>5, <1>8, <1>10 DEF j, x, W

LEMMA NackHolds == LineInv => NackIsAnswerable
<1> SUFFICES ASSUME LineInv, InStep, wire["host"] # <<>>, Head(wire["host"]).kind = "ack"
             PROVE  LET m == Head(wire["host"])
                        left == InWindow(ep["device"]) - Off(m.seq, ep["device"].snMin)
                    IN  left >= 0 => Off(m.to, m.seq) <= left
  BY DEF NackIsAnswerable
<1> DEFINE s == ep["device"]
           Q == queued["device"]
           m == Head(wire["host"])
           x == Off(m.seq, s.snMin)
           y == Off(m.to, m.seq)
<1>0. Typed /\ "host" \in Ends /\ "device" \in Ends
  BY DEF LineInv, Ends
<1>1. s \in End
  BY <1>0, TypedEnd
<1>2. ASSUME NEW w \in Seq(Message), w # <<>>, NEW d, AcksOK(Q, s, d, w), m = Head(w)
      PROVE  m \in Message /\ x + y <= InWindow(s)
  <2>1. 1 \in DOMAIN w /\ m = w[1] /\ m \in Message
    <3>1. Len(w) \in Nat /\ DOMAIN w = 1 .. Len(w) /\ Len(w) # 0
      BY <1>2, LenProperties, EmptySeq
    <3>2. 1 \in 1 .. Len(w)
      BY <3>1
    <3> QED
      BY <1>2, <3>1, <3>2, ElementOfSeq
  <2>2. w[1].kind = "ack"
    BY <2>1
  <2>3. AckOK(Q, s, d, w[1])
    BY <1>2, <2>1, <2>2 DEF AcksOK
  <2> QED
    BY <2>1, <2>3 DEF AckOK
<1>3. m \in Message /\ x + y <= InWindow(s)
  <2>1. Linked
    BY InStepLinked
  <2>2. wire["host"] \in Seq(Message) /\ AcksOK(Q, s, accepted["host"], wire["host"])
    BY <2>1 DEF Linked, Pair, Stream, Line
  <2> QED
    BY <1>2, <2>2
<1>4. x \in Nat /\ y \in Nat /\ InWindow(s) \in Nat
  BY <1>1, <1>3, OffNat, EndTyped, MessageTyped
<1> HIDE DEF x, y, s
<1>5. y <= InWindow(s) - x
  BY <1>3, <1>4
<1> QED
  BY <1>5 DEF x, y, s

LEMMA AcceptedHolds == LineInv => AcceptedInOrder
<1> SUFFICES ASSUME LineInv, InStep, NEW e \in Ends
             PROVE  accepted[e] = [i \in 1..Len(accepted[e]) |-> <<session["host"], i>>]
  BY DEF AcceptedInOrder
<1> DEFINE d == accepted[e]
           k == session["host"]
<1>1. d \in Seq(Body) /\ Len(d) \in Nat /\ DOMAIN d = 1 .. Len(d) /\ d = [i \in 1 .. Len(d) |-> d[i]]
  <2>1. d \in Seq(Body)
    BY TypedEnd DEF LineInv
  <2> HIDE DEF d
  <2>2. Len(d) \in Nat /\ DOMAIN d = 1 .. Len(d) /\ d \in [1 .. Len(d) -> Body]
    BY <2>1, LenProperties
  <2> QED
    BY <2>1, <2>2
<1>2. Linked /\ session[e] = k
  BY InStepLinked DEF InStep, Ends
<1>3. \A i \in DOMAIN d : d[i] = <<k, i>>
  BY <1>2, LinkedTurned DEF Pair, Stream, ReceiverOK
<1> HIDE DEF d, k
<1>4. d = [i \in 1 .. Len(d) |-> <<k, i>>]
  BY <1>1, <1>3
<1> QED
  BY <1>4 DEF d, k

LEMMA HandedHolds == LineInv /\ Handled => HandedOnce
<1> SUFFICES ASSUME LineInv, Handled, InStep PROVE HandedOnce
  BY DEF HandedOnce
<1> DEFINE d == accepted["device"]
           k == session["host"]
<1>1. d = [i \in 1 .. Len(d) |-> <<k, i>>]
  BY AcceptedHolds DEF AcceptedInOrder, Ends
<1>2. Len(handed) = Len(d) /\ \A i \in DOMAIN d : \E n \in DOMAIN handed : handed[n] = d[i]
  BY DEF Handled, Covers
<1> HIDE DEF d, k
<1>3. ASSUME NEW i \in DOMAIN d PROVE \E n \in DOMAIN handed : handed[n] = <<k, i>>
  <2>1. d[i] = <<k, i>>
    BY <1>1
  <2> QED
    BY <1>2, <2>1
<1> QED
  BY <1>2, <1>3 DEF HandedOnce, d, k

LEMMA AckedHolds == LineInv => AckedWasAccepted
<1> SUFFICES ASSUME LineInv, InStep, NEW e \in Ends, NEW i \in 1..(queued[e] - Len(ep[e].fifo))
             PROVE  <<session["host"], i>> \in {accepted[Peer(e)][j] : j \in DOMAIN accepted[Peer(e)]}
  BY DEF AckedWasAccepted
<1> DEFINE d == accepted[Peer(e)]
           k == session["host"]
           A == Acked(queued[e], ep[e])
<1>1. /\ Peer(e) \in Ends /\ ep[e] \in End /\ queued[e] \in Nat /\ d \in Seq(Body)
      /\ Len(ep[e].fifo) \in Nat
  BY TypedEnd, EndTyped DEF LineInv
<1>2. Linked /\ session[e] = k
  BY InStepLinked DEF InStep, Ends
<1>3. SenderOK(k, queued[e], ep[e]) /\ ReceiverOK(k, queued[e], ep[e], ep[Peer(e)], d)
  BY <1>2, LinkedTurned DEF Pair, Stream
<1>4. A \in Nat /\ A <= Len(d) /\ \A j \in DOMAIN d : d[j] = <<k, j>>
  BY <1>1, <1>3, Amounts DEF ReceiverOK
<1>5. Len(d) \in Nat /\ DOMAIN d = 1 .. Len(d) /\ i \in 1 .. A
  BY <1>1, LenProperties DEF Acked
<1> HIDE DEF d, k, A
<1>6. i \in DOMAIN d
  BY <1>4, <1>5
<1> QED
  BY <1>4, <1>6 DEF d, k

\* However frames and acknowledgements cross, are lost and are sent again, and
\* through crashes and lost RESETs: the window of an end fits its FIFO, and in
\* the same session what the host keeps for later fits the window of the
\* device (_min_frame_received, transport_fifo_get).
THEOREM EndsAlwaysAgree == Spec => []EndsAgree
<1>1. LineInv => EndsAgree
  BY TypeHolds, WindowHolds, StashHolds DEF EndsAgree
<1> QED
  BY <1>1, LineAlways, PTL

\* In the same session a NACK of the host asks only for frames the device has
\* in its window: min.c resends that many slots of its FIFO without looking.
THEOREM NackAlwaysAnswerable == Spec => []NackIsAnswerable
BY NackHolds, LineAlways, PTL

\* In the same session each end takes what the other one queued, each frame
\* once, in order, from the first on; and the device calls its application
\* once for each frame, whatever order the nested polls of its sending put
\* the calls in (min_application_handler, min_tx_finished).
THEOREM AlwaysDeliveredOnce == Spec => []DeliveredOnce
<1>1. LineInv /\ Handled => DeliveredOnce
  BY AcceptedHolds, HandedHolds DEF DeliveredOnce
<1> QED
  BY <1>1, LineAlways, HandledAlways, PTL

\* In the same session a frame leaves the FIFO of its sender only when the
\* other end has taken it ("will be retransmitted until accepted").
THEOREM AlwaysAckedWasAccepted == Spec => []AckedWasAccepted
BY AckedHolds, LineAlways, PTL
=============================================================================
