----------------------------- MODULE NodeProofs -----------------------------
(***************************************************************************)
(* The channel executor for any tables, outputs, pins and delays: the      *)
(* channels lie in the storage one behind the other, in the order of the   *)
(* table (Ordered, Within), and only timers run (OnlyTimersRun).  What one *)
(* cycle, or one upload, does to the tables and the outputs is a fold over *)
(* channels, links or entries; each is followed step by step.              *)
(*                                                                         *)
(* Then the node that saves it: saving a configuration and starting from   *)
(* it implement SavedConfig, for any configurations of any length,         *)
(* wherever the power fails and whichever words do not take.  The          *)
(* invariant follows the programming of the sector: the words are a prefix *)
(* of the buffer's image in which some may be erased, so that what is in   *)
(* the sector is not a configuration before the last word is in.           *)
(***************************************************************************)
EXTENDS NodeConfig, Inductions, SequenceTheorems, TLAPS

Link == [id : Ids, source : Ids \cup Inputs \cup {NoRef}, hw : Nat]
Tables == [channels : Seq(Channel), links : Seq(Link), used : Nat]
Outputs == [reported : [Hardware -> BOOLEAN], pins : [Pins -> BOOLEAN]]

\* Where the configuration of a channel ends in the storage.
EndOf(c) == c.addr + SizeOf[c.type]

\* The channels lie in the storage in the order of the table.
Ordered(t) == \A i, j \in DOMAIN t : i < j => EndOf(t[i]) <= t[j].addr
Within(t, n) == \A i \in DOMAIN t : EndOf(t[i]) <= n
OnlyTimersRun(t) == \A i \in DOMAIN t : t[i].running => t[i].type = "TIMER"

Sound(x) ==
    /\ x \in Tables /\ Len(x.channels) <= MaxChannels /\ Len(x.links) <= MaxLinks
    /\ x.used <= StorageSize
    /\ Ordered(x.channels) /\ Within(x.channels, x.used) /\ OnlyTimersRun(x.channels)

ExecInv ==
    /\ Sound(exec)
    /\ outputs \in Outputs
    /\ din \in [Inputs -> {0, 1}] /\ clock \in 0 .. ClockMod - 1
-----------------------------------------------------------------------------
(* Operations on the tables.                                               *)

LEMMA ExecSizes ==
    /\ NumOutputs \in Nat /\ NumPins \in Nat /\ MaxChannels \in Nat /\ MaxLinks \in Nat
    /\ StorageSize \in Nat /\ MaxDelay \in Nat /\ MaxDelay >= 1
    /\ ClockMod \in Nat /\ ClockMod > MaxDelay
    /\ \A t \in VirtualTypes : SizeOf[t] \in Nat /\ SizeOf[t] > 0
    /\ NoRef \notin Ids \cup Inputs
BY ExecAssumption

LEMMA ChannelTyped ==
    ASSUME NEW c \in Channel
    PROVE  /\ c.id \in Ids /\ c.type \in VirtualTypes /\ c.addr \in Nat
           /\ c.delay \in 0 .. MaxDelay /\ c.elapsed \in 0 .. MaxDelay /\ c.value \in 0 .. MaxDelay
           /\ c.start \in 0 .. ClockMod - 1 /\ c.running \in BOOLEAN /\ c.enabled \in BOOLEAN
           /\ c.last \in BOOLEAN /\ EndOf(c) \in Nat /\ c.addr < EndOf(c)
<1>1. c.addr \in Nat /\ SizeOf[c.type] \in Nat /\ SizeOf[c.type] > 0
  BY ExecSizes DEF Channel
<1> QED
  BY <1>1 DEF Channel, EndOf

LEMMA EmptySound == Sound(EmptyExec)
<1>1. EmptyExec \in Tables
  BY EmptySeq DEF EmptyExec, Tables
<1>2. Len(EmptyExec.channels) = 0 /\ Len(EmptyExec.links) = 0 /\ DOMAIN EmptyExec.channels = {}
  BY DEF EmptyExec
<1> QED
  BY <1>1, <1>2, ExecSizes DEF Sound, Ordered, Within, OnlyTimersRun, EmptyExec

\* A new channel is put behind the others, in the table and in the storage.
LEMMA AddSound ==
    ASSUME NEW x, Sound(x), NEW e \in Entry, e.id # NoRef
    PROVE  Sound(AddEntry(x, e))
<1>0. /\ x \in Tables /\ x.channels \in Seq(Channel) /\ x.links \in Seq(Link) /\ x.used \in Nat
      /\ Len(x.channels) \in Nat /\ Len(x.links) \in Nat
  BY DEF Sound, Tables
<1>e. /\ e.id \in Ids /\ e.source \in Ids \cup Inputs \cup {NoRef} /\ e.delay \in 0 .. MaxDelay
      /\ e.rule \in Rules /\ e.hw \in Nat
  BY DEF Entry
<1>1. CASE e.type \in VirtualTypes /\ HasRoom(x, e)
  <2> DEFINE c == [id |-> e.id, type |-> e.type, rule |-> e.rule, source |-> e.source,
                   delay |-> e.delay, enabled |-> TRUE, value |-> 0, addr |-> x.used,
                   running |-> FALSE, start |-> 0, elapsed |-> 0, last |-> FALSE]
             t == Append(x.channels, c)
             n == x.used + SizeOf[e.type]
  <2>1. c \in Channel
    BY <1>0, <1>1, <1>e, ExecSizes DEF Channel, Sound
  <2>2. AddEntry(x, e) = [x EXCEPT !.used = n, !.channels = t]
    <3>1. AddEntry(x, e) = AddChannel(x, e)
      BY <1>1 DEF AddEntry, VirtualTypes
    <3> QED
      BY <1>1, <3>1 DEF AddChannel
  <2>c. c.addr = x.used /\ EndOf(c) = n /\ c.running = FALSE /\ n \in Nat /\ n >= x.used
    BY <1>0, <1>1, ExecSizes DEF EndOf
  <2>3. n <= StorageSize /\ Len(x.channels) < MaxChannels
    BY <1>1 DEF HasRoom
  <2> HIDE DEF c, n
  <2>4. /\ t \in Seq(Channel) /\ Len(t) = Len(x.channels) + 1
        /\ \A i \in 1 .. Len(x.channels) : t[i] = x.channels[i] /\ t[i] \in Channel
        /\ t[Len(x.channels) + 1] = c
    BY <1>0, <2>1, AppendProperties, ElementOfSeq
  <2>5. DOMAIN t = 1 .. Len(t) /\ DOMAIN x.channels = 1 .. Len(x.channels)
    BY <1>0, <2>4, LenProperties
  <2> HIDE DEF t
  <2> DEFINE y == [x EXCEPT !.used = n, !.channels = t]
  <2>6. y \in Tables /\ y.used = n /\ y.channels = t /\ y.links = x.links
    BY <1>0, <2>c, <2>4 DEF Tables
  <2>7. \A i \in DOMAIN t : i \in 1 .. Len(x.channels) \/ i = Len(x.channels) + 1
    BY <1>0, <2>4, <2>5
  <2>8. Within(t, n)
    <3> SUFFICES ASSUME NEW i \in DOMAIN t PROVE EndOf(t[i]) <= n
      BY DEF Within
    <3>1. CASE i \in 1 .. Len(x.channels)
      <4>1. EndOf(t[i]) <= x.used /\ EndOf(t[i]) \in Nat
        BY <2>4, <2>5, <3>1, ChannelTyped DEF Sound, Within
      <4> QED
        BY <1>0, <2>c, <4>1
    <3>2. CASE i = Len(x.channels) + 1
      BY <2>4, <2>c, <3>2
    <3> QED
      BY <2>7, <3>1, <3>2
  <2>9. Ordered(t)
    <3> SUFFICES ASSUME NEW i \in DOMAIN t, NEW j \in DOMAIN t, i < j PROVE EndOf(t[i]) <= t[j].addr
      BY DEF Ordered
    <3>1. i \in 1 .. Len(x.channels)
      BY <1>0, <2>4, <2>5
    <3>2. CASE j \in 1 .. Len(x.channels)
      BY <2>4, <2>5, <3>1, <3>2 DEF Sound, Ordered
    <3>3. CASE j = Len(x.channels) + 1
      BY <2>4, <2>5, <2>c, <3>1, <3>3 DEF Sound, Within
    <3> QED
      BY <2>7, <3>2, <3>3
  <2>10. OnlyTimersRun(t)
    BY <2>4, <2>5, <2>7, <2>c DEF Sound, OnlyTimersRun
  <2>11. Len(t) <= MaxChannels /\ Len(x.links) <= MaxLinks
    BY <1>0, <2>3, <2>4, ExecSizes DEF Sound
  <2>12. Sound(y)
    <3> HIDE DEF y
    <3> QED
      BY <2>3, <2>6, <2>8, <2>9, <2>10, <2>11 DEF Sound
  <2> QED
    BY <2>2, <2>12
<1>2. CASE e.type = "POWER_OUTPUT" /\ e.source # NoRef /\ Len(x.links) < MaxLinks
  <2> DEFINE l == [id |-> e.id, source |-> e.source, hw |-> e.hw]
  <2>1. l \in Link
    BY <1>e DEF Link
  <2>2. AddEntry(x, e) = [x EXCEPT !.links = Append(x.links, l)]
    BY <1>0, <1>2, ExecSizes DEF AddEntry, AddOutputLink, VirtualTypes
  <2> HIDE DEF l
  <2>3. Append(x.links, l) \in Seq(Link) /\ Len(Append(x.links, l)) <= MaxLinks
    BY <1>0, <1>2, <2>1, ExecSizes
  <2> DEFINE s == Append(x.links, l)
             y == [x EXCEPT !.links = s]
  <2>4. s \in Seq(Link) /\ Len(s) <= MaxLinks /\ AddEntry(x, e) = y
    BY <2>2, <2>3
  <2> HIDE DEF s
  <2>5. y \in Tables /\ y.links = s /\ y.channels = x.channels /\ y.used = x.used
    BY <1>0, <2>4 DEF Tables
  <2> HIDE DEF y
  <2> QED
    BY <2>4, <2>5 DEF Sound
<1>3. CASE /\ ~(e.type \in VirtualTypes /\ HasRoom(x, e))
           /\ ~(e.type = "POWER_OUTPUT" /\ e.source # NoRef /\ Len(x.links) < MaxLinks)
  <2>1. AddEntry(x, e) = x
    BY <1>0, <1>3, ExecSizes DEF AddEntry, AddChannel, AddOutputLink, VirtualTypes
  <2> QED
    BY <2>1
<1> QED
  BY <1>1, <1>2, <1>3

\* The first position of an id.
LEMMA FirstPosition ==
    ASSUME NEW t \in Seq(Channel), NEW id, Positions(t, id) # {}
    PROVE  /\ FirstOf(Positions(t, id)) \in 1 .. Len(t)
           /\ t[FirstOf(Positions(t, id))].id = id
<1>1. DOMAIN t = 1 .. Len(t) /\ Len(t) \in Nat
  BY LenProperties
<1>2. Positions(t, id) \in SUBSET Nat
  BY <1>1 DEF Positions
<1>3. \E i \in Positions(t, id) : \A j \in Positions(t, id) : i <= j
  BY <1>2, LeastOf
<1>4. FirstOf(Positions(t, id)) \in Positions(t, id)
  BY <1>3 DEF FirstOf
<1> QED
  BY <1>1, <1>4 DEF Positions

\* The channels behind the removed one move up.
LEMMA RemoveAtProperties ==
    ASSUME NEW S, NEW t \in Seq(S), NEW i \in 1 .. Len(t)
    PROVE  /\ RemoveAt(t, i) \in Seq(S) /\ Len(RemoveAt(t, i)) = Len(t) - 1
           /\ \A k \in 1 .. Len(t) - 1 : RemoveAt(t, i)[k] = t[IF k < i THEN k ELSE k + 1]
<1> DEFINE n == Len(t)
           f == SubSeq(t, 1, i - 1)
           g == SubSeq(t, i + 1, n)
<1>0. n \in Nat /\ \A k \in 1 .. n : t[k] \in S
  BY ElementOfSeq
<1>1. f \in Seq(S) /\ Len(f) = i - 1 /\ \A k \in 1 .. i - 1 : f[k] = t[k]
  <2>1. \A k \in 1 .. i - 1 : t[k] \in S
    BY <1>0
  <2>2. /\ f \in Seq(S) /\ Len(f) = IF 1 <= i - 1 THEN (i - 1) - 1 + 1 ELSE 0
        /\ \A k \in 1 .. (i - 1) - 1 + 1 : f[k] = t[1 + k - 1]
    BY <2>1, SubSeqProperties
  <2>3. i \in Int /\ i >= 1
    BY <1>0
  <2>4. \A k \in 1 .. i - 1 : 1 + k - 1 = k /\ k \in 1 .. (i - 1) - 1 + 1
    BY <2>3
  <2> HIDE DEF f
  <2> QED
    BY <2>2, <2>3, <2>4
<1>2. g \in Seq(S) /\ Len(g) = n - i /\ \A k \in 1 .. n - i : g[k] = t[i + k]
  <2>1. \A k \in i + 1 .. n : t[k] \in S
    BY <1>0
  <2>2. /\ g \in Seq(S) /\ Len(g) = IF i + 1 <= n THEN n - (i + 1) + 1 ELSE 0
        /\ \A k \in 1 .. n - (i + 1) + 1 : g[k] = t[i + 1 + k - 1]
    BY <1>0, <2>1, SubSeqProperties
  <2>3. i \in Int /\ i <= n
    BY <1>0
  <2>4. \A k \in 1 .. n - i : i + 1 + k - 1 = i + k /\ k \in 1 .. n - (i + 1) + 1
    BY <1>0, <2>3
  <2> HIDE DEF g, n
  <2> QED
    BY <1>0, <2>2, <2>3, <2>4
<1> HIDE DEF f, g
<1>3. RemoveAt(t, i) = f \o g
  BY DEF RemoveAt, f, g
<1>4. /\ f \o g \in Seq(S) /\ Len(f \o g) = Len(f) + Len(g)
      /\ \A k \in 1 .. Len(f) + Len(g) : (f \o g)[k] = IF k <= Len(f) THEN f[k] ELSE g[k - Len(f)]
  BY <1>1, <1>2, ConcatProperties
<1>5. Len(f) + Len(g) = n - 1
  BY <1>0, <1>1, <1>2
<1>6. ASSUME NEW k \in 1 .. n - 1 PROVE (f \o g)[k] = t[IF k < i THEN k ELSE k + 1]
  <2>1. CASE k < i
    <3>1. k <= Len(f) /\ k \in 1 .. i - 1
      BY <1>0, <1>1, <2>1
    <3> QED
      BY <1>1, <1>4, <1>5, <2>1, <3>1
  <2>2. CASE ~(k < i)
    <3>1. ~(k <= Len(f)) /\ k - Len(f) \in 1 .. n - i /\ i + (k - Len(f)) = k + 1
      BY <1>0, <1>1, <2>2
    <3> QED
      BY <1>2, <1>4, <1>5, <2>2, <3>1
  <2> QED
    BY <2>1, <2>2
<1> QED
  BY <1>3, <1>4, <1>5, <1>6

LEMMA RemoveSound ==
    ASSUME NEW x, Sound(x), NEW id
    PROVE  Sound(RemoveChannel(x, id))
<1>1. CASE Positions(x.channels, id) = {}
  BY <1>1 DEF RemoveChannel
<1>2. CASE Positions(x.channels, id) # {}
  <2> DEFINE i == FirstOf(Positions(x.channels, id))
             t == x.channels
             r == RemoveAt(t, i)
             y == [x EXCEPT !.channels = r]
             From(k) == IF k < i THEN k ELSE k + 1
  <2>0. x \in Tables /\ t \in Seq(Channel) /\ DOMAIN t = 1 .. Len(t) /\ Len(t) \in Nat
    BY LenProperties DEF Sound, Tables
  <2>1. RemoveChannel(x, id) = y
    BY <1>2 DEF RemoveChannel
  <2>2. i \in 1 .. Len(t)
    BY <1>2, <2>0, FirstPosition
  <2> HIDE DEF i
  <2>3. /\ r \in Seq(Channel) /\ Len(r) = Len(t) - 1
        /\ \A k \in 1 .. Len(t) - 1 : r[k] = t[From(k)]
    BY <2>0, <2>2, RemoveAtProperties
  <2>4. DOMAIN r = 1 .. Len(t) - 1
    BY <2>3, LenProperties
  <2> HIDE DEF r
  <2>5. y \in Tables /\ y.channels = r /\ y.links = x.links /\ y.used = x.used
    BY <2>0, <2>3 DEF Tables
  <2>6. /\ \A k \in 1 .. Len(t) - 1 : From(k) \in DOMAIN t
        /\ \A k, j \in 1 .. Len(t) - 1 : k < j => From(k) < From(j)
    BY <2>0, <2>2
  <2> HIDE DEF From
  <2>7. Within(r, x.used) /\ Ordered(r) /\ OnlyTimersRun(r)
    BY <2>3, <2>4, <2>6 DEF Sound, Within, Ordered, OnlyTimersRun
  <2>8. Len(r) <= MaxChannels
    BY <2>0, <2>2, <2>3, ExecSizes DEF Sound
  <2> HIDE DEF y, t
  <2>9. Sound(y)
    BY <2>5, <2>7, <2>8 DEF Sound
  <2> QED
    BY <2>1, <2>9
<1> QED
  BY <1>1, <1>2

LEMMA ReadableTyped ==
    ASSUME NEW b \in Blobs
    PROVE  Readable(b) \in Seq(Entry)
<1> DEFINE n == IF b.count <= Len(b.entries) THEN b.count ELSE Len(b.entries)
<1>1. b.count \in Nat /\ b.entries \in Seq(Entry)
  BY ExecAssumption
<1>2. n \in Nat /\ n <= Len(b.entries)
  BY <1>1
<1>3. \A i \in 1 .. n : b.entries[i] \in Entry
  BY <1>1, <1>2, ElementOfSeq
<1>4. Readable(b) = SubSeq(b.entries, 1, n)
  BY DEF Readable
<1> HIDE DEF n
<1>5. SubSeq(b.entries, 1, n) \in Seq(Entry)
  BY <1>2, <1>3, SubSeqProperties
<1> QED
  BY <1>4, <1>5

SoundTables == {x \in Tables : Sound(x)}

LEMMA LoadEntrySound ==
    ASSUME NEW x \in SoundTables, NEW e \in Entry
    PROVE  LoadEntry(x, e) \in SoundTables
<1>1. Sound(x)
  BY DEF SoundTables
<1>2. Sound(LoadEntry(x, e))
  BY <1>1, AddSound DEF LoadEntry
<1> QED
  BY <1>2 DEF SoundTables, Sound

\* A configuration is loaded entry by entry.
LEMMA LoadSteps ==
    ASSUME NEW b \in Blobs
    PROVE  \E a \in [0 .. Len(Readable(b)) -> SoundTables] :
              /\ a[0] = EmptyExec /\ LoadedBy(b) = a[Len(Readable(b))]
              /\ \A k \in 1 .. Len(Readable(b)) : a[k] = LoadEntry(a[k - 1], Readable(b)[k])
<1> DEFINE s == Readable(b)
           N == Len(s)
           F == [k \in 1 .. N |-> [x \in SoundTables |-> LoadEntry(x, s[k])]]
           Value(h, t) == IF t = {} THEN EmptyExec ELSE LoadEntry(h[t \ {Max(t)}], s[Max(t)])
<1>1. s \in Seq(Entry) /\ N \in Nat /\ DOMAIN s = 1 .. N /\ \A k \in 1 .. N : s[k] \in Entry
  BY ReadableTyped, LenProperties, ElementOfSeq
<1>2. EmptyExec \in SoundTables
  BY EmptySound DEF SoundTables, Sound
<1> HIDE DEF s
<1>3. F \in [1 .. N -> [SoundTables -> SoundTables]]
  BY <1>1, LoadEntrySound
<1>t. ASSUME NEW t \in SUBSET (1 .. N), t # {} PROVE Max(t) \in 1 .. N /\ t \ {Max(t)} \in SUBSET (1 .. N)
  <2>1. Max(t) \in t
    BY <1>1, <1>t, MaxOf
  <2> QED
    BY <2>1
<1> HIDE DEF N
<1>f. \A k \in 1 .. N : \A x \in SoundTables : F[k][x] = LoadEntry(x, s[k])
  OBVIOUS
<1> HIDE DEF F
<1>4. \E h : h = [t \in SUBSET (1 .. N) |-> Value(h, t)]
  <2>1. PICK h \in [SUBSET (1 .. N) -> SoundTables] : Folds(h, N, SoundTables, EmptyExec, F)
    BY <1>1, <1>2, <1>3, FoldExists
  <2>2. \A t \in SUBSET (1 .. N) : h[t] = Value(h, t)
    <3> TAKE t \in SUBSET (1 .. N)
    <3>1. CASE t = {}
      BY <2>1, <3>1 DEF Folds
    <3>2. CASE t # {}
      <4>1. Max(t) \in 1 .. N /\ h[t \ {Max(t)}] \in SoundTables
        BY <1>t, <3>2
      <4>2. h[t] = F[Max(t)][h[t \ {Max(t)}]]
        BY <2>1, <3>2 DEF Folds
      <4> QED
        BY <1>f, <3>2, <4>1, <4>2
    <3> QED
      BY <3>1, <3>2
  <2>3. h = [t \in SUBSET (1 .. N) |-> h[t]]
    BY <2>1
  <2> HIDE DEF Value
  <2> QED
    BY <2>2, <2>3
<1>5. PICK h : h = [t \in SUBSET (1 .. N) |-> Value(h, t)] /\ LoadedBy(b) = h[1 .. N]
  <2>1. \E h : h = [t \in SUBSET (DOMAIN s) |-> Value(h, t)]
    BY <1>1, <1>4
  <2>2. \E h : h = [t \in SUBSET (DOMAIN s) |-> Value(h, t)] /\ LoadedBy(b) = h[DOMAIN s]
    BY <2>1 DEF LoadedBy, FoldLeft, MapThenFoldSet, s
  <2> QED
    BY <1>1, <2>2
<1>6. h[{}] = EmptyExec
  BY <1>5
<1>7. \A t \in SUBSET (1 .. N) : t # {} /\ h[t \ {Max(t)}] \in SoundTables =>
         h[t] = F[Max(t)][h[t \ {Max(t)}]]
  <2> TAKE t \in SUBSET (1 .. N)
  <2> HAVE t # {} /\ h[t \ {Max(t)}] \in SoundTables
  <2>1. Max(t) \in 1 .. N
    BY <1>t
  <2>2. h[t] = Value(h, t)
    BY <1>5
  <2> QED
    BY <1>f, <2>1, <2>2
<1>8. Follows(h, N, SoundTables, EmptyExec, F)
  BY <1>6, <1>7 DEF Follows
<1>9. PICK a : Through(a, N, SoundTables, EmptyExec, F) /\ h[1 .. N] = a[N]
  BY <1>1, <1>2, <1>3, <1>8, FoldSteps
<1>10. ASSUME NEW k \in 1 .. N PROVE a[k] = LoadEntry(a[k - 1], s[k])
  <2>1. k - 1 \in 0 .. N
    BY <1>1
  <2> QED
    BY <1>9, <1>f, <2>1 DEF Through
<1>11. LoadedBy(b) = a[N]
  BY <1>5, <1>9
<1> QED
  BY <1>9, <1>10, <1>11 DEF N, s, Through

LEMMA LoadedSound == ASSUME NEW b \in Blobs PROVE Sound(LoadedBy(b))
<1>1. LoadedBy(b) \in SoundTables
  BY LoadSteps, ReadableTyped, LenProperties
<1> QED
  BY <1>1 DEF SoundTables
-----------------------------------------------------------------------------
(* The evaluation of a tick.                                               *)

\* What the evaluation of a channel leaves alone.
Same(c, d) ==
    /\ d.id = c.id /\ d.type = c.type /\ d.rule = c.rule /\ d.source = c.source
    /\ d.delay = c.delay /\ d.enabled = c.enabled /\ d.addr = c.addr

InTime(c) == c.enabled /\ c.running => (clock' - c.start) % ClockMod < c.delay
Soundly(c, d) == d \in Channel /\ Same(c, d) /\ (d.running => d.type = "TIMER")

LEMMA ElapsedTyped ==
    ASSUME NEW now \in 0 .. ClockMod - 1, NEW start \in 0 .. ClockMod - 1
    PROVE  (now - start) % ClockMod \in Nat
<1>1. ClockMod \in Nat /\ ClockMod > 0
  BY ExecSizes
<1>2. now - start \in Int
  BY <1>1
<1> DEFINE d == now - start
<1> HIDE DEF d
<1>3. d % ClockMod \in Nat
  BY <1>1, <1>2 DEF d
<1> QED
  BY <1>3 DEF d

LEMMA StartedTyped ==
    ASSUME NEW c \in Channel, c.type = "TIMER", NEW trigger \in BOOLEAN, clock' \in 0 .. ClockMod - 1
    PROVE  Soundly(c, Started(c, trigger))
<1>1. CASE trigger /\ ~c.last /\ ~c.running
  <2>1. Started(c, trigger) = [c EXCEPT !.running = TRUE, !.start = clock', !.elapsed = 0, !.last = trigger]
    BY <1>1 DEF Started
  <2>2. PICK now \in 0 .. ClockMod - 1 : now = clock'
    OBVIOUS
  <2>3. Started(c, trigger) = [c EXCEPT !.running = TRUE, !.start = now, !.elapsed = 0, !.last = trigger]
    BY <2>1, <2>2
  <2>4. 0 \in 0 .. MaxDelay
    BY ExecSizes
  <2>5. Started(c, trigger) \in Channel
    BY ONLY <2>3, <2>4, c \in Channel, trigger \in BOOLEAN, now \in 0 .. ClockMod - 1 DEF Channel
  <2>6. Same(c, Started(c, trigger)) /\ Started(c, trigger).type = "TIMER"
    BY ONLY <2>3, c \in Channel, c.type = "TIMER" DEF Channel, Same
  <2> QED
    BY ONLY <2>5, <2>6, Zenon DEF Soundly
<1>2. CASE ~(trigger /\ ~c.last /\ ~c.running)
  <2>1. Started(c, trigger) = [c EXCEPT !.last = trigger]
    BY <1>2 DEF Started
  <2> QED
    BY <2>1 DEF Channel, Soundly, Same
<1> QED
  BY <1>1, <1>2

\* A timer that is still running has not reached its delay.
LEMMA CountedTyped ==
    ASSUME NEW c \in Channel, c.type = "TIMER", clock' \in 0 .. ClockMod - 1
    PROVE  /\ Soundly(c, Counted(c)) /\ InTime(Counted(c))
           /\ Counted(c).running => Counted(c).elapsed <= Counted(c).delay
<1> DEFINE el == (clock' - c.start) % ClockMod
<1>1. el \in Nat /\ c.delay \in 0 .. MaxDelay /\ c.elapsed \in 0 .. MaxDelay /\ MaxDelay \in Nat
  BY ChannelTyped, ElapsedTyped, ExecSizes
<1>2. CASE ~c.running
  <2>1. Counted(c) = c
    BY <1>2 DEF Counted
  <2> QED
    BY <1>2, <2>1 DEF Soundly, Same, InTime
<1>3. CASE c.running /\ el >= c.delay
  <2>1. Counted(c) = [c EXCEPT !.running = FALSE, !.elapsed = c.delay]
    BY <1>3 DEF Counted
  <2> HIDE DEF el
  <2> QED
    BY <1>1, <2>1 DEF Soundly, Same, Channel, InTime
<1>4. CASE c.running /\ ~(el >= c.delay)
  <2>1. Counted(c) = [c EXCEPT !.elapsed = el]
    BY <1>4 DEF Counted
  <2> DEFINE d == [c EXCEPT !.elapsed = el]
  <2>2. d.start = c.start /\ d.delay = c.delay /\ d.elapsed = el /\ d.running = c.running
    BY DEF Channel
  <2>3. InTime(d)
    BY <1>1, <1>4, <2>2 DEF InTime
  <2> HIDE DEF el
  <2>4. Soundly(c, d) /\ d.elapsed <= d.delay
    BY <1>1, <1>4, <2>2 DEF Soundly, Same, Channel
  <2> QED
    BY <2>1, <2>3, <2>4
<1> QED
  BY <1>2, <1>3, <1>4

LEMMA TimerStepTyped ==
    ASSUME NEW c \in Channel, c.type = "TIMER", clock' \in 0 .. ClockMod - 1, NEW t
    PROVE  Soundly(c, TimerStep(t, c)) /\ InTime(TimerStep(t, c))
<1> DEFINE trigger == c.source # NoRef /\ SourceValue(t, c.source) # 0
           s == Started(c, trigger)
           d == Counted(s)
           r == [d EXCEPT !.value = TimerValue(d)]
<1>1. Soundly(c, s)
  BY StartedTyped
<1> HIDE DEF s
<1>2. Soundly(s, d) /\ InTime(d) /\ (d.running => d.elapsed <= d.delay)
  BY <1>1, CountedTyped DEF Soundly, Same
<1>3. TimerStep(t, c) = r
  BY DEF TimerStep, s
<1> HIDE DEF d
<1>4. d \in Channel /\ d.delay \in 0 .. MaxDelay /\ d.elapsed \in 0 .. MaxDelay
  BY <1>2, ChannelTyped DEF Soundly
<1>5. TimerValue(d) \in 0 .. MaxDelay
  BY <1>2, <1>4, ExecSizes DEF TimerValue
<1>6. /\ r \in Channel /\ Same(d, r) /\ r.running = d.running /\ r.start = d.start
  BY <1>4, <1>5 DEF Channel, Same
<1> HIDE DEF r
<1>7. InTime(r)
  BY <1>2, <1>6 DEF InTime, Same
<1>8. Soundly(c, r)
  BY <1>1, <1>2, <1>6 DEF Soundly, Same
<1> QED
  BY <1>3, <1>7, <1>8

LEMMA LogicStepTyped ==
    ASSUME NEW c \in Channel, ~c.running
    PROVE  Soundly(c, LogicStep(c)) /\ ~LogicStep(c).running
<1>1. 0 \in 0 .. MaxDelay /\ 1 \in 0 .. MaxDelay
  BY ExecSizes
<1>2. PICK v \in {0, 1} : LogicStep(c) \in {c, [c EXCEPT !.value = v]}
  <2>1. LogicStep(c) \in {c, [c EXCEPT !.value = 0], [c EXCEPT !.value = 1]}
    BY DEF LogicStep
  <2> QED
    BY <2>1
<1>3. CASE LogicStep(c) = c
  BY <1>3 DEF Soundly, Same
<1>4. CASE LogicStep(c) = [c EXCEPT !.value = v]
  BY <1>1, <1>4 DEF Soundly, Same, Channel
<1> QED
  BY <1>2, <1>3, <1>4

\* The tables that the evaluation of t may go through.
Alike(t) ==
    {u \in Seq(Channel) : /\ DOMAIN u = DOMAIN t
                          /\ \A i \in DOMAIN t : Same(t[i], u[i])
                          /\ OnlyTimersRun(u)}

LEMMA EvaluatedTyped ==
    ASSUME NEW t \in Seq(Channel), NEW u \in Alike(t), NEW i \in DOMAIN t,
           clock' \in 0 .. ClockMod - 1
    PROVE  /\ Evaluated(u, i) \in Alike(t) /\ InTime(Evaluated(u, i)[i])
           /\ \A j \in DOMAIN t \ {i} : Evaluated(u, i)[j] = u[j]
<1> DEFINE c == u[i]
           d == CASE c.enabled /\ c.type = "LOGIC" -> LogicStep(c)
                  [] c.enabled /\ c.type = "TIMER" -> TimerStep(u, c)
                  [] OTHER -> c
           v == [u EXCEPT ![i] = d]
<1>1. /\ u \in Seq(Channel) /\ DOMAIN u = DOMAIN t /\ i \in DOMAIN u /\ c \in Channel
      /\ c.running => c.type = "TIMER"
      /\ \A j \in DOMAIN t : Same(t[j], u[j]) /\ (u[j].running => u[j].type = "TIMER")
  <2>1. u \in Seq(Channel) /\ DOMAIN u = DOMAIN t /\ i \in DOMAIN u
    BY DEF Alike
  <2>2. c \in Channel
    BY <2>1, ElementOfSeq, LenProperties
  <2> QED
    BY <2>1, <2>2 DEF Alike, OnlyTimersRun
<1>2. Evaluated(u, i) = v
  BY DEF Evaluated
<1> HIDE DEF c
<1>3. Soundly(c, d) /\ InTime(d)
  <2>1. CASE c.enabled /\ c.type = "LOGIC"
    <3>1. d = LogicStep(c) /\ ~c.running
      BY <1>1, <2>1, ChannelTyped
    <3> QED
      BY <1>1, <3>1, LogicStepTyped DEF InTime
  <2>2. CASE c.enabled /\ c.type = "TIMER"
    <3>1. d = TimerStep(u, c)
      BY <2>2
    <3> QED
      BY <1>1, <2>2, <3>1, TimerStepTyped
  <2>3. CASE ~(c.enabled /\ c.type = "LOGIC") /\ ~(c.enabled /\ c.type = "TIMER")
    <3>1. d = c
      BY <2>3
    <3> QED
      BY <1>1, <2>3, <3>1 DEF Soundly, Same, InTime
  <2> QED
    BY <2>1, <2>2, <2>3
<1> HIDE DEF d
<1>4. v \in Seq(Channel) /\ DOMAIN v = DOMAIN u /\ v[i] = d /\ \A j \in DOMAIN u \ {i} : v[j] = u[j]
  BY <1>1, <1>3, ExceptSeq, LenProperties DEF Soundly
<1> HIDE DEF v
<1>5. \A j \in DOMAIN t : Same(t[j], v[j]) /\ (v[j].running => v[j].type = "TIMER")
  <2> TAKE j \in DOMAIN t
  <2>1. CASE j = i
    BY <1>1, <1>3, <1>4, <2>1 DEF c, Soundly, Same
  <2>2. CASE j # i
    BY <1>1, <1>4, <2>2
  <2> QED
    BY <2>1, <2>2
<1>6. v \in Alike(t)
  BY <1>1, <1>4, <1>5 DEF Alike, OnlyTimersRun
<1> QED
  BY <1>1, <1>2, <1>3, <1>4, <1>6

\* The channels are evaluated one after the other.
LEMMA EvaluationSteps ==
    ASSUME NEW c0 \in Seq(Channel), OnlyTimersRun(c0), clock' \in 0 .. ClockMod - 1
    PROVE  \E a \in [0 .. Len(c0) -> Alike(c0)] :
              /\ a[0] = c0 /\ EvaluatedAll(c0) = a[Len(c0)]
              /\ \A k \in 1 .. Len(c0) : a[k] = Evaluated(a[k - 1], k)
<1> DEFINE N == Len(c0)
           s == [i \in 1 .. N |-> i]
           X == Alike(c0)
           F == [k \in 1 .. N |-> [u \in X |-> Evaluated(u, k)]]
           Value(h, t) == IF t = {} THEN c0 ELSE Evaluated(h[t \ {Max(t)}], s[Max(t)])
<1>1. N \in Nat /\ DOMAIN c0 = 1 .. N /\ DOMAIN s = 1 .. N
  BY LenProperties
<1>2. c0 \in X
  BY DEF Alike, Same
<1>3. F \in [1 .. N -> [X -> X]]
  <2> HIDE DEF X
  <2>1. ASSUME NEW k \in 1 .. N, NEW u \in X PROVE Evaluated(u, k) \in X
    BY <1>1, EvaluatedTyped DEF X
  <2> QED
    BY <2>1
<1>t. ASSUME NEW t \in SUBSET (1 .. N), t # {}
      PROVE  Max(t) \in 1 .. N /\ t \ {Max(t)} \in SUBSET (1 .. N) /\ s[Max(t)] = Max(t)
  <2>1. Max(t) \in t
    BY <1>1, <1>t, MaxOf
  <2> QED
    BY <2>1
<1>f. \A k \in 1 .. N : \A u \in X : F[k][u] = Evaluated(u, k)
  OBVIOUS
<1>s. EvaluatedAll(c0) = FoldLeft(Evaluated, c0, s)
  BY DEF EvaluatedAll
<1> HIDE DEF F, N, s, X
<1>4. \E h : h = [t \in SUBSET (1 .. N) |-> Value(h, t)]
  <2>1. PICK h \in [SUBSET (1 .. N) -> X] : Folds(h, N, X, c0, F)
    BY <1>1, <1>2, <1>3, FoldExists
  <2>2. \A t \in SUBSET (1 .. N) : h[t] = Value(h, t)
    <3> TAKE t \in SUBSET (1 .. N)
    <3>1. CASE t = {}
      BY <2>1, <3>1 DEF Folds
    <3>2. CASE t # {}
      <4>1. Max(t) \in 1 .. N /\ h[t \ {Max(t)}] \in X /\ s[Max(t)] = Max(t)
        BY <1>t, <3>2
      <4>2. h[t] = F[Max(t)][h[t \ {Max(t)}]]
        BY <2>1, <3>2 DEF Folds
      <4> QED
        BY <1>f, <3>2, <4>1, <4>2
    <3> QED
      BY <3>1, <3>2
  <2>3. h = [t \in SUBSET (1 .. N) |-> h[t]]
    BY <2>1
  <2> HIDE DEF Value
  <2> QED
    BY <2>2, <2>3
<1>5. PICK h : h = [t \in SUBSET (1 .. N) |-> Value(h, t)] /\ EvaluatedAll(c0) = h[1 .. N]
  <2>1. \E h : h = [t \in SUBSET (DOMAIN s) |-> Value(h, t)]
    BY <1>1, <1>4
  <2>2. \E h : h = [t \in SUBSET (DOMAIN s) |-> Value(h, t)] /\ FoldLeft(Evaluated, c0, s) = h[DOMAIN s]
    BY <2>1 DEF FoldLeft, MapThenFoldSet
  <2> QED
    BY <1>1, <1>s, <2>2
<1>6. h[{}] = c0
  BY <1>5
<1>7. \A t \in SUBSET (1 .. N) : t # {} /\ h[t \ {Max(t)}] \in X =>
         h[t] = F[Max(t)][h[t \ {Max(t)}]]
  <2> TAKE t \in SUBSET (1 .. N)
  <2> HAVE t # {} /\ h[t \ {Max(t)}] \in X
  <2>1. Max(t) \in 1 .. N /\ s[Max(t)] = Max(t)
    BY <1>t
  <2>2. h[t] = Value(h, t)
    BY <1>5
  <2> QED
    BY <1>f, <2>1, <2>2
<1>8. Follows(h, N, X, c0, F)
  BY <1>6, <1>7 DEF Follows
<1>9. PICK a : Through(a, N, X, c0, F) /\ h[1 .. N] = a[N]
  BY <1>1, <1>2, <1>3, <1>8, FoldSteps
<1>10. ASSUME NEW k \in 1 .. N PROVE a[k] = Evaluated(a[k - 1], k)
  <2>1. k - 1 \in 0 .. N
    BY <1>1
  <2> QED
    BY <1>9, <1>f, <2>1 DEF Through
<1>11. EvaluatedAll(c0) = a[N]
  BY <1>5, <1>9
<1> QED
  BY <1>9, <1>10, <1>11 DEF N, X, Through

\* Afterwards every timer that is enabled and running is in time.
LEMMA EvaluationSound ==
    ASSUME NEW c0 \in Seq(Channel), OnlyTimersRun(c0), clock' \in 0 .. ClockMod - 1
    PROVE  /\ EvaluatedAll(c0) \in Alike(c0)
           /\ \A i \in DOMAIN c0 : InTime(EvaluatedAll(c0)[i])
<1>1. PICK a \in [0 .. Len(c0) -> Alike(c0)] :
         /\ a[0] = c0 /\ EvaluatedAll(c0) = a[Len(c0)]
         /\ \A k \in 1 .. Len(c0) : a[k] = Evaluated(a[k - 1], k)
  BY EvaluationSteps
<1> DEFINE N == Len(c0)
           Good == {k \in 0 .. N : \A i \in 1 .. k : InTime(a[k][i])}
<1>2. N \in Nat /\ DOMAIN c0 = 1 .. N
  BY LenProperties
<1>3. 0 \in Good
  BY <1>2
<1>4. ASSUME NEW k \in 0 .. N - 1, k \in Good PROVE k + 1 \in Good
  <2>1. k + 1 \in 1 .. N /\ k \in 0 .. N /\ (k + 1) - 1 = k /\ k + 1 \in 0 .. N
    BY <1>2
  <2>2. a[k + 1] = Evaluated(a[k], k + 1) /\ a[k] \in Alike(c0)
    BY <1>1, <2>1
  <2>3. InTime(a[k + 1][k + 1]) /\ \A j \in 1 .. N : j # k + 1 => a[k + 1][j] = a[k][j]
    BY <1>2, <2>1, <2>2, EvaluatedTyped
  <2>4. ASSUME NEW i \in 1 .. k + 1 PROVE InTime(a[k + 1][i])
    <3>1. CASE i = k + 1
      BY <2>3, <3>1
    <3>2. CASE i # k + 1
      <4>1. i \in 1 .. k /\ i \in 1 .. N
        BY <1>2, <3>2
      <4>2. a[k + 1][i] = a[k][i]
        BY <2>3, <3>2, <4>1
      <4>3. InTime(a[k][i])
        BY <1>4, <4>1
      <4> QED
        BY <4>2, <4>3
    <3> QED
      BY <3>1, <3>2
  <2> QED
    BY <2>1, <2>4
<1>5. N \in Good
  <2> HIDE DEF Good, N
  <2>1. 0 .. N \subseteq Good
    BY <1>2, <1>3, <1>4, Induct
  <2> QED
    BY <1>2, <2>1
<1>6. EvaluatedAll(c0) = a[N] /\ a[N] \in Alike(c0)
  BY <1>1, <1>2
<1> QED
  BY <1>2, <1>5, <1>6

LEMMA SwitchedTyped ==
    ASSUME NEW o \in Outputs, NEW hw, NEW on \in BOOLEAN
    PROVE  /\ Switched(o, hw, on) \in Outputs
           /\ \A p \in Pins : Switched(o, hw, on).pins[p] => o.pins[p] \/ (p = hw /\ on)
BY DEF Switched, Outputs

\* The links switch their outputs one after the other.
LEMMA LinkSteps ==
    ASSUME outputs \in Outputs, exec.links \in Seq(Link), NEW t
    PROVE  \E a \in [0 .. Len(exec.links) -> Outputs] :
              /\ a[0] = outputs /\ Linked(t) = a[Len(exec.links)]
              /\ \A k \in 1 .. Len(exec.links) :
                    a[k] = Switched(a[k - 1], exec.links[k].hw, SourceValue(t, exec.links[k].source) # 0)
<1> DEFINE s == exec.links
           N == Len(s)
           X == Outputs
           Do(o, l) == Switched(o, l.hw, SourceValue(t, l.source) # 0)
           F == [k \in 1 .. N |-> [o \in X |-> Do(o, s[k])]]
           Value(h, u) == IF u = {} THEN outputs ELSE Do(h[u \ {Max(u)}], s[Max(u)])
<1>1. N \in Nat /\ DOMAIN s = 1 .. N
  BY LenProperties
<1>2. outputs \in X
  OBVIOUS
<1>3. F \in [1 .. N -> [X -> X]]
  <2>1. ASSUME NEW k \in 1 .. N, NEW o \in X PROVE Do(o, s[k]) \in X
    BY SwitchedTyped
  <2> HIDE DEF X, Do
  <2> QED
    BY <2>1
<1>t. ASSUME NEW u \in SUBSET (1 .. N), u # {}
      PROVE  Max(u) \in 1 .. N /\ u \ {Max(u)} \in SUBSET (1 .. N)
  <2>1. Max(u) \in u
    BY <1>1, <1>t, MaxOf
  <2> QED
    BY <2>1
<1>f. \A k \in 1 .. N : \A o \in X : F[k][o] = Do(o, s[k])
  OBVIOUS
<1>s. Linked(t) = FoldLeft(LAMBDA o, l : Do(o, l), outputs, s)
  BY DEF Linked
<1> HIDE DEF F, N, s, X, Do
<1>4. \E h : h = [u \in SUBSET (1 .. N) |-> Value(h, u)]
  <2>1. PICK h \in [SUBSET (1 .. N) -> X] : Folds(h, N, X, outputs, F)
    BY <1>1, <1>2, <1>3, FoldExists
  <2>2. \A u \in SUBSET (1 .. N) : h[u] = Value(h, u)
    <3> TAKE u \in SUBSET (1 .. N)
    <3>1. CASE u = {}
      BY <2>1, <3>1 DEF Folds
    <3>2. CASE u # {}
      <4>1. Max(u) \in 1 .. N /\ h[u \ {Max(u)}] \in X
        BY <1>t, <3>2
      <4>2. h[u] = F[Max(u)][h[u \ {Max(u)}]]
        BY <2>1, <3>2 DEF Folds
      <4> QED
        BY <1>f, <3>2, <4>1, <4>2
    <3> QED
      BY <3>1, <3>2
  <2>3. h = [u \in SUBSET (1 .. N) |-> h[u]]
    BY <2>1
  <2> HIDE DEF Value
  <2> QED
    BY <2>2, <2>3
<1>5. PICK h : h = [u \in SUBSET (1 .. N) |-> Value(h, u)] /\ Linked(t) = h[1 .. N]
  <2>1. \E h : h = [u \in SUBSET (DOMAIN s) |-> Value(h, u)]
    BY <1>1, <1>4
  <2>2. \E h : /\ h = [u \in SUBSET (DOMAIN s) |-> Value(h, u)]
               /\ FoldLeft(LAMBDA o, l : Do(o, l), outputs, s) = h[DOMAIN s]
    BY <2>1 DEF FoldLeft, MapThenFoldSet
  <2> QED
    BY <1>1, <1>s, <2>2
<1>6. h[{}] = outputs
  BY <1>5
<1>7. \A u \in SUBSET (1 .. N) : u # {} /\ h[u \ {Max(u)}] \in X =>
         h[u] = F[Max(u)][h[u \ {Max(u)}]]
  <2> TAKE u \in SUBSET (1 .. N)
  <2> HAVE u # {} /\ h[u \ {Max(u)}] \in X
  <2>1. Max(u) \in 1 .. N
    BY <1>t
  <2>2. h[u] = Value(h, u)
    BY <1>5
  <2> QED
    BY <1>f, <2>1, <2>2
<1>8. Follows(h, N, X, outputs, F)
  BY <1>6, <1>7 DEF Follows
<1>9. PICK a : Through(a, N, X, outputs, F) /\ h[1 .. N] = a[N]
  BY <1>1, <1>2, <1>3, <1>8, FoldSteps
<1>10. ASSUME NEW k \in 1 .. N PROVE a[k] = Do(a[k - 1], s[k])
  <2>1. k - 1 \in 0 .. N
    BY <1>1
  <2> QED
    BY <1>9, <1>f, <2>1 DEF Through
<1>11. Linked(t) = a[N]
  BY <1>5, <1>9
<1> QED
  BY <1>9, <1>10, <1>11 DEF N, X, Through, s, Do

\* A pin that is on after a tick was on or has a link.
LEMMA LinkedTyped ==
    ASSUME outputs \in Outputs, exec.links \in Seq(Link), NEW t
    PROVE  /\ Linked(t) \in Outputs
           /\ \A p \in Pins : Linked(t).pins[p] =>
                 outputs.pins[p] \/ \E i \in DOMAIN exec.links : exec.links[i].hw = p
<1> DEFINE N == Len(exec.links)
           Explained(o) == \A p \in Pins : o.pins[p] =>
                 outputs.pins[p] \/ \E i \in DOMAIN exec.links : exec.links[i].hw = p
<1>1. PICK a \in [0 .. N -> Outputs] :
         /\ a[0] = outputs /\ Linked(t) = a[N]
         /\ \A k \in 1 .. N :
               a[k] = Switched(a[k - 1], exec.links[k].hw, SourceValue(t, exec.links[k].source) # 0)
  BY LinkSteps
<1>2. N \in Nat /\ DOMAIN exec.links = 1 .. N
  BY LenProperties
<1> DEFINE Good == {k \in 0 .. N : Explained(a[k])}
<1>3. 0 \in Good
  BY <1>1, <1>2
<1>4. ASSUME NEW k \in 0 .. N - 1, k \in Good PROVE k + 1 \in Good
  <2> DEFINE hw == exec.links[k + 1].hw
             on == SourceValue(t, exec.links[k + 1].source) # 0
  <2>1. k + 1 \in 1 .. N /\ k \in 0 .. N /\ (k + 1) - 1 = k /\ k + 1 \in 0 .. N
    BY <1>2
  <2>2. a[k + 1] = Switched(a[k], hw, on) /\ a[k] \in Outputs
    BY <1>1, <2>1
  <2>3. \A p \in Pins : a[k + 1].pins[p] => a[k].pins[p] \/ p = hw
    <3>1. on \in BOOLEAN
      OBVIOUS
    <3> HIDE DEF on, hw
    <3> QED
      BY <2>2, <3>1, SwitchedTyped
  <2>4. \A p \in Pins : p = hw => \E i \in DOMAIN exec.links : exec.links[i].hw = p
    BY <1>2, <2>1
  <2>5. Explained(a[k])
    BY <1>4
  <2> HIDE DEF hw, on
  <2>6. Explained(a[k + 1])
    BY <2>3, <2>4, <2>5
  <2> QED
    BY <2>1, <2>6
<1>5. N \in Good
  <2> HIDE DEF Good, N
  <2>1. 0 .. N \subseteq Good
    BY <1>2, <1>3, <1>4, Induct
  <2> QED
    BY <1>2, <2>1
<1> QED
  BY <1>1, <1>2, <1>5
-----------------------------------------------------------------------------
(* The invariant.                                                          *)

\* A table whose channels kept their places in the storage is as sound as the
\* one before.
LEMMA PlacedSound ==
    ASSUME NEW x, Sound(x), NEW u \in Seq(Channel), DOMAIN u = DOMAIN x.channels, OnlyTimersRun(u),
           \A i \in DOMAIN u : u[i].addr = x.channels[i].addr /\ u[i].type = x.channels[i].type
    PROVE  Sound([x EXCEPT !.channels = u])
<1>1. x \in Tables /\ x.channels \in Seq(Channel)
  BY DEF Sound, Tables
<1>2. Len(u) = Len(x.channels)
  <2>1. DOMAIN u = 1 .. Len(u) /\ DOMAIN x.channels = 1 .. Len(x.channels)
        /\ Len(u) \in Nat /\ Len(x.channels) \in Nat
    BY <1>1, LenProperties
  <2> QED
    BY <2>1, SameInterval
<1>3. \A i \in DOMAIN u : u[i].addr = x.channels[i].addr /\ EndOf(u[i]) = EndOf(x.channels[i])
  BY DEF EndOf
<1>4. Ordered(u) /\ Within(u, x.used)
  BY <1>3 DEF Sound, Ordered, Within
<1> DEFINE y == [x EXCEPT !.channels = u]
<1>5. y \in Tables /\ y.channels = u /\ y.links = x.links /\ y.used = x.used
  BY <1>1 DEF Tables
<1> HIDE DEF y
<1>6. Sound(y)
  BY <1>2, <1>4, <1>5 DEF Sound
<1> QED
  BY <1>6 DEF y

LEMMA AlikeSound ==
    ASSUME NEW x, Sound(x), NEW u \in Alike(x.channels)
    PROVE  Sound([x EXCEPT !.channels = u])
BY PlacedSound DEF Alike, Same

\* One channel is changed in its place.
LEMMA ChangedSound ==
    ASSUME NEW x, Sound(x), NEW i \in DOMAIN x.channels, NEW d \in Channel,
           d.addr = x.channels[i].addr, d.type = x.channels[i].type, d.running => d.type = "TIMER"
    PROVE  Sound([x EXCEPT !.channels = [x.channels EXCEPT ![i] = d]])
<1> DEFINE t == x.channels
           u == [t EXCEPT ![i] = d]
<1>1. t \in Seq(Channel) /\ DOMAIN t = 1 .. Len(t) /\ OnlyTimersRun(t)
  BY LenProperties DEF Sound, Tables
<1>2. u \in Seq(Channel) /\ DOMAIN u = DOMAIN t /\ u[i] = d /\ \A j \in DOMAIN t \ {i} : u[j] = t[j]
  BY <1>1, ExceptSeq
<1> HIDE DEF u
<1>3. OnlyTimersRun(u) /\ \A j \in DOMAIN u : u[j].addr = t[j].addr /\ u[j].type = t[j].type
  <2>1. ASSUME NEW j \in DOMAIN u
        PROVE  (u[j].running => u[j].type = "TIMER") /\ u[j].addr = t[j].addr /\ u[j].type = t[j].type
    <3>1. CASE j = i
      BY <1>2, <3>1
    <3>2. CASE j # i
      BY <1>1, <1>2, <3>2 DEF OnlyTimersRun
    <3> QED
      BY <3>1, <3>2
  <2> QED
    BY <2>1 DEF OnlyTimersRun
<1> QED
  BY <1>2, <1>3, PlacedSound DEF u

LEMMA TickSound ==
    ASSUME ExecInv, Tick
    PROVE  ExecInv' /\ exec'.links = exec.links /\ exec'.used = exec.used
           /\ exec'.channels \in Alike(exec.channels)
           /\ \A i \in DOMAIN exec'.channels : InTime(exec'.channels[i])
<1>1. Sound(exec) /\ exec.channels \in Seq(Channel) /\ exec.links \in Seq(Link) /\ exec \in Tables
      /\ OnlyTimersRun(exec.channels)
  BY DEF ExecInv, Sound, Tables
<1>2. clock' \in 0 .. ClockMod - 1 /\ din' \in [Inputs -> {0, 1}]
  <2>1. ClockMod \in Nat /\ ClockMod > 0 /\ clock \in Nat
    BY ExecSizes DEF ExecInv
  <2>2. clock' = (clock + 1) % ClockMod
    BY DEF Tick
  <2> DEFINE c == clock + 1
  <2>3. c \in Nat /\ clock' = c % ClockMod
    BY <2>1, <2>2
  <2> HIDE DEF c
  <2>4. clock' \in 0 .. ClockMod - 1
    BY <2>1, <2>3
  <2> QED
    BY <2>4 DEF Tick
<1> DEFINE u == EvaluatedAll(exec.channels)
<1>3. u \in Alike(exec.channels) /\ \A i \in DOMAIN exec.channels : InTime(u[i])
  BY <1>1, <1>2, EvaluationSound
<1>4. exec' = [exec EXCEPT !.channels = u]
  BY DEF Tick
<1> HIDE DEF u
<1>5. Sound(exec') /\ exec'.channels = u /\ exec'.links = exec.links /\ exec'.used = exec.used
  BY <1>1, <1>3, <1>4, AlikeSound DEF Tables
<1>6. outputs' \in Outputs
  <2>1. outputs' = Linked(exec'.channels)
    BY DEF Tick
  <2> QED
    BY <1>1, <2>1, LinkedTyped DEF ExecInv
<1>7. DOMAIN u = DOMAIN exec.channels
  BY <1>3 DEF Alike
<1> QED
  BY <1>2, <1>3, <1>5, <1>6, <1>7 DEF ExecInv

LEMMA OffTyped == AllOff \in Outputs
BY DEF AllOff, Outputs

LEMMA EntriesTyped == \A e \in Entries : e \in Entry
<1> SUFFICES ASSUME NEW e \in Entries PROVE e \in Entry
  OBVIOUS
<1>1. PICK b \in Blobs : e \in Range(b.entries)
  BY DEF Entries
<1>2. b.entries \in Seq(Entry)
  BY ExecAssumption
<1>3. PICK i \in DOMAIN b.entries : e = b.entries[i]
  BY <1>1 DEF Range
<1> QED
  BY <1>2, <1>3, ElementOfSeq, LenProperties

LEMMA EnableSound == ASSUME ExecInv, NEW id, NEW on \in BOOLEAN, SetEnabled(id, on) PROVE ExecInv'
<1> DEFINE t == exec.channels
           i == FirstOf(Positions(t, id))
           d == [t[i] EXCEPT !.enabled = on]
<1>1. Sound(exec) /\ t \in Seq(Channel) /\ OnlyTimersRun(t)
  BY DEF ExecInv, Sound, Tables
<1>2. i \in DOMAIN t /\ t[i] \in Channel
  BY <1>1, FirstPosition, LenProperties, ElementOfSeq DEF SetEnabled
<1>3. exec' = [exec EXCEPT !.channels = [t EXCEPT ![i] = d]]
  BY DEF SetEnabled
<1> HIDE DEF i
<1>4. /\ d \in Channel /\ d.addr = t[i].addr /\ d.type = t[i].type /\ d.running = t[i].running
  BY <1>2 DEF Channel
<1>5. d.running => d.type = "TIMER"
  BY <1>1, <1>2, <1>4 DEF OnlyTimersRun
<1> HIDE DEF d
<1>6. Sound(exec')
  BY <1>1, <1>2, <1>3, <1>4, <1>5, ChangedSound
<1> QED
  BY <1>6 DEF ExecInv, SetEnabled

LEMMA ResetSound == ASSUME ExecInv, NEW id, ResetChannel(id) PROVE ExecInv'
<1> DEFINE t == exec.channels
           i == FirstOf(Positions(t, id))
           c == t[i]
           d == IF c.type = "TIMER"
                THEN [c EXCEPT !.running = FALSE, !.start = 0, !.elapsed = 0, !.value = 0]
                ELSE [c EXCEPT !.value = 0]
<1>1. Sound(exec) /\ t \in Seq(Channel) /\ OnlyTimersRun(t)
  BY DEF ExecInv, Sound, Tables
<1>2. i \in DOMAIN t /\ c \in Channel
  BY <1>1, FirstPosition, LenProperties, ElementOfSeq DEF ResetChannel
<1>3. exec' = [exec EXCEPT !.channels = [t EXCEPT ![i] = d]]
  BY DEF ResetChannel
<1>r. c.running => c.type = "TIMER"
  BY <1>1, <1>2 DEF OnlyTimersRun
<1> HIDE DEF i, c
<1>0. 0 \in 0 .. MaxDelay /\ 0 \in 0 .. ClockMod - 1
  BY ExecSizes
<1>4. /\ d \in Channel /\ d.addr = c.addr /\ d.type = c.type /\ (d.running => d.type = "TIMER")
  BY <1>0, <1>2, <1>r DEF Channel
<1> HIDE DEF d
<1>6. Sound(exec')
  BY <1>1, <1>2, <1>3, <1>4, ChangedSound DEF c
<1> QED
  BY <1>6 DEF ExecInv, ResetChannel

LEMMA ReplaceSound == ASSUME ExecInv, NEW e \in Entry, SetChannel(e) PROVE ExecInv'
<1>1. Sound(exec) /\ e.id # NoRef
  BY DEF ExecInv, SetChannel
<1>2. Sound(exec')
  BY <1>1, RemoveSound, AddSound DEF SetChannel
<1> QED
  BY <1>2 DEF ExecInv, SetChannel

LEMMA LoadConfigSound == ASSUME ExecInv, NEW b \in Blobs, LoadConfig(b) PROVE ExecInv'
<1>1. Sound(exec')
  BY LoadedSound DEF LoadConfig
<1>2. outputs' \in Outputs
  BY OffTyped DEF LoadConfig, ExecInv, Outputs
<1> QED
  BY <1>1, <1>2 DEF ExecInv, LoadConfig

LEMMA ClearSound == ASSUME ExecInv, Clear PROVE ExecInv'
BY EmptySound DEF ExecInv, Clear

LEMMA InitSound == ExecInit => ExecInv
BY EmptySound, OffTyped, ExecSizes DEF ExecInit, ExecInv

LEMMA NextSound == ASSUME ExecInv, [ExecNext]_execVars PROVE ExecInv'
<1>1. CASE Tick
  BY <1>1, TickSound
<1>2. CASE Load
  BY <1>2, LoadConfigSound DEF Load
<1>3. CASE Clear
  BY <1>3, ClearSound
<1>4. CASE Replace
  BY <1>4, ReplaceSound, EntriesTyped DEF Replace
<1>5. CASE Enable
  BY <1>5, EnableSound DEF Enable
<1>6. CASE Reset
  BY <1>6, ResetSound DEF Reset
<1>7. CASE UNCHANGED execVars
  BY <1>7 DEF execVars, ExecInv
<1> QED
  BY <1>1, <1>2, <1>3, <1>4, <1>5, <1>6, <1>7 DEF ExecNext

\* Channels in the order of the storage do not lie on top of each other.
LEMMA InvSound == ExecInv => TablesSound
<1> SUFFICES ASSUME ExecInv PROVE TablesSound
  OBVIOUS
<1>1. /\ exec.channels \in Seq(Channel) /\ exec.used \in Nat /\ exec.used <= StorageSize
      /\ Ordered(exec.channels) /\ Within(exec.channels, exec.used)
      /\ DOMAIN exec.channels = 1 .. Len(exec.channels) /\ Len(exec.channels) \in Nat
  BY LenProperties DEF ExecInv, Sound, Tables
<1>2. ExecTypeOK
  BY <1>1 DEF ExecTypeOK, ExecInv, Sound, Outputs
<1> DEFINE t == exec.channels
           extent(i) == t[i].addr .. t[i].addr + SizeOf[t[i].type] - 1
<1>3. ASSUME NEW i \in DOMAIN t
      PROVE  /\ t[i].addr \in Nat /\ EndOf(t[i]) \in Nat /\ EndOf(t[i]) <= exec.used
             /\ \A k \in extent(i) : k \in Nat /\ t[i].addr <= k /\ k < EndOf(t[i])
  <2>1. t[i] \in Channel
    BY <1>1, ElementOfSeq
  <2>2. t[i].addr \in Nat /\ EndOf(t[i]) \in Nat /\ EndOf(t[i]) <= exec.used
    BY <1>1, <2>1, ChannelTyped DEF Within
  <2>3. SizeOf[t[i].type] \in Nat
    BY <2>1, ChannelTyped, ExecSizes
  <2>4. EndOf(t[i]) = t[i].addr + SizeOf[t[i].type]
    BY DEF EndOf
  <2> DEFINE A == t[i].addr
             Z == SizeOf[t[i].type]
             E == EndOf(t[i])
  <2>5. A \in Nat /\ Z \in Nat /\ E = A + Z
    BY <2>2, <2>3, <2>4
  <2> HIDE DEF A, Z, E
  <2>6. \A k \in A .. A + Z - 1 : k \in Nat /\ A <= k /\ k < E
    BY <2>5
  <2> QED
    BY <2>2, <2>6 DEF A, Z, E
<1> HIDE DEF extent
<1>4. \A i \in DOMAIN t : extent(i) \subseteq 0 .. exec.used - 1
  <2> SUFFICES ASSUME NEW i \in DOMAIN t, NEW k \in extent(i) PROVE k \in 0 .. exec.used - 1
    OBVIOUS
  <2>1. k \in Nat /\ k < EndOf(t[i]) /\ EndOf(t[i]) <= exec.used /\ EndOf(t[i]) \in Nat
    BY <1>3
  <2> QED
    BY <1>1, <2>1
<1>5. ASSUME NEW i \in DOMAIN t, NEW j \in DOMAIN t, i < j PROVE extent(i) \cap extent(j) = {}
  <2>1. EndOf(t[i]) <= t[j].addr
    BY <1>1, <1>5 DEF Ordered
  <2>2. SUFFICES ASSUME NEW k \in extent(i), k \in extent(j) PROVE FALSE
    OBVIOUS
  <2>3. k \in Nat /\ k < EndOf(t[i]) /\ t[j].addr <= k /\ EndOf(t[i]) \in Nat /\ t[j].addr \in Nat
    BY <1>3, <2>2
  <2> QED
    BY <2>1, <2>3
<1>6. \A i, j \in DOMAIN t : i # j => extent(i) \cap extent(j) = {}
  <2> SUFFICES ASSUME NEW i \in DOMAIN t, NEW j \in DOMAIN t, i # j PROVE extent(i) \cap extent(j) = {}
    OBVIOUS
  <2>1. i < j \/ j < i
    BY <1>1
  <2>2. CASE i < j
    BY <1>5, <2>2
  <2>3. CASE j < i
    <3>1. extent(j) \cap extent(i) = {}
      BY <1>5, <2>3
    <3> QED
      BY <3>1
  <2> QED
    BY <2>1, <2>2, <2>3
<1>7. StorageSound
  BY <1>1, <1>4, <1>6 DEF StorageSound, extent
<1> QED
  BY <1>2, <1>7 DEF TablesSound

\* The tables of the executor are sound under every operation of its interface,
\* in any order: the storage of a channel is given to no other channel, and
\* what a timer counts and shows stays within its delay.
THEOREM TablesAlwaysSound == ExecSpec => []TablesSound
<1>1. ExecInit => ExecInv
  BY InitSound
<1>2. ExecInv /\ [ExecNext]_execVars => ExecInv'
  BY NextSound
<1>3. ExecInv => TablesSound
  BY InvSound
<1> QED
  BY <1>1, <1>2, <1>3, PTL DEF ExecSpec

\* After the tick that changed the clock no enabled timer runs at or past its
\* delay (PMU_ChannelExec_Update).
THEOREM TimersAlwaysInTime == ExecSpec => TimersInTime
<1> DEFINE Kept == clock' # clock =>
              \A i \in DOMAIN exec'.channels :
                  LET c == exec'.channels[i]
                  IN  c.enabled /\ c.running => (clock' - c.start) % ClockMod < c.delay
<1>1. ExecInit => ExecInv
  BY InitSound
<1>2. ExecInv /\ [ExecNext]_execVars => ExecInv'
  BY NextSound
<1>3. ExecInv /\ [ExecNext]_execVars => [Kept]_execVars
  <2> SUFFICES ASSUME ExecInv, ExecNext, clock' # clock PROVE Kept
    BY DEF execVars
  <2>1. Tick
    BY DEF ExecNext, Load, LoadConfig, Clear, Replace, SetChannel, Enable, SetEnabled, Reset, ResetChannel
  <2>2. \A i \in DOMAIN exec'.channels : InTime(exec'.channels[i])
    BY <2>1, TickSound
  <2> QED
    BY <2>2 DEF InTime
<1> QED
  BY <1>1, <1>2, <1>3, PTL DEF ExecSpec, TimersInTime
-----------------------------------------------------------------------------
(* The replacement of a channel.                                           *)

Kept(kept, c, id) == IF c.id = id THEN kept ELSE Append(kept, c)

\* The channels with other ids are collected one after the other.
LEMMA OthersSteps ==
    ASSUME NEW t \in Seq(Channel), NEW id
    PROVE  \E a \in [0 .. Len(t) -> Seq(Channel)] :
              /\ a[0] = <<>> /\ Others(t, id) = a[Len(t)]
              /\ \A k \in 1 .. Len(t) : a[k] = Kept(a[k - 1], t[k], id)
<1> DEFINE N == Len(t)
           X == Seq(Channel)
           none == <<>>
           F == [k \in 1 .. N |-> [o \in X |-> Kept(o, t[k], id)]]
           Value(h, u) == IF u = {} THEN none ELSE Kept(h[u \ {Max(u)}], t[Max(u)], id)
<1>1. N \in Nat /\ DOMAIN t = 1 .. N /\ \A k \in 1 .. N : t[k] \in Channel
  BY LenProperties, ElementOfSeq
<1>2. none \in X
  OBVIOUS
<1>3. F \in [1 .. N -> [X -> X]]
  <2>1. ASSUME NEW k \in 1 .. N, NEW o \in X PROVE Kept(o, t[k], id) \in X
    BY <1>1 DEF Kept
  <2> HIDE DEF X
  <2> QED
    BY <2>1
<1>t. ASSUME NEW u \in SUBSET (1 .. N), u # {}
      PROVE  Max(u) \in 1 .. N /\ u \ {Max(u)} \in SUBSET (1 .. N)
  <2>1. Max(u) \in u
    BY <1>1, <1>t, MaxOf
  <2> QED
    BY <2>1
<1>f. \A k \in 1 .. N : \A o \in X : F[k][o] = Kept(o, t[k], id)
  OBVIOUS
<1>s. Others(t, id) = FoldLeft(LAMBDA kept, c : Kept(kept, c, id), none, t)
  BY DEF Others, Kept
<1> HIDE DEF F, N, X, none
<1>4. \E h : h = [u \in SUBSET (1 .. N) |-> Value(h, u)]
  <2>1. PICK h \in [SUBSET (1 .. N) -> X] : Folds(h, N, X, none, F)
    BY <1>1, <1>2, <1>3, FoldExists
  <2>2. \A u \in SUBSET (1 .. N) : h[u] = Value(h, u)
    <3> TAKE u \in SUBSET (1 .. N)
    <3>1. CASE u = {}
      BY <2>1, <3>1 DEF Folds
    <3>2. CASE u # {}
      <4>1. Max(u) \in 1 .. N /\ h[u \ {Max(u)}] \in X
        BY <1>t, <3>2
      <4>2. h[u] = F[Max(u)][h[u \ {Max(u)}]]
        BY <2>1, <3>2 DEF Folds
      <4> QED
        BY <1>f, <3>2, <4>1, <4>2
    <3> QED
      BY <3>1, <3>2
  <2>3. h = [u \in SUBSET (1 .. N) |-> h[u]]
    BY <2>1
  <2> HIDE DEF Value
  <2> QED
    BY <2>2, <2>3
<1>5. PICK h : h = [u \in SUBSET (1 .. N) |-> Value(h, u)] /\ Others(t, id) = h[1 .. N]
  <2>1. \E h : h = [u \in SUBSET (DOMAIN t) |-> Value(h, u)]
    BY <1>1, <1>4
  <2>2. \E h : /\ h = [u \in SUBSET (DOMAIN t) |-> Value(h, u)]
               /\ FoldLeft(LAMBDA kept, c : Kept(kept, c, id), none, t) = h[DOMAIN t]
    BY <2>1 DEF FoldLeft, MapThenFoldSet
  <2> QED
    BY <1>1, <1>s, <2>2
<1>6. h[{}] = none
  BY <1>5
<1>7. \A u \in SUBSET (1 .. N) : u # {} /\ h[u \ {Max(u)}] \in X =>
         h[u] = F[Max(u)][h[u \ {Max(u)}]]
  <2> TAKE u \in SUBSET (1 .. N)
  <2> HAVE u # {} /\ h[u \ {Max(u)}] \in X
  <2>1. Max(u) \in 1 .. N
    BY <1>t
  <2>2. h[u] = Value(h, u)
    BY <1>5
  <2> QED
    BY <1>f, <2>1, <2>2
<1>8. Follows(h, N, X, none, F)
  BY <1>6, <1>7 DEF Follows
<1>9. PICK a : Through(a, N, X, none, F) /\ h[1 .. N] = a[N]
  BY <1>1, <1>2, <1>3, <1>8, FoldSteps
<1>10. ASSUME NEW k \in 1 .. N PROVE a[k] = Kept(a[k - 1], t[k], id)
  <2>1. k - 1 \in 0 .. N
    BY <1>1
  <2> QED
    BY <1>9, <1>f, <2>1 DEF Through
<1>11. Others(t, id) = a[N]
  BY <1>5, <1>9
<1> QED
  BY <1>9, <1>10, <1>11 DEF N, X, Through, none

\* A channel of this id behind the others is not one of the others.
LEMMA OthersAppended ==
    ASSUME NEW t \in Seq(Channel), NEW c \in Channel, NEW id, c.id = id
    PROVE  Others(Append(t, c), id) = Others(t, id)
<1> DEFINE n == Len(t)
           u == Append(t, c)
<1>1. /\ n \in Nat /\ u \in Seq(Channel) /\ Len(u) = n + 1 /\ u[n + 1] = c
      /\ \A i \in 1 .. n : u[i] = t[i]
  BY LenProperties, AppendProperties
<1> HIDE DEF n, u
<1>2. PICK a \in [0 .. n -> Seq(Channel)] :
         /\ a[0] = <<>> /\ Others(t, id) = a[n]
         /\ \A k \in 1 .. n : a[k] = Kept(a[k - 1], t[k], id)
  BY OthersSteps DEF n
<1>3. PICK b \in [0 .. n + 1 -> Seq(Channel)] :
         /\ b[0] = <<>> /\ Others(u, id) = b[n + 1]
         /\ \A k \in 1 .. n + 1 : b[k] = Kept(b[k - 1], u[k], id)
  <2>1. \E b \in [0 .. Len(u) -> Seq(Channel)] :
           /\ b[0] = <<>> /\ Others(u, id) = b[Len(u)]
           /\ \A k \in 1 .. Len(u) : b[k] = Kept(b[k - 1], u[k], id)
    BY <1>1, OthersSteps
  <2>2. Len(u) = n + 1
    BY <1>1
  <2> QED
    BY ONLY <2>1, <2>2, Zenon
<1> DEFINE Good == {k \in 0 .. n : b[k] = a[k]}
<1>4. 0 \in Good
  BY <1>1, <1>2, <1>3
<1>5. ASSUME NEW k \in 0 .. n - 1, k \in Good PROVE k + 1 \in Good
  <2>1. k + 1 \in 1 .. n /\ k + 1 \in 1 .. n + 1 /\ (k + 1) - 1 = k /\ k + 1 \in 0 .. n
    BY <1>1
  <2> QED
    BY <1>1, <1>2, <1>3, <1>5, <2>1
<1>6. b[n] = a[n]
  <2> HIDE DEF Good
  <2>1. 0 .. n \subseteq Good
    BY <1>1, <1>4, <1>5, Induct
  <2> QED
    BY <1>1, <2>1 DEF Good
<1>7. b[n + 1] = b[n]
  <2>1. n + 1 \in 1 .. n + 1 /\ (n + 1) - 1 = n
    BY <1>1
  <2> QED
    BY <1>1, <1>3, <2>1 DEF Kept
<1> QED
  BY <1>2, <1>3, <1>6, <1>7 DEF u

\* A channel of this id can go without a change to the others.
LEMMA OthersRemoved ==
    ASSUME NEW t \in Seq(Channel), NEW i \in 1 .. Len(t), NEW id, t[i].id = id
    PROVE  Others(RemoveAt(t, i), id) = Others(t, id)
<1> DEFINE n == Len(t)
           u == RemoveAt(t, i)
<1>1. /\ n \in Nat /\ u \in Seq(Channel) /\ Len(u) = n - 1 /\ i \in 1 .. n
      /\ \A k \in 1 .. n - 1 : u[k] = t[IF k < i THEN k ELSE k + 1]
  BY LenProperties, RemoveAtProperties
<1> HIDE DEF n, u
<1>n. n - 1 \in Nat
  BY <1>1
<1>2. PICK a \in [0 .. n -> Seq(Channel)] :
         /\ a[0] = <<>> /\ Others(t, id) = a[n]
         /\ \A k \in 1 .. n : a[k] = Kept(a[k - 1], t[k], id)
  BY OthersSteps DEF n
<1>3. PICK b \in [0 .. n - 1 -> Seq(Channel)] :
         /\ b[0] = <<>> /\ Others(u, id) = b[n - 1]
         /\ \A k \in 1 .. n - 1 : b[k] = Kept(b[k - 1], u[k], id)
  <2>1. \E b \in [0 .. Len(u) -> Seq(Channel)] :
           /\ b[0] = <<>> /\ Others(u, id) = b[Len(u)]
           /\ \A k \in 1 .. Len(u) : b[k] = Kept(b[k - 1], u[k], id)
    BY <1>1, OthersSteps
  <2>2. Len(u) = n - 1
    BY <1>1
  <2> QED
    BY ONLY <2>1, <2>2, Zenon
<1>i. a[i] = a[i - 1]
  BY <1>1, <1>2 DEF Kept
<1> DEFINE Good == {k \in 0 .. n - 1 : b[k] = IF k < i THEN a[k] ELSE a[k + 1]}
<1>4. 0 \in Good
  BY <1>1, <1>2, <1>3
<1>5. ASSUME NEW k \in 0 .. (n - 1) - 1, k \in Good PROVE k + 1 \in Good
  <2>1. /\ k + 1 \in 1 .. n - 1 /\ (k + 1) - 1 = k /\ k + 1 \in 0 .. n - 1
        /\ k + 1 \in 1 .. n /\ k + 2 \in 1 .. n /\ (k + 2) - 1 = k + 1 /\ (k + 1) + 1 = k + 2
    BY <1>1
  <2>2. b[k + 1] = Kept(b[k], u[k + 1], id)
    BY <1>3, <2>1
  <2>3. a[k + 1] = Kept(a[k], t[k + 1], id) /\ a[k + 2] = Kept(a[k + 1], t[k + 2], id)
    BY <1>2, <2>1
  <2>4. u[k + 1] = t[IF k + 1 < i THEN k + 1 ELSE k + 2]
    BY <1>1, <2>1
  <2>5. b[k] = IF k < i THEN a[k] ELSE a[k + 1]
    BY <1>5
  <2>6. CASE k + 1 < i
    <3>1. k < i
      BY <1>1, <2>6
    <3> QED
      BY <2>1, <2>2, <2>3, <2>4, <2>5, <2>6, <3>1
  <2>7. CASE k + 1 = i
    <3>1. k < i /\ ~(k + 1 < i) /\ i - 1 = k
      BY <1>1, <2>7
    <3>2. a[k + 1] = a[k]
      BY <1>i, <2>7, <3>1
    <3> QED
      BY <2>1, <2>2, <2>3, <2>4, <2>5, <3>1, <3>2
  <2>8. CASE k + 1 > i
    <3>1. ~(k < i) /\ ~(k + 1 < i)
      BY <1>1, <2>8
    <3> QED
      BY <2>1, <2>2, <2>3, <2>4, <2>5, <3>1
  <2> QED
    BY <1>1, <2>6, <2>7, <2>8
<1>6. b[n - 1] = IF n - 1 < i THEN a[n - 1] ELSE a[(n - 1) + 1]
  <2> HIDE DEF Good
  <2>1. 0 .. n - 1 \subseteq Good
    BY <1>n, <1>4, <1>5, Induct
  <2>2. n - 1 \in 0 .. n - 1
    BY <1>n
  <2> QED
    BY <2>1, <2>2 DEF Good
<1>7. b[n - 1] = a[n]
  <2>1. CASE n - 1 < i
    <3>1. i = n
      BY <1>1, <2>1
    <3> QED
      BY <1>6, <1>i, <2>1, <3>1
  <2>2. CASE ~(n - 1 < i)
    <3>1. (n - 1) + 1 = n
      BY <1>1
    <3> QED
      BY <1>6, <2>2, <3>1
  <2> QED
    BY <2>1, <2>2
<1> QED
  BY <1>2, <1>3, <1>7 DEF u

\* What adding an entry does to the table.
LEMMA AddedChannels ==
    ASSUME NEW x, Sound(x), NEW e \in Entry, e.id # NoRef
    PROVE  \/ AddEntry(x, e).channels = x.channels /\ ~(e.type \in VirtualTypes /\ HasRoom(x, e))
           \/ /\ e.type \in VirtualTypes /\ HasRoom(x, e)
              /\ \E c \in Channel : c.id = e.id /\ AddEntry(x, e).channels = Append(x.channels, c)
<1>0. x \in Tables /\ Len(x.links) \in Nat /\ x.used \in Nat
  BY DEF Sound, Tables
<1>1. CASE e.type \in VirtualTypes /\ HasRoom(x, e)
  <2> DEFINE c == [id |-> e.id, type |-> e.type, rule |-> e.rule, source |-> e.source,
                   delay |-> e.delay, enabled |-> TRUE, value |-> 0, addr |-> x.used,
                   running |-> FALSE, start |-> 0, elapsed |-> 0, last |-> FALSE]
             t == Append(x.channels, c)
  <2>1. c \in Channel
    BY <1>0, <1>1, ExecSizes DEF Channel, Sound, Entry
  <2>2. AddEntry(x, e) = [x EXCEPT !.used = x.used + SizeOf[e.type], !.channels = t]
    <3>1. AddEntry(x, e) = AddChannel(x, e)
      BY <1>1 DEF AddEntry, VirtualTypes
    <3> QED
      BY <1>1, <3>1 DEF AddChannel
  <2>3. c.id = e.id
    OBVIOUS
  <2> HIDE DEF c
  <2>4. AddEntry(x, e).channels = t
    BY <1>0, <2>2 DEF Tables
  <2> QED
    BY <1>1, <2>1, <2>3, <2>4
<1>2. CASE ~(e.type \in VirtualTypes /\ HasRoom(x, e))
  <2>1. AddEntry(x, e) = x \/ \E s : AddEntry(x, e) = [x EXCEPT !.links = s]
    BY <1>2, ExecSizes DEF AddEntry, AddChannel, AddOutputLink, VirtualTypes
  <2>2. AddEntry(x, e).channels = x.channels
    BY <1>0, <2>1 DEF Tables
  <2> QED
    BY <1>2, <2>2
<1> QED
  BY <1>1, <1>2

LEMMA RemovedChannels ==
    ASSUME NEW x, Sound(x), NEW id
    PROVE  /\ RemoveChannel(x, id).used = x.used
           /\ \/ Positions(x.channels, id) = {} /\ RemoveChannel(x, id) = x
              \/ /\ Positions(x.channels, id) # {}
                 /\ \E i \in 1 .. Len(x.channels) :
                       /\ x.channels[i].id = id
                       /\ RemoveChannel(x, id).channels = RemoveAt(x.channels, i)
<1>0. x \in Tables /\ x.channels \in Seq(Channel)
  BY DEF Sound, Tables
<1>1. CASE Positions(x.channels, id) = {}
  BY <1>1 DEF RemoveChannel
<1>2. CASE Positions(x.channels, id) # {}
  <2> DEFINE i == FirstOf(Positions(x.channels, id))
             r == RemoveAt(x.channels, i)
  <2>1. i \in 1 .. Len(x.channels) /\ x.channels[i].id = id
    BY <1>0, <1>2, FirstPosition
  <2>2. RemoveChannel(x, id) = [x EXCEPT !.channels = r]
    BY <1>2 DEF RemoveChannel
  <2> HIDE DEF r
  <2>3. RemoveChannel(x, id).channels = r /\ RemoveChannel(x, id).used = x.used
    BY <1>0, <2>2 DEF Tables
  <2> QED
    BY <1>2, <2>1, <2>3 DEF r
<1> QED
  BY <1>1, <1>2

\* Replacing a channel neither loses nor doubles another one, nor changes the
\* order of the others (PMU_ChannelExec_RemoveChannel, _AddChannel).
THEOREM OthersAlwaysUntouched == ExecSpec => OthersUntouched
<1> DEFINE Untouched == \A e \in Entries : SetChannel(e) =>
              Others(exec'.channels, e.id) = Others(exec.channels, e.id)
<1>1. ExecInit => ExecInv
  BY InitSound
<1>2. ExecInv /\ [ExecNext]_execVars => ExecInv'
  BY NextSound
<1>3. ExecInv /\ [ExecNext]_execVars => [Untouched]_execVars
  <2> SUFFICES ASSUME ExecInv, NEW e \in Entries, SetChannel(e)
               PROVE  Others(exec'.channels, e.id) = Others(exec.channels, e.id)
    OBVIOUS
  <2> DEFINE x == RemoveChannel(exec, e.id)
  <2>1. Sound(exec) /\ e \in Entry /\ e.id # NoRef /\ exec' = AddEntry(x, e)
        /\ exec.channels \in Seq(Channel)
    BY EntriesTyped DEF ExecInv, SetChannel, Sound, Tables
  <2>2. Others(x.channels, e.id) = Others(exec.channels, e.id)
    BY <2>1, RemovedChannels, OthersRemoved
  <2>3. Sound(x) /\ x.channels \in Seq(Channel)
    BY <2>1, RemoveSound DEF Sound, Tables
  <2> HIDE DEF x
  <2>4. Others(exec'.channels, e.id) = Others(x.channels, e.id)
    <3>1. CASE exec'.channels = x.channels
      BY <3>1
    <3>2. CASE \E c \in Channel : c.id = e.id /\ exec'.channels = Append(x.channels, c)
      BY <2>3, <3>2, OthersAppended
    <3> QED
      BY <2>1, <2>3, <3>1, <3>2, AddedChannels
  <2> QED
    BY <2>2, <2>4
<1> QED
  BY <1>1, <1>2, <1>3, PTL DEF ExecSpec, OthersUntouched

\* A replaced channel is lost for want of storage only: its slot of the table
\* is free again when it is added (AllocConfig, PMU_ChannelExec_AddChannel).
THEOREM OnlyLostWhenFull == ExecSpec => LostOnlyWhenFull
<1> DEFINE Full == \A e \in Entries :
              /\ SetChannel(e) /\ e.type \in VirtualTypes
              /\ Positions(exec.channels, e.id) # {}
              /\ Positions(exec'.channels, e.id) = {}
              => exec.used > StorageSize - SizeOf[e.type]
<1>1. ExecInit => ExecInv
  BY InitSound
<1>2. ExecInv /\ [ExecNext]_execVars => ExecInv'
  BY NextSound
<1>3. ExecInv /\ [ExecNext]_execVars => [Full]_execVars
  <2> SUFFICES ASSUME ExecInv, NEW e \in Entries, SetChannel(e), e.type \in VirtualTypes,
                      Positions(exec.channels, e.id) # {}, Positions(exec'.channels, e.id) = {}
               PROVE  exec.used > StorageSize - SizeOf[e.type]
    OBVIOUS
  <2> DEFINE x == RemoveChannel(exec, e.id)
  <2>1. Sound(exec) /\ e \in Entry /\ e.id # NoRef /\ exec' = AddEntry(x, e)
        /\ exec.channels \in Seq(Channel) /\ Len(exec.channels) \in Nat
        /\ Len(exec.channels) <= MaxChannels /\ exec.used \in Nat
    BY EntriesTyped DEF ExecInv, SetChannel, Sound, Tables
  <2>2. PICK i \in 1 .. Len(exec.channels) :
            x.channels = RemoveAt(exec.channels, i) /\ x.used = exec.used
    BY <2>1, RemovedChannels
  <2>3. Sound(x) /\ x.channels \in Seq(Channel)
    BY <2>1, RemoveSound DEF Sound, Tables
  <2> HIDE DEF x
  <2>4. Len(x.channels) < MaxChannels
    <3>1. Len(x.channels) = Len(exec.channels) - 1
      BY <2>1, <2>2, RemoveAtProperties
    <3> QED
      BY <2>1, <3>1, ExecSizes
  <2>5. ~HasRoom(x, e)
    <3> SUFFICES ASSUME HasRoom(x, e) PROVE FALSE
      OBVIOUS
    <3>1. PICK c \in Channel : c.id = e.id /\ exec'.channels = Append(x.channels, c)
      BY <2>1, <2>3, AddedChannels
    <3> DEFINE t == Append(x.channels, c)
               n == Len(x.channels) + 1
    <3>2. t \in Seq(Channel) /\ Len(t) = n /\ t[n] = c /\ n \in Nat /\ n >= 1
      BY <2>3, AppendProperties, LenProperties
    <3> HIDE DEF t, n
    <3>3. n \in DOMAIN t
      BY <3>2, LenProperties
    <3>4. n \in Positions(exec'.channels, e.id)
      BY <3>1, <3>2, <3>3 DEF Positions, t
    <3> QED
      BY <3>4
  <2> QED
    BY <2>1, <2>2, <2>4, <2>5, ExecSizes DEF HasRoom
<1> QED
  BY <1>1, <1>2, <1>3, PTL DEF ExecSpec, LostOnlyWhenFull
-----------------------------------------------------------------------------
(* The node.                                                               *)

Phases == {"ready", "erase_to_save", "erase_to_clear", "program"}
Cells == {Word(b, i) : b \in Configs, i \in Nat} \cup {Nothing}
Sectors == [magic : BOOLEAN, header : Configs \cup {Nothing}, words : Seq(Cells)]

SectorTyped ==
    /\ buffer \in Configs \cup {Nothing}
    /\ flash \in Sectors
    /\ io = Ready \/ (io \in [phase : Phases \ {"ready"}, next : Nat])

\* The words programmed when word n is the next.
Prefix(n) ==
    /\ flash.words \in Seq(Cells)
    /\ Len(flash.words) = IF n <= 2 THEN 0 ELSE n - 3
    /\ \A i \in 1 .. Len(flash.words) : flash.words[i] \in {Word(buffer, i), Nothing}

InProgress ==
    io.phase = "program" =>
        /\ buffer \in Configs
        /\ io.next \in 1 .. LastWord
        /\ flash.header \in {Nothing, buffer}
        /\ Prefix(io.next)

SomethingToSave == io.phase = "erase_to_save" => buffer \in Configs

SaveInv == SectorTyped /\ SomethingToSave /\ InProgress
-----------------------------------------------------------------------------
(* What is in the sector.                                                  *)

LEMMA LengthsTyped == \A b \in Configs : WordsOf[b] \in Nat /\ WordsOf[b] > 0 /\ b # Nothing
BY NodeAssumption

\* A start takes exactly what is completely there.
LEMMA ContentIsWhole == ASSUME NEW f \in Sectors PROVE Content(f) = Whole(f)
<1>1. f = [magic |-> f.magic, header |-> f.header, words |-> f.words]
  BY DEF Sectors
<1>2. CASE f.magic /\ f.header # Nothing /\ f.words = Image(f.header)
  <2>1. f.header \in Configs /\ f = [magic |-> TRUE, header |-> f.header, words |-> Image(f.header)]
    BY <1>1, <1>2 DEF Sectors
  <2>2. \E b \in Configs : f = [magic |-> TRUE, header |-> b, words |-> Image(b)]
    BY <2>1
  <2> QED
    BY <1>2, <2>2 DEF Content, Whole
<1>3. CASE ~(f.magic /\ f.header # Nothing /\ f.words = Image(f.header))
  <2>1. ASSUME NEW b \in Configs, f = [magic |-> TRUE, header |-> b, words |-> Image(b)]
        PROVE  FALSE
    <3>1. f.magic = TRUE /\ f.header = b /\ f.words = Image(b)
      BY <2>1
    <3> QED
      BY <1>3, <3>1, LengthsTyped
  <2> QED
    BY <1>3, <2>1 DEF Content, Whole
<1> QED
  BY <1>2, <1>3

\* No configuration is empty.
LEMMA ImageLength ==
    ASSUME NEW b \in Configs
    PROVE  Image(b) \in Seq(Cells) /\ Len(Image(b)) = WordsOf[b] /\ Image(b) # <<>>
<1>1. \A i \in 1 .. WordsOf[b] : Word(b, i) \in Cells
  BY LengthsTyped DEF Cells
<1>2. Image(b) \in [1 .. WordsOf[b] -> Cells]
  BY <1>1 DEF Image
<1> QED
  BY <1>2, LengthsTyped

\* What a sector whose words are cut short or other than an image holds.
LEMMA NotWhole ==
    ASSUME NEW f \in Sectors, \A b \in Configs : f.header = b => f.words # Image(b)
    PROVE  Whole(f) = Nothing
BY DEF Whole

LEMMA WholeTyped == \A f \in Sectors : Whole(f) \in Configs \cup {Nothing}
BY DEF Whole, Sectors

LEMMA ErasedHoldsNothing == Erased \in Sectors /\ Whole(Erased) = Nothing
<1>1. Erased \in Sectors
  BY DEF Erased, Sectors
<1> QED
  BY <1>1, LengthsTyped, NotWhole DEF Erased

\* An erasure that does not complete mixes nothing.
LEMMA DamagedHolds ==
    ASSUME NEW f \in Sectors, NEW g \in Damaged(f)
    PROVE  g \in Sectors /\ Whole(g) \in {Whole(f), Nothing}
<1>1. CASE g = f
  BY <1>1
<1>2. CASE g = [f EXCEPT !.words = <<>>]
  <2>1. <<>> \in Seq(Cells)
    OBVIOUS
  <2>2. g \in Sectors /\ g.words = <<>>
    <3> DEFINE none == <<>>
    <3>1. none \in Seq(Cells)
      BY <2>1
    <3>2. g = [f EXCEPT !.words = none]
      BY <1>2
    <3> HIDE DEF none
    <3>3. g \in Sectors /\ g.words = none
      BY <3>1, <3>2 DEF Sectors
    <3> QED
      BY <3>3 DEF none
  <2> QED
    BY <2>2, ImageLength, NotWhole
<1>3. CASE g = [f EXCEPT !.magic = FALSE]
  <2>1. g \in Sectors /\ g.magic = FALSE
    BY <1>3 DEF Sectors
  <2> QED
    BY <2>1 DEF Whole
<1> QED
  BY <1>1, <1>2, <1>3 DEF Damaged
-----------------------------------------------------------------------------
(* The programming of a word.                                              *)

\* It keeps the words a prefix, and adds the last one only at the end.
LEMMA OneWord ==
    ASSUME SaveInv, Program
    PROVE  /\ flash' \in Sectors
           /\ flash'.header \in {Nothing, buffer}
           /\ Len(flash'.words) = IF io.next <= 2 THEN 0 ELSE io.next - 2
           /\ \A i \in 1 .. Len(flash'.words) : flash'.words[i] \in {Word(buffer, i), Nothing}
<1>1. /\ io.phase = "program" /\ buffer \in Configs /\ io.next \in 1 .. LastWord
      /\ flash.header \in {Nothing, buffer} /\ Prefix(io.next) /\ flash \in Sectors
  BY DEF SaveInv, InProgress, SectorTyped, Program
<1>2. io.next \in Nat /\ io.next >= 1
  BY <1>1, LengthsTyped DEF LastWord
<1>3. CASE io.next <= 2
  <2>1. flash' \in {flash, [flash EXCEPT !.magic = TRUE], [flash EXCEPT !.header = buffer]}
    BY <1>2, <1>3 DEF Program, Programmed, Skipped
  <2>2. flash' \in Sectors /\ flash'.words = flash.words /\ flash'.header \in {Nothing, buffer}
    BY <1>1, <2>1 DEF Sectors
  <2>3. Len(flash.words) = 0
    BY <1>1, <1>3 DEF Prefix
  <2> QED
    BY <1>3, <2>2, <2>3
<1>4. CASE io.next > 2
  <2>1. PICK w \in {Word(buffer, io.next - 2), Nothing} :
            flash' = [flash EXCEPT !.words = Append(@, w)]
    BY <1>2, <1>4 DEF Program, Programmed, Skipped
  <2>2. w \in Cells
    BY <1>1, <1>2, <1>4 DEF Cells
  <2>3. /\ flash.words \in Seq(Cells) /\ Len(flash.words) = io.next - 3
        /\ \A i \in 1 .. Len(flash.words) : flash.words[i] \in {Word(buffer, i), Nothing}
    BY <1>1, <1>2, <1>4 DEF Prefix
  <2>4. flash'.words = Append(flash.words, w) /\ flash'.header = flash.header
    BY <1>1, <2>1 DEF Sectors
  <2>5. Append(flash.words, w) \in Seq(Cells)
    BY <2>2, <2>3
  <2>6. flash' \in Sectors
    BY <1>1, <2>1, <2>5 DEF Sectors
  <2>7. Len(flash'.words) = io.next - 2
    BY <1>2, <2>3, <2>4
  <2>8. ASSUME NEW i \in 1 .. Len(flash'.words)
        PROVE  flash'.words[i] \in {Word(buffer, i), Nothing}
    <3>1. CASE i = io.next - 2
      BY <1>2, <2>1, <2>3, <2>4, <3>1
    <3>2. CASE i # io.next - 2
      <4>1. i \in 1 .. Len(flash.words)
        BY <1>2, <2>3, <2>7, <3>2
      <4>2. flash'.words[i] = flash.words[i]
        BY <2>3, <2>4, <4>1
      <4> QED
        BY <2>3, <4>1, <4>2
    <3> QED
      BY <3>1, <3>2
  <2> QED
    BY <1>1, <1>2, <1>4, <2>4, <2>6, <2>7, <2>8
<1> QED
  BY <1>2, <1>3, <1>4

\* Before the last word the sector holds no configuration, after it none or
\* the one in the buffer.
LEMMA WrittenLast ==
    ASSUME SaveInv, Program
    PROVE  Whole(flash) = Nothing /\ Whole(flash') \in {Nothing, buffer}
<1>1. /\ buffer \in Configs /\ io.next \in 1 .. LastWord /\ Prefix(io.next)
      /\ flash.header \in {Nothing, buffer} /\ flash \in Sectors
  BY DEF SaveInv, InProgress, SectorTyped, Program
<1>2. WordsOf[buffer] \in Nat /\ WordsOf[buffer] > 0 /\ buffer # Nothing
  BY <1>1, LengthsTyped
<1>3. Len(flash.words) < WordsOf[buffer]
  BY <1>1, <1>2 DEF Prefix, LastWord
<1>4. \A b \in Configs : flash.header = b => flash.words # Image(b)
  BY <1>1, <1>2, <1>3, ImageLength, LengthsTyped
<1>5. Whole(flash) = Nothing
  BY <1>1, <1>4, NotWhole
<1>6. Whole(flash') \in {Nothing, flash'.header}
  BY DEF Whole
<1> QED
  BY <1>5, <1>6, OneWord
-----------------------------------------------------------------------------
(* The invariant.                                                          *)

LEMMA InitSave == NodeInit => SaveInv
BY ErasedHoldsNothing DEF NodeInit, SaveInv, SectorTyped, SomethingToSave, InProgress, Ready

\* Between two flash operations only the buffer changes.
LEMMA ReadySave ==
    ASSUME io' = Ready, flash' \in Sectors, buffer' \in Configs \cup {Nothing}
    PROVE  SaveInv'
BY DEF SaveInv, SectorTyped, SomethingToSave, InProgress, Ready

LEMMA EraseSave == ASSUME SaveInv, Erase PROVE SaveInv'
<1>1. CASE io.phase = "erase_to_save"
  <2>1. /\ flash' = Erased /\ buffer' = buffer /\ buffer \in Configs
        /\ io' = [phase |-> "program", next |-> 1]
    BY <1>1 DEF Erase, SaveInv, SomethingToSave
  <2>2. SectorTyped' /\ SomethingToSave'
    BY <2>1, ErasedHoldsNothing DEF SectorTyped, SomethingToSave, Phases
  <2>3. LastWord' \in Nat /\ LastWord' >= 1
    BY <2>1, LengthsTyped DEF LastWord
  <2>4. flash'.words = <<>> /\ flash'.header = Nothing /\ io'.next = 1
    BY <2>1 DEF Erased
  <2>5. Prefix(1)'
    BY <2>4 DEF Prefix
  <2>6. InProgress'
    BY <2>1, <2>3, <2>4, <2>5 DEF InProgress
  <2> QED
    BY <2>2, <2>6 DEF SaveInv
<1>2. CASE io.phase # "erase_to_save"
  BY <1>2, ReadySave, ErasedHoldsNothing DEF Erase, SaveInv, SectorTyped
<1> QED
  BY <1>1, <1>2

LEMMA ProgramSave == ASSUME SaveInv, Program PROVE SaveInv'
<1>1. buffer' = buffer /\ buffer \in Configs /\ io.next \in 1 .. LastWord /\ io.phase = "program"
  BY DEF Program, SaveInv, InProgress
<1>2. LastWord' = LastWord /\ LastWord \in Nat
  BY <1>1, LengthsTyped DEF LastWord
<1>3. CASE io.next = LastWord
  <2>1. io' = Ready
    BY <1>3 DEF Program
  <2> QED
    BY <1>1, <2>1, OneWord, ReadySave
<1>4. CASE io.next # LastWord
  <2>1. io \in [phase : Phases \ {"ready"}, next : Nat]
    BY <1>1 DEF SaveInv, SectorTyped, Ready
  <2>2. io' = [io EXCEPT !.next = io.next + 1]
    BY <1>4 DEF Program
  <2>3. /\ io' \in [phase : Phases \ {"ready"}, next : Nat]
        /\ io'.phase = "program" /\ io'.next = io.next + 1
    BY <1>1, <2>1, <2>2
  <2>4. SectorTyped' /\ SomethingToSave'
    BY <1>1, <2>3, OneWord DEF SectorTyped, SomethingToSave
  <2>5. flash'.words \in Seq(Cells)
    BY OneWord DEF Sectors
  <2>6. io.next \in Nat /\ io.next >= 1
    BY <1>1, <1>2
  <2>7. Len(flash'.words) = IF io'.next <= 2 THEN 0 ELSE io'.next - 3
    BY <2>3, <2>6, OneWord
  <2>8. \A i \in 1 .. Len(flash'.words) : flash'.words[i] \in {Word(buffer', i), Nothing}
    BY <1>1, OneWord
  <2>9. Prefix(io.next)'
    BY <2>5, <2>7, <2>8 DEF Prefix
  <2>10. io'.next \in 1 .. LastWord'
    BY <1>1, <1>2, <1>4, <2>3
  <2>11. InProgress'
    BY <1>1, <2>9, <2>10, OneWord DEF InProgress
  <2> QED
    BY <2>4, <2>11 DEF SaveInv
<1> QED
  BY <1>3, <1>4

LEMMA NextSave == ASSUME SaveInv, [NodeNext]_nodeVars PROVE SaveInv'
<1>0. buffer \in Configs \cup {Nothing} /\ flash \in Sectors
  BY DEF SaveInv, SectorTyped
<1>1. CASE MainTick
  BY <1>0, <1>1, ReadySave DEF MainTick, Idle
<1>2. ASSUME NEW b \in Configs, LoadBinary(b) PROVE SaveInv'
  <2>1. io' = Ready /\ flash' = flash /\ buffer' = b
    BY <1>2 DEF LoadBinary, Idle
  <2> QED
    BY <1>0, <2>1, ReadySave
<1>3. CASE LoadNoData
  BY <1>0, <1>3, ReadySave DEF LoadNoData, Idle
<1>4. ASSUME NEW hw \in 0 .. NumOutputs, NEW on \in BOOLEAN, SetOutput(hw, on) PROVE SaveInv'
  BY <1>0, <1>4, ReadySave DEF SetOutput, Idle
<1>5. CASE SaveConfig
  BY <1>0, <1>5 DEF SaveConfig, SaveInv, SectorTyped, SomethingToSave, InProgress, Phases
<1>6. CASE ClearConfig
  <2>1. buffer' = Nothing /\ flash' = flash /\ io' = [phase |-> "erase_to_clear", next |-> 0]
    BY <1>6 DEF ClearConfig
  <2> QED
    BY <1>0, <2>1 DEF SaveInv, SectorTyped, SomethingToSave, InProgress, Phases
<1>7. CASE Erase
  BY <1>7, EraseSave
<1>8. CASE EraseFails
  BY <1>0, <1>8, DamagedHolds, ReadySave DEF EraseFails
<1>9. CASE Program
  BY <1>9, ProgramSave
<1>10. CASE Boot
  <2>1. flash' \in Sectors
    BY <1>0, <1>10, DamagedHolds DEF Boot
  <2>2. buffer' \in Configs \cup {Nothing} /\ io' = Ready
    BY <1>10, <2>1, ContentIsWhole, WholeTyped DEF Boot
  <2> QED
    BY <2>1, <2>2, ReadySave
<1>11. CASE UNCHANGED nodeVars
  <2>1. buffer' = buffer /\ flash' = flash /\ io' = io
    BY <1>11 DEF nodeVars
  <2> QED
    BY <2>1 DEF SaveInv, SectorTyped, SomethingToSave, InProgress, LastWord, Prefix
<1> QED
  BY <1>1, <1>2, <1>3, <1>4, <1>5, <1>6, <1>7, <1>8, <1>9, <1>10, <1>11
  DEF NodeNext, LoadCommand, OutputCommand

\* At any moment of a save the sector is erased up to the word that is next
\* (Config_SaveToFlash), and whatever is in the buffer is a configuration.
THEOREM SaveInvariant == NodeSpec => []SaveInv
<1>1. NodeInit => SaveInv
  BY InitSave
<1>2. SaveInv /\ [NodeNext]_nodeVars => SaveInv'
  BY NextSave
<1> QED
  BY <1>1, <1>2, PTL DEF NodeSpec
-----------------------------------------------------------------------------
(* The refinement.                                                         *)

LEMMA InitSaved == NodeInit => Saved!SavedInit
BY ErasedHoldsNothing DEF NodeInit, Saved!SavedInit

LEMMA StepSaved == ASSUME SaveInv, [NodeNext]_nodeVars PROVE [Saved!SavedNext]_(Saved!savedVars)
<1>0. buffer \in Configs \cup {Nothing} /\ flash \in Sectors
  BY DEF SaveInv, SectorTyped
<1>1. ASSUME flash' = flash, io' = io, buffer' = buffer PROVE [Saved!SavedNext]_(Saved!savedVars)
  BY <1>1 DEF Saved!savedVars
<1>2. CASE MainTick
  BY <1>1, <1>2 DEF MainTick
<1>3. ASSUME NEW b \in Configs, LoadBinary(b) PROVE Saved!Receive
  BY <1>3 DEF LoadBinary, Idle, Saved!Receive
<1>4. CASE LoadNoData
  <2>1. Saved!Receive
    BY <1>4 DEF LoadNoData, Idle, Saved!Receive
  <2> QED
    BY <2>1 DEF Saved!SavedNext
<1>5. ASSUME NEW hw \in 0 .. NumOutputs, NEW on \in BOOLEAN, SetOutput(hw, on)
      PROVE  [Saved!SavedNext]_(Saved!savedVars)
  BY <1>1, <1>5 DEF SetOutput
<1>6. CASE SaveConfig
  <2>1. Saved!BeginSave
    BY <1>6 DEF SaveConfig, Idle, Ready, Saved!BeginSave
  <2> QED
    BY <2>1 DEF Saved!SavedNext
<1>7. CASE ClearConfig
  <2>1. Saved!BeginClear
    BY <1>7 DEF ClearConfig, Idle, Ready, Saved!BeginClear
  <2> QED
    BY <2>1 DEF Saved!SavedNext
<1>8. CASE Erase
  <2>1. io # Ready /\ Whole(flash') = Nothing /\ buffer' = buffer
    BY <1>8, ErasedHoldsNothing DEF Erase, Erasing, Ready
  <2>2. Saved!Write
    BY <2>1 DEF Saved!Write
  <2> QED
    BY <2>2 DEF Saved!SavedNext
<1>9. CASE EraseFails
  <2>1. io # Ready /\ Whole(flash') \in {Whole(flash), Nothing} /\ buffer' = buffer
    BY <1>0, <1>9, DamagedHolds DEF EraseFails, Erasing, Ready
  <2>2. Saved!Write
    BY <2>1 DEF Saved!Write
  <2> QED
    BY <2>2 DEF Saved!SavedNext
<1>10. CASE Program
  <2>1. io # Ready /\ buffer' = buffer
    BY <1>10 DEF Program, Ready
  <2>2. Whole(flash) = Nothing /\ Whole(flash') \in {Nothing, buffer}
    BY <1>10, WrittenLast
  <2>3. Saved!Write
    BY <2>1, <2>2 DEF Saved!Write
  <2> QED
    BY <2>3 DEF Saved!SavedNext
<1>11. CASE Boot
  <2>1. flash' \in Sectors /\ Whole(flash') \in {Whole(flash), Nothing}
        /\ (~Erasing => flash' = flash)
    BY <1>0, <1>11, DamagedHolds DEF Boot
  <2>2. buffer' = Whole(flash') /\ io' = Ready
    BY <1>11, <2>1, ContentIsWhole DEF Boot
  <2>3. Erasing => io # Ready
    BY DEF Erasing, Ready
  <2>4. CASE Whole(flash') = Whole(flash)
    <3>1. Saved!Start
      BY <2>2, <2>4 DEF Saved!Start
    <3> QED
      BY <3>1 DEF Saved!SavedNext
  <2>5. CASE Whole(flash') # Whole(flash)
    <3>1. Saved!StartEmpty
      BY <2>1, <2>2, <2>3, <2>5 DEF Saved!StartEmpty
    <3> QED
      BY <3>1 DEF Saved!SavedNext
  <2> QED
    BY <2>4, <2>5
<1>12. CASE UNCHANGED nodeVars
  BY <1>1, <1>12 DEF nodeVars
<1> QED
  BY <1>2, <1>3, <1>4, <1>5, <1>6, <1>7, <1>8, <1>9, <1>10, <1>11, <1>12
  DEF NodeNext, LoadCommand, OutputCommand, Saved!SavedNext

\* Saving and booting implement the promise of SavedConfig, wherever the power
\* fails: a start restores what was saved last, whole, or nothing
\* (Config_SaveToFlash, Config_LoadFromFlash).
THEOREM ImplementsSavedConfig == NodeSpec => ImplementsSaved
<1>1. NodeInit => Saved!SavedInit
  BY InitSaved
<1>2. SaveInv /\ [NodeNext]_nodeVars => [Saved!SavedNext]_(Saved!savedVars)
  BY StepSaved
<1>3. NodeSpec => []SaveInv
  BY SaveInvariant
<1> QED
  BY <1>1, <1>2, <1>3, PTL DEF NodeSpec, ImplementsSaved, Saved!SavedSpec
-----------------------------------------------------------------------------
(* What runs is what is loaded.  The executor's part is the invariant of   *)
(* ExecProofs; a tick changes neither the configuration of a channel nor a *)
(* link, and switches on no pin without one.                               *)

InPlace(words) == \A n \in 1 .. Len(words) : words[n] \in {Word(b, n) : b \in Configs} \cup {Nothing}

LinkedOrCommanded ==
    \A h \in Pins : outputs.pins[h] =>
        h \in commanded \/ \E i \in DOMAIN exec.links : exec.links[i].hw = h

NodeInv ==
    /\ SaveInv /\ ExecInv /\ InPlace(flash.words) /\ commanded \subseteq Pins
    /\ RunsWhatIsLoaded
    /\ buffer \in Blobs => LinkedOrCommanded

LEMMA BlobsApart == Nothing \notin Blobs /\ \A b \in Stubs : b \notin Blobs
BY NodeAssumption DEF Configs

LEMMA PinsOff == \A h \in Pins : AllOff.pins[h] = FALSE
BY DEF AllOff

\* A command switches the pin it names, and no other.
LEMMA SwitchedPins ==
    ASSUME NEW o \in Outputs, NEW hw, NEW on \in BOOLEAN, NEW p \in Pins
    PROVE  Switched(o, hw, on).pins[p] = IF p = hw THEN on ELSE o.pins[p]
BY DEF Switched, Outputs

\* The description of the tables does not see what a tick changes.
LEMMA DescribedAlike ==
    ASSUME exec'.links = exec.links, exec'.used = exec.used, exec'.channels \in Alike(exec.channels)
    PROVE  Described(exec') = Described(exec)
<1> DEFINE D(t) == [i \in DOMAIN t |->
                      [id |-> t[i].id, rule |-> t[i].rule, source |-> t[i].source, delay |-> t[i].delay]]
<1>1. D(exec'.channels) = D(exec.channels)
  BY DEF Alike, Same
<1>2. /\ Described(exec) = [channels |-> D(exec.channels), links |-> exec.links, used |-> exec.used]
      /\ Described(exec') = [channels |-> D(exec'.channels), links |-> exec'.links, used |-> exec'.used]
  BY DEF Described
<1> HIDE DEF D
<1> QED
  BY <1>1, <1>2

LEMMA InitNode == NodeInit => NodeInv
<1> SUFFICES ASSUME NodeInit PROVE NodeInv
  OBVIOUS
<1>1. SaveInv /\ ExecInv
  BY InitSave, InitSound DEF NodeInit
<1>2. InPlace(flash.words) /\ commanded \subseteq Pins /\ buffer \notin Blobs
  BY BlobsApart DEF NodeInit, Erased, InPlace
<1> QED
  BY <1>1, <1>2 DEF NodeInv, RunsWhatIsLoaded

\* A step that leaves the executor alone.
LEMMA OtherNode ==
    ASSUME NodeInv, SaveInv', UNCHANGED <<exec, outputs, din, clock, commanded>>,
           InPlace(flash'.words), buffer' = buffer \/ buffer' \notin Blobs
    PROVE  NodeInv'
<1>1. ExecInv'
  BY DEF NodeInv, ExecInv
<1>2. InPlace(flash.words)' /\ (commanded \subseteq Pins)'
  BY DEF NodeInv, InPlace
<1>3. RunsWhatIsLoaded' /\ (buffer' \in Blobs => LinkedOrCommanded')
  BY DEF NodeInv, RunsWhatIsLoaded, LinkedOrCommanded
<1> QED
  BY <1>1, <1>2, <1>3 DEF NodeInv

LEMMA TickNode == ASSUME NodeInv, MainTick, SaveInv' PROVE NodeInv'
<1>1. ExecInv /\ Tick /\ buffer' = buffer /\ flash' = flash /\ commanded' = commanded
  BY DEF NodeInv, MainTick
<1>2. /\ ExecInv' /\ exec'.links = exec.links /\ exec'.used = exec.used
      /\ exec'.channels \in Alike(exec.channels)
  BY <1>1, TickSound
<1>3. RunsWhatIsLoaded'
  BY <1>1, <1>2, DescribedAlike DEF NodeInv, RunsWhatIsLoaded
<1>4. ASSUME LinkedOrCommanded PROVE LinkedOrCommanded'
  <2> SUFFICES ASSUME NEW h \in Pins, outputs'.pins[h]
               PROVE  h \in commanded \/ \E i \in DOMAIN exec.links : exec.links[i].hw = h
    BY <1>1, <1>2 DEF LinkedOrCommanded
  <2>1. outputs \in Outputs /\ exec.links \in Seq(Link) /\ outputs' = Linked(exec'.channels)
    BY <1>1 DEF ExecInv, Sound, Tables, Tick
  <2>2. outputs.pins[h] \/ \E i \in DOMAIN exec.links : exec.links[i].hw = h
    BY <2>1, LinkedTyped
  <2> QED
    BY <1>4, <2>2 DEF LinkedOrCommanded
<1>5. InPlace(flash.words)' /\ (commanded \subseteq Pins)'
  BY <1>1 DEF NodeInv, InPlace
<1> QED
  BY <1>1, <1>2, <1>3, <1>4, <1>5 DEF NodeInv

LEMMA LoadNode == ASSUME NodeInv, NEW b \in Configs, LoadBinary(b), SaveInv' PROVE NodeInv'
<1>1. CASE b \in Blobs /\ LoadConfig(b) /\ commanded' = {}
  <2>1. ExecInv' /\ exec' = LoadedBy(b) /\ buffer' = b /\ flash' = flash
    BY <1>1, LoadConfigSound DEF LoadBinary, LoadConfig, NodeInv
  <2>2. outputs'.pins = AllOff.pins
    BY <1>1 DEF NodeInv, ExecInv, Outputs, LoadConfig
  <2>3. RunsWhatIsLoaded' /\ LinkedOrCommanded'
    BY <2>1, <2>2, PinsOff DEF RunsWhatIsLoaded, LinkedOrCommanded
  <2>4. InPlace(flash.words)' /\ (commanded \subseteq Pins)'
    BY <1>1, <2>1 DEF NodeInv, InPlace
  <2> QED
    BY <2>1, <2>3, <2>4 DEF NodeInv
<1>2. CASE b \in Stubs /\ UNCHANGED <<exec, outputs, din, clock, commanded>>
  <2>1. buffer' \notin Blobs /\ flash' = flash
    BY <1>2, BlobsApart DEF LoadBinary
  <2> QED
    BY <1>2, <2>1, OtherNode DEF NodeInv, InPlace
<1> QED
  BY <1>1, <1>2 DEF LoadBinary

LEMMA OutputNode ==
    ASSUME NodeInv, NEW hw, NEW on \in BOOLEAN, SetOutput(hw, on), SaveInv'
    PROVE  NodeInv'
<1>1. /\ outputs \in Outputs /\ outputs' = Switched(outputs, hw, on) /\ exec' = exec
      /\ buffer' = buffer /\ flash' = flash /\ din' = din /\ clock' = clock
      /\ commanded' = IF on THEN commanded \cup ({hw} \cap Pins) ELSE commanded \ {hw}
  BY DEF NodeInv, ExecInv, SetOutput
<1>2. ExecInv'
  BY <1>1, SwitchedTyped DEF NodeInv, ExecInv
<1>3. RunsWhatIsLoaded'
  BY <1>1 DEF NodeInv, RunsWhatIsLoaded
<1>4. ASSUME LinkedOrCommanded PROVE LinkedOrCommanded'
  <2> SUFFICES ASSUME NEW h \in Pins, outputs'.pins[h]
               PROVE  h \in commanded' \/ \E i \in DOMAIN exec.links : exec.links[i].hw = h
    BY <1>1 DEF LinkedOrCommanded
  <2>1. IF h = hw THEN on ELSE outputs.pins[h]
    BY <1>1, SwitchedPins
  <2> QED
    BY <1>1, <1>4, <2>1 DEF LinkedOrCommanded
<1>5. InPlace(flash.words)' /\ (commanded \subseteq Pins)'
  BY <1>1 DEF NodeInv, InPlace
<1> QED
  BY <1>1, <1>2, <1>3, <1>4, <1>5 DEF NodeInv

LEMMA DamagedInPlace ==
    ASSUME NEW f \in Sectors, InPlace(f.words), NEW g \in Damaged(f)
    PROVE  InPlace(g.words)
<1>1. g.words \in {f.words, <<>>}
  BY DEF Damaged, Sectors
<1>2. InPlace(<<>>)
  BY DEF InPlace
<1> QED
  BY <1>1, <1>2

LEMMA BootNode == ASSUME NodeInv, Boot, SaveInv' PROVE NodeInv'
<1>1. flash \in Sectors /\ InPlace(flash.words)
  BY DEF NodeInv, SaveInv, SectorTyped
<1>2. InPlace(flash'.words)
  BY <1>1, DamagedInPlace DEF Boot
<1>3. Sound(exec')
  BY LoadedSound, EmptySound DEF Boot
<1>4. ExecInv'
  BY <1>3, OffTyped, ExecSizes DEF Boot, ExecInv
<1>5. RunsWhatIsLoaded' /\ LinkedOrCommanded'
  BY PinsOff DEF Boot, RunsWhatIsLoaded, LinkedOrCommanded
<1>6. InPlace(flash.words)' /\ (commanded \subseteq Pins)'
  BY <1>2 DEF InPlace, Boot
<1> QED
  BY <1>4, <1>5, <1>6 DEF NodeInv

LEMMA NextNode == ASSUME NodeInv, [NodeNext]_nodeVars PROVE NodeInv'
<1>0. SaveInv' /\ SaveInv /\ InPlace(flash.words) /\ flash \in Sectors
  BY NextSave DEF NodeInv, SaveInv, SectorTyped
<1>1. CASE MainTick
  BY <1>0, <1>1, TickNode
<1>2. CASE LoadCommand
  BY <1>0, <1>2, LoadNode DEF LoadCommand
<1>3. CASE LoadNoData
  BY <1>0, <1>3, BlobsApart, OtherNode DEF LoadNoData
<1>4. CASE OutputCommand
  BY <1>0, <1>4, OutputNode DEF OutputCommand
<1>5. CASE SaveConfig
  BY <1>0, <1>5, OtherNode DEF SaveConfig
<1>6. CASE ClearConfig
  <2>1. /\ buffer' = Nothing /\ flash' = flash /\ commanded' = commanded /\ Clear
        /\ buffer' \notin Blobs
    BY <1>6, BlobsApart DEF ClearConfig
  <2>2. ExecInv'
    BY <2>1, ClearSound DEF NodeInv
  <2>3. InPlace(flash.words)' /\ (commanded \subseteq Pins)' /\ RunsWhatIsLoaded'
    BY <2>1 DEF NodeInv, InPlace, RunsWhatIsLoaded
  <2> QED
    BY <1>0, <2>1, <2>2, <2>3 DEF NodeInv
<1>7. CASE Erase
  <2>1. InPlace(flash'.words)
    BY <1>7 DEF Erase, Erased, InPlace
  <2> QED
    BY <1>0, <1>7, <2>1, OtherNode DEF Erase
<1>8. CASE EraseFails
  <2>1. InPlace(flash'.words)
    BY <1>0, <1>8, DamagedInPlace DEF EraseFails
  <2> QED
    BY <1>0, <1>8, <2>1, OtherNode DEF EraseFails
<1>9. CASE Program
  <2>1. buffer \in Configs
    BY <1>0, <1>9 DEF Program, SaveInv, InProgress
  <2>2. InPlace(flash'.words)
    BY <1>0, <1>9, <2>1, OneWord DEF InPlace
  <2> QED
    BY <1>0, <1>9, <2>2, OtherNode DEF Program
<1>10. CASE Boot
  BY <1>0, <1>10, BootNode
<1>11. CASE UNCHANGED nodeVars
  <2>1. UNCHANGED <<exec, outputs, din, clock, commanded, flash, buffer>>
    BY <1>11 DEF nodeVars
  <2> QED
    BY <1>0, <2>1, OtherNode
<1> QED
  BY <1>1, <1>2, <1>3, <1>4, <1>5, <1>6, <1>7, <1>8, <1>9, <1>10, <1>11 DEF NodeNext

LEMMA InvAgrees == NodeInv => NodeAgrees
<1> SUFFICES ASSUME NodeInv PROVE NodeAgrees
  OBVIOUS
<1>1. ExecTypeOK
  BY InvSound DEF NodeInv, TablesSound
<1>2. buffer \in Configs \cup {Nothing} /\ flash \in Sectors
  BY DEF NodeInv, SaveInv, SectorTyped
<1>3. io.phase \in Phases
  BY DEF NodeInv, SaveInv, SectorTyped, Ready, Phases
<1>4. io.phase = "program" => buffer # Nothing /\ io.next \in 1 .. LastWord
  BY LengthsTyped DEF NodeInv, SaveInv, InProgress
<1>5. NodeTypeOK
  BY <1>1, <1>2, <1>3, <1>4 DEF NodeTypeOK, NodeInv, InPlace, Sectors, Phases
<1>6. ReloadStartsDark
  BY DEF NodeInv, ReloadStartsDark, PinsExplained, LinkedOrCommanded
<1> QED
  BY <1>5, <1>6 DEF NodeInv, NodeAgrees

\* The executor runs the configuration that is in the buffer, and after a load,
\* a reload or a boot only its links and later commands switch pins on, after
\* any mix of loads, failed loads, saves, clears, resets and power failures.
THEOREM NodeAlwaysAgrees == NodeSpec => []NodeAgrees
<1>1. NodeInit => NodeInv
  BY InitNode
<1>2. NodeInv /\ [NodeNext]_nodeVars => NodeInv'
  BY NextNode
<1>3. NodeInv => NodeAgrees
  BY InvAgrees
<1> QED
  BY <1>1, <1>2, <1>3, PTL DEF NodeSpec
=============================================================================
