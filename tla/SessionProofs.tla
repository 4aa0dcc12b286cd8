---------------------------- MODULE SessionProofs ----------------------------
(***************************************************************************)
(* What a session of the configurator keeps, for any number of threads and *)
(* connections.                                                            *)
(*                                                                         *)
(* The controller that says it is connected has its own transport open     *)
(* whenever nothing runs, however the steps of operations overlap.  While  *)
(* operations run this is not inductive by itself: the port may be free,   *)
(* with a thread or with the transport of an earlier connection.  Then     *)
(* some thread is still on its way to reopen the transport of the present  *)
(* connection, and its step either opens it or drops the flag (LinkInv).   *)
(*                                                                         *)
(* As long as no two operations overlapped, each operation gives back what *)
(* it borrowed, and neither an upload nor a read loses anything.  Held     *)
(* says where the port is at each step of the one operation that may run,  *)
(* Watched whose progress dialog is open, Fresh that a result on its way   *)
(* is still the configuration of the node, Agreeing that document and node *)
(* agree.  An overlap sets the ghost raced before it can break any of      *)
(* them (SessionInv).                                                      *)
(*                                                                         *)
(* What survives the way there and back is a fact about the codec: every   *)
(* document of the tree whose image is not cut comes back with the inputs  *)
(* and the exact values of each channel of six kinds (WholeUploadsReturn). *)
(***************************************************************************)
EXTENDS Session, FiniteSetTheorems, TLAPS

Objects == {None} \cup Threads \cup ToSet(Transports)
Pcs == {"idle", "connect", "join", "decide", "begin", "pump", "shown", "done", "release", "open",
        "clear", "load", "get", "close", "reach", "reopen"}
Kinds == {"none", "sync", "write", "read", "compare", "orphan"}
Op(D) == [pc : Pcs, kind : Kinds, doc : D, ok : BOOLEAN, obj : Objects]

\* An operation in this place will reopen the transport of the present
\* connection.
Returning(r) ==
    \/ r.pc \in {"open", "clear", "load", "get", "close", "reach"}
    \/ r.pc = "reopen" /\ r.obj = current

TypedOps == \E D : ops \in [Threads -> Op(D)]
Connecting == At(UI, "connect") => current # None /\ ~linked
Joining == At(UI, "join") => ops[UI].obj \in Workers
Backed == linked => current # None /\ (port = current \/ \E t \in Threads : Returning(ops[t]))
LinkInv ==
    /\ TypedOps
    /\ made \in Nat
    /\ current \in {None} \cup ToSet(Transports)
    /\ Connecting /\ Joining /\ Backed

LEMMA InitLink == Init => LinkInv
<1> SUFFICES ASSUME Init PROVE LinkInv
  OBVIOUS
<1>0. Resting \in Op({{}})
  BY DEF Op, Objects, Resting, Pcs, Kinds
<1>1. ops \in [Threads -> Op({{}})]
  BY <1>0 DEF Init
<1>2. \A t \in Threads : ops[t].pc = "idle"
  BY DEF Init, Resting
<1>3. UI \in Threads
  BY DEF Threads
<1> QED
  BY <1>1, <1>2, <1>3 DEF Init, LinkInv, TypedOps, Connecting, Joining, Backed, At

\* A step that leaves the threads and the link alone.
LEMMA StillLink ==
    ASSUME LinkInv, UNCHANGED <<ops, port, current, linked, made>>
    PROVE  LinkInv'
BY DEF LinkInv, TypedOps, Connecting, Joining, Backed, Returning, At

LEMMA NextTransport ==
    ASSUME made \in Nat, made < Len(Transports)
    PROVE  Transports[made + 1] \in ToSet(Transports) /\ Transports[made + 1] # None
BY SessionAssumption DEF ToSet

\* A step that keeps the connection and loses nobody who will come back to it.
LEMMA Carried ==
    ASSUME LinkInv, NEW D, ops' \in [Threads -> Op(D)],
           UNCHANGED <<current, linked, made>>,
           linked => \A t \in Threads : Returning(ops[t]) => Returning(ops'[t]),
           linked => port' = port \/ \E t \in Threads : Returning(ops'[t]),
           ops'[UI].pc = "connect" => current # None /\ ~linked,
           ops'[UI].pc = "join" => ops'[UI].obj \in Workers
    PROVE  LinkInv'
<1>1. TypedOps'
  BY DEF TypedOps
<1>2. Connecting' /\ Joining'
  BY DEF Connecting, Joining, At
<1>3. Backed'
  BY DEF LinkInv, Backed, Returning
<1> QED
  BY <1>1, <1>2, <1>3 DEF LinkInv

\* The same for a step of one thread.
LEMMA OneStep ==
    ASSUME LinkInv, NEW D, ops \in [Threads -> Op(D)], NEW u \in Threads,
           NEW r \in Op(D), ops' = [ops EXCEPT ![u] = r],
           UNCHANGED <<current, linked, made>>,
           ~linked \/ Returning(r) \/ (port' = port /\ ~Returning(ops[u])),
           u = UI => r.pc # "connect" /\ (r.pc = "join" => r.obj \in Workers)
    PROVE  LinkInv'
<1>1. ops' \in [Threads -> Op(D)]
  OBVIOUS
<1>2. (\A t \in Threads \ {u} : ops'[t] = ops[t]) /\ ops'[u] = r
  OBVIOUS
<1>3. UI \in Threads
  BY DEF Threads
<1>4. linked => \A t \in Threads : Returning(ops[t]) => Returning(ops'[t])
  BY <1>2
<1>5. linked => port' = port \/ \E t \in Threads : Returning(ops'[t])
  BY <1>2
<1>6. ops'[UI].pc = "connect" => current # None /\ ~linked
  BY <1>2, <1>3 DEF LinkInv, Connecting, At
<1>7. ops'[UI].pc = "join" => ops'[UI].obj \in Workers
  BY <1>2, <1>3 DEF LinkInv, Joining, At
<1> QED
  BY <1>1, <1>4, <1>5, <1>6, <1>7, Carried
-----------------------------------------------------------------------------
(* The steps of the user interface.                                        *)

LEMMA ThreadNames == UI \in Threads /\ Workers \subseteq Threads /\ UI \notin Workers
BY SessionAssumption DEF Threads

LEMMA RestingTyped == ASSUME NEW D, {} \in D PROVE Resting \in Op(D) /\ Resting.pc = "idle"
BY DEF Resting, Op, Objects, Pcs, Kinds

LEMMA ConnectLink ==
    ASSUME LinkInv, NEW D, ops \in [Threads -> Op(D)], Connect
    PROVE  LinkInv'
<1> DEFINE r == [ops[UI] EXCEPT !.pc = "connect"]
<1>0. ops[UI] \in Op(D)
  BY ThreadNames
<1>1. ops' = [ops EXCEPT ![UI] = r] /\ r \in Op(D) /\ r.pc = "connect"
  BY <1>0 DEF Op, Pcs, Kinds, Connect, Goto
<1>2. ops' \in [Threads -> Op(D)] /\ ops'[UI].pc = "connect"
  BY <1>1, ThreadNames
<1>3. ~linked /\ ~linked'
  BY DEF LinkInv, Backed, Connect
<1>4. current' \in ToSet(Transports) /\ current' # None /\ made' \in Nat
  BY NextTransport DEF LinkInv, Connect
<1> QED
  BY <1>2, <1>3, <1>4 DEF LinkInv, TypedOps, Connecting, Joining, Backed, At

LEMMA ConnectEndLink ==
    ASSUME LinkInv, NEW D, {} \in D, ops \in [Threads -> Op(D)], ConnectEnd
    PROVE  LinkInv'
<1>1. ops' \in [Threads -> Op(D)] /\ ops'[UI].pc = "idle"
  BY ThreadNames, RestingTyped DEF ConnectEnd
<1>2. current # None /\ ~linked
  BY DEF LinkInv, Connecting, ConnectEnd
<1>3. Backed'
  BY <1>2 DEF Backed, ConnectEnd
<1> QED
  BY <1>1, <1>3 DEF LinkInv, TypedOps, Connecting, Joining, At, ConnectEnd

LEMMA DisconnectLink ==
    ASSUME LinkInv, Disconnect
    PROVE  LinkInv'
<1>1. ops[UI].pc = "idle"
  BY DEF Disconnect, UserMay, Idle, Resting
<1> QED
  BY <1>1 DEF LinkInv, TypedOps, Connecting, Joining, Backed, At, Disconnect

LEMMA ChangeLink ==
    ASSUME LinkInv, NEW D, ops \in [Threads -> Op(D)], NEW d, NEW n, Change(d, n)
    PROVE  LinkInv'
<1>1. ops[UI].pc = "idle"
  BY DEF Change, UserMay, Idle, Resting
<1>2. CASE n = 0
  BY <1>2, StillLink DEF Change, link
<1>3. CASE n # 0
  <2> DEFINE r == [ops[UI] EXCEPT !.pc = "begin", !.kind = "sync"]
  <2>1. r \in Op(D) /\ r.pc = "begin"
    <3>1. ops[UI] \in Op(D)
      BY ThreadNames
    <3> QED
      BY <3>1 DEF Op, Pcs, Kinds
  <2>2. ops' = [ops EXCEPT ![UI] = r]
    BY <1>3, ThreadNames DEF Change, Op
  <2>3. ~Returning(ops[UI])
    BY <1>1 DEF Returning
  <2>4. UNCHANGED <<port, current, linked, made>>
    BY DEF Change, link
  <2> HIDE DEF r
  <2> QED
    BY <2>1, <2>2, <2>3, <2>4, OneStep, ThreadNames
<1> QED
  BY <1>2, <1>3

LEMMA AutoSyncLink ==
    ASSUME LinkInv, NEW D, ops \in [Threads -> Op(D)], AutoSync
    PROVE  LinkInv'
<1>1. CASE ~linked
  BY <1>1, StillLink DEF AutoSync, link
<1>2. CASE linked
  <2>1. PICK w \in Spare : StartRead(w)
    BY <1>2 DEF AutoSync
  <2>2. w \in Workers /\ w \in Threads /\ w # UI /\ ops[w].pc = "idle"
    BY ThreadNames DEF Spare, Idle, Resting
  <2> DEFINE r == [ops[w] EXCEPT !.pc = "begin", !.kind = "read"]
  <2>3. r \in Op(D) /\ r.pc = "begin"
    <3>1. ops[w] \in Op(D)
      BY <2>2
    <3> QED
      BY <3>1 DEF Op, Pcs, Kinds
  <2>4. ops' = [ops EXCEPT ![w] = r]
    BY <2>1, <2>2 DEF StartRead, Op
  <2>5. ~Returning(ops[w])
    BY <2>2 DEF Returning
  <2>6. UNCHANGED <<port, current, linked, made>>
    BY DEF AutoSync, link
  <2> HIDE DEF r
  <2> QED
    BY <2>2, <2>3, <2>4, <2>5, <2>6, OneStep
<1> QED
  BY <1>1, <1>2

LEMMA CompareLink ==
    ASSUME LinkInv, NEW D, ops \in [Threads -> Op(D)], Compare
    PROVE  LinkInv'
<1> DEFINE w == CHOOSE v \in Spare : TRUE
           a == [ops[w] EXCEPT !.pc = "begin", !.kind = "compare"]
           b == [ops[UI] EXCEPT !.pc = "join", !.obj = w]
<1>1. w \in Workers /\ w \in Threads /\ w # UI /\ ops[w].pc = "idle" /\ ops[UI].pc = "idle"
  <2>1. w \in Spare
    BY DEF Compare
  <2> HIDE DEF w
  <2>2. w \in Workers /\ Idle(w)
    BY <2>1 DEF Spare
  <2>3. Idle(UI)
    BY DEF Compare, UserMay
  <2> QED
    BY <2>2, <2>3, ThreadNames DEF Idle, Resting
<1>2. ops' = [ops EXCEPT ![w].pc = "begin", ![w].kind = "compare", ![UI].pc = "join", ![UI].obj = w]
  BY DEF Compare
<1>3. UNCHANGED <<port, current, linked, made>>
  BY DEF Compare, link
<1> HIDE DEF w
<1>4. a \in Op(D) /\ a.pc = "begin" /\ b \in Op(D) /\ b.pc = "join" /\ b.obj = w
  <2>1. w \in Objects
    BY <1>1 DEF Objects
  <2>2. ops[w] \in Op(D) /\ ops[UI] \in Op(D)
    BY <1>1, ThreadNames
  <2>3. a \in Op(D) /\ a.pc = "begin"
    BY <2>2 DEF Op, Pcs, Kinds
  <2>4. b \in Op(D) /\ b.pc = "join" /\ b.obj = w
    BY <2>1, <2>2 DEF Op, Pcs, Kinds
  <2> QED
    BY <2>3, <2>4
<1>5. ops' = [ops EXCEPT ![w] = a, ![UI] = b]
  BY <1>1, <1>2, ThreadNames DEF Op
<1> HIDE DEF a, b
<1>6. ops' \in [Threads -> Op(D)] /\ ops'[UI] = b
  BY <1>1, <1>4, <1>5, ThreadNames
<1>7. \A t \in Threads : Returning(ops[t]) => Returning(ops'[t])
  BY <1>1, <1>5, ThreadNames DEF Returning
<1> QED
  BY <1>1, <1>3, <1>4, <1>6, <1>7, Carried

LEMMA JoinedLink ==
    ASSUME LinkInv, NEW D, {} \in D, ops \in [Threads -> Op(D)], Joined
    PROVE  LinkInv'
<1> DEFINE w == ops[UI].obj
           b == IF ops[w].ok THEN [Resting EXCEPT !.pc = "decide", !.doc = ops[w].doc] ELSE Resting
<1>1. w \in Workers /\ w \in Threads /\ w # UI
  <2>1. w \in Workers
    BY DEF LinkInv, Joining, Joined
  <2> QED
    BY <2>1, ThreadNames
<1>2. ops[w].pc = "done" /\ ops[UI].pc = "join"
  BY DEF Joined, At
<1>3. ops' = [ops EXCEPT ![w] = Resting, ![UI] = b]
  BY DEF Joined
<1>4. UNCHANGED <<port, current, linked, made>>
  BY DEF Joined, link
<1> HIDE DEF w
<1>5. b \in Op(D) /\ b.pc \in {"decide", "idle"}
  <2>1. ops[w].doc \in D
    BY <1>1 DEF Op
  <2>2. Resting \in Op(D) /\ Resting.pc = "idle"
    BY RestingTyped
  <2>3. [Resting EXCEPT !.pc = "decide", !.doc = ops[w].doc] \in Op(D)
        /\ [Resting EXCEPT !.pc = "decide", !.doc = ops[w].doc].pc = "decide"
    BY <2>1, <2>2 DEF Op, Pcs, Kinds
  <2> QED
    BY <2>2, <2>3
<1> HIDE DEF b
<1>6. ops' \in [Threads -> Op(D)] /\ ops'[UI] = b
  BY <1>1, <1>3, <1>5, RestingTyped, ThreadNames
<1>7. \A t \in Threads : Returning(ops[t]) => Returning(ops'[t])
  BY <1>1, <1>2, <1>3, ThreadNames DEF Returning
<1> QED
  BY <1>4, <1>5, <1>6, <1>7, Carried

LEMMA JoinTimeoutLink ==
    ASSUME LinkInv, NEW D, {} \in D, ops \in [Threads -> Op(D)], JoinTimeout
    PROVE  LinkInv'
<1> DEFINE w == ops[UI].obj
           a == [ops[w] EXCEPT !.kind = "orphan"]
<1>1. w \in Workers /\ w \in Threads /\ w # UI
  <2>1. w \in Workers
    BY DEF LinkInv, Joining, JoinTimeout
  <2> QED
    BY <2>1, ThreadNames
<1>2. ops[UI].pc = "join"
  BY DEF JoinTimeout, At
<1>3. ops' = [ops EXCEPT ![UI] = Resting, ![w].kind = "orphan"]
  BY DEF JoinTimeout
<1>4. UNCHANGED <<port, current, linked, made>>
  BY DEF JoinTimeout, link
<1> HIDE DEF w
<1>5. a \in Op(D) /\ a.pc = ops[w].pc /\ a.obj = ops[w].obj
  BY <1>1 DEF Op, Pcs, Kinds
<1>6. ops' = [ops EXCEPT ![UI] = Resting, ![w] = a]
  BY <1>1, <1>3, ThreadNames DEF Op
<1> HIDE DEF a
<1>7. ops' \in [Threads -> Op(D)] /\ ops'[UI] = Resting
  BY <1>1, <1>5, <1>6, RestingTyped, ThreadNames
<1>8. \A t \in Threads : Returning(ops[t]) => Returning(ops'[t])
  BY <1>1, <1>2, <1>5, <1>6, ThreadNames DEF Returning
<1> QED
  BY <1>4, <1>7, <1>8, Carried, RestingTyped

LEMMA DecideLink ==
    ASSUME LinkInv, NEW D, {} \in D, ops \in [Threads -> Op(D)], Decide
    PROVE  LinkInv'
<1> DEFINE r == [Resting EXCEPT !.pc = "begin", !.kind = "write"]
<1>1. ~Returning(ops[UI])
  BY DEF Decide, At, Returning
<1>2. UNCHANGED <<port, current, linked, made>>
  BY DEF Decide, link
<1>3. Resting \in Op(D) /\ Resting.pc = "idle"
  BY RestingTyped
<1>4. r \in Op(D) /\ r.pc = "begin"
  BY <1>3 DEF Op, Pcs, Kinds
<1>5. ops' = [ops EXCEPT ![UI] = Resting] \/ ops' = [ops EXCEPT ![UI] = r]
  BY DEF Decide
<1> HIDE DEF r, Resting
<1> QED
  BY <1>1, <1>2, <1>3, <1>4, <1>5, OneStep, ThreadNames
-----------------------------------------------------------------------------
(* The steps of an operation.                                              *)

\* An operation of thread t is over, with its thread at rest, at its result or
\* before its next upload.
LEMMA OverOps ==
    ASSUME NEW D, {} \in D, ops \in [Threads -> Op(D)], NEW t \in Threads, Over(t) \/ Abort(t)
    PROVE  \E r \in Op(D) : r.pc \in {"idle", "begin", "done"} /\ ops' = [ops EXCEPT ![t] = r]
<1> DEFINE x == [Resting EXCEPT !.pc = "begin", !.kind = ops[t].kind]
           y == [Resting EXCEPT !.pc = "done", !.ok = ops[t].ok, !.doc = ops[t].doc]
           z == [Resting EXCEPT !.pc = "done"]
<1>0. ops[t].kind \in Kinds /\ ops[t].doc \in D /\ ops[t].ok \in BOOLEAN
  BY DEF Op
<1>4. Resting \in Op(D) /\ Resting.pc = "idle"
  BY RestingTyped
<1>1. x \in Op(D) /\ x.pc = "begin"
  BY <1>0, <1>4 DEF Op, Pcs, Kinds
<1>2. y \in Op(D) /\ y.pc = "done"
  BY <1>0, <1>4 DEF Op, Pcs, Kinds
<1>3. z \in Op(D) /\ z.pc = "done"
  BY <1>4 DEF Op, Pcs, Kinds
<1>5. \/ ops' = [ops EXCEPT ![t] = x] \/ ops' = [ops EXCEPT ![t] = y]
      \/ ops' = [ops EXCEPT ![t] = z] \/ ops' = [ops EXCEPT ![t] = Resting]
  <2> HIDE DEF Resting
  <2> QED
    BY DEF Over, Abort, Reported, Ended, NextSync
<1> HIDE DEF x, y, z, Resting
<1> QED
  BY <1>1, <1>2, <1>3, <1>4, <1>5

\* The steps that only change where a thread is, or abort without a transport.
LEMMA OverLink ==
    ASSUME LinkInv, NEW D, {} \in D, ops \in [Threads -> Op(D)], NEW t \in Threads,
           Over(t) \/ Abort(t), UNCHANGED <<port, current, linked, made>>,
           ~linked \/ ~Returning(ops[t])
    PROVE  LinkInv'
<1>1. PICK r \in Op(D) : r.pc \in {"idle", "begin", "done"} /\ ops' = [ops EXCEPT ![t] = r]
  BY OverOps
<1>2. t = UI => r.pc # "connect" /\ (r.pc = "join" => r.obj \in Workers)
  BY <1>1
<1>3. ~linked \/ Returning(r) \/ (port' = port /\ ~Returning(ops[t]))
  OBVIOUS
<1> QED
  BY <1>1, <1>2, <1>3, OneStep

\* A step into an operation that will come back, or within one.
LEMMA InsideLink ==
    ASSUME LinkInv, NEW D, ops \in [Threads -> Op(D)], NEW t \in Threads, NEW p \in Pcs,
           p \in {"open", "clear", "load", "get", "close", "reach"}, Goto(t, p),
           UNCHANGED <<current, linked, made>>
    PROVE  LinkInv'
<1> DEFINE r == [ops[t] EXCEPT !.pc = p]
<1>1. r \in Op(D) /\ r.pc = p
  BY DEF Op
<1>2. ops' = [ops EXCEPT ![t] = r]
  BY DEF Goto, Op
<1>3. Returning(r)
  BY <1>1 DEF Returning
<1>4. t = UI => r.pc # "connect" /\ (r.pc = "join" => r.obj \in Workers)
  BY <1>1
<1>5. ~linked \/ Returning(r) \/ (port' = port /\ ~Returning(ops[t]))
  BY <1>3
<1> HIDE DEF r
<1> QED
  BY <1>1, <1>2, <1>4, <1>5, OneStep

LEMMA SyncBeginLink ==
    ASSUME LinkInv, NEW D, {} \in D, ops \in [Threads -> Op(D)], SyncBegin
    PROVE  LinkInv'
<1>1. ~Returning(ops[UI])
  BY DEF SyncBegin, At, Returning
<1>2. UNCHANGED <<port, current, linked, made>>
  BY DEF SyncBegin, link
<1>3. CASE linked
  <2> DEFINE r == [ops[UI] EXCEPT !.pc = "pump"]
  <2>1. ops[UI] \in Op(D)
    BY ThreadNames
  <2>2. r \in Op(D) /\ r.pc = "pump"
    BY <2>1 DEF Op, Pcs
  <2>3. ops' = [ops EXCEPT ![UI] = r]
    BY <1>3, ThreadNames DEF SyncBegin, Goto, Op
  <2> HIDE DEF r
  <2> QED
    BY <1>1, <1>2, <2>2, <2>3, OneStep, ThreadNames
<1>4. CASE ~linked
  BY <1>1, <1>2, <1>4, OverLink, ThreadNames DEF SyncBegin
<1> QED
  BY <1>3, <1>4

LEMMA CaptureLink ==
    ASSUME LinkInv, NEW D, doc \in D, ops \in [Threads -> Op(D)], Capture
    PROVE  LinkInv'
<1> DEFINE r == [ops[UI] EXCEPT !.pc = "shown", !.doc = doc]
<1>1. ~Returning(ops[UI])
  BY DEF Capture, At, Returning
<1>2. UNCHANGED <<port, current, linked, made>>
  BY DEF Capture, link
<1>3. ops[UI] \in Op(D)
  BY ThreadNames
<1>4. r \in Op(D) /\ r.pc = "shown"
  BY <1>3 DEF Op, Pcs
<1>5. ops' = [ops EXCEPT ![UI].pc = "shown", ![UI].doc = doc]
  BY DEF Capture
<1>6. ops' = [ops EXCEPT ![UI] = r]
  BY <1>5, ThreadNames DEF Op
<1> HIDE DEF r
<1> QED
  BY <1>1, <1>2, <1>4, <1>6, OneStep, ThreadNames

LEMMA SyncLink ==
    ASSUME LinkInv, NEW D, {} \in D, doc \in D, ops \in [Threads -> Op(D)], Sync
    PROVE  LinkInv'
<1>0. Snapshot \in D
  <2>1. ops[UI].doc \in D
    BY ThreadNames DEF Op
  <2> QED
    BY <2>1 DEF Snapshot
<1>1. ~Returning(ops[UI])
  BY DEF Sync, At, Returning
<1>2. UNCHANGED <<port, current, linked, made>>
  BY DEF Sync, link
<1>3. CASE (ops[UI].kind = "sync" /\ ImageOf[doc].count = 0) \/ ~CanStart
  BY <1>1, <1>2, <1>3, OverLink, ThreadNames DEF Sync
<1>4. CASE ~((ops[UI].kind = "sync" /\ ImageOf[doc].count = 0) \/ ~CanStart)
  <2> DEFINE r == [ops[UI] EXCEPT !.pc = "release", !.doc = Snapshot]
  <2>1. ops[UI] \in Op(D)
    BY ThreadNames
  <2>2. r \in Op(D) /\ r.pc = "release"
    BY <1>0, <2>1 DEF Op, Pcs
  <2>3. ops' = [ops EXCEPT ![UI].pc = "release", ![UI].doc = Snapshot]
    BY <1>4 DEF Sync
  <2>4. ops' = [ops EXCEPT ![UI] = r]
    BY <2>3, ThreadNames DEF Op
  <2> HIDE DEF r
  <2> QED
    BY <1>1, <1>2, <2>2, <2>4, OneStep, ThreadNames
<1> QED
  BY <1>3, <1>4

LEMMA ReadBeginLink ==
    ASSUME LinkInv, NEW D, {} \in D, ops \in [Threads -> Op(D)], NEW w \in Threads, w # UI, ReadBegin(w)
    PROVE  LinkInv'
<1>1. ~Returning(ops[w])
  BY DEF ReadBegin, At, Returning
<1>2. UNCHANGED <<port, current, linked, made>>
  BY DEF ReadBegin, link
<1>3. CASE CanStart
  <2> DEFINE r == [ops[w] EXCEPT !.pc = "release"]
  <2>1. r \in Op(D) /\ r.pc = "release"
    BY DEF Op, Pcs
  <2>2. ops' = [ops EXCEPT ![w] = r]
    BY <1>3 DEF ReadBegin, Goto, Op
  <2> HIDE DEF r
  <2> QED
    BY <1>1, <1>2, <2>1, <2>2, OneStep
<1>4. CASE ~CanStart
  BY <1>1, <1>2, <1>4, OverLink DEF ReadBegin
<1> QED
  BY <1>3, <1>4

LEMMA ReleaseLink ==
    ASSUME LinkInv, NEW D, {} \in D, ops \in [Threads -> Op(D)], NEW t \in Threads, Release(t)
    PROVE  LinkInv'
<1>1. CASE current = None
  <2>1. ~linked
    BY <1>1 DEF LinkInv, Backed
  <2>2. Abort(t) /\ UNCHANGED <<port, current, linked, made>>
    BY <1>1 DEF Release
  <2> QED
    BY <2>1, <2>2, OverLink
<1>2. CASE current # None
  <2>1. Goto(t, "open") /\ UNCHANGED <<current, linked, made>>
    BY <1>2 DEF Release
  <2> QED
    BY <2>1, InsideLink DEF Pcs
<1> QED
  BY <1>1, <1>2

LEMMA OpenLink ==
    ASSUME LinkInv, NEW D, ops \in [Threads -> Op(D)], NEW t \in Threads, Open(t)
    PROVE  LinkInv'
<1>1. UNCHANGED <<current, linked, made>>
  BY DEF Open
<1>2. Goto(t, "clear") \/ Goto(t, "get") \/ Goto(t, "reach")
  BY DEF Open
<1> QED
  BY <1>1, <1>2, InsideLink DEF Pcs

LEMMA CloseLink ==
    ASSUME LinkInv, NEW D, ops \in [Threads -> Op(D)], NEW t \in Threads, Close(t)
    PROVE  LinkInv'
<1>1. Goto(t, "reach") /\ UNCHANGED <<current, linked, made>>
  BY DEF Close
<1> QED
  BY <1>1, InsideLink DEF Pcs

LEMMA ClearConfigLink ==
    ASSUME LinkInv, NEW D, ops \in [Threads -> Op(D)], ClearConfig
    PROVE  LinkInv'
<1>1. Goto(UI, "load") /\ UNCHANGED <<current, linked, made>>
  BY DEF ClearConfig, link
<1> QED
  BY <1>1, InsideLink, ThreadNames DEF Pcs

LEMMA LoadConfigLink ==
    ASSUME LinkInv, NEW D, ops \in [Threads -> Op(D)], LoadConfig
    PROVE  LinkInv'
<1>1. UNCHANGED <<port, current, linked, made>>
  BY DEF LoadConfig, link
<1>2. CASE Goto(UI, "close")
  BY <1>1, <1>2, InsideLink, ThreadNames DEF Pcs
<1>3. CASE ~Goto(UI, "close")
  <2>1. PICK acked \in BOOLEAN : ops' = [ops EXCEPT ![UI].pc = "close", ![UI].ok = acked]
    BY <1>3 DEF LoadConfig
  <2> DEFINE r == [ops[UI] EXCEPT !.pc = "close", !.ok = acked]
  <2>2. ops[UI] \in Op(D)
    BY ThreadNames
  <2>3. r \in Op(D) /\ r.pc = "close"
    BY <2>2 DEF Op, Pcs
  <2>4. ops' = [ops EXCEPT ![UI] = r]
    BY <2>1, ThreadNames DEF Op
  <2>5. Returning(r) /\ r.pc # "connect" /\ r.pc # "join"
    BY <2>3 DEF Returning
  <2> HIDE DEF r
  <2> QED
    BY <1>1, <2>3, <2>4, <2>5, OneStep, ThreadNames
<1> QED
  BY <1>2, <1>3

LEMMA GetConfigLink ==
    ASSUME LinkInv, NEW D, LoadedFrom[dev] \in D, ops \in [Threads -> Op(D)],
           NEW w \in Threads, w # UI, GetConfig(w)
    PROVE  LinkInv'
<1>1. UNCHANGED <<port, current, linked, made>>
  BY DEF GetConfig, link
<1>2. CASE Goto(w, "close")
  BY <1>1, <1>2, InsideLink DEF Pcs
<1>3. CASE ~Goto(w, "close")
  <2>1. ops' = [ops EXCEPT ![w].pc = "close", ![w].ok = TRUE, ![w].doc = LoadedFrom[dev]]
    BY <1>3 DEF GetConfig
  <2> DEFINE d == LoadedFrom[dev]
             r == [ops[w] EXCEPT !.pc = "close", !.ok = TRUE, !.doc = d]
  <2>2. ops[w] \in Op(D) /\ d \in D
    OBVIOUS
  <2>3. ops' = [ops EXCEPT ![w].pc = "close", ![w].ok = TRUE, ![w].doc = d]
    BY <2>1
  <2> HIDE DEF d
  <2>4. r \in Op(D) /\ r.pc = "close"
    BY <2>2 DEF Op, Pcs
  <2>5. ops' = [ops EXCEPT ![w] = r]
    BY <2>3 DEF Op
  <2>6. Returning(r)
    BY <2>4 DEF Returning
  <2> HIDE DEF r
  <2> QED
    BY <1>1, <2>4, <2>5, <2>6, OneStep
<1> QED
  BY <1>2, <1>3

LEMMA ReachLink ==
    ASSUME LinkInv, NEW D, {} \in D, ops \in [Threads -> Op(D)], NEW t \in Threads, Reach(t)
    PROVE  LinkInv'
<1>1. UNCHANGED <<port, current, linked, made>>
  BY DEF Reach, link
<1>2. CASE current = None
  <2>1. ~linked
    BY <1>2 DEF LinkInv, Backed
  <2>2. Abort(t)
    BY <1>2 DEF Reach
  <2> QED
    BY <1>1, <2>1, <2>2, OverLink
<1>3. CASE current # None
  <2> DEFINE r == [ops[t] EXCEPT !.pc = "reopen", !.obj = current]
  <2>1. current \in Objects
    BY DEF LinkInv, Objects
  <2>2. r \in Op(D) /\ r.pc = "reopen" /\ r.obj = current
    BY <2>1 DEF Op, Pcs
  <2>3. ops' = [ops EXCEPT ![t] = r]
    BY <1>3 DEF Reach, Op
  <2>4. Returning(r)
    BY <2>2 DEF Returning
  <2>5. ~linked \/ Returning(r) \/ (port' = port /\ ~Returning(ops[t]))
    BY <2>4
  <2>6. t = UI => r.pc # "connect" /\ (r.pc = "join" => r.obj \in Workers)
    BY <2>2
  <2> HIDE DEF r
  <2> QED
    BY <1>1, <2>2, <2>3, <2>5, <2>6, OneStep
<1> QED
  BY <1>2, <1>3

\* The step that opens the transport of the present connection, drops the flag
\* or, with an earlier connection's transport, leaves the coming back to others.
LEMMA ReopenLink ==
    ASSUME LinkInv, NEW D, {} \in D, ops \in [Threads -> Op(D)], NEW t \in Threads, Reopen(t)
    PROVE  LinkInv'
<1>1. PICK r \in Op(D) : r.pc \in {"idle", "begin", "done"} /\ ops' = [ops EXCEPT ![t] = r]
  BY OverOps DEF Reopen
<1>2. ops' \in [Threads -> Op(D)] /\ (\A u \in Threads \ {t} : ops'[u] = ops[u]) /\ ops'[t] = r
  BY <1>1
<1>3. UNCHANGED <<current, made>>
  BY DEF Reopen
<1>4. linked' => linked /\ port = None /\ port' = ops[t].obj
  BY DEF Reopen, Reopened, LinkInv, Backed
<1>5. linked' \in {linked, FALSE}
  BY DEF Reopen, Reopened
<1>6. Connecting' /\ Joining'
  <2>1. UI \in Threads /\ (r.pc # "connect" /\ r.pc # "join")
    BY <1>1, ThreadNames
  <2>2. Connecting'
    BY <1>2, <1>3, <1>5, <2>1 DEF LinkInv, Connecting, At
  <2>3. Joining'
    BY <1>2, <2>1 DEF LinkInv, Joining, At
  <2> QED
    BY <2>2, <2>3
<1>7. Backed'
  <2> SUFFICES ASSUME linked' PROVE current' # None /\ (port' = current' \/ \E u \in Threads : Returning(ops[u])')
    BY DEF Backed
  <2>1. linked /\ port = None /\ port' = ops[t].obj /\ current # None
    BY <1>4 DEF LinkInv, Backed
  <2>2. CASE ops[t].obj = current
    BY <1>3, <2>1, <2>2
  <2>3. CASE ops[t].obj # current
    <3>1. PICK u \in Threads : Returning(ops[u])
      BY <2>1 DEF LinkInv, Backed
    <3>2. u # t
      BY <2>3, <3>1 DEF Returning, Reopen, At
    <3>3. Returning(ops[u])'
      BY <1>2, <1>3, <3>1, <3>2 DEF Returning
    <3> QED
      BY <1>3, <2>1, <3>3
  <2> QED
    BY <2>2, <2>3
<1> QED
  BY <1>2, <1>3, <1>6, <1>7 DEF LinkInv, TypedOps
-----------------------------------------------------------------------------
\* No step of a user, a signal or a thread breaks the invariant.
LEMMA NextLink == ASSUME LinkInv, [Next]_vars PROVE LinkInv'
<1>1. PICK D0 : ops \in [Threads -> Op(D0)]
  BY DEF LinkInv, TypedOps
<1> DEFINE D == D0 \cup {doc, {}, LoadedFrom[dev]}
<1>2. ops \in [Threads -> Op(D)] /\ {} \in D /\ doc \in D /\ LoadedFrom[dev] \in D
  <2>1. Op(D0) \subseteq Op(D)
    BY DEF Op
  <2> QED
    BY <1>1, <2>1
<1> HIDE DEF D
<1>3. CASE User
  <2>1. CASE Connect
    BY <1>2, <2>1, ConnectLink
  <2>2. CASE Disconnect
    BY <2>2, DisconnectLink
  <2>3. CASE PowerCycle
    BY <2>3, StillLink DEF PowerCycle, link
  <2>4. CASE Decide
    BY <1>2, <2>4, DecideLink
  <2>5. CASE \E change \in UserChanges : Change(change[1], change[2])
    BY <1>2, <2>5, ChangeLink
  <2>6. CASE Compare
    BY <1>2, <2>6, CompareLink
  <2>7. CASE \E w \in Workers : Dismiss(w)
    BY <2>7, StillLink DEF Dismiss, link
  <2> QED
    BY <1>3, <2>1, <2>2, <2>3, <2>4, <2>5, <2>6, <2>7 DEF User
<1>4. CASE AutoSync
  BY <1>2, <1>4, AutoSyncLink
<1>5. CASE HandleResult
  BY <1>5, StillLink DEF HandleResult, link
<1>6. CASE JoinTimeout
  BY <1>2, <1>6, JoinTimeoutLink
<1>7. CASE \E t \in Threads : Step(t)
  <2>1. PICK t \in Threads : Step(t)
    BY <1>7
  <2>2. CASE Release(t)
    BY <1>2, <2>2, ReleaseLink
  <2>3. CASE Open(t)
    BY <1>2, <2>3, OpenLink
  <2>4. CASE Close(t)
    BY <1>2, <2>4, CloseLink
  <2>5. CASE Reach(t)
    BY <1>2, <2>5, ReachLink
  <2>6. CASE Reopen(t)
    BY <1>2, <2>6, ReopenLink
  <2>7. CASE t = UI /\ SyncBegin
    BY <1>2, <2>7, SyncBeginLink
  <2>8. CASE t = UI /\ Sync
    BY <1>2, <2>8, SyncLink
  <2>9. CASE t = UI /\ ClearConfig
    BY <1>2, <2>9, ClearConfigLink
  <2>10. CASE t = UI /\ LoadConfig
    BY <1>2, <2>10, LoadConfigLink
  <2>11. CASE t = UI /\ ConnectEnd
    BY <1>2, <2>11, ConnectEndLink
  <2>12. CASE t = UI /\ Joined
    BY <1>2, <2>12, JoinedLink
  <2>13. CASE t # UI /\ ReadBegin(t)
    BY <1>2, <2>13, ReadBeginLink
  <2>14. CASE t # UI /\ GetConfig(t)
    BY <1>2, <2>14, GetConfigLink
  <2>15. CASE t = UI /\ Capture
    BY <1>2, <2>15, CaptureLink
  <2> QED
    BY <2>1, <2>2, <2>3, <2>4, <2>5, <2>6, <2>7, <2>8, <2>9, <2>10, <2>11, <2>12, <2>13, <2>14,
       <2>15 DEF Step
<1>8. CASE UNCHANGED vars
  BY <1>8, StillLink DEF vars, link
<1> QED
  BY <1>3, <1>4, <1>5, <1>6, <1>7, <1>8 DEF Next

\* With every thread at rest nobody will come back: the port has to be there.
LEMMA QuietLinked == LinkInv => LinkedIsOpen
<1> SUFFICES ASSUME LinkInv, Quiet, linked PROVE current # None /\ port = current
  BY DEF LinkedIsOpen
<1>1. \A t \in Threads : ~Returning(ops[t])
  BY DEF Quiet, Idle, Resting, Returning
<1> QED
  BY <1>1 DEF LinkInv, Backed

\* Whenever nothing runs and the controller says it is connected, the transport
\* it keeps holds the port (device_controller.py:1022 and 1088 hand the port
\* over with no lock), for any number of reading threads and connections.
THEOREM LinkedMeansOpen == Spec => []LinkedIsOpen
<1>1. LinkInv /\ [Next]_vars => LinkInv'
  BY NextLink
<1> QED
  BY InitLink, <1>1, QuietLinked, PTL DEF Spec
-----------------------------------------------------------------------------
(* What is kept besides: the types, and what only overlaps can break.      *)

Uploading == {"begin", "pump", "shown", "release", "open", "clear", "load", "close", "reach", "reopen"}
Reading == {"release", "open", "get", "close", "reach", "reopen"}
In(t) == ops[t].pc \in Exchange

Typed ==
    /\ ops \in [Threads -> Op(Documents)]
    /\ doc \in Documents /\ dev \in Images /\ flash \in Images
    /\ results \in Seq([ok : BOOLEAN, doc : Documents])
    /\ port \in Objects /\ current \in {None} \cup ToSet(Transports) /\ linked \in BOOLEAN
    /\ dialogs \subseteq Workers /\ progress \in {None} \cup Workers
    /\ last \in {"none", "uploaded", "read"}
    /\ raced \in BOOLEAN

\* Each thread is where its operations take it.
Placed ==
    /\ \A w \in Workers : ops[w].pc \in {"idle", "begin", "done"} \cup Reading
    /\ ops[UI].pc \in {"idle", "connect", "join", "decide"} \cup Uploading
    /\ At(UI, "join") => ops[UI].obj \in Workers

\* Automatic reads and uploads that are still to come.
Due ==
    /\ made \in 0 .. Len(Transports) /\ alarms \in Nat
    /\ alarms <= made /\ (At(UI, "connect") => alarms < made)
    /\ syncs \in 0 .. 2 /\ (ops[UI].pc \in Uploading => syncs >= 1)

\* A reader that has not read has nothing, and one that is done no result that
\* is still to be signalled.
Unread ==
    \A w \in Workers : /\ ops[w].pc \in {"idle", "begin"} => ~ops[w].ok
                       /\ ops[w].pc \in {"idle", "done"} => ops[w].kind # "read"
                       /\ ops[w].pc = "idle" => ops[w].kind # "compare"

\* What is uploaded is the document, unless a result changed it meanwhile.
Snapped ==
    ops[UI].pc \in {"shown", "release", "open", "clear", "load"} => ops[UI].doc = doc \/ raced

\* One operation at a time.
Alone == \A t, u \in Threads : In(t) /\ In(u) => t = u

\* The port between two operations, while a connection is made, and within an
\* operation.
Held ==
    /\ (\A t \in Threads : ~In(t)) /\ ~At(UI, "connect") => port = current /\ (linked <=> current # None)
    /\ At(UI, "connect") => port = None /\ current # None /\ ~linked /\ \A t \in Threads : ~In(t)
    /\ \A t \in Threads : In(t) =>
          /\ linked /\ current # None
          /\ ops[t].pc = "release" => port = current
          /\ ops[t].pc \in {"open", "reach", "reopen"} => port = None
          /\ ops[t].pc \in {"clear", "load", "get", "close"} => port = t
          /\ ops[t].pc = "reopen" => ops[t].obj = current

\* The user interface waits for the thread of its comparison.
Awaited ==
    \A w \in Workers : ops[w].kind = "compare" \/ ops[w].pc = "done" =>
        At(UI, "join") /\ ops[UI].obj = w

\* A progress dialog is that of the read that is under way or has just ended.
Watched ==
    /\ dialogs \subseteq {progress}
    /\ dialogs # {} => results # <<>> \/ \E w \in Workers : ops[w].kind = "read"

\* What was read is what the node still holds.
Current(d) == Whole(dev) /\ d = LoadedFrom[dev]
Fresh ==
    /\ \A w \in Workers : ops[w].ok => Current(ops[w].doc)
    /\ \A i \in 1 .. Len(results) : results[i].ok => Current(results[i].doc)
    /\ At(UI, "decide") => Current(ops[UI].doc)
    /\ In(UI) => results = <<>>

\* The document and the node agree, except between clearing and loading.
Agreeing ==
    ~At(UI, "load") =>
        /\ last = "uploaded" => dev = ImageOf[doc]
        /\ last = "read" => Current(doc)

Orderly == Alone /\ Held /\ Awaited /\ Watched /\ Fresh /\ Agreeing
SessionInv == Typed /\ Placed /\ Due /\ Unread /\ Snapped /\ (~raced => Orderly)

LEMMA ExchangePlaces ==
    \A t : In(t) <=> \/ At(t, "release") \/ At(t, "open") \/ At(t, "clear") \/ At(t, "load")
                     \/ At(t, "get") \/ At(t, "close") \/ At(t, "reach") \/ At(t, "reopen")
BY DEF In, At, Exchange

\* The threads after a step of thread t.
Puts(t, r) ==
    /\ ops' \in [Threads -> Op(Documents)]
    /\ ops'[t] = r /\ \A u \in Threads \ {t} : ops'[u] = ops[u]

LEMMA PutsIt ==
    ASSUME Typed, NEW t \in Threads, NEW r \in Op(Documents), ops' = [ops EXCEPT ![t] = r]
    PROVE  Puts(t, r)
BY DEF Typed, Puts

LEMMA GoesTo ==
    ASSUME Typed, NEW t \in Threads, NEW p \in Pcs, Goto(t, p)
    PROVE  \E r \in Op(Documents) : /\ Puts(t, r) /\ r.pc = p /\ r.kind = ops[t].kind /\ r.doc = ops[t].doc
                                    /\ r.ok = ops[t].ok /\ r.obj = ops[t].obj
<1> DEFINE r == [ops[t] EXCEPT !.pc = p]
<1>1. ops[t] \in Op(Documents)
  BY DEF Typed
<1>2. r \in Op(Documents) /\ r.pc = p /\ r.kind = ops[t].kind /\ r.doc = ops[t].doc /\ r.ok = ops[t].ok /\ r.obj = ops[t].obj
  BY <1>1 DEF Op
<1>3. ops' = [ops EXCEPT ![t] = r]
  BY DEF Goto
<1> HIDE DEF r
<1>4. Puts(t, r)
  BY <1>2, <1>3, PutsIt
<1> QED
  BY <1>2, <1>4

\* A step within the operation of thread t.
LEMMA HeldInside ==
    ASSUME Typed, Alone, Held, NEW t \in Threads, In(t), NEW r, ops'[t] = r, \A u \in Threads \ {t} : ops'[u] = ops[u],
           r.pc \in Exchange, linked' = linked, current' = current,
           r.pc = "release" => port' = current,
           r.pc \in {"open", "reach", "reopen"} => port' = None,
           r.pc \in {"clear", "load", "get", "close"} => port' = t,
           r.pc = "reopen" => r.obj = current
    PROVE  Held'
<1>1. \A u \in Threads : In(u)' => u = t
  BY DEF Alone, In
<1>2. In(t)' /\ linked /\ current # None
  BY DEF In, Held
<1>3. ~At(UI, "connect")'
  <2>1. CASE t = UI
    BY <2>1 DEF At, Exchange
  <2>2. CASE t # UI
    <3>1. ~At(UI, "connect")
      BY DEF Held
    <3> QED
      BY <2>2, <3>1, ThreadNames DEF At
  <2> QED
    BY <2>1, <2>2
<1>4. ASSUME NEW u \in Threads, In(u)'
      PROVE  /\ linked' /\ current' # None
             /\ ops'[u].pc = "release" => port' = current'
             /\ ops'[u].pc \in {"open", "reach", "reopen"} => port' = None
             /\ ops'[u].pc \in {"clear", "load", "get", "close"} => port' = u
             /\ ops'[u].pc = "reopen" => ops'[u].obj = current'
  <2>1. u = t
    BY <1>1, <1>4
  <2> QED
    BY <1>2, <2>1
<1> QED
  BY <1>2, <1>3, <1>4 DEF Held

LEMMA RestingFields ==
    /\ Resting.pc = "idle" /\ Resting.kind = "none" /\ Resting.doc = {} /\ Resting.ok = FALSE /\ Resting.obj = None
    /\ Resting \in Op(Documents) /\ {} \in Documents
<1>1. {} \in Documents
  BY DEF Documents, Reread, UserDocs, UserChanges
<1> QED
  BY <1>1, RestingTyped DEF Resting

\* After the operation of thread t, or with none.
LEMMA HeldAfter ==
    ASSUME Typed, Alone, Held, NEW t \in Threads, In(t) \/ \A u \in Threads : ~In(u),
           ops'[t].pc \notin Exchange, ops'[t].pc # "connect", \A u \in Threads \ {t} : ops'[u] = ops[u],
           t = UI \/ ~At(UI, "connect"),
           port' = current', linked' <=> current' # None
    PROVE  Held'
<1>1. \A u \in Threads : ~In(u)'
  BY DEF Alone, In
<1>2. ~At(UI, "connect")'
  BY ThreadNames DEF At
<1> QED
  BY <1>1, <1>2 DEF Held

LEMMA SeenDocuments ==
    /\ \A d \in Documents : ImageOf[d] \in Images
    /\ \A i \in Images : Whole(i) => LoadedFrom[i] \in Documents
BY DocumentsAssumption DEF Images

\* The end of an operation of thread t: at rest, before the next upload, or at
\* a result for the thread that waits.
Ends(t, r) ==
    /\ r.pc \in {"idle", "begin", "done"}
    /\ t = UI =>
          /\ syncs' = syncs - 1 /\ results' = results
          /\ ~r.ok /\ (r = Resting \/ (r.pc = "begin" /\ syncs > 1))
    /\ t # UI =>
          /\ syncs' = syncs /\ r.kind # "compare" /\ r.kind # "read"
          /\ IF ops[t].kind = "compare" THEN r.pc = "done" /\ (r.ok => ops[t].ok /\ r.doc = ops[t].doc)
                                        ELSE r = Resting
Signals(t) ==
    t # UI => IF ops[t].kind = "read" THEN results' = Append(results, [ok |-> ops[t].ok, doc |-> ops[t].doc])
                                      ELSE results' = results

LEMMA OverIs ==
    ASSUME Typed, Placed, NEW t \in Threads, Over(t)
    PROVE  (\E r \in Op(Documents) : Puts(t, r) /\ Ends(t, r)) /\ Signals(t)
<1> DEFINE x == [Resting EXCEPT !.pc = "begin", !.kind = ops[t].kind]
           y == [Resting EXCEPT !.pc = "done", !.ok = ops[t].ok, !.doc = ops[t].doc]
<1>0. ops[t] \in Op(Documents)
  BY DEF Typed
<1>1. ops[t].kind \in Kinds /\ ops[t].doc \in Documents /\ ops[t].ok \in BOOLEAN
  BY <1>0 DEF Op
<1>2. x \in Op(Documents) /\ x.pc = "begin" /\ x.kind = ops[t].kind /\ x.ok = FALSE
  BY <1>1, RestingFields DEF Resting, Op, Pcs, Kinds
<1>3. y \in Op(Documents) /\ y.pc = "done" /\ y.kind = "none" /\ y.ok = ops[t].ok /\ y.doc = ops[t].doc
  BY <1>1, RestingFields DEF Resting, Op, Pcs, Kinds
<1>4. CASE t = UI
  <2>1. syncs' = syncs - 1 /\ results' = results
    BY <1>4 DEF Over, Counted
  <2>2. ops' = [ops EXCEPT ![t] = IF syncs > 1 THEN x ELSE Resting]
    BY <1>4 DEF Over, Ended, NextSync
  <2> HIDE DEF x, y
  <2>3. CASE syncs > 1
    <3>1. Puts(t, x)
      BY <1>2, <2>2, <2>3, PutsIt
    <3>2. Ends(t, x)
      BY <1>2, <1>4, <2>1, <2>3 DEF Ends
    <3> QED
      BY <1>2, <1>4, <3>1, <3>2 DEF Signals
  <2>4. CASE ~(syncs > 1)
    <3>1. Puts(t, Resting)
      BY <2>2, <2>4, PutsIt, RestingFields
    <3>2. Ends(t, Resting)
      BY <1>4, <2>1, RestingFields DEF Ends
    <3> QED
      BY <1>4, <3>1, <3>2, RestingFields DEF Signals
  <2> QED
    BY <2>3, <2>4
<1>5. CASE t # UI
  <2>1. Signals(t) /\ syncs' = syncs
    BY <1>5 DEF Over, Reported, Signals
  <2>2. ops' = [ops EXCEPT ![t] = IF ops[t].kind = "compare" THEN y ELSE Resting]
    BY <1>5 DEF Over, Reported
  <2> HIDE DEF x, y
  <2>3. CASE ops[t].kind = "compare"
    <3>1. Puts(t, y)
      BY <1>3, <2>2, <2>3, PutsIt
    <3>2. Ends(t, y)
      BY <1>3, <1>5, <2>1, <2>3 DEF Ends
    <3> QED
      BY <1>3, <2>1, <3>1, <3>2
  <2>4. CASE ops[t].kind # "compare"
    <3>1. Puts(t, Resting)
      BY <2>2, <2>4, PutsIt, RestingFields
    <3>2. Ends(t, Resting)
      BY <1>5, <2>1, <2>4, RestingFields DEF Ends
    <3> QED
      BY <2>1, <3>1, <3>2, RestingFields
  <2> QED
    BY <2>3, <2>4
<1> QED
  BY <1>4, <1>5

LEMMA AbortIs ==
    ASSUME Typed, Placed, NEW t \in Threads, Abort(t)
    PROVE  (\E r \in Op(Documents) : Puts(t, r) /\ Ends(t, r)) /\ results' = results
<1> DEFINE z == [Resting EXCEPT !.pc = "done"]
<1>1. z \in Op(Documents) /\ z.pc = "done" /\ z.kind = "none" /\ z.ok = FALSE
  BY RestingFields DEF Resting, Op, Pcs, Kinds
<1>2. CASE t = UI
  BY <1>2, OverIs DEF Abort, Over
<1>3. CASE t # UI
  <2>1. results' = results /\ syncs' = syncs
    BY <1>3 DEF Abort
  <2>2. ops' = [ops EXCEPT ![t] = IF ops[t].kind = "compare" THEN z ELSE Resting]
    BY <1>3 DEF Abort
  <2> HIDE DEF z
  <2>3. CASE ops[t].kind = "compare"
    <3>1. Puts(t, z)
      BY <1>1, <2>2, <2>3, PutsIt
    <3>2. Ends(t, z)
      BY <1>1, <1>3, <2>1, <2>3 DEF Ends
    <3> QED
      BY <1>1, <2>1, <3>1, <3>2
  <2>4. CASE ops[t].kind # "compare"
    <3>1. Puts(t, Resting)
      BY <2>2, <2>4, PutsIt, RestingFields
    <3>2. Ends(t, Resting)
      BY <1>3, <2>1, <2>4, RestingFields DEF Ends
    <3> QED
      BY <2>1, <3>1, <3>2, RestingFields
  <2> QED
    BY <2>3, <2>4
<1> QED
  BY <1>2, <1>3
-----------------------------------------------------------------------------
(* One lemma for each action: what it does (<1>1), what it leaves alone     *)
(* (<1>2), the operation it gives its thread (<1>3, <1>f), then one step    *)
(* for each part of the invariant, those of Orderly as long as nothing has  *)
(* overlapped after the step.                                               *)

LEMMA OpenKeeps ==
    ASSUME SessionInv, NEW t \in Threads, Open(t)
    PROVE  SessionInv'
<1>0. Typed
  BY DEF SessionInv
<1>1. /\ ops[t].pc = "open" /\ ops[t] \in Op(Documents)
      /\ \/ port = None /\ port' = t /\ Goto(t, IF t = UI THEN "clear" ELSE "get")
         \/ port # None /\ port' = port /\ Goto(t, "reach")
  BY <1>0 DEF Open, At, Typed
<1>2. /\ doc' = doc /\ dev' = dev /\ flash' = flash /\ current' = current /\ linked' = linked
      /\ made' = made /\ syncs' = syncs /\ results' = results /\ dialogs' = dialogs /\ progress' = progress
      /\ alarms' = alarms /\ last' = last /\ raced' = raced
  BY DEF Open, node, screen
<1>3. PICK r \in Op(Documents) :
         /\ Puts(t, r) /\ r.kind = ops[t].kind /\ r.doc = ops[t].doc /\ r.ok = ops[t].ok /\ r.obj = ops[t].obj
         /\ \/ port = None /\ port' = t /\ r.pc = (IF t = UI THEN "clear" ELSE "get")
            \/ port # None /\ port' = port /\ r.pc = "reach"
  BY <1>0, <1>1, GoesTo DEF Pcs
<1>f. /\ ops' \in [Threads -> Op(Documents)] /\ ops'[t] = r /\ \A u \in Threads \ {t} : ops'[u] = ops[u]
  BY <1>3 DEF Puts
<1>12. Typed'
  BY <1>1, <1>2, <1>3, <1>f, ThreadNames DEF SessionInv, Typed, Objects
<1>13. Placed'
  BY <1>1, <1>2, <1>3, <1>f, ThreadNames DEF SessionInv, Placed, At, Uploading, Reading
<1>14. Due'
  BY <1>1, <1>2, <1>3, <1>f, ThreadNames DEF SessionInv, Due, At, Uploading
<1>15. Unread'
  BY <1>1, <1>2, <1>3, <1>f, ThreadNames DEF SessionInv, Unread
<1>16. Snapped'
  BY <1>1, <1>2, <1>3, <1>f, ThreadNames DEF SessionInv, Snapped
<1>17. ASSUME ~raced' PROVE Orderly'
  <2>0. ~raced /\ Orderly
    BY <1>1, <1>2, <1>17 DEF SessionInv
  <2>1. Alone'
    BY <1>1, <1>2, <1>3, <1>f, <2>0, ThreadNames DEF Orderly, Alone, In, Exchange
  <2>2. Held'
    <3>1. In(t) /\ r.pc \in Exchange
      BY <1>1, <1>3 DEF In, Exchange
    <3>2. port = None
      BY <1>1, <2>0, <3>1 DEF Orderly, Held
    <3>h. Typed /\ Alone /\ Held
      BY <1>0, <2>0 DEF Orderly
    <3> QED
      BY <1>2, <1>3, <1>f, <3>1, <3>2, <3>h, HeldInside
  <2>3. Awaited'
    BY <1>1, <1>2, <1>3, <1>f, <2>0, ThreadNames DEF Orderly, Awaited, At
  <2>4. Watched'
    BY <1>1, <1>2, <1>3, <1>f, <2>0, ThreadNames DEF Orderly, Watched
  <2>5. Fresh'
    BY <1>1, <1>2, <1>3, <1>f, <2>0, ThreadNames DEF Orderly, Fresh, In, At, Current, Exchange
  <2>6. Agreeing'
    BY <1>1, <1>2, <1>3, <1>f, <2>0, ThreadNames DEF Orderly, Agreeing, At, Current
  <2> QED
    BY <2>1, <2>2, <2>3, <2>4, <2>5, <2>6 DEF Orderly
<1> QED
  BY <1>12, <1>13, <1>14, <1>15, <1>16, <1>17 DEF SessionInv

LEMMA ConnectKeeps ==
    ASSUME SessionInv, Connect
    PROVE  SessionInv'
<1>0. Typed /\ Placed
  BY DEF SessionInv
<1>1. /\ ops[UI].pc = "idle" /\ current = None /\ made < Len(Transports) /\ made' = made + 1
      /\ current' = Transports[made + 1] /\ Goto(UI, "connect") /\ raced' = (raced \/ Busy(UI))
  BY RestingFields DEF Connect, UserMay, Idle
<1>2. /\ doc' = doc /\ dev' = dev /\ flash' = flash /\ port' = port /\ linked' = linked
      /\ syncs' = syncs /\ results' = results /\ dialogs' = dialogs /\ progress' = progress /\ alarms' = alarms
      /\ last' = last
  BY DEF Connect, node, screen
<1>3. PICK r \in Op(Documents) :
         /\ Puts(UI, r) /\ r.pc = "connect" /\ r.kind = ops[UI].kind /\ r.doc = ops[UI].doc
         /\ r.ok = ops[UI].ok /\ r.obj = ops[UI].obj
  BY <1>0, <1>1, GoesTo, ThreadNames DEF Pcs
<1>f. /\ ops' \in [Threads -> Op(Documents)] /\ ops'[UI] = r /\ \A u \in Threads \ {UI} : ops'[u] = ops[u]
  BY <1>3 DEF Puts
<1>4. made \in Nat /\ current' \in ToSet(Transports) /\ current' # None
  BY <1>1, NextTransport DEF SessionInv, Due
<1>12. Typed'
  BY <1>1, <1>2, <1>3, <1>f, <1>4, ThreadNames DEF SessionInv, Typed, Objects
<1>13. Placed'
  BY <1>1, <1>2, <1>3, <1>f, ThreadNames DEF SessionInv, Placed, At, Uploading, Reading
<1>14. Due'
  BY <1>1, <1>2, <1>3, <1>f, <1>4, SessionAssumption DEF SessionInv, Due, At, Uploading
<1>15. Unread'
  BY <1>1, <1>2, <1>3, <1>f, ThreadNames DEF SessionInv, Unread
<1>16. Snapped'
  BY <1>1, <1>2, <1>3, <1>f, ThreadNames DEF SessionInv, Snapped
<1>17. ASSUME ~raced' PROVE Orderly'
  <2>0. ~raced /\ Orderly
    BY <1>1, <1>2, <1>17 DEF SessionInv
  <2>1. Alone'
    BY <1>1, <1>2, <1>3, <1>f, <2>0, ThreadNames DEF Orderly, Alone, In, Exchange
  <2>2. Held'
    BY <1>1, <1>2, <1>3, <1>4, <1>f, <2>0, ThreadNames DEF Orderly, Alone, Held, In, At, Exchange
  <2>3. Awaited'
    BY <1>1, <1>2, <1>3, <1>f, <2>0, ThreadNames DEF Orderly, Awaited, At
  <2>4. Watched'
    BY <1>1, <1>2, <1>3, <1>f, <2>0, ThreadNames DEF Orderly, Watched
  <2>5. Fresh'
    BY <1>1, <1>2, <1>3, <1>f, <2>0, ThreadNames DEF Orderly, Fresh, In, At, Current, Exchange
  <2>6. Agreeing'
    BY <1>1, <1>2, <1>3, <1>f, <2>0, ThreadNames DEF Orderly, Agreeing, At, Current
  <2> QED
    BY <2>1, <2>2, <2>3, <2>4, <2>5, <2>6 DEF Orderly
<1> QED
  BY <1>12, <1>13, <1>14, <1>15, <1>16, <1>17 DEF SessionInv

LEMMA ConnectEndKeeps ==
    ASSUME SessionInv, ConnectEnd
    PROVE  SessionInv'
<1>0. Typed /\ Placed
  BY DEF SessionInv
<1>1. /\ ops[UI].pc = "connect" /\ ops' = [ops EXCEPT ![UI] = Resting] /\ raced' = (raced \/ Busy(UI))
      /\ \/ /\ port = None /\ port' = current /\ linked' = TRUE /\ alarms' = alarms + 1 /\ current' = current
         \/ /\ port # None /\ port' = (IF port = current THEN None ELSE port) /\ current' = None
            /\ linked' = linked /\ alarms' = alarms
  BY DEF ConnectEnd, At
<1>2. /\ doc' = doc /\ dev' = dev /\ flash' = flash /\ made' = made /\ syncs' = syncs
      /\ results' = results /\ dialogs' = dialogs /\ progress' = progress /\ last' = last
  BY DEF ConnectEnd, node
<1>3. PICK r \in Op(Documents) : Puts(UI, r) /\ r = Resting
  BY <1>0, <1>1, PutsIt, RestingFields, ThreadNames
<1>3a. r.pc = "idle" /\ r.kind = "none" /\ ~r.ok
  BY <1>3, RestingFields
<1>f. /\ ops' \in [Threads -> Op(Documents)] /\ ops'[UI] = r /\ \A u \in Threads \ {UI} : ops'[u] = ops[u]
  BY <1>3 DEF Puts
<1>12. Typed'
  BY <1>1, <1>2, <1>3a, <1>f, ThreadNames DEF SessionInv, Typed, Objects
<1>13. Placed'
  BY <1>1, <1>2, <1>3a, <1>f, ThreadNames DEF SessionInv, Placed, At, Uploading, Reading
<1>14. Due'
  BY <1>1, <1>2, <1>3a, <1>f, ThreadNames DEF SessionInv, Due, At, Uploading
<1>15. Unread'
  BY <1>1, <1>2, <1>3a, <1>f, ThreadNames DEF SessionInv, Unread
<1>16. Snapped'
  BY <1>1, <1>2, <1>3a, <1>f, ThreadNames DEF SessionInv, Snapped
<1>17. ASSUME ~raced' PROVE Orderly'
  <2>0. ~raced /\ Orderly
    BY <1>1, <1>2, <1>17 DEF SessionInv
  <2>1. Alone'
    BY <1>1, <1>2, <1>3a, <1>f, <2>0, ThreadNames DEF Orderly, Alone, In, Exchange
  <2>2. Held'
    BY <1>1, <1>2, <1>3a, <1>f, <2>0, ThreadNames DEF Orderly, Held, In, At, Exchange
  <2>3. Awaited'
    BY <1>1, <1>2, <1>3a, <1>f, <2>0, ThreadNames DEF Orderly, Awaited, At
  <2>4. Watched'
    BY <1>1, <1>2, <1>3a, <1>f, <2>0, ThreadNames DEF Orderly, Watched
  <2>5. Fresh'
    BY <1>1, <1>2, <1>3a, <1>f, <2>0, ThreadNames DEF Orderly, Fresh, In, At, Current, Exchange
  <2>6. Agreeing'
    BY <1>1, <1>2, <1>3a, <1>f, <2>0, ThreadNames DEF Orderly, Agreeing, At, Current
  <2> QED
    BY <2>1, <2>2, <2>3, <2>4, <2>5, <2>6 DEF Orderly
<1> QED
  BY <1>12, <1>13, <1>14, <1>15, <1>16, <1>17 DEF SessionInv

LEMMA DisconnectKeeps ==
    ASSUME SessionInv, Disconnect
    PROVE  SessionInv'
<1>0. Typed /\ Placed
  BY DEF SessionInv
<1>1. /\ ops[UI].pc = "idle" /\ current # None /\ port' = (IF port = current THEN None ELSE port)
      /\ current' = None /\ linked' = FALSE /\ raced' = (raced \/ Busy(UI))
  BY RestingFields DEF Disconnect, UserMay, Idle
<1>2. /\ doc' = doc /\ dev' = dev /\ flash' = flash /\ made' = made /\ syncs' = syncs
      /\ results' = results /\ dialogs' = dialogs /\ progress' = progress /\ alarms' = alarms /\ last' = last
  BY DEF Disconnect, node, screen
<1>f. ops' = ops
  BY DEF Disconnect
<1>4. ASSUME ~raced'
      PROVE  \A u \in Threads : ~In(u)
  BY <1>1, <1>4 DEF Busy, In, Exchange
<1>12. Typed'
  BY <1>1, <1>2, <1>f, ThreadNames DEF SessionInv, Typed, Objects
<1>13. Placed'
  BY <1>1, <1>2, <1>f, ThreadNames DEF SessionInv, Placed, At, Uploading, Reading
<1>14. Due'
  BY <1>1, <1>2, <1>f, ThreadNames DEF SessionInv, Due, At, Uploading
<1>15. Unread'
  BY <1>1, <1>2, <1>f, ThreadNames DEF SessionInv, Unread
<1>16. Snapped'
  BY <1>1, <1>2, <1>f, ThreadNames DEF SessionInv, Snapped
<1>17. ASSUME ~raced' PROVE Orderly'
  <2>0. ~raced /\ Orderly
    BY <1>1, <1>2, <1>17 DEF SessionInv
  <2>1. Alone'
    BY <1>1, <1>2, <1>f, <2>0, ThreadNames DEF Orderly, Alone, In, Exchange
  <2>2. Held'
    BY <1>1, <1>2, <1>4, <1>17, <1>f, <2>0, ThreadNames DEF Orderly, Held, In, At
  <2>3. Awaited'
    BY <1>1, <1>2, <1>f, <2>0, ThreadNames DEF Orderly, Awaited, At
  <2>4. Watched'
    BY <1>1, <1>2, <1>f, <2>0, ThreadNames DEF Orderly, Watched
  <2>5. Fresh'
    BY <1>1, <1>2, <1>f, <2>0, ThreadNames DEF Orderly, Fresh, In, At, Current, Exchange
  <2>6. Agreeing'
    BY <1>1, <1>2, <1>f, <2>0, ThreadNames DEF Orderly, Agreeing, At, Current
  <2> QED
    BY <2>1, <2>2, <2>3, <2>4, <2>5, <2>6 DEF Orderly
<1> QED
  BY <1>12, <1>13, <1>14, <1>15, <1>16, <1>17 DEF SessionInv

LEMMA ChangedDocuments ==
    ASSUME NEW change \in UserChanges
    PROVE  change[1] \in Documents /\ change[2] \in 0 .. 2
<1>1. change[1] \in UserDocs
  BY DEF UserDocs
<1>2. change[1] \in Documents
  BY <1>1 DEF Documents, Reread
<1>3. change[2] \in 0 .. 2
  BY DEF UserChanges
<1> QED
  BY <1>2, <1>3

LEMMA ChangeKeeps ==
    ASSUME SessionInv, NEW change \in UserChanges, Change(change[1], change[2])
    PROVE  SessionInv'
<1>0. Typed /\ Placed
  BY DEF SessionInv
<1>1. /\ ops[UI].pc = "idle" /\ doc' = change[1] /\ last' = "none" /\ syncs' = change[2]
      /\ change[1] \in Documents /\ change[2] \in 0 .. 2
      /\ ops' = IF change[2] = 0 THEN ops ELSE [ops EXCEPT ![UI].pc = "begin", ![UI].kind = "sync"]
  BY RestingFields, ChangedDocuments DEF Change, UserMay, Idle
<1>2. /\ dev' = dev /\ flash' = flash /\ port' = port /\ current' = current /\ linked' = linked
      /\ made' = made /\ results' = results /\ dialogs' = dialogs /\ progress' = progress /\ alarms' = alarms
      /\ raced' = raced
  BY DEF Change, node, link, screen
<1>3. PICK r \in Op(Documents) :
         /\ Puts(UI, r) /\ \/ change[2] = 0 /\ r = ops[UI]
                           \/ change[2] # 0 /\ r.pc = "begin"
  <2> DEFINE b == [ops[UI] EXCEPT !.pc = "begin", !.kind = "sync"]
  <2>1. ops[UI] \in Op(Documents) /\ ops \in [Threads -> Op(Documents)]
    BY <1>0, ThreadNames DEF Typed
  <2>2. b \in Op(Documents) /\ b.pc = "begin"
    BY <2>1 DEF Op, Pcs, Kinds
  <2>3. CASE change[2] = 0
    BY <1>1, <2>1, <2>3 DEF Puts
  <2>4. CASE change[2] # 0
    <3>1. ops' = [ops EXCEPT ![UI] = b]
      BY <1>1, <2>1, <2>4, ThreadNames DEF Op
    <3> HIDE DEF b
    <3> QED
      BY <1>0, <2>2, <2>4, <3>1, PutsIt, ThreadNames
  <2> QED
    BY <2>3, <2>4
<1>f. /\ ops' \in [Threads -> Op(Documents)] /\ ops'[UI] = r /\ \A u \in Threads \ {UI} : ops'[u] = ops[u]
  BY <1>3 DEF Puts
<1>12. Typed'
  BY <1>1, <1>2, <1>3, <1>f, ThreadNames DEF SessionInv, Typed, Objects
<1>13. Placed'
  BY <1>1, <1>2, <1>3, <1>f, ThreadNames DEF SessionInv, Placed, At, Uploading, Reading
<1>14. Due'
  BY <1>1, <1>2, <1>3, <1>f, ThreadNames DEF SessionInv, Due, At, Uploading
<1>15. Unread'
  BY <1>1, <1>2, <1>3, <1>f, ThreadNames DEF SessionInv, Unread
<1>16. Snapped'
  BY <1>1, <1>2, <1>3, <1>f, ThreadNames DEF SessionInv, Snapped
<1>17. ASSUME ~raced' PROVE Orderly'
  <2>0. ~raced /\ Orderly
    BY <1>1, <1>2, <1>17 DEF SessionInv
  <2>1. Alone'
    BY <1>1, <1>2, <1>3, <1>f, <2>0, ThreadNames DEF Orderly, Alone, In, Exchange
  <2>2. Held'
    BY <1>1, <1>2, <1>3, <1>f, <2>0, ThreadNames DEF Orderly, Held, In, At, Exchange
  <2>3. Awaited'
    BY <1>1, <1>2, <1>3, <1>f, <2>0, ThreadNames DEF Orderly, Awaited, At
  <2>4. Watched'
    BY <1>1, <1>2, <1>3, <1>f, <2>0, ThreadNames DEF Orderly, Watched
  <2>5. Fresh'
    BY <1>1, <1>2, <1>3, <1>f, <2>0, ThreadNames DEF Orderly, Fresh, In, At, Current, Exchange
  <2>6. Agreeing'
    BY <1>1, <1>2, <1>3, <1>f, <2>0, ThreadNames DEF Orderly, Agreeing, At, Current
  <2> QED
    BY <2>1, <2>2, <2>3, <2>4, <2>5, <2>6 DEF Orderly
<1> QED
  BY <1>12, <1>13, <1>14, <1>15, <1>16, <1>17 DEF SessionInv

LEMMA AutoSyncKeeps ==
    ASSUME SessionInv, AutoSync
    PROVE  SessionInv'
<1>0. Typed /\ Placed
  BY DEF SessionInv
<1>1. /\ alarms > 0 /\ alarms' = alarms - 1
      /\ linked => Spare # {} /\ StartRead(CHOOSE v \in Spare : TRUE)
      /\ ~linked => UNCHANGED <<ops, dialogs, progress, raced>>
  BY DEF AutoSync
<1>2. /\ doc' = doc /\ dev' = dev /\ flash' = flash /\ port' = port /\ current' = current
      /\ linked' = linked /\ made' = made /\ syncs' = syncs /\ results' = results /\ last' = last
  BY DEF AutoSync, node, link
<1>3. \/ ops' = ops /\ dialogs' = dialogs /\ progress' = progress /\ raced' = raced
      \/ \E w \in Workers : \E r \in Op(Documents) :
            /\ Puts(w, r) /\ r.pc = "begin" /\ r.kind = "read" /\ ~r.ok
            /\ Idle(w) /\ dialogs' = dialogs \cup {w} /\ progress' = w
            /\ ~raced' => results = <<>> /\ \A v \in Workers : Idle(v)
            /\ raced' \in BOOLEAN /\ (raced => raced')
  <2>1. CASE ~linked
    BY <1>1, <2>1
  <2>2. CASE linked
    <3> DEFINE w == CHOOSE v \in Spare : TRUE
               b == [ops[w] EXCEPT !.pc = "begin", !.kind = "read"]
    <3>1. w \in Spare /\ StartRead(w)
      BY <1>1, <2>2
    <3> HIDE DEF w
    <3>2. w \in Workers /\ Idle(w) /\ w \in Threads
      BY <3>1, ThreadNames DEF Spare
    <3>3. ops[w] \in Op(Documents) /\ ops \in [Threads -> Op(Documents)]
      BY <1>0, <3>2 DEF Typed
    <3>4. b \in Op(Documents) /\ b.pc = "begin" /\ b.kind = "read" /\ b.ok = ops[w].ok
      BY <3>3 DEF Op, Pcs, Kinds
    <3>5. ~ops[w].ok
      BY <3>2, RestingFields DEF Idle
    <3>6. ops' = [ops EXCEPT ![w] = b]
      BY <3>1, <3>2, <3>3 DEF StartRead, Op
    <3> HIDE DEF b
    <3>7. Puts(w, b)
      BY <1>0, <3>2, <3>4, <3>6, PutsIt
    <3>8. dialogs' = dialogs \cup {w} /\ progress' = w
      BY <3>1 DEF StartRead
    <3>9. /\ ~raced' => results = <<>> /\ \A v \in Workers : Idle(v)
          /\ raced' \in BOOLEAN /\ (raced => raced')
      BY <3>1 DEF StartRead
    <3> QED
      BY <3>2, <3>4, <3>5, <3>7, <3>8, <3>9
  <2> QED
    BY <2>1, <2>2
<1>f. \/ ops' = ops /\ dialogs' = dialogs /\ progress' = progress /\ raced' = raced
      \/ \E w \in Workers : \E r \in Op(Documents) :
            /\ ops' \in [Threads -> Op(Documents)] /\ ops'[w] = r /\ \A u \in Threads \ {w} : ops'[u] = ops[u]
            /\ r.pc = "begin" /\ r.kind = "read" /\ ~r.ok
            /\ ops[w].pc = "idle" /\ dialogs' = dialogs \cup {w} /\ progress' = w
            /\ ~raced' => results = <<>> /\ \A v \in Workers : ops[v].kind = "none"
            /\ raced' \in BOOLEAN /\ (raced => raced')
  BY <1>3, RestingFields DEF Puts, Idle
<1>4. (\A u \in Threads : In(u)' <=> In(u)) /\ ops'[UI] = ops[UI]
  BY <1>f, ThreadNames DEF In, Exchange
<1>5. alarms' \in Nat /\ alarms' <= alarms
  BY <1>1 DEF SessionInv, Due
<1>6. /\ ops' \in [Threads -> Op(Documents)] /\ raced' \in BOOLEAN /\ (raced => raced')
      /\ dialogs' \subseteq Workers /\ progress' \in {None} \cup Workers
  <2> HIDE DEF Op
  <2> QED
    BY <1>0, <1>f DEF Typed
<1>12. Typed'
  BY <1>0, <1>2, <1>6 DEF Typed
<1>13. Placed'
  BY <1>2, <1>4, <1>5, <1>f, ThreadNames DEF SessionInv, Placed, At, Uploading, Reading
<1>14. Due'
  BY <1>2, <1>4, <1>5 DEF SessionInv, Due, At, Uploading
<1>15. Unread'
  BY <1>2, <1>4, <1>5, <1>f, ThreadNames DEF SessionInv, Unread
<1>16. Snapped'
  BY <1>2, <1>4, <1>5, <1>f, ThreadNames DEF SessionInv, Snapped
<1>17. ASSUME ~raced' PROVE Orderly'
  <2>0. ~raced /\ Orderly
    BY <1>2, <1>4, <1>5, <1>6, <1>17 DEF SessionInv
  <2>1. Alone'
    BY <1>4, <2>0 DEF Orderly, Alone
  <2>2. Held'
    BY <1>2, <1>4, <1>f, <2>0, ThreadNames DEF Orderly, Held, In, At, Exchange
  <2>3. Awaited'
    BY <1>2, <1>4, <1>5, <1>f, <2>0, ThreadNames DEF Orderly, Awaited, At
  <2>4. Watched'
    BY <1>2, <1>17, <1>f, <2>0, ThreadNames DEF Orderly, Watched
  <2>5. Fresh'
    BY <1>2, <1>4, <1>5, <1>f, <2>0, ThreadNames DEF Orderly, Fresh, In, At, Current, Exchange
  <2>6. Agreeing'
    BY <1>2, <1>4, <1>5, <1>f, <2>0, ThreadNames DEF Orderly, Agreeing, At, Current
  <2> QED
    BY <2>1, <2>2, <2>3, <2>4, <2>5, <2>6 DEF Orderly
<1> QED
  BY <1>12, <1>13, <1>14, <1>15, <1>16, <1>17 DEF SessionInv

LEMMA HandleResultKeeps ==
    ASSUME SessionInv, HandleResult
    PROVE  SessionInv'
<1>0. Typed /\ Placed
  BY DEF SessionInv
<1>1. /\ ops[UI].pc \in {"idle", "pump", "shown", "decide"} /\ results # <<>> /\ results' = Tail(results)
      /\ dialogs' = dialogs \ {progress} /\ progress' = None
      /\ \/ Head(results).ok /\ doc' = Head(results).doc /\ last' = "read"
         \/ doc' = doc /\ last' = last
  BY DEF HandleResult, HandlesEvents, ClosedDialogs, Show
<1>2. /\ dev' = dev /\ flash' = flash /\ port' = port /\ current' = current /\ linked' = linked
      /\ made' = made /\ syncs' = syncs /\ alarms' = alarms /\ raced' = (raced \/ At(UI, "shown"))
  BY DEF HandleResult, node, link
<1>f. ops' = ops
  BY DEF HandleResult
<1>3. ASSUME NEW S, results \in Seq(S)
      PROVE  /\ Head(results) = results[1] /\ 1 \in 1 .. Len(results) /\ results[1] \in S
             /\ results' \in Seq(S)
             /\ \A i \in 1 .. Len(results') : i + 1 \in 1 .. Len(results) /\ results'[i] = results[i + 1]
  BY <1>1, <1>3
<1>4. /\ Head(results) = results[1] /\ 1 \in 1 .. Len(results) /\ results[1].doc \in Documents
      /\ results' \in Seq([ok : BOOLEAN, doc : Documents])
      /\ \A i \in 1 .. Len(results') : i + 1 \in 1 .. Len(results) /\ results'[i] = results[i + 1]
  <2> DEFINE S == [ok : BOOLEAN, doc : Documents]
  <2>1. results \in Seq(S)
    BY <1>0 DEF Typed
  <2>2. \A s \in S : s.doc \in Documents
    OBVIOUS
  <2> HIDE DEF S
  <2>3. /\ Head(results) = results[1] /\ 1 \in 1 .. Len(results) /\ results[1] \in S
        /\ results' \in Seq(S)
        /\ \A i \in 1 .. Len(results') : i + 1 \in 1 .. Len(results) /\ results'[i] = results[i + 1]
    BY <1>3, <2>1
  <2> QED
    BY <2>2, <2>3 DEF S
<1>5. raced' \in BOOLEAN
  BY <1>0, <1>2 DEF Typed
<1>12. Typed'
  BY <1>1, <1>2, <1>4, <1>5, <1>f, ThreadNames DEF SessionInv, Typed, Objects
<1>13. Placed'
  BY <1>1, <1>2, <1>4, <1>f, ThreadNames DEF SessionInv, Placed, At, Uploading, Reading
<1>14. Due'
  BY <1>1, <1>2, <1>4, <1>f, ThreadNames DEF SessionInv, Due, At, Uploading
<1>15. Unread'
  BY <1>1, <1>2, <1>4, <1>f, ThreadNames DEF SessionInv, Unread
<1>16. Snapped'
  BY <1>1, <1>2, <1>f DEF Snapped, At
<1>17. ASSUME ~raced' PROVE Orderly'
  <2>0. ~raced /\ Orderly
    BY <1>1, <1>2, <1>4, <1>17 DEF SessionInv
  <2>1. Alone'
    BY <1>1, <1>2, <1>4, <1>f, <2>0, ThreadNames DEF Orderly, Alone, In, Exchange
  <2>2. Held'
    BY <1>1, <1>2, <1>4, <1>f, <2>0, ThreadNames DEF Orderly, Held, In, At, Exchange
  <2>3. Awaited'
    BY <1>1, <1>2, <1>4, <1>f, <2>0, ThreadNames DEF Orderly, Awaited, At
  <2>4. Watched'
    BY <1>1, <1>2, <1>4, <1>f, <2>0, ThreadNames DEF Orderly, Watched
  <2>5. Fresh'
    BY <1>1, <1>2, <1>4, <1>f, <2>0, ThreadNames DEF Orderly, Fresh, In, At, Current, Exchange
  <2>6. Agreeing'
    BY <1>1, <1>2, <1>4, <1>f, <2>0 DEF Orderly, Fresh, Agreeing, At, Current
  <2> QED
    BY <2>1, <2>2, <2>3, <2>4, <2>5, <2>6 DEF Orderly
<1> QED
  BY <1>12, <1>13, <1>14, <1>15, <1>16, <1>17 DEF SessionInv

LEMMA DismissKeeps ==
    ASSUME SessionInv, NEW w \in Workers, Dismiss(w)
    PROVE  SessionInv'
<1>0. Typed /\ Placed
  BY DEF SessionInv
<1>1. dialogs' = dialogs \ {w}
  BY DEF Dismiss
<1>2. /\ doc' = doc /\ dev' = dev /\ flash' = flash /\ port' = port /\ current' = current
      /\ linked' = linked /\ made' = made /\ syncs' = syncs /\ results' = results /\ progress' = progress
      /\ alarms' = alarms /\ last' = last /\ raced' = raced
  BY DEF Dismiss, node, link
<1>f. ops' = ops
  BY DEF Dismiss
<1>12. Typed'
  BY <1>1, <1>2, <1>f, ThreadNames DEF SessionInv, Typed, Objects
<1>13. Placed'
  BY <1>1, <1>2, <1>f, ThreadNames DEF SessionInv, Placed, At, Uploading, Reading
<1>14. Due'
  BY <1>1, <1>2, <1>f, ThreadNames DEF SessionInv, Due, At, Uploading
<1>15. Unread'
  BY <1>1, <1>2, <1>f, ThreadNames DEF SessionInv, Unread
<1>16. Snapped'
  BY <1>1, <1>2, <1>f, ThreadNames DEF SessionInv, Snapped
<1>17. ASSUME ~raced' PROVE Orderly'
  <2>0. ~raced /\ Orderly
    BY <1>1, <1>2, <1>17 DEF SessionInv
  <2>1. Alone'
    BY <1>1, <1>2, <1>f, <2>0, ThreadNames DEF Orderly, Alone, In, Exchange
  <2>2. Held'
    BY <1>1, <1>2, <1>f, <2>0, ThreadNames DEF Orderly, Held, In, At, Exchange
  <2>3. Awaited'
    BY <1>1, <1>2, <1>f, <2>0, ThreadNames DEF Orderly, Awaited, At
  <2>4. Watched'
    BY <1>1, <1>2, <1>f, <2>0, ThreadNames DEF Orderly, Watched
  <2>5. Fresh'
    BY <1>1, <1>2, <1>f, <2>0, ThreadNames DEF Orderly, Fresh, In, At, Current, Exchange
  <2>6. Agreeing'
    BY <1>1, <1>2, <1>f, <2>0, ThreadNames DEF Orderly, Agreeing, At, Current
  <2> QED
    BY <2>1, <2>2, <2>3, <2>4, <2>5, <2>6 DEF Orderly
<1> QED
  BY <1>12, <1>13, <1>14, <1>15, <1>16, <1>17 DEF SessionInv

LEMMA CompareKeeps ==
    ASSUME SessionInv, Compare
    PROVE  SessionInv'
<1>0. Typed /\ Placed
  BY DEF SessionInv
<1>1. /\ ops[UI].pc = "idle" /\ dialogs = {} /\ linked /\ raced' = (raced \/ Busy(UI) \/ results # <<>>)
  BY RestingFields DEF Compare, UserMay, Idle
<1>2. /\ doc' = doc /\ dev' = dev /\ flash' = flash /\ port' = port /\ current' = current
      /\ linked' = linked /\ made' = made /\ syncs' = syncs /\ results' = results /\ dialogs' = dialogs
      /\ progress' = progress /\ alarms' = alarms /\ last' = last
  BY DEF Compare, node, link, screen
<1>3. PICK w \in Workers : \E a, b \in Op(Documents) :
         /\ ops[w].pc = "idle" /\ ops' \in [Threads -> Op(Documents)] /\ ops'[w] = a /\ ops'[UI] = b
         /\ \A u \in Threads \ {w, UI} : ops'[u] = ops[u]
         /\ a.pc = "begin" /\ a.kind = "compare" /\ ~a.ok /\ b.pc = "join" /\ b.obj = w
  <2> DEFINE w == CHOOSE v \in Spare : TRUE
             a == [ops[w] EXCEPT !.pc = "begin", !.kind = "compare"]
             b == [ops[UI] EXCEPT !.pc = "join", !.obj = w]
  <2>1. w \in Spare /\ ops' = [ops EXCEPT ![w].pc = "begin", ![w].kind = "compare",
                                          ![UI].pc = "join", ![UI].obj = w]
    BY DEF Compare
  <2> HIDE DEF w
  <2>2. w \in Workers /\ Idle(w) /\ w \in Threads /\ w # UI /\ w \in Objects
    BY <2>1, ThreadNames DEF Spare, Objects
  <2>3. ops[w] \in Op(Documents) /\ ops[UI] \in Op(Documents) /\ ops \in [Threads -> Op(Documents)]
    BY <1>0, <2>2, ThreadNames DEF Typed
  <2>4. a \in Op(Documents) /\ a.pc = "begin" /\ a.kind = "compare" /\ a.ok = ops[w].ok
    BY <2>3 DEF Op, Pcs, Kinds
  <2>5. b \in Op(Documents) /\ b.pc = "join" /\ b.obj = w
    BY <2>2, <2>3 DEF Op, Pcs, Kinds
  <2>6. ~ops[w].ok /\ ops[w].pc = "idle"
    BY <2>2, RestingFields DEF Idle
  <2>7. ops' = [ops EXCEPT ![w] = a, ![UI] = b]
    BY <2>1, <2>2, <2>3, ThreadNames DEF Op
  <2> HIDE DEF a, b
  <2>8. /\ ops' \in [Threads -> Op(Documents)] /\ ops'[w] = a /\ ops'[UI] = b
        /\ \A u \in Threads \ {w, UI} : ops'[u] = ops[u]
    BY <2>2, <2>3, <2>4, <2>5, <2>7, ThreadNames
  <2> QED
    BY <2>2, <2>4, <2>5, <2>6, <2>8
<1>4. /\ ops' \in [Threads -> Op(Documents)] /\ ops[w].pc = "idle" /\ w \in Threads /\ w # UI
      /\ \A u \in Threads \ {w, UI} : ops'[u] = ops[u]
      /\ ops'[w].pc = "begin" /\ ops'[w].kind = "compare" /\ ~ops'[w].ok /\ ops'[UI].pc = "join" /\ ops'[UI].obj = w
  BY <1>3, ThreadNames
<1>5. \A u \in Threads : In(u)' <=> In(u)
  BY <1>1, <1>4 DEF In, Exchange
<1>12. Typed'
  BY <1>1, <1>2, <1>4, ThreadNames DEF SessionInv, Typed, Objects
<1>13. Placed'
  BY <1>1, <1>2, <1>4, ThreadNames DEF SessionInv, Placed, At, Uploading, Reading
<1>14. Due'
  BY <1>1, <1>2, <1>4, ThreadNames DEF SessionInv, Due, At, Uploading
<1>15. Unread'
  BY <1>1, <1>2, <1>4, ThreadNames DEF SessionInv, Unread
<1>16. Snapped'
  BY <1>1, <1>2, <1>4, ThreadNames DEF SessionInv, Snapped
<1>17. ASSUME ~raced' PROVE Orderly'
  <2>0. ~raced /\ Orderly
    BY <1>1, <1>2, <1>4, <1>17 DEF SessionInv
  <2>1. Alone'
    BY <1>5, <2>0 DEF Orderly, Alone
  <2>2. Held'
    BY <1>1, <1>2, <1>4, <1>5, <2>0, ThreadNames DEF Orderly, Held, In, At, Exchange
  <2>3. Awaited'
    BY <1>1, <1>2, <1>4, <2>0, ThreadNames DEF Orderly, Awaited, At
  <2>4. Watched'
    BY <1>1, <1>2, <1>4, <2>0, ThreadNames DEF Orderly, Watched
  <2>5. Fresh'
    BY <1>1, <1>2, <1>4, <2>0, ThreadNames DEF Orderly, Fresh, In, At, Current, Exchange
  <2>6. Agreeing'
    BY <1>1, <1>2, <1>4, <2>0, ThreadNames DEF Orderly, Agreeing, At, Current
  <2> QED
    BY <2>1, <2>2, <2>3, <2>4, <2>5, <2>6 DEF Orderly
<1> QED
  BY <1>12, <1>13, <1>14, <1>15, <1>16, <1>17 DEF SessionInv

LEMMA JoinedKeeps ==
    ASSUME SessionInv, Joined
    PROVE  SessionInv'
<1>0. Typed /\ Placed
  BY DEF SessionInv
<1>2. /\ doc' = doc /\ dev' = dev /\ flash' = flash /\ port' = port /\ current' = current
      /\ linked' = linked /\ made' = made /\ syncs' = syncs /\ results' = results /\ dialogs' = dialogs
      /\ progress' = progress /\ alarms' = alarms /\ last' = last /\ raced' = raced
  BY DEF Joined, node, link, screen
<1>4. PICK w \in Workers :
         /\ w = ops[UI].obj /\ ops[UI].pc = "join" /\ ops[w].pc = "done" /\ w \in Threads /\ w # UI
         /\ ops' \in [Threads -> Op(Documents)] /\ \A u \in Threads \ {w, UI} : ops'[u] = ops[u]
         /\ ops'[w].pc = "idle" /\ ops'[w].kind = "none" /\ ~ops'[w].ok
         /\ ops'[UI].pc \in {"idle", "decide"}
         /\ ops'[UI].pc = "decide" => ops[w].ok /\ ops'[UI].doc = ops[w].doc
  <2> DEFINE w == ops[UI].obj
             e == [Resting EXCEPT !.pc = "decide", !.doc = ops[w].doc]
             b == IF ops[w].ok THEN e ELSE Resting
  <2>1. /\ ops[UI].pc = "join" /\ ops[w].pc = "done"
        /\ ops' = [ops EXCEPT ![w] = Resting, ![UI] = b]
    BY DEF Joined, At
  <2>2. w \in Workers /\ w \in Threads /\ w # UI
    BY <1>0, <2>1, ThreadNames DEF Placed, At
  <2>3. ops \in [Threads -> Op(Documents)] /\ ops[w].doc \in Documents
    BY <1>0, <2>2 DEF Typed, Op
  <2> HIDE DEF w
  <2>4. e \in Op(Documents) /\ e.pc = "decide" /\ e.doc = ops[w].doc
    BY <2>3, RestingFields DEF Resting, Op, Pcs, Kinds
  <2> HIDE DEF e
  <2>5. b \in Op(Documents) /\ b.pc \in {"idle", "decide"} /\ (b.pc = "decide" => ops[w].ok /\ b.doc = ops[w].doc)
    BY <2>4, RestingFields
  <2> HIDE DEF b
  <2>6. /\ ops' \in [Threads -> Op(Documents)] /\ ops'[w] = Resting /\ ops'[UI] = b
        /\ \A u \in Threads \ {w, UI} : ops'[u] = ops[u]
    BY <2>1, <2>2, <2>3, <2>5, RestingFields, ThreadNames
  <2>7. /\ ops'[w].pc = "idle" /\ ops'[w].kind = "none" /\ ~ops'[w].ok
        /\ ops'[UI].pc \in {"idle", "decide"}
        /\ ops'[UI].pc = "decide" => ops[w].ok /\ ops'[UI].doc = ops[w].doc
    BY <2>5, <2>6, RestingFields
  <2>8. w = ops[UI].obj
    BY DEF w
  <2> QED
    BY <2>1, <2>2, <2>6, <2>7, <2>8
<1>5. \A u \in Threads : In(u)' <=> In(u)
  BY <1>4 DEF In, Exchange
<1>12. Typed'
  BY <1>2, <1>4, ThreadNames DEF SessionInv, Typed, Objects
<1>13. Placed'
  BY <1>2, <1>4, ThreadNames DEF SessionInv, Placed, At, Uploading, Reading
<1>14. Due'
  BY <1>2, <1>4, ThreadNames DEF SessionInv, Due, At, Uploading
<1>15. Unread'
  BY <1>2, <1>4, ThreadNames DEF SessionInv, Unread
<1>16. Snapped'
  BY <1>2, <1>4, ThreadNames DEF SessionInv, Snapped
<1>17. ASSUME ~raced' PROVE Orderly'
  <2>0. ~raced /\ Orderly
    BY <1>2, <1>4, <1>17 DEF SessionInv
  <2>1. Alone'
    BY <1>5, <2>0 DEF Orderly, Alone
  <2>2. Held'
    BY <1>2, <1>4, <1>5, <2>0, ThreadNames DEF Orderly, Held, In, At, Exchange
  <2>3. Awaited'
    BY <1>2, <1>4, <2>0, ThreadNames DEF Orderly, Awaited, At
  <2>4. Watched'
    BY <1>2, <1>4, <2>0, ThreadNames DEF SessionInv, Unread, Orderly, Watched
  <2>5. Fresh'
    BY <1>2, <1>4, <2>0, ThreadNames DEF Orderly, Fresh, In, At, Current, Exchange
  <2>6. Agreeing'
    BY <1>2, <1>4, <2>0, ThreadNames DEF Orderly, Agreeing, At, Current
  <2> QED
    BY <2>1, <2>2, <2>3, <2>4, <2>5, <2>6 DEF Orderly
<1> QED
  BY <1>12, <1>13, <1>14, <1>15, <1>16, <1>17 DEF SessionInv

LEMMA JoinTimeoutKeeps ==
    ASSUME SessionInv, JoinTimeout
    PROVE  SessionInv'
<1>0. Typed /\ Placed
  BY DEF SessionInv
<1>1. raced' = TRUE
  BY DEF JoinTimeout
<1>2. /\ doc' = doc /\ dev' = dev /\ flash' = flash /\ port' = port /\ current' = current
      /\ linked' = linked /\ made' = made /\ syncs' = syncs /\ results' = results /\ dialogs' = dialogs
      /\ progress' = progress /\ alarms' = alarms /\ last' = last
  BY DEF JoinTimeout, node, link, screen
<1>4. PICK w \in Workers :
         /\ ops' \in [Threads -> Op(Documents)] /\ w \in Threads /\ w # UI
         /\ \A u \in Threads \ {w, UI} : ops'[u] = ops[u]
         /\ ops'[w].pc = ops[w].pc /\ ops'[w].kind = "orphan" /\ ops'[w].ok = ops[w].ok
         /\ ops'[UI].pc = "idle"
  <2> DEFINE w == ops[UI].obj
             a == [ops[w] EXCEPT !.kind = "orphan"]
  <2>1. ops[UI].pc = "join" /\ ops' = [ops EXCEPT ![UI] = Resting, ![w].kind = "orphan"]
    BY DEF JoinTimeout, At
  <2>2. w \in Workers /\ w \in Threads /\ w # UI
    BY <1>0, <2>1, ThreadNames DEF Placed, At
  <2>3. ops \in [Threads -> Op(Documents)] /\ ops[w] \in Op(Documents)
    BY <1>0, <2>2 DEF Typed
  <2> HIDE DEF w
  <2>4. a \in Op(Documents) /\ a.pc = ops[w].pc /\ a.kind = "orphan" /\ a.ok = ops[w].ok
    BY <2>3 DEF Op, Pcs, Kinds
  <2>5. ops' = [ops EXCEPT ![UI] = Resting, ![w] = a]
    BY <2>1, <2>2, <2>3, ThreadNames DEF Op
  <2> HIDE DEF a
  <2>6. /\ ops' \in [Threads -> Op(Documents)] /\ ops'[w] = a /\ ops'[UI] = Resting
        /\ \A u \in Threads \ {w, UI} : ops'[u] = ops[u]
    BY <2>2, <2>3, <2>4, <2>5, RestingFields, ThreadNames
  <2> QED
    BY <2>2, <2>4, <2>6, RestingFields
<1>12. Typed'
  BY <1>1, <1>2, <1>4, ThreadNames DEF SessionInv, Typed, Objects
<1>13. Placed'
  BY <1>1, <1>2, <1>4, ThreadNames DEF SessionInv, Placed, At, Uploading, Reading
<1>14. Due'
  BY <1>1, <1>2, <1>4, ThreadNames DEF SessionInv, Due, At, Uploading
<1>15. Unread'
  BY <1>1, <1>2, <1>4, ThreadNames DEF SessionInv, Unread
<1>16. Snapped'
  BY <1>1, <1>2, <1>4, ThreadNames DEF SessionInv, Snapped
<1>17. ASSUME ~raced' PROVE Orderly'
  BY <1>1, <1>17
<1> QED
  BY <1>12, <1>13, <1>14, <1>15, <1>16, <1>17 DEF SessionInv

LEMMA DecideKeeps ==
    ASSUME SessionInv, Decide
    PROVE  SessionInv'
<1>0. Typed /\ Placed
  BY DEF SessionInv
<1>1. /\ ops[UI].pc = "decide"
      /\ \/ /\ ops' = [ops EXCEPT ![UI] = Resting] /\ doc' = doc /\ last' = last /\ syncs' = syncs
            /\ dialogs' = dialogs /\ progress' = progress
         \/ /\ ops' = [ops EXCEPT ![UI] = [Resting EXCEPT !.pc = "begin", !.kind = "write"]]
            /\ syncs' = 1 /\ doc' = doc /\ last' = last /\ dialogs' = dialogs /\ progress' = progress
         \/ /\ ops' = [ops EXCEPT ![UI] = Resting] /\ doc' = ops[UI].doc /\ last' = "read" /\ syncs' = syncs
            /\ dialogs' = dialogs \ {progress} /\ progress' = None
  BY DEF Decide, At, Show, ClosedDialogs
<1>2. /\ dev' = dev /\ flash' = flash /\ port' = port /\ current' = current /\ linked' = linked
      /\ made' = made /\ results' = results /\ alarms' = alarms /\ raced' = raced
  BY DEF Decide, node, link
<1>3. PICK r \in Op(Documents) :
         /\ Puts(UI, r)
         /\ \/ /\ r.pc = "idle" /\ doc' = doc /\ last' = last /\ syncs' = syncs
               /\ dialogs' = dialogs /\ progress' = progress
            \/ /\ r.pc = "begin" /\ syncs' = 1 /\ doc' = doc /\ last' = last
               /\ dialogs' = dialogs /\ progress' = progress
            \/ /\ r.pc = "idle" /\ doc' = ops[UI].doc /\ last' = "read" /\ syncs' = syncs
               /\ dialogs' = dialogs \ {progress} /\ progress' = None
  <2> DEFINE b == [Resting EXCEPT !.pc = "begin", !.kind = "write"]
  <2>1. b \in Op(Documents) /\ b.pc = "begin"
    BY RestingFields DEF Resting, Op, Pcs, Kinds
  <2> HIDE DEF b
  <2>2. CASE ops' = [ops EXCEPT ![UI] = Resting]
    <3>1. Puts(UI, Resting)
      BY <1>0, <2>2, PutsIt, RestingFields, ThreadNames
    <3>2. CASE ops' = [ops EXCEPT ![UI] = b]
      <4>1. Puts(UI, b)
        BY <1>0, <2>1, <3>2, PutsIt, ThreadNames
      <4> QED
        BY <1>1, <2>1, <3>1, <4>1, RestingFields DEF b
    <3>3. CASE ops' # [ops EXCEPT ![UI] = b]
      BY <1>1, <3>1, <3>3, RestingFields DEF b
    <3> QED
      BY <3>2, <3>3
  <2>3. CASE ops' # [ops EXCEPT ![UI] = Resting]
    <3>1. ops' = [ops EXCEPT ![UI] = b]
      BY <1>1, <2>3 DEF b
    <3>2. Puts(UI, b)
      BY <1>0, <2>1, <3>1, PutsIt, ThreadNames
    <3> QED
      BY <1>1, <2>1, <2>3, <3>2
  <2> QED
    BY <2>2, <2>3
<1>4. ops[UI] \in Op(Documents) /\ ops[UI].doc \in Documents
  <2>1. ops[UI] \in Op(Documents)
    BY <1>0, ThreadNames DEF Typed
  <2> QED
    BY <2>1 DEF Op
<1>5. ops[UI].pc = "decide"
  BY <1>1
<1>f. /\ ops' \in [Threads -> Op(Documents)] /\ ops'[UI] = r /\ \A u \in Threads \ {UI} : ops'[u] = ops[u]
  BY <1>3 DEF Puts
<1>12. Typed'
  BY <1>2, <1>3, <1>4, <1>5, <1>f, ThreadNames DEF SessionInv, Typed, Objects
<1>13. Placed'
  BY <1>2, <1>3, <1>4, <1>5, <1>f, ThreadNames DEF SessionInv, Placed, At, Uploading, Reading
<1>14. Due'
  BY <1>2, <1>3, <1>4, <1>5, <1>f, ThreadNames DEF SessionInv, Due, At, Uploading
<1>15. Unread'
  BY <1>2, <1>3, <1>4, <1>5, <1>f, ThreadNames DEF SessionInv, Unread
<1>16. Snapped'
  BY <1>2, <1>3, <1>4, <1>5, <1>f, ThreadNames DEF SessionInv, Snapped
<1>17. ASSUME ~raced' PROVE Orderly'
  <2>0. ~raced /\ Orderly
    BY <1>2, <1>17 DEF SessionInv
  <2>1. Alone'
    BY <1>2, <1>3, <1>4, <1>5, <1>f, <2>0, ThreadNames DEF Orderly, Alone, In, Exchange
  <2>2. Held'
    BY <1>2, <1>3, <1>4, <1>5, <1>f, <2>0, ThreadNames DEF Orderly, Held, In, At, Exchange
  <2>3. Awaited'
    BY <1>2, <1>3, <1>4, <1>5, <1>f, <2>0, ThreadNames DEF Orderly, Awaited, At
  <2>4. Watched'
    BY <1>2, <1>3, <1>4, <1>5, <1>f, <2>0, ThreadNames DEF Orderly, Watched
  <2>5. Fresh'
    BY <1>2, <1>3, <1>4, <1>5, <1>f, <2>0, ThreadNames DEF Orderly, Fresh, In, At, Current, Exchange
  <2>6. Agreeing'
    BY <1>2, <1>3, <1>4, <1>5, <1>f, <2>0 DEF Orderly, Fresh, Agreeing, At, Current
  <2> QED
    BY <2>1, <2>2, <2>3, <2>4, <2>5, <2>6 DEF Orderly
<1> QED
  BY <1>12, <1>13, <1>14, <1>15, <1>16, <1>17 DEF SessionInv

LEMMA SyncBeginKeeps ==
    ASSUME SessionInv, SyncBegin
    PROVE  SessionInv'
<1>0. Typed /\ Placed
  BY DEF SessionInv
<1>1. ops[UI].pc = "begin" /\ \/ Goto(UI, "pump") /\ syncs' = syncs /\ results' = results
                              \/ Over(UI)
  BY DEF SyncBegin, At
<1>2. /\ doc' = doc /\ dev' = dev /\ flash' = flash /\ port' = port /\ current' = current
      /\ linked' = linked /\ made' = made /\ dialogs' = dialogs /\ progress' = progress /\ alarms' = alarms
      /\ last' = last /\ raced' = raced
  BY DEF SyncBegin, node, link, screen
<1>3. PICK r \in Op(Documents) :
         /\ Puts(UI, r) /\ results' = results
         /\ \/ r.pc = "pump" /\ syncs' = syncs
            \/ r.pc = "idle" /\ syncs' = syncs - 1
            \/ r.pc = "begin" /\ syncs' = syncs - 1 /\ syncs > 1
  <2>1. CASE Goto(UI, "pump") /\ syncs' = syncs /\ results' = results
    BY <1>0, <2>1, GoesTo, ThreadNames DEF Pcs
  <2>2. CASE Over(UI)
    BY <1>0, <2>2, OverIs, RestingFields, ThreadNames DEF Ends
  <2> QED
    BY <1>1, <2>1, <2>2
<1>4. syncs \in 1 .. 2
  BY <1>1 DEF SessionInv, Due, Uploading
<1>5. ops[UI].pc = "begin"
  BY <1>1
<1>f. /\ ops' \in [Threads -> Op(Documents)] /\ ops'[UI] = r /\ \A u \in Threads \ {UI} : ops'[u] = ops[u]
  BY <1>3 DEF Puts
<1>12. Typed'
  BY <1>2, <1>3, <1>4, <1>5, <1>f, ThreadNames DEF SessionInv, Typed, Objects
<1>13. Placed'
  BY <1>2, <1>3, <1>4, <1>5, <1>f, ThreadNames DEF SessionInv, Placed, At, Uploading, Reading
<1>14. Due'
  BY <1>2, <1>3, <1>4, <1>5, <1>f, ThreadNames DEF SessionInv, Due, At, Uploading
<1>15. Unread'
  BY <1>2, <1>3, <1>4, <1>5, <1>f, ThreadNames DEF SessionInv, Unread
<1>16. Snapped'
  BY <1>2, <1>3, <1>4, <1>5, <1>f, ThreadNames DEF SessionInv, Snapped
<1>17. ASSUME ~raced' PROVE Orderly'
  <2>0. ~raced /\ Orderly
    BY <1>2, <1>17 DEF SessionInv
  <2>1. Alone'
    BY <1>2, <1>3, <1>4, <1>5, <1>f, <2>0, ThreadNames DEF Orderly, Alone, In, Exchange
  <2>2. Held'
    BY <1>2, <1>3, <1>4, <1>5, <1>f, <2>0, ThreadNames DEF Orderly, Held, In, At, Exchange
  <2>3. Awaited'
    BY <1>2, <1>3, <1>4, <1>5, <1>f, <2>0, ThreadNames DEF Orderly, Awaited, At
  <2>4. Watched'
    BY <1>2, <1>3, <1>4, <1>5, <1>f, <2>0, ThreadNames DEF Orderly, Watched
  <2>5. Fresh'
    BY <1>2, <1>3, <1>4, <1>5, <1>f, <2>0, ThreadNames DEF Orderly, Fresh, In, At, Current, Exchange
  <2>6. Agreeing'
    BY <1>2, <1>3, <1>4, <1>5, <1>f, <2>0, ThreadNames DEF Orderly, Agreeing, At, Current
  <2> QED
    BY <2>1, <2>2, <2>3, <2>4, <2>5, <2>6 DEF Orderly
<1> QED
  BY <1>12, <1>13, <1>14, <1>15, <1>16, <1>17 DEF SessionInv

LEMMA CaptureKeeps ==
    ASSUME SessionInv, Capture
    PROVE  SessionInv'
<1>0. Typed /\ Placed
  BY DEF SessionInv
<1>1. ops[UI].pc = "pump" /\ ops' = [ops EXCEPT ![UI].pc = "shown", ![UI].doc = doc]
  BY DEF Capture, At
<1>2. /\ doc' = doc /\ dev' = dev /\ flash' = flash /\ port' = port /\ current' = current
      /\ linked' = linked /\ made' = made /\ syncs' = syncs /\ results' = results /\ dialogs' = dialogs
      /\ progress' = progress /\ alarms' = alarms /\ last' = last /\ raced' = raced
  BY DEF Capture, node, link, screen
<1>3. PICK r \in Op(Documents) : Puts(UI, r) /\ r.pc = "shown" /\ r.doc = doc
  <2> DEFINE b == [ops[UI] EXCEPT !.pc = "shown", !.doc = doc]
  <2>1. ops[UI] \in Op(Documents) /\ ops \in [Threads -> Op(Documents)] /\ doc \in Documents
    BY <1>0, ThreadNames DEF Typed
  <2>2. b \in Op(Documents) /\ b.pc = "shown" /\ b.doc = doc
    BY <2>1 DEF Op, Pcs
  <2>3. ops' = [ops EXCEPT ![UI] = b]
    BY <1>1, <2>1, ThreadNames DEF Op
  <2> HIDE DEF b
  <2>4. Puts(UI, b)
    BY <1>0, <2>2, <2>3, PutsIt, ThreadNames
  <2> QED
    BY <2>2, <2>4
<1>f. /\ ops' \in [Threads -> Op(Documents)] /\ ops'[UI] = r /\ \A u \in Threads \ {UI} : ops'[u] = ops[u]
  BY <1>3 DEF Puts
<1>12. Typed'
  BY <1>2, <1>f DEF SessionInv, Typed, Objects
<1>13. Placed'
  BY <1>1, <1>2, <1>3, <1>f, ThreadNames DEF SessionInv, Placed, At, Uploading, Reading
<1>14. Due'
  BY <1>1, <1>2, <1>3, <1>f, ThreadNames DEF SessionInv, Due, At, Uploading
<1>15. Unread'
  BY <1>2, <1>f, ThreadNames DEF SessionInv, Unread
<1>16. Snapped'
  BY <1>2, <1>3, <1>f DEF Snapped
<1>17. ASSUME ~raced' PROVE Orderly'
  <2>0. ~raced /\ Orderly
    BY <1>2, <1>17 DEF SessionInv
  <2>1. Alone'
    BY <1>1, <1>2, <1>3, <1>f, <2>0, ThreadNames DEF Orderly, Alone, In, Exchange
  <2>2. Held'
    BY <1>1, <1>2, <1>3, <1>f, <2>0, ThreadNames DEF Orderly, Held, In, At, Exchange
  <2>3. Awaited'
    BY <1>1, <1>2, <1>3, <1>f, <2>0, ThreadNames DEF Orderly, Awaited, At
  <2>4. Watched'
    BY <1>1, <1>2, <1>3, <1>f, <2>0, ThreadNames DEF Orderly, Watched
  <2>5. Fresh'
    BY <1>1, <1>2, <1>3, <1>f, <2>0, ThreadNames DEF Orderly, Fresh, In, At, Current, Exchange
  <2>6. Agreeing'
    BY <1>1, <1>2, <1>3, <1>f, <2>0, ThreadNames DEF Orderly, Agreeing, At, Current
  <2> QED
    BY <2>1, <2>2, <2>3, <2>4, <2>5, <2>6 DEF Orderly
<1> QED
  BY <1>12, <1>13, <1>14, <1>15, <1>16, <1>17 DEF SessionInv

LEMMA SyncKeeps ==
    ASSUME SessionInv, Sync
    PROVE  SessionInv'
<1>0. Typed /\ Placed
  BY DEF SessionInv
<1>1. /\ ops[UI].pc \in {"pump", "shown"}
      /\ \/ Over(UI) /\ raced' = raced
         \/ /\ linked /\ current # None /\ raced' = (raced \/ Busy(UI) \/ results # <<>>)
            /\ syncs' = syncs /\ results' = results
            /\ ops' = [ops EXCEPT ![UI].pc = "release", ![UI].doc = Snapshot]
  BY DEF Sync, At, CanStart
<1>s. Snapshot \in Documents /\ (Snapshot = doc \/ raced)
  <2>1. ops[UI] \in Op(Documents) /\ doc \in Documents
    BY <1>0, ThreadNames DEF Typed
  <2>2. ops[UI].doc \in Documents
    BY <2>1 DEF Op
  <2> QED
    BY <1>1, <2>1, <2>2 DEF Snapshot, At, SessionInv, Snapped
<1>2. /\ doc' = doc /\ dev' = dev /\ flash' = flash /\ port' = port /\ current' = current
      /\ linked' = linked /\ made' = made /\ dialogs' = dialogs /\ progress' = progress /\ alarms' = alarms
      /\ last' = last
  BY DEF Sync, node, link, screen
<1>3. PICK r \in Op(Documents) :
         /\ Puts(UI, r) /\ results' = results
         /\ \/ r.pc = "idle" /\ syncs' = syncs - 1 /\ raced' = raced
            \/ r.pc = "begin" /\ syncs' = syncs - 1 /\ syncs > 1 /\ raced' = raced
            \/ /\ r.pc = "release" /\ r.doc = Snapshot /\ linked /\ current # None /\ syncs' = syncs
               /\ raced' = (raced \/ Busy(UI) \/ results # <<>>)
  <2>1. CASE Over(UI) /\ raced' = raced
    BY <1>0, <2>1, OverIs, RestingFields, ThreadNames DEF Ends
  <2>2. CASE /\ linked /\ current # None /\ raced' = (raced \/ Busy(UI) \/ results # <<>>)
             /\ syncs' = syncs /\ results' = results
             /\ ops' = [ops EXCEPT ![UI].pc = "release", ![UI].doc = Snapshot]
    <3> DEFINE b == [ops[UI] EXCEPT !.pc = "release", !.doc = Snapshot]
    <3>1. ops[UI] \in Op(Documents) /\ ops \in [Threads -> Op(Documents)]
      BY <1>0, ThreadNames DEF Typed
    <3>2. b \in Op(Documents) /\ b.pc = "release" /\ b.doc = Snapshot
      BY <1>s, <3>1 DEF Op, Pcs
    <3>3. ops' = [ops EXCEPT ![UI] = b]
      BY <2>2, <3>1, ThreadNames DEF Op
    <3> HIDE DEF b
    <3>4. Puts(UI, b)
      BY <1>0, <3>2, <3>3, PutsIt, ThreadNames
    <3> QED
      BY <2>2, <3>2, <3>4
  <2> QED
    BY <1>1, <2>1, <2>2
<1>4. syncs \in 1 .. 2
  BY <1>1 DEF SessionInv, Due, Uploading
<1>5. ops[UI].pc \in {"pump", "shown"} /\ (raced => raced') /\ raced' \in BOOLEAN
  BY <1>0, <1>1 DEF Typed
<1>6. ASSUME ~raced'
      PROVE  r.pc = "release" => linked /\ current # None /\ results = <<>> /\ \A u \in Threads : ~In(u)
  BY <1>3, <1>5, <1>6 DEF Busy, In, Exchange
<1>f. /\ ops' \in [Threads -> Op(Documents)] /\ ops'[UI] = r /\ \A u \in Threads \ {UI} : ops'[u] = ops[u]
  BY <1>3 DEF Puts
<1>12. Typed'
  BY <1>2, <1>3, <1>4, <1>5, <1>f, ThreadNames DEF SessionInv, Typed, Objects
<1>13. Placed'
  BY <1>2, <1>3, <1>4, <1>5, <1>f, ThreadNames DEF SessionInv, Placed, At, Uploading, Reading
<1>14. Due'
  BY <1>2, <1>3, <1>4, <1>5, <1>f, ThreadNames DEF SessionInv, Due, At, Uploading
<1>15. Unread'
  BY <1>2, <1>3, <1>4, <1>5, <1>f, ThreadNames DEF SessionInv, Unread
<1>16. Snapped'
  BY <1>s, <1>2, <1>3, <1>5, <1>f DEF Snapped
<1>17. ASSUME ~raced' PROVE Orderly'
  <2>0. ~raced /\ Orderly
    BY <1>2, <1>5, <1>17 DEF SessionInv
  <2>a. r.pc = "release" => linked /\ current # None /\ results = <<>> /\ \A u \in Threads : ~In(u)
    BY <1>6, <1>17
  <2>b. (\A u \in Threads : ~In(u)) /\ r.pc # "release" => \A u \in Threads : ~In(u)'
    BY <1>3, <1>f DEF In, Exchange
  <2>1. Alone'
    BY <1>2, <1>3, <1>4, <1>5, <1>f, <2>0, <2>a, ThreadNames DEF Orderly, Alone, In, Exchange
  <2>2. Held'
    BY <1>2, <1>3, <1>4, <1>5, <1>f, <2>0, <2>a, ThreadNames DEF Orderly, Held, In, At, Exchange
  <2>3. Awaited'
    BY <1>2, <1>3, <1>4, <1>5, <1>f, <2>0, <2>a, ThreadNames DEF Orderly, Awaited, At
  <2>4. Watched'
    BY <1>2, <1>3, <1>4, <1>5, <1>f, <2>0, <2>a, ThreadNames DEF Orderly, Watched
  <2>5. Fresh'
    BY <1>2, <1>3, <1>4, <1>5, <1>f, <2>0, <2>a, ThreadNames DEF Orderly, Fresh, In, At, Current, Exchange
  <2>6. Agreeing'
    BY <1>2, <1>3, <1>4, <1>5, <1>f, <2>0, <2>a, ThreadNames DEF Orderly, Agreeing, At, Current
  <2> QED
    BY <2>1, <2>2, <2>3, <2>4, <2>5, <2>6 DEF Orderly
<1> QED
  BY <1>12, <1>13, <1>14, <1>15, <1>16, <1>17 DEF SessionInv

LEMMA ReadBeginKeeps ==
    ASSUME SessionInv, NEW w \in Workers, ReadBegin(w)
    PROVE  SessionInv'
<1>0. Typed /\ Placed
  BY DEF SessionInv
<1>1. /\ ops[w].pc = "begin" /\ raced' = (raced \/ Busy(w)) /\ w \in Threads /\ w # UI
      /\ \/ linked /\ current # None /\ Goto(w, "release") /\ syncs' = syncs /\ results' = results
         \/ Over(w)
  BY ThreadNames DEF ReadBegin, At, CanStart
<1>2. /\ doc' = doc /\ dev' = dev /\ flash' = flash /\ port' = port /\ current' = current
      /\ linked' = linked /\ made' = made /\ dialogs' = dialogs /\ progress' = progress /\ alarms' = alarms
      /\ last' = last
  BY DEF ReadBegin, node, link, screen
<1>4. ~ops[w].ok
  BY <1>1 DEF SessionInv, Unread
<1>3. PICK r \in Op(Documents) :
         /\ Puts(w, r) /\ syncs' = syncs /\ ~r.ok
         /\ \/ r.pc = "release" /\ r.kind = ops[w].kind /\ linked /\ current # None /\ results' = results
            \/ ops[w].kind = "compare" /\ r.pc = "done" /\ r.kind \notin {"read", "compare"} /\ results' = results
            \/ ops[w].kind # "compare" /\ r.pc = "idle" /\ r.kind = "none" /\ results' = results /\ ops[w].kind # "read"
            \/ /\ ops[w].kind = "read" /\ r.pc = "idle" /\ r.kind = "none"
               /\ results' = Append(results, [ok |-> FALSE, doc |-> ops[w].doc])
  <2>1. CASE linked /\ current # None /\ Goto(w, "release") /\ syncs' = syncs /\ results' = results
    BY <1>0, <1>1, <1>4, <2>1, GoesTo DEF Pcs
  <2>2. CASE Over(w)
    <3>1. PICK r \in Op(Documents) : Puts(w, r) /\ Ends(w, r)
      BY <1>0, <1>1, <2>2, OverIs
    <3>2. Signals(w)
      BY <1>0, <1>1, <2>2, OverIs
    <3>3. ops[w].ok = FALSE
      <4>1. ops[w] \in Op(Documents)
        BY <1>0, <1>1 DEF Typed
      <4> QED
        BY <1>4, <4>1 DEF Op
    <3>4. /\ syncs' = syncs /\ r.kind # "compare" /\ r.kind # "read"
          /\ IF ops[w].kind = "compare" THEN r.pc = "done" /\ ~r.ok ELSE r = Resting
      BY <1>1, <1>4, <3>1 DEF Ends
    <3>5. IF ops[w].kind = "read" THEN results' = Append(results, [ok |-> FALSE, doc |-> ops[w].doc])
                                  ELSE results' = results
      BY <1>1, <3>2, <3>3 DEF Signals
    <3> QED
      BY <3>1, <3>4, <3>5, RestingFields
  <2> QED
    BY <1>1, <2>1, <2>2
<1>5. /\ results' \in Seq([ok : BOOLEAN, doc : Documents])
      /\ Len(results') >= Len(results) /\ (results # <<>> => results' # <<>>)
      /\ ops[w].kind = "read" /\ r.pc = "idle" => results' # <<>>
      /\ \A i \in 1 .. Len(results') : results'[i].ok => i \in 1 .. Len(results) /\ results'[i] = results[i]
  <2> DEFINE S == [ok : BOOLEAN, doc : Documents]
             e == [ok |-> FALSE, doc |-> ops[w].doc]
  <2>1. results \in Seq(S)
    BY <1>0 DEF Typed
  <2>2. e \in S /\ ~e.ok
    <3>1. ops[w] \in Op(Documents)
      BY <1>0, <1>1 DEF Typed
    <3> QED
      BY <3>1 DEF Op
  <2>3. \/ results' = results /\ ~(ops[w].kind = "read" /\ r.pc = "idle")
        \/ results' = Append(results, e)
    BY <1>3
  <2> HIDE DEF S, e
  <2>4. /\ results' \in Seq(S) /\ Len(results') >= Len(results) /\ (results # <<>> => results' # <<>>)
        /\ ops[w].kind = "read" /\ r.pc = "idle" => results' # <<>>
        /\ \A i \in 1 .. Len(results') : results'[i].ok => i \in 1 .. Len(results) /\ results'[i] = results[i]
    BY <2>1, <2>2, <2>3
  <2> QED
    BY <2>4 DEF S
<1>6. ops[w].pc = "begin" /\ (raced => raced') /\ raced' \in BOOLEAN /\ w \in Threads /\ w # UI
  BY <1>0, <1>1 DEF Typed
<1>7. ASSUME ~raced'
      PROVE  \A u \in Threads : ~In(u)
  BY <1>1, <1>7 DEF Busy, In, Exchange
<1>f. /\ ops' \in [Threads -> Op(Documents)] /\ ops'[w] = r /\ \A u \in Threads \ {w} : ops'[u] = ops[u]
  BY <1>3 DEF Puts
<1>12. Typed'
  BY <1>2, <1>3, <1>4, <1>5, <1>6, <1>f, ThreadNames DEF SessionInv, Typed, Objects
<1>13. Placed'
  BY <1>2, <1>3, <1>4, <1>5, <1>6, <1>f, ThreadNames DEF SessionInv, Placed, At, Uploading, Reading
<1>14. Due'
  BY <1>2, <1>3, <1>4, <1>5, <1>6, <1>f, ThreadNames DEF SessionInv, Due, At, Uploading
<1>15. Unread'
  BY <1>2, <1>3, <1>4, <1>5, <1>6, <1>f, ThreadNames DEF SessionInv, Unread
<1>16. Snapped'
  BY <1>2, <1>3, <1>4, <1>5, <1>6, <1>f, ThreadNames DEF SessionInv, Snapped
<1>17. ASSUME ~raced' PROVE Orderly'
  <2>0. ~raced /\ Orderly
    BY <1>2, <1>6, <1>17 DEF SessionInv
  <2>a. \A u \in Threads : ~In(u)
    BY <1>7, <1>17
  <2>1. Alone'
    BY <1>2, <1>3, <1>4, <1>5, <1>6, <1>f, <2>0, <2>a, ThreadNames DEF Orderly, Alone, In, Exchange
  <2>2. Held'
    BY <1>2, <1>3, <1>4, <1>5, <1>6, <1>f, <2>0, <2>a, ThreadNames DEF Orderly, Held, In, At, Exchange
  <2>3. Awaited'
    BY <1>2, <1>3, <1>4, <1>5, <1>6, <1>f, <2>0, <2>a, ThreadNames DEF Orderly, Awaited, At
  <2>4. Watched'
    BY <1>2, <1>3, <1>4, <1>5, <1>6, <1>f, <2>0, <2>a, ThreadNames DEF Orderly, Watched
  <2>5. Fresh'
    BY <1>2, <1>3, <1>4, <1>5, <1>6, <1>f, <2>0, <2>a, ThreadNames DEF Orderly, Fresh, In, At, Current, Exchange
  <2>6. Agreeing'
    BY <1>2, <1>3, <1>4, <1>5, <1>6, <1>f, <2>0, <2>a, ThreadNames DEF Orderly, Agreeing, At, Current
  <2> QED
    BY <2>1, <2>2, <2>3, <2>4, <2>5, <2>6 DEF Orderly
<1> QED
  BY <1>12, <1>13, <1>14, <1>15, <1>16, <1>17 DEF SessionInv

\* While the user interface uploads nothing that was read is left.
LEMMA UploadsAlone ==
    ASSUME Typed, Placed, Unread, Orderly, In(UI)
    PROVE  /\ \A w \in Workers : ~In(w) /\ ~ops[w].ok /\ ops[w].pc \in {"idle", "begin"}
           /\ results = <<>>
<1>1. \A w \in Workers : ~In(w)
  BY ThreadNames DEF Orderly, Alone
<1>2. ~At(UI, "join")
  BY DEF In, At, Exchange
<1>3. \A w \in Workers : ops[w].pc # "done"
  BY <1>2 DEF Orderly, Awaited
<1>4. \A w \in Workers : ops[w].pc \in {"idle", "begin"}
  BY <1>1, <1>3 DEF Placed, In, Exchange, Reading
<1> QED
  BY <1>1, <1>4 DEF Unread, Orderly, Fresh

LEMMA ReleaseKeeps ==
    ASSUME SessionInv, NEW t \in Threads, Release(t)
    PROVE  SessionInv'
<1>0. Typed /\ Placed
  BY DEF SessionInv
<1>1. /\ ops[t].pc = "release"
      /\ \/ current = None /\ Abort(t) /\ port' = port
         \/ /\ current # None /\ port' = (IF port = current THEN None ELSE port) /\ Goto(t, "open")
            /\ syncs' = syncs /\ results' = results
  BY DEF Release, At
<1>2. /\ doc' = doc /\ dev' = dev /\ flash' = flash /\ current' = current /\ linked' = linked
      /\ made' = made /\ dialogs' = dialogs /\ progress' = progress /\ alarms' = alarms /\ last' = last
      /\ raced' = raced
  BY DEF Release, node, screen
<1>3. PICK r \in Op(Documents) :
         /\ Puts(t, r) /\ results' = results
         /\ \/ /\ current = None /\ port' = port /\ Ends(t, r)
            \/ /\ current # None /\ port' = (IF port = current THEN None ELSE port) /\ syncs' = syncs
               /\ r.pc = "open" /\ r.kind = ops[t].kind /\ r.doc = ops[t].doc /\ r.ok = ops[t].ok
  <2>1. CASE current = None /\ Abort(t) /\ port' = port
    BY <1>0, <2>1, AbortIs
  <2>2. CASE /\ current # None /\ port' = (IF port = current THEN None ELSE port) /\ Goto(t, "open")
             /\ syncs' = syncs /\ results' = results
    BY <1>0, <2>2, GoesTo DEF Pcs
  <2> QED
    BY <1>1, <2>1, <2>2
<1>f. /\ ops' \in [Threads -> Op(Documents)] /\ ops'[t] = r /\ \A u \in Threads \ {t} : ops'[u] = ops[u]
  BY <1>3 DEF Puts
<1>4. /\ ops[t].pc = "release" /\ (t = UI => syncs \in 1 .. 2)
      /\ (t # UI => syncs' = syncs /\ (r.pc \in {"idle", "begin"} => ops[t].pc = "release" /\ (current = None => ~r.ok)))
  BY <1>1, <1>3, RestingFields DEF SessionInv, Due, Uploading, Ends
<1>5. current = None =>
         /\ t = UI => syncs' = syncs - 1 /\ (r.pc = "idle" \/ (r.pc = "begin" /\ syncs > 1))
         /\ t # UI => r.pc \in {"idle", "done"} /\ r.kind # "compare" /\ r.kind # "read"
  BY <1>3, RestingFields DEF Ends
<1>12. Typed'
  BY <1>2, <1>3, <1>4, <1>5, <1>f, ThreadNames DEF SessionInv, Typed, Objects
<1>13. Placed'
  BY <1>2, <1>3, <1>4, <1>5, <1>f, ThreadNames DEF SessionInv, Placed, At, Uploading, Reading
<1>14. Due'
  BY <1>2, <1>3, <1>4, <1>5, <1>f, ThreadNames DEF SessionInv, Due, At, Uploading
<1>15. Unread'
  BY <1>2, <1>3, <1>4, <1>5, <1>f, ThreadNames DEF SessionInv, Unread
<1>16. Snapped'
  BY <1>2, <1>3, <1>4, <1>5, <1>f, ThreadNames DEF SessionInv, Snapped
<1>17. ASSUME ~raced' PROVE Orderly'
  <2>0. ~raced /\ Orderly
    BY <1>2, <1>17 DEF SessionInv
  <2>a. In(t) /\ current # None /\ port = current /\ port' = None /\ r.pc \in Exchange
    BY <1>3, <1>4, <2>0 DEF Orderly, Held, In, Exchange
  <2>c. /\ r.pc = "open" /\ r.kind = ops[t].kind /\ r.doc = ops[t].doc /\ r.ok = ops[t].ok /\ syncs' = syncs
    BY <1>3, <2>a
  <2>d. \A u \in Threads : In(u)' <=> In(u)
    BY <1>f, <2>a, <2>c DEF In
  <2>1. Alone'
    BY <2>d, <2>0 DEF Orderly, Alone
  <2>2. Held'
    BY <1>0, <1>2, <1>3, <1>f, <2>0, <2>a, <2>c, HeldInside DEF Orderly
  <2>3. Awaited'
    BY <1>2, <1>4, <1>f, <2>0, <2>a, <2>c, ThreadNames DEF Orderly, Awaited, At
  <2>4. Watched'
    BY <1>2, <1>3, <1>4, <1>f, <2>0, <2>a, <2>c, ThreadNames DEF Orderly, Watched
  <2>5. Fresh'
    BY <1>2, <1>3, <1>4, <1>f, <2>0, <2>a, <2>c, <2>d, ThreadNames DEF Orderly, Fresh, At, Current
  <2>6. Agreeing'
    BY <1>2, <1>4, <1>f, <2>0, <2>c, ThreadNames DEF Orderly, Agreeing, At, Current
  <2> QED
    BY <2>1, <2>2, <2>3, <2>4, <2>5, <2>6 DEF Orderly
<1> QED
  BY <1>12, <1>13, <1>14, <1>15, <1>16, <1>17 DEF SessionInv

LEMMA ClearConfigKeeps ==
    ASSUME SessionInv, ClearConfig
    PROVE  SessionInv'
<1>0. Typed /\ Placed
  BY DEF SessionInv
<1>1. /\ ops[UI].pc = "clear" /\ Goto(UI, "load")
      /\ \/ dev' = Blank /\ flash' = Blank
         \/ dev' = dev /\ flash' = flash
  BY DEF ClearConfig, At, node
<1>2. /\ doc' = doc /\ port' = port /\ current' = current /\ linked' = linked /\ made' = made
      /\ syncs' = syncs /\ results' = results /\ dialogs' = dialogs /\ progress' = progress /\ alarms' = alarms
      /\ last' = last /\ raced' = raced
  BY DEF ClearConfig, link, screen
<1>3. PICK r \in Op(Documents) :
         /\ Puts(UI, r) /\ r.pc = "load" /\ r.kind = ops[UI].kind /\ r.doc = ops[UI].doc
         /\ r.ok = ops[UI].ok /\ r.obj = ops[UI].obj
  BY <1>0, <1>1, GoesTo, ThreadNames DEF Pcs
<1>f. /\ ops' \in [Threads -> Op(Documents)] /\ ops'[UI] = r /\ \A u \in Threads \ {UI} : ops'[u] = ops[u]
  BY <1>3 DEF Puts
<1>4. dev' \in Images /\ flash' \in Images
  BY <1>0, <1>1, DocumentsAssumption DEF Typed
<1>5. In(UI) /\ In(UI)' /\ \A u \in Threads : In(u)' <=> In(u)
  BY <1>1, <1>3, <1>f DEF In, Exchange
<1>12. Typed'
  BY <1>1, <1>2, <1>3, <1>4, <1>f, ThreadNames DEF SessionInv, Typed, Objects
<1>13. Placed'
  BY <1>1, <1>2, <1>3, <1>4, <1>f, ThreadNames DEF SessionInv, Placed, At, Uploading, Reading
<1>14. Due'
  BY <1>1, <1>2, <1>3, <1>4, <1>f, ThreadNames DEF SessionInv, Due, At, Uploading
<1>15. Unread'
  BY <1>1, <1>2, <1>3, <1>4, <1>f, ThreadNames DEF SessionInv, Unread
<1>16. Snapped'
  BY <1>1, <1>2, <1>3, <1>4, <1>f, ThreadNames DEF SessionInv, Snapped
<1>17. ASSUME ~raced' PROVE Orderly'
  <2>0. ~raced /\ Orderly
    BY <1>1, <1>2, <1>17 DEF SessionInv
  <2>a. /\ \A w \in Workers : ~In(w) /\ ~ops[w].ok /\ ops[w].pc \in {"idle", "begin"}
        /\ results = <<>>
    BY <1>0, <1>5, <2>0, UploadsAlone DEF SessionInv
  <2>b. (\A w \in Workers : ~ops'[w].ok) /\ results' = <<>>
    BY <1>2, <1>f, <2>a, ThreadNames
  <2>1. Alone'
    BY <1>5, <2>0 DEF Orderly, Alone
  <2>2. Held'
    BY <1>1, <1>2, <1>3, <1>4, <1>f, <2>0, ThreadNames DEF Orderly, Held, In, At, Exchange
  <2>3. Awaited'
    BY <1>1, <1>2, <1>3, <1>4, <1>f, <2>0, ThreadNames DEF Orderly, Awaited, At
  <2>4. Watched'
    BY <1>1, <1>2, <1>3, <1>4, <1>f, <2>0, ThreadNames DEF Orderly, Watched
  <2>5. Fresh'
    BY <1>3, <1>f, <2>b DEF Fresh, At
  <2>6. Agreeing'
    BY <1>3, <1>f DEF Agreeing, At
  <2> QED
    BY <2>1, <2>2, <2>3, <2>4, <2>5, <2>6 DEF Orderly
<1> QED
  BY <1>12, <1>13, <1>14, <1>15, <1>16, <1>17 DEF SessionInv

LEMMA LoadConfigKeeps ==
    ASSUME SessionInv, LoadConfig
    PROVE  SessionInv'
<1>0. Typed /\ Placed
  BY DEF SessionInv
<1>1. /\ ops[UI].pc = "load"
      /\ \/ dev' = dev /\ last' = "none" /\ Goto(UI, "close")
         \/ \E acked \in BOOLEAN :
               /\ dev' = ImageOf[ops[UI].doc] /\ last' = IF acked THEN "uploaded" ELSE "none"
               /\ ops' = [ops EXCEPT ![UI].pc = "close", ![UI].ok = acked]
  BY DEF LoadConfig, At
<1>2. /\ doc' = doc /\ flash' = flash /\ port' = port /\ current' = current /\ linked' = linked
      /\ made' = made /\ syncs' = syncs /\ results' = results /\ dialogs' = dialogs /\ progress' = progress
      /\ alarms' = alarms /\ raced' = raced
  BY DEF LoadConfig, link, screen
<1>3. PICK r \in Op(Documents) :
         /\ Puts(UI, r) /\ r.pc = "close" /\ last' \in {"none", "uploaded"}
         /\ \/ dev' = dev /\ last' = "none"
            \/ dev' = ImageOf[ops[UI].doc]
  <2>1. CASE dev' = dev /\ last' = "none" /\ Goto(UI, "close")
    BY <1>0, <2>1, GoesTo, ThreadNames DEF Pcs
  <2>2. ASSUME NEW acked \in BOOLEAN,
               dev' = ImageOf[ops[UI].doc] /\ last' = (IF acked THEN "uploaded" ELSE "none"),
               ops' = [ops EXCEPT ![UI].pc = "close", ![UI].ok = acked]
        PROVE  \E r \in Op(Documents) : /\ Puts(UI, r) /\ r.pc = "close"
    <3> DEFINE b == [ops[UI] EXCEPT !.pc = "close", !.ok = acked]
    <3>1. ops[UI] \in Op(Documents) /\ ops \in [Threads -> Op(Documents)]
      BY <1>0, ThreadNames DEF Typed
    <3>2. b \in Op(Documents) /\ b.pc = "close"
      BY <3>1 DEF Op, Pcs
    <3>3. ops' = [ops EXCEPT ![UI] = b]
      BY <2>2, <3>1, ThreadNames DEF Op
    <3> HIDE DEF b
    <3>4. Puts(UI, b)
      BY <1>0, <3>2, <3>3, PutsIt, ThreadNames
    <3> QED
      BY <3>2, <3>4
  <2>3. CASE \E acked \in BOOLEAN :
               /\ dev' = ImageOf[ops[UI].doc] /\ last' = IF acked THEN "uploaded" ELSE "none"
               /\ ops' = [ops EXCEPT ![UI].pc = "close", ![UI].ok = acked]
    <3>1. PICK acked \in BOOLEAN :
               /\ dev' = ImageOf[ops[UI].doc] /\ last' = IF acked THEN "uploaded" ELSE "none"
               /\ ops' = [ops EXCEPT ![UI].pc = "close", ![UI].ok = acked]
      BY <2>3
    <3>2. \E r \in Op(Documents) : /\ Puts(UI, r) /\ r.pc = "close"
      BY <2>2, <3>1
    <3> QED
      BY <3>1, <3>2
  <2> QED
    BY <1>1, <2>1, <2>3
<1>f. /\ ops' \in [Threads -> Op(Documents)] /\ ops'[UI] = r /\ \A u \in Threads \ {UI} : ops'[u] = ops[u]
  BY <1>3 DEF Puts
<1>4. dev' \in Images
  <2>1. ops[UI] \in Op(Documents)
    BY <1>0, ThreadNames DEF Typed
  <2>2. ops[UI].doc \in Documents
    BY <2>1 DEF Op
  <2> QED
    BY <1>0, <1>3, <2>2, SeenDocuments DEF Typed
<1>5. In(UI) /\ In(UI)' /\ \A u \in Threads : In(u)' <=> In(u)
  BY <1>1, <1>3, <1>f DEF In, Exchange
<1>6. ops[UI].pc = "load" /\ (ops[UI].doc = doc \/ raced)
  BY <1>1 DEF SessionInv, Snapped
<1>12. Typed'
  BY <1>2, <1>3, <1>4, <1>6, <1>f, ThreadNames DEF SessionInv, Typed, Objects
<1>13. Placed'
  BY <1>2, <1>3, <1>4, <1>6, <1>f, ThreadNames DEF SessionInv, Placed, At, Uploading, Reading
<1>14. Due'
  BY <1>2, <1>3, <1>4, <1>6, <1>f, ThreadNames DEF SessionInv, Due, At, Uploading
<1>15. Unread'
  BY <1>2, <1>3, <1>4, <1>6, <1>f, ThreadNames DEF SessionInv, Unread
<1>16. Snapped'
  BY <1>2, <1>3, <1>4, <1>6, <1>f, ThreadNames DEF SessionInv, Snapped
<1>17. ASSUME ~raced' PROVE Orderly'
  <2>0. ~raced /\ Orderly
    BY <1>2, <1>17 DEF SessionInv
  <2>a. /\ \A w \in Workers : ~In(w) /\ ~ops[w].ok /\ ops[w].pc \in {"idle", "begin"}
        /\ results = <<>>
    BY <1>0, <1>5, <2>0, UploadsAlone DEF SessionInv
  <2>b. (\A w \in Workers : ~ops'[w].ok) /\ results' = <<>>
    BY <1>2, <1>f, <2>a, ThreadNames
  <2>1. Alone'
    BY <1>5, <2>0 DEF Orderly, Alone
  <2>2. Held'
    BY <1>2, <1>3, <1>4, <1>6, <1>f, <2>0, ThreadNames DEF Orderly, Held, In, At, Exchange
  <2>3. Awaited'
    BY <1>2, <1>3, <1>4, <1>6, <1>f, <2>0, ThreadNames DEF Orderly, Awaited, At
  <2>4. Watched'
    BY <1>2, <1>3, <1>4, <1>6, <1>f, <2>0, ThreadNames DEF Orderly, Watched
  <2>5. Fresh'
    BY <1>3, <1>f, <2>b DEF Fresh, At
  <2>6. Agreeing'
    BY <1>2, <1>3, <1>6, <2>0 DEF Agreeing
  <2> QED
    BY <2>1, <2>2, <2>3, <2>4, <2>5, <2>6 DEF Orderly
<1> QED
  BY <1>12, <1>13, <1>14, <1>15, <1>16, <1>17 DEF SessionInv

LEMMA GetConfigKeeps ==
    ASSUME SessionInv, NEW w \in Workers, GetConfig(w)
    PROVE  SessionInv'
<1>0. Typed /\ Placed
  BY DEF SessionInv
<1>1. /\ ops[w].pc = "get" /\ w \in Threads /\ w # UI
      /\ \/ Whole(dev) /\ ops' = [ops EXCEPT ![w].pc = "close", ![w].ok = TRUE, ![w].doc = LoadedFrom[dev]]
         \/ Goto(w, "close")
  BY ThreadNames DEF GetConfig, At
<1>2. /\ doc' = doc /\ dev' = dev /\ flash' = flash /\ port' = port /\ current' = current
      /\ linked' = linked /\ made' = made /\ syncs' = syncs /\ results' = results /\ dialogs' = dialogs
      /\ progress' = progress /\ alarms' = alarms /\ last' = last /\ raced' = raced
  BY DEF GetConfig, node, link, screen
<1>3. PICK r \in Op(Documents) :
         /\ Puts(w, r) /\ r.pc = "close" /\ r.kind = ops[w].kind
         /\ \/ Whole(dev) /\ r.ok /\ r.doc = LoadedFrom[dev]
            \/ r.ok = ops[w].ok /\ r.doc = ops[w].doc
  <2>1. CASE Goto(w, "close")
    BY <1>0, <1>1, <2>1, GoesTo DEF Pcs
  <2>2. CASE Whole(dev) /\ ops' = [ops EXCEPT ![w].pc = "close", ![w].ok = TRUE, ![w].doc = LoadedFrom[dev]]
    <3> DEFINE b == [ops[w] EXCEPT !.pc = "close", !.ok = TRUE, !.doc = LoadedFrom[dev]]
    <3>1. ops[w] \in Op(Documents) /\ ops \in [Threads -> Op(Documents)] /\ LoadedFrom[dev] \in Documents
      BY <1>0, <1>1, <2>2, SeenDocuments DEF Typed
    <3>2. b \in Op(Documents) /\ b.pc = "close" /\ b.kind = ops[w].kind /\ b.ok = TRUE /\ b.doc = LoadedFrom[dev]
      BY <3>1 DEF Op, Pcs
    <3>3. ops' = [ops EXCEPT ![w] = b]
      BY <1>1, <2>2, <3>1 DEF Op
    <3> HIDE DEF b
    <3>4. Puts(w, b)
      BY <1>0, <1>1, <3>2, <3>3, PutsIt
    <3> QED
      BY <2>2, <3>2, <3>4
  <2> QED
    BY <1>1, <2>1, <2>2
<1>f. /\ ops' \in [Threads -> Op(Documents)] /\ ops'[w] = r /\ \A u \in Threads \ {w} : ops'[u] = ops[u]
  BY <1>3 DEF Puts
<1>4. ops[w].pc = "get" /\ w \in Threads /\ w # UI
  BY <1>1
<1>5. In(w) /\ In(w)' /\ \A u \in Threads : In(u)' <=> In(u)
  BY <1>3, <1>4, <1>f DEF In, Exchange
<1>12. Typed'
  BY <1>2, <1>3, <1>4, <1>f, ThreadNames DEF SessionInv, Typed, Objects
<1>13. Placed'
  BY <1>2, <1>3, <1>4, <1>f, ThreadNames DEF SessionInv, Placed, At, Uploading, Reading
<1>14. Due'
  BY <1>2, <1>3, <1>4, <1>f, ThreadNames DEF SessionInv, Due, At, Uploading
<1>15. Unread'
  BY <1>2, <1>3, <1>4, <1>f, ThreadNames DEF SessionInv, Unread
<1>16. Snapped'
  BY <1>2, <1>3, <1>4, <1>f, ThreadNames DEF SessionInv, Snapped
<1>17. ASSUME ~raced' PROVE Orderly'
  <2>0. ~raced /\ Orderly
    BY <1>2, <1>17 DEF SessionInv
  <2>1. Alone'
    BY <1>5, <2>0 DEF Orderly, Alone
  <2>2. Held'
    BY <1>2, <1>3, <1>4, <1>5, <1>f, <2>0, ThreadNames DEF Orderly, Alone, Held, In, At, Exchange
  <2>3. Awaited'
    BY <1>2, <1>3, <1>4, <1>f, <2>0, ThreadNames DEF Orderly, Awaited, At
  <2>4. Watched'
    BY <1>2, <1>3, <1>4, <1>f, <2>0, ThreadNames DEF Orderly, Watched
  <2>5. Fresh'
    BY <1>2, <1>3, <1>4, <1>f, <2>0, ThreadNames DEF Orderly, Fresh, In, At, Current, Exchange
  <2>6. Agreeing'
    BY <1>2, <1>3, <1>4, <1>f, <2>0, ThreadNames DEF Orderly, Agreeing, At, Current
  <2> QED
    BY <2>1, <2>2, <2>3, <2>4, <2>5, <2>6 DEF Orderly
<1> QED
  BY <1>12, <1>13, <1>14, <1>15, <1>16, <1>17 DEF SessionInv

LEMMA CloseKeeps ==
    ASSUME SessionInv, NEW t \in Threads, Close(t)
    PROVE  SessionInv'
<1>0. Typed /\ Placed
  BY DEF SessionInv
<1>1. ops[t].pc = "close" /\ port' = (IF port = t THEN None ELSE port) /\ Goto(t, "reach")
  BY DEF Close, At, Closed
<1>2. /\ doc' = doc /\ dev' = dev /\ flash' = flash /\ current' = current /\ linked' = linked
      /\ made' = made /\ syncs' = syncs /\ results' = results /\ dialogs' = dialogs /\ progress' = progress
      /\ alarms' = alarms /\ last' = last /\ raced' = raced
  BY DEF Close, node, screen
<1>3. PICK r \in Op(Documents) :
         /\ Puts(t, r) /\ r.pc = "reach" /\ r.kind = ops[t].kind /\ r.doc = ops[t].doc
         /\ r.ok = ops[t].ok /\ r.obj = ops[t].obj
  BY <1>0, <1>1, GoesTo, ThreadNames DEF Pcs
<1>f. /\ ops' \in [Threads -> Op(Documents)] /\ ops'[t] = r /\ \A u \in Threads \ {t} : ops'[u] = ops[u]
  BY <1>3 DEF Puts
<1>5. In(t) /\ r.pc \in Exchange /\ \A u \in Threads : In(u)' <=> In(u)
  BY <1>1, <1>3, <1>f DEF In, Exchange
<1>12. Typed'
  BY <1>1, <1>2, <1>3, <1>f, ThreadNames DEF SessionInv, Typed, Objects
<1>13. Placed'
  BY <1>1, <1>2, <1>3, <1>f, ThreadNames DEF SessionInv, Placed, At, Uploading, Reading
<1>14. Due'
  BY <1>1, <1>2, <1>3, <1>f, ThreadNames DEF SessionInv, Due, At, Uploading
<1>15. Unread'
  BY <1>1, <1>2, <1>3, <1>f, ThreadNames DEF SessionInv, Unread
<1>16. Snapped'
  BY <1>1, <1>2, <1>3, <1>f, ThreadNames DEF SessionInv, Snapped
<1>17. ASSUME ~raced' PROVE Orderly'
  <2>0. ~raced /\ Orderly
    BY <1>1, <1>2, <1>17 DEF SessionInv
  <2>1. Alone'
    BY <1>5, <2>0 DEF Orderly, Alone
  <2>2. Held'
    <3>1. port = t
      BY <1>1, <1>5, <2>0 DEF Orderly, Held
    <3>2. port' = None
      BY <1>1, <3>1
    <3> QED
      BY <1>0, <1>2, <1>3, <1>5, <1>f, <2>0, <3>2, HeldInside DEF Orderly
  <2>3. Awaited'
    BY <1>1, <1>2, <1>3, <1>f, <2>0, ThreadNames DEF Orderly, Awaited, At
  <2>4. Watched'
    BY <1>1, <1>2, <1>3, <1>f, <2>0, ThreadNames DEF Orderly, Watched
  <2>5. Fresh'
    BY <1>1, <1>2, <1>3, <1>f, <2>0, ThreadNames DEF Orderly, Fresh, In, At, Current, Exchange
  <2>6. Agreeing'
    BY <1>1, <1>2, <1>3, <1>f, <2>0, ThreadNames DEF Orderly, Agreeing, At, Current
  <2> QED
    BY <2>1, <2>2, <2>3, <2>4, <2>5, <2>6 DEF Orderly
<1> QED
  BY <1>12, <1>13, <1>14, <1>15, <1>16, <1>17 DEF SessionInv

LEMMA ReachKeeps ==
    ASSUME SessionInv, NEW t \in Threads, Reach(t)
    PROVE  SessionInv'
<1>0. Typed /\ Placed
  BY DEF SessionInv
<1>1. /\ ops[t].pc = "reach"
      /\ \/ current = None /\ Abort(t)
         \/ /\ current # None /\ ops' = [ops EXCEPT ![t].pc = "reopen", ![t].obj = current]
            /\ syncs' = syncs /\ results' = results
  BY DEF Reach, At
<1>2. /\ doc' = doc /\ dev' = dev /\ flash' = flash /\ port' = port /\ current' = current
      /\ linked' = linked /\ made' = made /\ dialogs' = dialogs /\ progress' = progress /\ alarms' = alarms
      /\ last' = last /\ raced' = raced
  BY DEF Reach, node, link, screen
<1>3. PICK r \in Op(Documents) :
         /\ Puts(t, r) /\ results' = results
         /\ \/ /\ current = None /\ Ends(t, r)
            \/ /\ current # None /\ syncs' = syncs /\ r.obj = current
               /\ r.pc = "reopen" /\ r.kind = ops[t].kind /\ r.doc = ops[t].doc /\ r.ok = ops[t].ok
  <2>1. CASE current = None /\ Abort(t)
    BY <1>0, <2>1, AbortIs
  <2>2. CASE /\ current # None /\ ops' = [ops EXCEPT ![t].pc = "reopen", ![t].obj = current]
             /\ syncs' = syncs /\ results' = results
    <3> DEFINE b == [ops[t] EXCEPT !.pc = "reopen", !.obj = current]
    <3>1. ops[t] \in Op(Documents) /\ ops \in [Threads -> Op(Documents)] /\ current \in Objects
      BY <1>0 DEF Typed, Objects
    <3>2. b \in Op(Documents) /\ b.pc = "reopen" /\ b.obj = current /\ b.kind = ops[t].kind /\ b.doc = ops[t].doc /\ b.ok = ops[t].ok
      BY <3>1 DEF Op, Pcs
    <3>3. ops' = [ops EXCEPT ![t] = b]
      BY <2>2, <3>1 DEF Op
    <3> HIDE DEF b
    <3>4. Puts(t, b)
      BY <1>0, <3>2, <3>3, PutsIt
    <3> QED
      BY <2>2, <3>2, <3>4
  <2> QED
    BY <1>1, <2>1, <2>2
<1>f. /\ ops' \in [Threads -> Op(Documents)] /\ ops'[t] = r /\ \A u \in Threads \ {t} : ops'[u] = ops[u]
  BY <1>3 DEF Puts
<1>4. /\ ops[t].pc = "reach" /\ (t = UI => syncs \in 1 .. 2) /\ (t # UI => syncs' = syncs)
  BY <1>1, <1>3 DEF SessionInv, Due, Uploading, Ends
<1>5. current = None =>
         /\ t = UI => syncs' = syncs - 1 /\ (r.pc = "idle" \/ (r.pc = "begin" /\ syncs > 1))
         /\ t # UI => /\ r.pc \in {"idle", "done"} /\ r.kind # "compare" /\ r.kind # "read"
                      /\ r.pc = "idle" => ~r.ok
  BY <1>3, RestingFields DEF Ends
<1>12. Typed'
  BY <1>2, <1>3, <1>4, <1>5, <1>f, ThreadNames DEF SessionInv, Typed, Objects
<1>13. Placed'
  BY <1>2, <1>3, <1>4, <1>5, <1>f, ThreadNames DEF SessionInv, Placed, At, Uploading, Reading
<1>14. Due'
  BY <1>2, <1>3, <1>4, <1>5, <1>f, ThreadNames DEF SessionInv, Due, At, Uploading
<1>15. Unread'
  BY <1>2, <1>3, <1>4, <1>5, <1>f, ThreadNames DEF SessionInv, Unread
<1>16. Snapped'
  BY <1>2, <1>3, <1>4, <1>5, <1>f, ThreadNames DEF SessionInv, Snapped
<1>17. ASSUME ~raced' PROVE Orderly'
  <2>0. ~raced /\ Orderly
    BY <1>2, <1>17 DEF SessionInv
  <2>a. In(t) /\ current # None /\ port = None /\ r.pc \in Exchange
    BY <1>3, <1>4, <2>0 DEF Orderly, Held, In, Exchange
  <2>c. /\ r.pc = "reopen" /\ r.obj = current /\ r.kind = ops[t].kind /\ r.doc = ops[t].doc
        /\ r.ok = ops[t].ok /\ syncs' = syncs
    BY <1>3, <2>a
  <2>d. \A u \in Threads : In(u)' <=> In(u)
    BY <1>f, <2>a, <2>c DEF In
  <2>1. Alone'
    BY <2>d, <2>0 DEF Orderly, Alone
  <2>2. Held'
    BY <1>0, <1>2, <1>3, <1>f, <2>0, <2>a, <2>c, HeldInside DEF Orderly
  <2>3. Awaited'
    BY <1>2, <1>4, <1>f, <2>0, <2>a, <2>c, ThreadNames DEF Orderly, Awaited, At
  <2>4. Watched'
    BY <1>2, <1>3, <1>4, <1>f, <2>0, <2>a, <2>c, ThreadNames DEF Orderly, Watched
  <2>5. Fresh'
    BY <1>2, <1>3, <1>4, <1>f, <2>0, <2>a, <2>c, <2>d, ThreadNames DEF Orderly, Fresh, At, Current
  <2>6. Agreeing'
    BY <1>2, <1>4, <1>f, <2>0, <2>c, ThreadNames DEF Orderly, Agreeing, At, Current
  <2> QED
    BY <2>1, <2>2, <2>3, <2>4, <2>5, <2>6 DEF Orderly
<1> QED
  BY <1>12, <1>13, <1>14, <1>15, <1>16, <1>17 DEF SessionInv

LEMMA ReopenKeeps ==
    ASSUME SessionInv, NEW t \in Threads, Reopen(t)
    PROVE  SessionInv'
<1>0. Typed /\ Placed
  BY DEF SessionInv
<1>1. /\ ops[t].pc = "reopen" /\ Over(t)
      /\ IF port = None THEN port' = ops[t].obj /\ linked' = linked
                        ELSE port' = (IF port = ops[t].obj THEN None ELSE port) /\ linked' = FALSE
  BY DEF Reopen, Reopened, At
<1>2. /\ doc' = doc /\ dev' = dev /\ flash' = flash /\ current' = current /\ made' = made
      /\ dialogs' = dialogs /\ progress' = progress /\ alarms' = alarms /\ last' = last /\ raced' = raced
  BY DEF Reopen, node, screen
<1>2a. ops[t] \in Op(Documents) /\ ops[t].obj \in Objects /\ ops[t].doc \in Documents /\ ops[t].ok \in BOOLEAN
  <2>1. ops[t] \in Op(Documents)
    BY <1>0 DEF Typed
  <2> QED
    BY <2>1 DEF Op
<1>3. PICK r \in Op(Documents) : Puts(t, r) /\ Ends(t, r)
  BY <1>0, <1>1, OverIs
<1>3a. Signals(t)
  BY <1>0, <1>1, OverIs
<1>f. /\ ops' \in [Threads -> Op(Documents)] /\ ops'[t] = r /\ \A u \in Threads \ {t} : ops'[u] = ops[u]
  BY <1>3 DEF Puts
<1>4. /\ ops[t].pc = "reopen" /\ (t = UI => syncs \in 1 .. 2) /\ (t # UI => syncs' = syncs)
      /\ t = UI => syncs' = syncs - 1 /\ (r.pc = "idle" \/ (r.pc = "begin" /\ syncs > 1)) /\ ~r.ok
      /\ t # UI => IF ops[t].kind = "compare"
                   THEN r.pc = "done" /\ r.kind # "compare" /\ r.kind # "read" /\ (r.ok => ops[t].ok /\ r.doc = ops[t].doc)
                   ELSE r.pc = "idle" /\ r.kind = "none" /\ ~r.ok
  BY <1>1, <1>3, RestingFields DEF SessionInv, Due, Uploading, Ends
<1>5. /\ results' \in Seq([ok : BOOLEAN, doc : Documents]) /\ (results # <<>> => results' # <<>>)
      /\ t # UI /\ ops[t].kind = "read" => results' # <<>>
      /\ t = UI => results' = results
      /\ \A i \in 1 .. Len(results') :
            \/ i \in 1 .. Len(results) /\ results'[i] = results[i]
            \/ results'[i].ok = ops[t].ok /\ results'[i].doc = ops[t].doc
  <2> DEFINE S == [ok : BOOLEAN, doc : Documents]
             e == [ok |-> ops[t].ok, doc |-> ops[t].doc]
  <2>1. results \in Seq(S)
    BY <1>0 DEF Typed
  <2>2. e \in S /\ e.ok = ops[t].ok /\ e.doc = ops[t].doc
    BY <1>2a
  <2>3. \/ results' = results /\ ~(t # UI /\ ops[t].kind = "read")
        \/ results' = Append(results, e) /\ t # UI
    BY <1>3, <1>3a DEF Signals, Ends
  <2> HIDE DEF S, e
  <2>4. /\ results' \in Seq(S) /\ (results # <<>> => results' # <<>>)
        /\ t # UI /\ ops[t].kind = "read" => results' # <<>>
        /\ \A i \in 1 .. Len(results') : (i \in 1 .. Len(results) /\ results'[i] = results[i]) \/ results'[i] = e
    BY <2>1, <2>2, <2>3
  <2> QED
    BY <2>2, <2>3, <2>4 DEF S
<1>6. /\ port' \in Objects /\ linked' \in BOOLEAN
  BY <1>0, <1>1, <1>2a DEF Typed, Objects
<1>12. Typed'
  BY <1>2, <1>4, <1>5, <1>6, <1>f, ThreadNames DEF SessionInv, Typed, Objects
<1>13. Placed'
  BY <1>2, <1>4, <1>5, <1>6, <1>f, ThreadNames DEF SessionInv, Placed, At, Uploading, Reading
<1>14. Due'
  BY <1>2, <1>4, <1>5, <1>6, <1>f, ThreadNames DEF SessionInv, Due, At, Uploading
<1>15. Unread'
  BY <1>2, <1>4, <1>5, <1>6, <1>f, ThreadNames DEF SessionInv, Unread
<1>16. Snapped'
  BY <1>2, <1>4, <1>5, <1>6, <1>f, ThreadNames DEF SessionInv, Snapped
<1>17. ASSUME ~raced' PROVE Orderly'
  <2>0. ~raced /\ Orderly
    BY <1>2, <1>4, <1>5, <1>6, <1>17 DEF SessionInv
  <2>a. In(t) /\ linked /\ current # None /\ port = None /\ ops[t].obj = current
    BY <1>4, <2>0 DEF Orderly, Held, In, Exchange
  <2>b. port' = current /\ linked' = linked
    BY <1>1, <2>a
  <2>c. r.pc \in {"idle", "begin", "done"}
    BY <1>3 DEF Ends
  <2>d. \A u \in Threads : ~In(u)'
    BY <1>f, <2>0, <2>a, <2>c DEF Orderly, Alone, In, Exchange
  <2>e. ~At(UI, "connect")
    BY <2>0, <2>a DEF Orderly, Held
  <2>1. Alone'
    BY <2>d DEF Alone
  <2>2. Held'
    BY <1>2, <1>f, <2>a, <2>b, <2>c, <2>d, <2>e, ThreadNames DEF Held, At
  <2>3. Awaited'
    BY <1>2, <1>4, <1>f, <2>0, ThreadNames DEF Orderly, Awaited, At
  <2>4. Watched'
    BY <1>2, <1>4, <1>5, <1>f, <2>0, ThreadNames DEF Orderly, Watched
  <2>5. Fresh'
    <3>1. ops[t].ok /\ t # UI => Current(ops[t].doc)
      BY <2>0, ThreadNames DEF Orderly, Fresh, Threads
    <3>2. dev' = dev
      BY <1>2
    <3>3. \A w \in Workers : ops'[w].ok => Current(ops'[w].doc)
      BY <1>4, <1>f, <2>0, <3>1, ThreadNames DEF Orderly, Fresh
    <3>4. \A i \in 1 .. Len(results') : results'[i].ok => Current(results'[i].doc)
      BY <1>5, <2>0, <3>1 DEF Orderly, Fresh
    <3>5. At(UI, "decide")' => Current(ops'[UI].doc)
      BY <1>f, <2>0, <2>c, ThreadNames DEF Orderly, Fresh, At
    <3> QED
      BY <2>d, <3>2, <3>3, <3>4, <3>5, ThreadNames DEF Fresh, Current
  <2>6. Agreeing'
    BY <1>2, <1>4, <1>f, <2>0, ThreadNames DEF Orderly, Agreeing, At, Current
  <2> QED
    BY <2>1, <2>2, <2>3, <2>4, <2>5, <2>6 DEF Orderly
<1> QED
  BY <1>12, <1>13, <1>14, <1>15, <1>16, <1>17 DEF SessionInv

LEMMA PowerCycleKeeps ==
    ASSUME SessionInv, PowerCycle
    PROVE  SessionInv'
<1>0. Typed /\ Placed
  BY DEF SessionInv
<1>1. dev' = flash /\ last' = "none" /\ raced' = (raced \/ ~Quiet)
  BY DEF PowerCycle
<1>2. /\ doc' = doc /\ flash' = flash /\ port' = port /\ current' = current /\ linked' = linked
      /\ made' = made /\ syncs' = syncs /\ results' = results /\ dialogs' = dialogs /\ progress' = progress
      /\ alarms' = alarms
  BY DEF PowerCycle, link, screen
<1>f. ops' = ops
  BY DEF PowerCycle
<1>4. ASSUME ~raced'
      PROVE  results = <<>> /\ \A t \in Threads : ~ops[t].ok /\ ops[t].pc = "idle"
  BY <1>1, <1>4, RestingFields DEF Quiet, Idle
<1>12. Typed'
  BY <1>1, <1>2, <1>f, ThreadNames DEF SessionInv, Typed, Objects
<1>13. Placed'
  BY <1>1, <1>2, <1>f, ThreadNames DEF SessionInv, Placed, At, Uploading, Reading
<1>14. Due'
  BY <1>1, <1>2, <1>f, ThreadNames DEF SessionInv, Due, At, Uploading
<1>15. Unread'
  BY <1>1, <1>2, <1>f, ThreadNames DEF SessionInv, Unread
<1>16. Snapped'
  BY <1>1, <1>2, <1>f, ThreadNames DEF SessionInv, Snapped
<1>17. ASSUME ~raced' PROVE Orderly'
  <2>0. ~raced /\ Orderly
    BY <1>1, <1>2, <1>17 DEF SessionInv
  <2>a. results = <<>> /\ \A t \in Threads : ~ops[t].ok /\ ops[t].pc = "idle"
    BY <1>4, <1>17
  <2>1. Alone'
    BY <1>1, <1>2, <1>f, <2>0, <2>a, ThreadNames DEF Orderly, Alone, In, Exchange
  <2>2. Held'
    BY <1>1, <1>2, <1>f, <2>0, <2>a, ThreadNames DEF Orderly, Held, In, At, Exchange
  <2>3. Awaited'
    BY <1>1, <1>2, <1>f, <2>0, <2>a, ThreadNames DEF Orderly, Awaited, At
  <2>4. Watched'
    BY <1>1, <1>2, <1>f, <2>0, <2>a, ThreadNames DEF Orderly, Watched
  <2>5. Fresh'
    BY <1>2, <1>f, <2>0, <2>a, ThreadNames DEF Orderly, Fresh, At, Current
  <2>6. Agreeing'
    BY <1>1, <1>2, <1>f, <2>0, <2>a, ThreadNames DEF Orderly, Agreeing, At, Current
  <2> QED
    BY <2>1, <2>2, <2>3, <2>4, <2>5, <2>6 DEF Orderly
<1> QED
  BY <1>12, <1>13, <1>14, <1>15, <1>16, <1>17 DEF SessionInv
-----------------------------------------------------------------------------
(* The invariant holds, and what it gives when nothing runs.               *)

LEMMA InitSession == Init => SessionInv
<1> SUFFICES ASSUME Init PROVE SessionInv
  OBVIOUS
<1>0. \A t \in Threads : /\ ops[t] = Resting /\ ops[t].pc = "idle" /\ ops[t].kind = "none" /\ ~ops[t].ok
  BY RestingFields DEF Init
<1>1. ops \in [Threads -> Op(Documents)]
  BY RestingFields DEF Init
<1>2. PICK d \in SavedDocs : dev = ImageOf[d] /\ flash = dev
  BY DEF Init
<1>3. d \in Documents
  BY <1>2 DEF Documents, Reread
<1>4. dev \in Images /\ flash \in Images
  BY <1>2, <1>3, SeenDocuments
<1>5. Typed
  <2>1. results \in Seq([ok : BOOLEAN, doc : Documents])
    <3> DEFINE S == [ok : BOOLEAN, doc : Documents]
    <3> HIDE DEF S
    <3>1. results \in Seq(S)
      BY DEF Init
    <3> QED
      BY <3>1 DEF S
  <2>2. doc \in Documents
    BY RestingFields DEF Init
  <2>3. /\ port \in Objects /\ current \in {None} \cup ToSet(Transports) /\ linked \in BOOLEAN
        /\ dialogs \subseteq Workers /\ progress \in {None} \cup Workers
        /\ last \in {"none", "uploaded", "read"} /\ raced \in BOOLEAN
    BY DEF Init, Objects
  <2> QED
    BY <1>1, <1>4, <2>1, <2>2, <2>3 DEF Typed
<1>6. Placed /\ Unread /\ Snapped
  BY <1>0, ThreadNames DEF Placed, Unread, Snapped, At
<1>7. Due
  BY <1>0, ThreadNames, SessionAssumption DEF Init, Due, At, Uploading
<1>8. Alone /\ Held
  BY <1>0, ThreadNames DEF Init, Alone, Held, In, At, Exchange
<1>9. Awaited /\ Watched /\ Fresh /\ Agreeing
  BY <1>0, ThreadNames DEF Init, Awaited, Watched, Fresh, Agreeing, At, In, Exchange
<1> QED
  BY <1>5, <1>6, <1>7, <1>8, <1>9 DEF SessionInv, Orderly

LEMMA StillSession == ASSUME SessionInv, UNCHANGED vars PROVE SessionInv'
<1>1. /\ doc' = doc /\ dev' = dev /\ flash' = flash /\ port' = port /\ current' = current
      /\ linked' = linked /\ ops' = ops /\ syncs' = syncs /\ results' = results /\ dialogs' = dialogs
      /\ progress' = progress /\ alarms' = alarms /\ last' = last /\ raced' = raced /\ made' = made
  BY DEF vars
<1>2. Typed' /\ Placed' /\ Due' /\ Unread' /\ Snapped'
  BY <1>1 DEF SessionInv, Typed, Placed, Due, Unread, Snapped, At
<1>3. ASSUME ~raced' PROVE Orderly'
  <2>1. Orderly
    BY <1>1, <1>3 DEF SessionInv
  <2>2. Alone' /\ Held' /\ Awaited' /\ Watched'
    BY <1>1, <2>1 DEF Orderly, Alone, Held, Awaited, Watched, In, At
  <2>3. Fresh' /\ Agreeing'
    BY <1>1, <2>1 DEF Orderly, Fresh, Agreeing, In, At, Current
  <2> QED
    BY <2>2, <2>3 DEF Orderly
<1> QED
  BY <1>2, <1>3 DEF SessionInv

LEMMA NextSession == ASSUME SessionInv, [Next]_vars PROVE SessionInv'
<1>1. CASE User
  <2>1. CASE Connect
    BY <2>1, ConnectKeeps
  <2>2. CASE Disconnect
    BY <2>2, DisconnectKeeps
  <2>3. CASE PowerCycle
    BY <2>3, PowerCycleKeeps
  <2>4. CASE Decide
    BY <2>4, DecideKeeps
  <2>5. CASE \E change \in UserChanges : Change(change[1], change[2])
    BY <2>5, ChangeKeeps
  <2>6. CASE Compare
    BY <2>6, CompareKeeps
  <2>7. CASE \E w \in Workers : Dismiss(w)
    BY <2>7, DismissKeeps
  <2> QED
    BY <1>1, <2>1, <2>2, <2>3, <2>4, <2>5, <2>6, <2>7 DEF User
<1>2. CASE AutoSync
  BY <1>2, AutoSyncKeeps
<1>3. CASE HandleResult
  BY <1>3, HandleResultKeeps
<1>4. CASE JoinTimeout
  BY <1>4, JoinTimeoutKeeps
<1>5. ASSUME NEW t \in Threads, Step(t)
      PROVE  SessionInv'
  <2>1. CASE Release(t) \/ Open(t) \/ Close(t) \/ Reach(t) \/ Reopen(t)
    BY <2>1, ReleaseKeeps, OpenKeeps, CloseKeeps, ReachKeeps, ReopenKeeps
  <2>2. CASE SyncBegin \/ Capture \/ Sync \/ ClearConfig
    BY <2>2, SyncBeginKeeps, CaptureKeeps, SyncKeeps, ClearConfigKeeps
  <2>3. CASE LoadConfig \/ ConnectEnd \/ Joined
    BY <2>3, LoadConfigKeeps, ConnectEndKeeps, JoinedKeeps
  <2>4. CASE t # UI /\ (ReadBegin(t) \/ GetConfig(t))
    BY <2>4, ReadBeginKeeps, GetConfigKeeps DEF Threads
  <2> QED
    BY <1>5, <2>1, <2>2, <2>3, <2>4 DEF Step
<1>6. CASE UNCHANGED vars
  BY <1>6, StillSession
<1> QED
  BY <1>1, <1>2, <1>3, <1>4, <1>5, <1>6 DEF Next

LEMMA SessionKept == Spec => []SessionInv
BY InitSession, NextSession, PTL DEF Spec

LEMMA QuietIs == ASSUME Quiet PROVE results = <<>> /\ \A t \in Threads : ops[t].pc = "idle" /\ ops[t].kind = "none"
BY RestingFields DEF Quiet, Idle

LEMMA KeptReturns == SessionInv => BorrowedIsReturned
<1> SUFFICES ASSUME SessionInv PROVE BorrowedIsReturned
  OBVIOUS
<1>1. SessionTypeOK
  <2>1. \A t \in Threads : ops[t].doc \in Documents /\ ops[t].ok \in BOOLEAN
    BY DEF SessionInv, Typed, Op
  <2>2. alarms \in 0 .. Len(Transports)
    BY SessionAssumption DEF SessionInv, Due
  <2> QED
    BY <2>1, <2>2 DEF SessionInv, Typed, Due, Objects, SessionTypeOK
<1>2. LinkKept
  BY QuietIs, ThreadNames DEF LinkKept, SessionInv, Orderly, Held, In, At, Exchange
<1>3. DialogsClosed
  BY QuietIs, ThreadNames DEF DialogsClosed, SessionInv, Orderly, Watched
<1> QED
  BY <1>1, <1>2, <1>3 DEF BorrowedIsReturned

LEMMA KeptInStep == SessionInv => InStep
BY QuietIs, ThreadNames DEF SessionInv, Orderly, Agreeing, At, InStep, Current

\* What an operation borrows, the port, the link and the dialog, it gives back,
\* whatever step of it fails, as long as no two operations overlap.
THEOREM WhatIsBorrowedReturns == Spec => []BorrowedIsReturned
<1>1. SessionInv => BorrowedIsReturned
  BY KeptReturns
<1> QED
  BY <1>1, SessionKept, PTL
-----------------------------------------------------------------------------
(* The way of a channel to the node and back.                              *)

LEMMA OpsReturn == \A op \in ShownOps : OpName(OpCode[op]) = op
<1>1. \A op, o \in ShownOps : OpCode[op] = OpCode[o] => op = o
  BY DEF ShownOps, OpCode
<1> HIDE DEF OpCode
<1> QED
  BY <1>1 DEF OpName

LEMMA SameFields ==
    ASSUME NEW kind \in DOMAIN Kept
    PROVE  /\ Packed(kind) = Fields(kind) /\ Returned(kind) = {Fields(kind)[i] : i \in DOMAIN Fields(kind)}
           /\ HasFields(kind) /\ 1 \in DOMAIN Fields(kind)
           /\ Kept[kind] \subseteq Returned(kind)
           /\ "source_channel" \notin Returned(kind) /\ "pins" \notin Returned(kind) /\ "timer_mode" \notin Returned(kind)
<1>0. kind \in {"digital_input", "logic", "number", "filter", "table_2d", "pid"}
  BY DEF Kept
<1>1. CASE kind = "digital_input"
  BY <1>1 DEF Kept, Packed, Fields, PackedHardware, HardwareFields, HasFields, Returned, NotReturned, ToSet
<1>2. CASE kind = "logic"
  BY <1>2 DEF Kept, Packed, Fields, PackedHardware, PackedOutputs, PackedVirtual, HardwareFields, VirtualFields, HasFields, Returned, NotReturned, ToSet
<1>3. CASE kind = "number"
  BY <1>3 DEF Kept, Packed, Fields, PackedHardware, PackedOutputs, PackedVirtual, HardwareFields, VirtualFields, HasFields, Returned, NotReturned, ToSet
<1>4. CASE kind = "filter"
  BY <1>4 DEF Kept, Packed, Fields, PackedHardware, PackedOutputs, PackedVirtual, HardwareFields, VirtualFields, HasFields, Returned, NotReturned, ToSet
<1>5. CASE kind = "table_2d"
  BY <1>5 DEF Kept, Packed, Fields, PackedHardware, PackedOutputs, PackedVirtual, HardwareFields, VirtualFields, HasFields, Returned, NotReturned, ToSet
<1>6. CASE kind = "pid"
  BY <1>6 DEF Kept, Packed, Fields, PackedHardware, PackedOutputs, PackedVirtual, HardwareFields, VirtualFields, HasFields, Returned, NotReturned, ToSet
<1> QED
  BY <1>0, <1>1, <1>2, <1>3, <1>4, <1>5, <1>6

\* The place that At finds for a key holds the key.
LEMMA PlaceOfKey ==
    ASSUME NEW s, NEW i \in DOMAIN s
    PROVE  /\ (CHOOSE j \in DOMAIN s : s[j] = s[i]) \in DOMAIN s
           /\ s[CHOOSE j \in DOMAIN s : s[j] = s[i]] = s[i]
OBVIOUS

\* Scaled up, and down again by as much, an exact number is what it was.
LEMMA NumbersReturn ==
    ASSUME NEW key, key # "timer_mode", key # "operation", NEW of, NEW times \in Nat
    PROVE  LET v == [of |-> of, form |-> "exact", times |-> times] IN Decoded(key, Encoded(key, v)) = v
<1> DEFINE v == [of |-> of, form |-> "exact", times |-> times]
           u == [of |-> of, form |-> "exact", times |-> times * Scale(key)]
<1>1. Encoded(key, v) = u
  BY DEF Encoded
<1>2. Scale(key) \in {1, 100, 1000}
  BY DEF Scale
<1>3. (times * Scale(key)) \div Scale(key) = times
  <2>1. CASE Scale(key) = 1
    BY <2>1
  <2>2. CASE Scale(key) = 100
    BY <2>2
  <2>3. CASE Scale(key) = 1000
    BY <2>3
  <2> QED
    BY <1>2, <2>1, <2>2, <2>3
<1>4. Decoded(key, u) = [u EXCEPT !.times = @ \div Scale(key)]
  BY DEF Decoded
<1>5. [u EXCEPT !.times = @ \div Scale(key)] = v
  BY <1>3
<1> QED
  BY <1>1, <1>4, <1>5

LEMMA NamesReturn ==
    ASSUME NEW of \in ShownOps, NEW times
    PROVE  LET v == [of |-> of, form |-> "exact", times |-> times]
           IN  Decoded("operation", Encoded("operation", v)) = v
<1> DEFINE v == [of |-> of, form |-> "exact", times |-> times]
           u == [of |-> OpCode[of], form |-> "exact", times |-> times]
<1>1. Encoded("operation", v) = u
  BY DEF Encoded
<1>2. Decoded("operation", u) = [of |-> OpName(OpCode[of]), form |-> "exact", times |-> times]
  BY DEF Decoded
<1>3. OpName(OpCode[of]) = of
  BY OpsReturn
<1> QED
  BY <1>1, <1>2, <1>3

LEMMA ValueReturns ==
    ASSUME NEW c, NEW key \in DOMAIN c.settings, key # "timer_mode", Exact(key, c.settings[key])
    PROVE  Decoded(key, PackedValue(c, key)) = c.settings[key]
<1> DEFINE v == c.settings[key]
<1>1. PackedValue(c, key) = Encoded(key, v)
  <2>1. KeyFor(c, key) = key
    BY DEF KeyFor
  <2>2. Setting(c, key) = v
    BY DEF Setting
  <2> QED
    BY <2>1, <2>2 DEF PackedValue
<1>2. v = [of |-> v.of, form |-> "exact", times |-> v.times] /\ v.times \in Nat
      /\ (key = "operation" => v.of \in ShownOps)
  BY DEF Exact
<1> HIDE DEF v
<1>3. CASE key = "operation"
  BY <1>1, <1>2, <1>3, NamesReturn DEF v
<1>4. CASE key # "operation"
  <2>1. Decoded(key, Encoded(key, [of |-> v.of, form |-> "exact", times |-> v.times]))
        = [of |-> v.of, form |-> "exact", times |-> v.times]
    BY <1>2, <1>4, NumbersReturn
  <2> QED
    BY <1>1, <1>2, <2>1 DEF v
<1> QED
  BY <1>3, <1>4

LEMMA ConfigKept ==
    ASSUME NEW c, c.kind \in DOMAIN Kept, ~Raises(c)
    PROVE  LET p == PackedChannel(c) IN
           /\ p.id = c.id /\ p.kind = c.kind /\ p.refs = c.refs
           /\ p.config = [i \in DOMAIN Fields(c.kind) |-> PackedValue(c, Fields(c.kind)[i])]
           /\ p.config # <<>>
<1>1. Packed(c.kind) = Fields(c.kind) /\ 1 \in DOMAIN Fields(c.kind)
  BY SameFields
<1> DEFINE g == [i \in DOMAIN Fields(c.kind) |-> PackedValue(c, Fields(c.kind)[i])]
<1>2. PackedChannel(c).config = g
  BY <1>1 DEF PackedChannel
<1>3. g # <<>>
  <2>1. 1 \in DOMAIN g
    BY <1>1
  <2>2. 1 \notin DOMAIN <<>>
    OBVIOUS
  <2> QED
    BY <2>1, <2>2
<1>4. PackedChannel(c).id = c.id /\ PackedChannel(c).kind = c.kind /\ PackedChannel(c).refs = c.refs
  BY DEF PackedChannel
<1> QED
  BY <1>2, <1>3, <1>4

\* Packed and read back, a channel of these kinds that could be packed has its
\* inputs and its exact values (binary_config.py:1323-1492,
\* device_controller.py:1233-1331).
LEMMA ChannelsReturn ==
    ASSUME NEW c, c.kind \in DOMAIN Kept, ~Raises(c)
    PROVE  LET d == Back(PackedChannel(c)) IN
           /\ d.id = c.id /\ d.kind = c.kind /\ d.refs = c.refs
           /\ \A key \in Kept[c.kind] \cap DOMAIN c.settings :
                 Exact(key, c.settings[key]) =>
                     key \in DOMAIN d.settings /\ d.settings[key] = c.settings[key]
<1> DEFINE p == PackedChannel(c)
           F == Fields(c.kind)
           Place(key) == CHOOSE i \in DOMAIN F : F[i] = key
           Read(key) == CASE key = "source_channel" -> p.source
                          [] key = "pins" -> p.pin
                          [] OTHER -> Decoded(key, p.config[Place(key)])
           keys == {key \in {"source_channel", "pins"} : Read(key) # Default} \cup Returned(c.kind)
           g == [key \in keys |-> Read(key)]
<1>1. /\ p.id = c.id /\ p.kind = c.kind /\ p.refs = c.refs
      /\ p.config = [i \in DOMAIN F |-> PackedValue(c, F[i])] /\ p.config # <<>>
  BY ConfigKept
<1>2. HasFields(c.kind) /\ Returned(c.kind) = {F[i] : i \in DOMAIN F} /\ Kept[c.kind] \subseteq Returned(c.kind)
      /\ "source_channel" \notin Returned(c.kind) /\ "pins" \notin Returned(c.kind) /\ "timer_mode" \notin Returned(c.kind)
  BY SameFields
<1> HIDE DEF p
<1>3. Back(p) = [id |-> p.id, kind |-> p.kind, refs |-> p.refs, settings |-> g]
  BY <1>1, <1>2 DEF Back
<1>4. ASSUME NEW key \in Kept[c.kind] \cap DOMAIN c.settings, Exact(key, c.settings[key])
      PROVE  key \in keys /\ Read(key) = c.settings[key]
  <2>1. key \in Returned(c.kind) /\ key \notin {"source_channel", "pins", "timer_mode"}
    BY <1>2
  <2>2. PICK i \in DOMAIN F : key = F[i]
    BY <1>2, <2>1
  <2>3. Place(key) \in DOMAIN F /\ F[Place(key)] = key
    BY <2>2, PlaceOfKey
  <2>4. p.config[Place(key)] = PackedValue(c, key)
    BY <1>1, <2>3
  <2> HIDE DEF F, Place
  <2>5. Read(key) = Decoded(key, PackedValue(c, key))
    BY <2>1, <2>4
  <2>6. Read(key) = c.settings[key]
    BY <1>4, <2>1, <2>5, ValueReturns
  <2> QED
    BY <2>1, <2>6
<1> HIDE DEF F, Place, Read, keys
<1>5. \A key \in Kept[c.kind] \cap DOMAIN c.settings :
         Exact(key, c.settings[key]) => key \in DOMAIN g /\ g[key] = c.settings[key]
  BY <1>4
<1> HIDE DEF g
<1>6. Back(p).id = c.id /\ Back(p).kind = c.kind /\ Back(p).refs = c.refs /\ Back(p).settings = g
  BY <1>1, <1>3
<1> QED
  BY <1>5, <1>6 DEF p

LEMMA RankOfKind ==
    ASSUME NEW kind \in ToSet(TreeOrder)
    PROVE  Rank(kind) \in Int /\ Rank(kind) \in DOMAIN TreeOrder /\ TreeOrder[Rank(kind)] = kind
<1>1. \E i \in DOMAIN TreeOrder : TreeOrder[i] = kind
  BY DEF ToSet
<1>2. DOMAIN TreeOrder \subseteq Int
  BY DEF TreeOrder
<1> QED
  BY <1>1, <1>2 DEF Rank

\* The order of the tree is a strict linear order on a document.
LEMMA TreeOrderLinear ==
    ASSUME NEW document, Numbered(document), NEW c \in document, NEW d \in document, NEW e \in document
    PROVE  /\ ~InTreeOrder(c, c)
           /\ InTreeOrder(c, d) /\ InTreeOrder(d, e) => InTreeOrder(c, e)
           /\ c # d => InTreeOrder(c, d) \/ InTreeOrder(d, c)
<1>1. /\ Rank(c.kind) \in Int /\ Rank(d.kind) \in Int /\ Rank(e.kind) \in Int
      /\ c.id \in Nat /\ d.id \in Nat /\ e.id \in Nat
      /\ Rank(c.kind) = Rank(d.kind) => c.kind = d.kind
  BY RankOfKind DEF Numbered
<1>2. c.kind = d.kind /\ c.id = d.id => c = d
  BY DEF Numbered
<1> QED
  BY <1>1, <1>2 DEF InTreeOrder

\* Every channel that can be sent has its place in what is sent.
LEMMA SentHas ==
    ASSUME NEW document, Numbered(document), NEW c \in document, Sendable(c)
    PROVE  LET channels == {d \in document : Sendable(d)} IN
           /\ Cardinality(channels) \in Nat
           /\ \E n \in 1 .. Cardinality(channels) : Sent(document)[n] = PackedChannel(c)
           /\ DOMAIN Sent(document) = 1 .. Cardinality(channels)
<1> DEFINE channels == {d \in document : Sendable(d)}
           Below(d) == {e \in channels : InTreeOrder(e, d)}
           Nth(n) == CHOOSE d \in channels : Cardinality(Below(d)) = n - 1
           n == Cardinality(Below(c)) + 1
<1>1. Sent(document) = [k \in 1 .. Cardinality(channels) |-> PackedChannel(Nth(k))]
  BY DEF Sent
<1>2. channels \subseteq document /\ c \in channels
  OBVIOUS
<1>3. IsFiniteSet(channels) /\ Cardinality(channels) \in Nat
  BY <1>2, FS_Subset, FS_CardinalityType DEF Numbered
<1> HIDE DEF channels
<1>4. \A d \in channels : IsFiniteSet(Below(d)) /\ Cardinality(Below(d)) \in Nat
  BY <1>3, FS_Subset, FS_CardinalityType
<1>5. ASSUME NEW d \in channels, NEW e \in channels, InTreeOrder(d, e)
      PROVE  Cardinality(Below(d)) < Cardinality(Below(e))
  <2>1. Below(d) \subseteq Below(e)
    BY <1>2, <1>5, TreeOrderLinear
  <2>2. d \in Below(e) /\ d \notin Below(d)
    BY <1>2, <1>5, TreeOrderLinear
  <2> HIDE DEF Below
  <2>3. Below(d) # Below(e)
    BY <2>2
  <2>4. Cardinality(Below(d)) <= Cardinality(Below(e)) /\ Cardinality(Below(d)) # Cardinality(Below(e))
    BY <1>4, <2>1, <2>3, FS_Subset
  <2> QED
    BY <1>4, <2>4
<1>6. n \in 1 .. Cardinality(channels)
  <2>1. Below(c) \subseteq channels /\ c \notin Below(c)
    BY <1>2, TreeOrderLinear
  <2> HIDE DEF Below
  <2>2. Cardinality(Below(c)) <= Cardinality(channels) /\ Cardinality(Below(c)) # Cardinality(channels)
    BY <1>2, <1>3, <2>1, FS_Subset
  <2> QED
    BY <1>2, <1>3, <1>4, <2>2
<1>7. Nth(n) = c
  <2>1. Cardinality(Below(c)) = n - 1
    BY <1>2, <1>4
  <2>2. Nth(n) \in channels /\ Cardinality(Below(Nth(n))) = n - 1
    BY <1>2, <2>1
  <2> HIDE DEF Nth, n, Below
  <2>3. ~InTreeOrder(Nth(n), c) /\ ~InTreeOrder(c, Nth(n))
    BY <1>2, <1>4, <1>5, <2>1, <2>2
  <2> QED
    BY <1>2, <2>2, <2>3, TreeOrderLinear
<1>8. Sent(document)[n] = PackedChannel(c)
  <2> HIDE DEF Nth, n
  <2> QED
    BY <1>1, <1>6, <1>7
<1> HIDE DEF Below, n, Nth
<1> QED
  BY <1>1, <1>3, <1>6, <1>8 DEF channels

\* A whole image holds every channel that was sent.
LEMMA WholeHas ==
    ASSUME NEW document, Numbered(document), Whole(Image(document)), NEW c \in document, Sendable(c)
    PROVE  \E i \in DOMAIN Image(document).channels : Image(document).channels[i] = PackedChannel(c)
<1> DEFINE packed == Sent(document)
           N == Cardinality({d \in document : Sendable(d)})
           fit == {n \in 0 .. Len(packed) : Length(packed, n) <= PacketLimit}
           k == Cardinality(fit) - 1
           S == {packed[i] : i \in DOMAIN packed}
<1>1. N \in Nat /\ DOMAIN packed = 1 .. N
  BY SentHas
<1>2. PICK n \in 1 .. N : packed[n] = PackedChannel(c)
  BY SentHas
<1>3. Image(document) = [count |-> Len(packed), channels |-> SubSeq(packed, 1, k)]
  BY DEF Image
<1>3a. Image(document).channels = SubSeq(packed, 1, k) /\ Image(document).count = Len(packed)
  <2> DEFINE a == Len(packed)
             b == SubSeq(packed, 1, k)
  <2>1. Image(document) = [count |-> a, channels |-> b]
    BY <1>3
  <2> HIDE DEF a, b
  <2>2. Image(document).count = a /\ Image(document).channels = b
    BY <2>1
  <2> QED
    BY <2>2 DEF a, b
<1>4. packed \in Seq(S) /\ Len(packed) = N
  <2>1. packed = [i \in 1 .. N |-> packed[i]]
    BY <1>1 DEF Sent
  <2> HIDE DEF packed, N
  <2>2. packed \in [1 .. N -> S]
    BY <1>1, <2>1
  <2> QED
    BY <1>1, <2>2
<1>5. k \in Int
  <2>1. fit \subseteq 0 .. N
    BY <1>4
  <2>2. IsFiniteSet(0 .. N)
    BY <1>1, FS_Interval
  <2>3. IsFiniteSet(fit)
    BY <2>1, <2>2, FS_Subset
  <2>4. Cardinality(fit) \in Nat
    BY <2>3, FS_CardinalityType
  <2> HIDE DEF fit
  <2> QED
    BY <2>4
<1> HIDE DEF packed, k, N, S
<1>6. Len(SubSeq(packed, 1, k)) = N
  BY <1>3a, <1>4 DEF Whole
<1>7. k = N
  BY <1>1, <1>2, <1>4, <1>5, <1>6
<1>8. SubSeq(packed, 1, k) = packed
  BY <1>1, <1>4, <1>7
<1> QED
  BY <1>1, <1>2, <1>3a, <1>8

\* What is uploaded whole reads back with every channel of these kinds that
\* could be packed: its inputs and its exact values.  What does not make the
\* round trip (settings without a field, values that are scaled, cut or too
\* large) is excluded by Kept, Exact and Raises.
THEOREM WholeUploadsReturn ==
    \A document : Numbered(document) /\ Whole(Image(document)) =>
        \A c \in document : Sendable(c) /\ ~Raises(c) /\ c.kind \in DOMAIN Kept =>
            HasKept(Loaded(Image(document)), c)
<1> SUFFICES ASSUME NEW document, Numbered(document), Whole(Image(document)),
                    NEW c \in document, Sendable(c), ~Raises(c), c.kind \in DOMAIN Kept
             PROVE  HasKept(Loaded(Image(document)), c)
  OBVIOUS
<1> DEFINE d == Back(PackedChannel(c))
<1>1. PICK i \in DOMAIN Image(document).channels : Image(document).channels[i] = PackedChannel(c)
  BY WholeHas
<1>2. d \in Loaded(Image(document))
  BY <1>1 DEF Loaded
<1>3. /\ d.id = c.id /\ d.kind = c.kind /\ d.refs = c.refs
      /\ \A key \in Kept[c.kind] \cap DOMAIN c.settings :
            Exact(key, c.settings[key]) =>
                key \in DOMAIN d.settings /\ d.settings[key] = c.settings[key]
  BY ChannelsReturn
<1> HIDE DEF d
<1> QED
  BY <1>2, <1>3 DEF HasKept
-----------------------------------------------------------------------------
(* What was uploaded or read is what both sides have.                      *)

LEMMA KeptSettings == SessionInv => SettingsSurvive
<1> SUFFICES ASSUME SessionInv, Quiet, ~raced, last = "uploaded", Whole(dev),
                    NEW c \in doc, Sendable(c), ~Raises(c), c.kind \in DOMAIN Kept
             PROVE  HasKept(LoadedFrom[dev], c)
  BY DEF SettingsSurvive
<1>1. InStep
  BY KeptInStep
<1>2. dev = ImageOf[doc]
  BY <1>1 DEF InStep
<1>3. doc \in Documents /\ dev \in Images
  BY DEF SessionInv, Typed
<1>4. ImageOf[doc] = Image(doc) /\ LoadedFrom[dev] = Loaded(dev)
  BY <1>3 DEF ImageOf, LoadedFrom
<1>5. Numbered(doc)
  BY <1>3, DocumentsAssumption
<1> QED
  BY <1>2, <1>4, <1>5, WholeUploadsReturn

\* As long as no two operations overlap, an acknowledged upload leaves the
\* document on the node and a read the node's configuration on the screen, and
\* what of an uploaded document makes the round trip reads back as it was left.
THEOREM NothingIsLost == Spec => []NothingLostOnTheWay
<1>1. SessionInv => NothingLostOnTheWay
  BY KeptInStep, KeptSettings DEF NothingLostOnTheWay
<1> QED
  BY <1>1, SessionKept, PTL
=============================================================================
