-------------------------------- MODULE TMin --------------------------------
(***************************************************************************)
(* T-MIN, the sliding window transport between the configurator (Python,   *)
(* shared/python/min_protocol.py under controllers/transport.py) and the   *)
(* device (C, firmware/lib/MIN/min.c).  Each end queues frames in a FIFO,  *)
(* keeps at most Window of them unacknowledged, resends the one sent least *)
(* recently, and acknowledges with the number of the frame it wants next.  *)
(* The host keeps frames that arrive early and asks for the missing ones;  *)
(* the device drops them.  The line is a FIFO that may lose a frame (a     *)
(* damaged frame fails its CRC) and may be unplugged for a while.          *)
(*                                                                         *)
(* Times are abstract: a retransmission or a periodic ACK may or may not   *)
(* be due at a poll, and "idle" is a flag that a long silence clears.      *)
(***************************************************************************)
EXTENDS Integers, Sequences, SequencesExt, Functions

CONSTANTS SeqCount,      \* sequence numbers are taken modulo this (256)
          Window,      \* unacknowledged frames a sender allows itself (8)
          RxWindow,    \* how far ahead the host accepts a frame (16)
          FifoSize,    \* frames an end can queue (100 on the host)
          MaxFrames,   \* bound: frames the two ends queue in a session
          MaxSession,  \* bound: sessions the host opens
          LinkCap,     \* bound: frames in flight in one direction
          MaxFaults,   \* bound: frames lost, cables pulled and crashes of the host
          StartSeqs    \* numbers the first session may have reached

ASSUME WindowAssumption ==
    /\ {SeqCount, Window, RxWindow, FifoSize, LinkCap} \subseteq Nat \ {0}
    /\ {MaxFrames, MaxSession, MaxFaults} \subseteq Nat
    /\ Window + RxWindow <= SeqCount
    /\ StartSeqs \subseteq 0..SeqCount - 1

VARIABLES ep,         \* the transport state of each end
          wire,       \* wire[e]: what e has sent and its peer has not read
          accepted,   \* frames each end has taken and acknowledged, in order
          handed,     \* what the device has called its application with
          queued,     \* frames each end queued since its last reset
          session,    \* sessions the host has begun; the one the device is in
          open,       \* the host has the port open
          up,         \* the cable is plugged in
          faults

vars == <<ep, wire, accepted, handed, queued, session, open, up, faults>>

Ends == {"host", "device"}
Peer(e) == IF e = "host" THEN "device" ELSE "host"
NoSeq == -1

Frame(s, b) == [kind |-> "frame", seq |-> s, to |-> 0, body |-> b]
Reset == [kind |-> "reset", seq |-> 0, to |-> 0, body |-> <<>>]
Plain == [kind |-> "plain", seq |-> 0, to |-> 0, body |-> <<>>]

Fresh == [fifo |-> <<>>, snMin |-> 0, snMax |-> 0, rn |-> 0, order |-> <<>>,
          stash |-> <<>>, nack |-> NoSeq, rx |-> <<>>, out |-> <<>>,
          heard |-> TRUE, active |-> FALSE]

\* Where a number lies, counted from another one around the circle.
Off(q, from) == (q - from) % SeqCount
\* The number n places after q.
Step(q, n) == (q + n) % SeqCount

InWindow(s) == Off(s.snMax, s.snMin)
Send(s, m) == [s EXCEPT !.out = Append(@, m)]
SendAck(s, to) == Send(s, [kind |-> "ack", seq |-> s.rn, to |-> to, body |-> <<>>])

NumbersFrom(q, n) == {Step(q, i) : i \in 0 .. n - 1}
Only(order, S) ==
    FoldLeft(LAMBDA kept, q : IF q \in S THEN Append(kept, q) ELSE kept, <<>>, order)

(* Sends again the frames qs of the window: they are now the most recently *)
(* sent ones.                                                              *)
Resend(s, qs) ==
    [s EXCEPT !.out = @ \o [i \in DOMAIN qs |->
                            Frame(qs[i], s.fifo[1 + Off(qs[i], s.snMin)])],
              !.order = Only(@, Range(@) \ Range(qs)) \o qs]

\* Mutant: an acknowledgement of the whole window is refused.
PlausibleUnlessAll(s, m) == Off(m.seq, s.snMin) < InWindow(s)

(* An acknowledgement must lie within the window.                          *)
Plausible(s, m) == Off(m.seq, s.snMin) <= InWindow(s)

(* It pops the frames before it; the device also resends the frames a NACK *)
(* names.  (min.c does not compare their number with the window: see       *)
(* NackIsAnswerable.)                                                      *)
GotAck(e, s, m) ==
    LET acked == Off(m.seq, s.snMin)
        left  == InWindow(s) - acked
        t == [s EXCEPT !.snMin = m.seq, !.fifo = SubSeq(@, acked + 1, Len(@)),
                       !.order = Only(@, NumbersFrom(m.seq, left))]
        wanted == Off(m.to, m.seq)
    IN  IF ~Plausible(s, m) THEN s
        ELSE IF e = "device"
        THEN Resend(t, [i \in 1 .. (IF wanted <= left THEN wanted ELSE left) |->
                            Step(m.seq, i - 1)])
        ELSE t

\* Mutant: a RESET leaves the end of the window where it was.
ClearedKeepingWindow(s) == [Fresh EXCEPT !.nack = s.nack, !.out = s.out, !.snMax = s.snMax]

(* A RESET empties the FIFO and the numbers, not the outstanding NACK.     *)
Cleared(s) == [Fresh EXCEPT !.nack = s.nack, !.out = s.out]

\* Mutant: the NACK acknowledges up to the frame that arrived early.
NackSkipping(s, to) ==
    Send([s EXCEPT !.nack = to], [kind |-> "ack", seq |-> to, to |-> to, body |-> <<>>])

\* Mutant: the two numbers of the NACK are exchanged.
NackSwapped(s, to) ==
    Send([s EXCEPT !.nack = to], [kind |-> "ack", seq |-> to, to |-> s.rn, body |-> <<>>])

Nack(s, to) == SendAck([s EXCEPT !.nack = to], to)

Ahead(s, q) == Off(q, s.rn) < RxWindow

\* How many kept frames follow the one the host waits for without a gap.
Joined(s) ==
    CHOOSE n \in 0 .. SeqCount : /\ \A i \in 1 .. n : Step(s.rn, i) \in DOMAIN s.stash
                               /\ Step(s.rn, n + 1) \notin DOMAIN s.stash

(* The frame the host waits for is handed on with the n that follow it.    *)
Taking(s, m, n) ==
    [s EXCEPT !.rn = Step(@, n + 1),
              !.rx = (@ \o <<m.body>>) \o [i \in 1 .. n |-> s.stash[Step(s.rn, i)]],
              !.stash = [q \in DOMAIN @ \ {Step(s.rn, i) : i \in 1 .. n} |-> @[q]],
              !.nack = IF \E i \in 1 .. n : Step(s.rn, i + 1) = @ THEN NoSeq ELSE @]

Keeping(s, m) ==
    [s EXCEPT !.stash = [q \in DOMAIN @ \cup {m.seq} |-> IF q = m.seq THEN m.body ELSE @[q]]]

(* The host takes the frame it waits for together with the frames kept     *)
(* behind it, keeps a frame within the window, drops any other.            *)
HostFrame(s, m) ==
    LET t == Taking(s, m, Joined(s))
        earliest == CHOOSE q \in DOMAIN t.stash : \A r \in DOMAIN t.stash : q <= r
        asked == IF s.nack = NoSeq THEN Nack(s, m.seq) ELSE s
    IN  IF m.seq = s.rn
        THEN IF t.nack # NoSeq \/ DOMAIN t.stash = {} THEN SendAck(t, t.rn)
             ELSE IF Ahead(t, earliest) THEN Nack(t, earliest)
             ELSE SendAck([t EXCEPT !.stash = <<>>], t.rn)
        ELSE IF Ahead(s, m.seq) THEN Keeping(asked, m)
        ELSE s

\* Mutant: the device takes any frame.
DeviceFrameAny(s, m) ==
    LET t == [s EXCEPT !.rn = Step(@, 1), !.rx = Append(@, m.body)] IN SendAck(t, t.rn)

(* The device takes only the frame it waits for.                           *)
DeviceFrame(s, m) ==
    LET t == [s EXCEPT !.rn = Step(@, 1), !.rx = Append(@, m.body)]
    IN  IF m.seq = s.rn THEN SendAck(t, t.rn) ELSE s

Received(e, s0, m) ==
    LET s == [s0 EXCEPT !.heard = TRUE, !.active = @ \/ m.kind = "frame"]
    IN  CASE m.kind = "ack"   -> GotAck(e, s, m)
          [] m.kind = "reset" -> Cleared(s)
          [] m.kind = "frame" -> IF e = "host" THEN HostFrame(s, m) ELSE DeviceFrame(s, m)
          [] m.kind = "plain" -> s

(* Reads the frames ms, in the order in which they arrived.                *)
Read(e, s, ms) == FoldLeft(LAMBDA t, m : Received(e, t, m), s, ms)

(* The sending half of a poll: a new frame if the window has room, else    *)
(* the frame sent least recently, if it is due and the peer was heard of;  *)
(* then the periodic acknowledgement.  The device skips what has no room.  *)
(* `sampled` says who was heard: before the input was read on the host,    *)
(* after it on the device.                                                 *)
Transmitted(s, sampled, room, resendDue, ackDue) ==
    LET fresh == InWindow(s) < Window /\ Len(s.fifo) > InWindow(s)
        t == IF room = 0 THEN s
             ELSE IF fresh
             THEN [Send(s, Frame(s.snMax, s.fifo[InWindow(s) + 1]))
                      EXCEPT !.snMax = Step(@, 1), !.order = Append(@, s.snMax)]
             ELSE IF InWindow(s) > 0 /\ sampled.heard /\ resendDue
             THEN Resend(s, <<Head(s.order)>>)
             ELSE s
    IN  IF ackDue /\ sampled.active THEN SendAck(t, t.rn) ELSE t

(* What the line carries of `out`: nothing while unplugged.  The device    *)
(* leaves out what its send buffer has no room for; a write of the host    *)
(* waits for room.                                                         *)
Fits(e, out) == ~up \/ Len(wire[e]) + Len(out) <= LinkCap
Carried(e, out) ==
    IF ~up THEN wire[e]
    ELSE IF Fits(e, out) THEN wire[e] \o out
    ELSE SubSeq(wire[e] \o out, 1, LinkCap)

Running(e) == e = "device" \/ open

(* The order in which the device calls its application for the frames it   *)
(* took in a poll.  The ACK of a frame goes out before the frame is handed *)
(* on, and min_tx_finished polls again for what has come in meanwhile: a   *)
(* frame taken there is handed on first, one place early, in the buffer    *)
(* that still holds the frame waiting.  What that leaves of its payload is *)
(* not modelled: `handed` says which frames the calls are for.             *)
Overtakings(n) == {turn \in Bijection(1 .. n, 1 .. n) : \A i \in 1 .. n : turn[i] <= i + 1}
Handings(taken) == {[i \in DOMAIN taken |-> taken[turn[i]]] : turn \in Overtakings(Len(taken))}
-----------------------------------------------------------------------------
Init ==
    /\ \E n \in StartSeqs :
          ep = [e \in Ends |-> [Fresh EXCEPT !.snMin = n, !.snMax = n, !.rn = n]]
    /\ wire = [e \in Ends |-> <<>>]
    /\ accepted = [e \in Ends |-> <<>>]
    /\ handed = <<>>
    /\ queued = [e \in Ends |-> 0]
    /\ session = [e \in Ends |-> 0]
    /\ open = TRUE /\ up = TRUE /\ faults = 0

QueueFrame(e) ==
    /\ Running(e)
    /\ queued["host"] + queued["device"] < MaxFrames
    /\ Len(ep[e].fifo) < FifoSize
    /\ queued' = [queued EXCEPT ![e] = @ + 1]
    /\ ep' = [ep EXCEPT ![e].fifo = Append(@, <<session[e], queued[e] + 1>>)]
    /\ UNCHANGED <<wire, accepted, handed, session, open, up, faults>>

(* send_frame: a frame outside the transport, neither numbered nor resent. *)
(* Taken only where it makes a difference, to a peer that heard nothing.   *)
SendFrame(e) ==
    /\ Running(e) /\ wire[e] = <<>> /\ ~ep[Peer(e)].heard
    /\ wire' = [wire EXCEPT ![e] = Carried(e, <<Plain>>)]
    /\ UNCHANGED <<ep, accepted, handed, queued, session, open, up, faults>>

(* One poll: reads what has arrived, n frames, then sends.                 *)
PollReading(e, n, resendDue, ackDue, whole) ==
    LET p == Peer(e)
        got == SubSeq(wire[p], 1, n)
        reset == \E i \in 1..n : got[i].kind = "reset"
        read == Read(e, ep[e], got)
        room == IF e = "host" \/ ~up THEN LinkCap
                ELSE LinkCap - Len(Carried(e, read.out))
        sampled == IF e = "host" THEN ep[e] ELSE read
    IN  /\ Running(e)
        /\ UNCHANGED <<open, up, faults>>
        /\ \E sent \in {Transmitted(read, sampled, room, resendDue, ackDue)} :
             /\ whole \/ e = "host" => Fits(e, sent.out)
             /\ wire' = [wire EXCEPT ![p] = SubSeq(@, n + 1, Len(@)), ![e] = Carried(e, sent.out)]
             /\ ep' = [ep EXCEPT ![e] = [sent EXCEPT !.rx = <<>>, !.out = <<>>]]
             /\ accepted' = [accepted EXCEPT ![e] = IF reset THEN sent.rx ELSE @ \o sent.rx]
             /\ IF e = "host" THEN UNCHANGED handed
                ELSE \E h \in Handings(sent.rx) :
                        handed' = IF reset THEN h ELSE handed \o h
        /\ session' = [session EXCEPT ![e] = IF reset THEN session[p] ELSE @]
        /\ queued' = [queued EXCEPT ![e] = IF reset THEN 0 ELSE @]

Poll(e) == \E n \in 0..Len(wire[Peer(e)]), resendDue \in {FALSE, InWindow(ep[e]) > 0},
              ackDue \in {FALSE, ep[e].active} : PollReading(e, n, resendDue, ackDue, FALSE)

(* The line loses the frame about to arrive, a RESET too: it is sent once  *)
(* and never acknowledged.                                                 *)
Lose(e) ==
    /\ wire[e] # <<>> /\ faults < MaxFaults
    /\ wire' = [wire EXCEPT ![e] = Tail(@)]
    /\ faults' = faults + 1
    /\ UNCHANGED <<ep, accepted, handed, queued, session, open, up>>

(* disconnect(): the poll thread is stopped, RESET is sent, everything     *)
(* kept is dropped and the port is closed.  A crash sends nothing.         *)
Disconnect(sendsReset) ==
    /\ open /\ up /\ (sendsReset \/ faults < MaxFaults) /\ session["host"] < MaxSession
    /\ open' = FALSE
    /\ wire' = [wire EXCEPT !["host"] = IF sendsReset THEN Append(@, Reset) ELSE @]
    /\ ep' = [ep EXCEPT !["host"] = Fresh]
    /\ accepted' = [accepted EXCEPT !["host"] = <<>>]
    /\ queued' = [queued EXCEPT !["host"] = 0]
    /\ session' = [session EXCEPT !["host"] = @ + 1]
    /\ faults' = (IF sendsReset THEN faults ELSE faults + 1)
    /\ UNCHANGED <<handed, up>>

(* connect(): a new transport on emptied buffers.  The device has read     *)
(* what was on its way by then.                                            *)
Connect ==
    /\ ~open /\ wire["host"] = <<>>
    /\ open' = TRUE
    /\ wire' = [wire EXCEPT !["device"] = <<>>]
    /\ UNCHANGED <<ep, accepted, handed, queued, session, up, faults>>

Unplug ==
    /\ up /\ open /\ faults < MaxFaults
    /\ up' = FALSE /\ faults' = faults + 1
    /\ wire' = [e \in Ends |-> <<>>]
    /\ UNCHANGED <<ep, accepted, handed, queued, session, open>>

Plug ==
    /\ ~up /\ up' = TRUE
    /\ UNCHANGED <<ep, wire, accepted, handed, queued, session, open, faults>>

(* What e will put on the line sooner or later without being prompted.     *)
HasFrames(e) ==
    LET s == ep[e] IN
    \/ Len(s.fifo) > InWindow(s) /\ InWindow(s) < Window
    \/ InWindow(s) > 0 /\ s.heard
Silent(e) == ~HasFrames(e) /\ ~ep[e].active

(* The idle timeout runs out: nothing, or no application frame, has come   *)
(* for seconds, because the peer is silent and has not been prompted by a  *)
(* frame resent meanwhile, or because it cannot be heard.                  *)
IdleTimeout(e) ==
    LET p == Peer(e) IN
    /\ Running(e)
    /\ \A i \in DOMAIN wire[p] : wire[p][i].kind # "frame"
    /\ ~up \/ ~HasFrames(p) \/ ~Running(p)
    /\ \E quiet \in BOOLEAN :
         /\ quiet => wire[p] = <<>> /\ (~up \/ ~Running(p) \/ (Silent(p) /\ ~HasFrames(e)))
         /\ ep' = [ep EXCEPT ![e].active = FALSE, ![e].heard = @ /\ ~quiet]
    /\ ep' # ep
    /\ UNCHANGED <<wire, accepted, handed, queued, session, open, up, faults>>

Next ==
    \/ \E e \in Ends : QueueFrame(e) \/ SendFrame(e) \/ Poll(e) \/ Lose(e) \/ IdleTimeout(e)
    \/ \E sendsReset \in BOOLEAN : Disconnect(sendsReset)
    \/ Connect \/ Unplug \/ Plug

(* Both ends poll for ever, every millisecond or so: what has arrived is   *)
(* read, and since the line drains, a frame or an ACK that is due goes out *)
(* again and again.  The host reads only when its own answer finds room.   *)
Reads(e) == wire[Peer(e)] # <<>> /\ PollReading(e, 1, FALSE, FALSE, FALSE)
Resends(e) == HasFrames(e) /\ PollReading(e, 0, TRUE, FALSE, TRUE)
RepeatsAck(e) == ~Silent(e) /\ PollReading(e, 0, FALSE, TRUE, TRUE)
Fairness == /\ WF_vars(Reads("device")) /\ SF_vars(Reads("host"))
            /\ \A e \in Ends : SF_vars(Resends(e)) /\ SF_vars(RepeatsAck(e))
            /\ WF_vars(Connect) /\ WF_vars(Plug)

Spec == Init /\ [][Next]_vars /\ Fairness
-----------------------------------------------------------------------------
Bodies == (0..MaxSession) \X Nat

(* Shapes and ranges of the state.                                         *)
TMinTypeOK ==
    /\ \A e \in Ends :
         /\ ep[e].fifo \in Seq(Bodies)
         /\ {ep[e].snMin, ep[e].snMax, ep[e].rn} \subseteq 0..SeqCount - 1
         /\ DOMAIN ep[e].stash \subseteq 0..SeqCount - 1
         /\ ep[e].nack \in {NoSeq} \cup 0..SeqCount - 1
         /\ ep[e].rx = <<>> /\ ep[e].out = <<>>
         /\ Len(wire[e]) <= LinkCap + 1
    /\ session["device"] <= session["host"]
    /\ faults \in 0..MaxFaults

(* The assertions of _min_frame_received and of min.c: the window never    *)
(* exceeds its limit nor the frames in the FIFO, and the frames in it are  *)
(* exactly those whose time of sending is compared.                        *)
WindowSound ==
    \A e \in Ends : LET s == ep[e] IN
        /\ InWindow(s) <= Window /\ InWindow(s) <= Len(s.fifo)
        /\ Len(s.order) = InWindow(s)
        /\ \A i \in DOMAIN s.order : Off(s.order[i], s.snMin) < InWindow(s)

(* The device is in the session of the host: it has read the RESET with    *)
(* which the host ended the one before.  After a crash, or when the RESET  *)
(* was lost, the ends are out of step until a later RESET arrives.         *)
InStep == session["host"] = session["device"]

(* What an end takes in a session is what the peer queued, each frame      *)
(* once, in order, from the first on.                                      *)
AcceptedInOrder ==
    InStep => \A e \in Ends :
        accepted[e] = [i \in 1..Len(accepted[e]) |-> <<session["host"], i>>]

(* And the device calls its application exactly once for each frame it     *)
(* took, in whatever order.                                                *)
HandedOnce ==
    InStep =>
        /\ Len(handed) = Len(accepted["device"])
        /\ \A i \in DOMAIN accepted["device"] :
              \E n \in DOMAIN handed : handed[n] = <<session["host"], i>>

(* Across losses, resends, resets and crashes nothing is taken twice, left *)
(* out or taken from another session, by either end.                       *)
DeliveredOnce == AcceptedInOrder /\ HandedOnce

(* A frame leaves the FIFO of its sender only after the peer has taken it. *)
AckedWasAccepted ==
    InStep => \A e \in Ends : \A i \in 1..(queued[e] - Len(ep[e].fifo)) :
        <<session["host"], i>> \in {accepted[Peer(e)][j] : j \in DOMAIN accepted[Peer(e)]}

(* Every frame the host keeps for later lies ahead of the frame it waits   *)
(* for, within the window, and is the frame the device has at that number. *)
StashIsAhead ==
    LET h == ep["host"]  d == ep["device"] IN
    InStep =>
        \A q \in DOMAIN h.stash :
            /\ Off(q, h.rn) \in 1..(RxWindow - 1)
            /\ Off(q, d.snMin) < InWindow(d)
            /\ h.stash[q] = d.fifo[1 + Off(q, d.snMin)]

(* A NACK asks the device only for frames that are still in its window:    *)
(* min.c resends that many slots of its FIFO without looking, and asserts  *)
(* that they are no more than a window.                                    *)
NackIsAnswerable ==
    InStep /\ wire["host"] # <<>> /\ Head(wire["host"]).kind = "ack" =>
        LET m == Head(wire["host"])
            left == InWindow(ep["device"]) - Off(m.seq, ep["device"].snMin)
        IN  left >= 0 => Off(m.to, m.seq) <= left

(* Whatever crossed on the way, the window of each end fits its FIFO, and  *)
(* what the host keeps fits the window of the device.                      *)
EndsAgree == TMinTypeOK /\ WindowSound /\ StashIsAhead

(* With the cable in and the port open a queued frame is acknowledged in   *)
(* the end, unless the line has fallen silent for good: an end that has    *)
(* heard nothing for the idle time resends nothing, and one that has seen  *)
(* no application frame for that time repeats no ACK.  Out of step they    *)
(* may acknowledge nothing of each other until the next RESET.             *)
Stalled == \A e \in Ends : Silent(e) /\ wire[e] = <<>>
QueuedIsAcked ==
    \A e \in Ends : []<>(ep[e].fifo = <<>> \/ ~open \/ ~up \/ Stalled \/ ~InStep)
=============================================================================
