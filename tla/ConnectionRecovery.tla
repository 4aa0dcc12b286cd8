-------------------------- MODULE ConnectionRecovery --------------------------
(***************************************************************************)
(* The connection state machine of the configurator: the user's thread,    *)
(* the receive threads that report a lost connection and the threads of    *)
(* the reconnect loop, around one lock, one stop event and joins that give *)
(* up after two seconds.  Health checks are off in the controller.         *)
(***************************************************************************)
EXTENDS Naturals, FiniteSets

CONSTANTS
    LoopIds,        \* threads that may run the reconnect loop
    NoLoop,         \* "no thread" (None)
    MaxAttempts,    \* max_reconnect_attempts
    MaxReaders,     \* bound: receive threads alive at once
    AutoReconnect   \* auto_reconnect

ASSUME RecoveryAssumption ==
    /\ NoLoop \notin LoopIds /\ IsFiniteSet(LoopIds)
    /\ MaxAttempts \in Nat \ {0}
    /\ MaxReaders \in Nat
    /\ AutoReconnect \in BOOLEAN

VARIABLES
    state,      \* _state
    attempts,   \* _stats.reconnect_attempts
    stop,       \* _stop_reconnect
    current,    \* _reconnect_thread
    pc,         \* where each loop thread is; "ended" before and after its life
    joined,     \* the thread that an exhausted loop is joining
    user,       \* where the user's thread is
    target,     \* the thread the user's call is joining
    link,       \* the controller has an open transport
    readers,    \* receive threads that poll the transport
    reporting,  \* receive threads on their way into handle_connection_lost
    wanted      \* ~_user_disconnected

vars == <<state, attempts, stop, current, pc, joined, user, target, link, readers, reporting, wanted>>

ConnectionState == {"DISCONNECTED", "CONNECTING", "CONNECTED", "RECONNECTING", "SUSPENDED"}
UserPc == {"idle", "join_connect", "connecting", "succeeded", "failed",
           "join_disconnect", "closing", "closed"}
LoopPc == {"ended", "top", "counting", "waiting", "connecting", "succeeded", "backing_off",
           "exhausted", "stopping", "joining", "reporting", "leaving"}

\* Only a joining call of the user keeps the lock from one step to the next.
LockHeld == user \in {"join_connect", "join_disconnect"}
NeedsLock == {"counting", "succeeded", "backing_off", "exhausted"}

\* What may still be running two seconds after stop was set.
Slow(l) == pc[l] \in {"connecting", "joining"} \/ (LockHeld /\ pc[l] \in NeedsLock)
JoinEnds(l) == l \in LoopIds => pc[l] = "ended" \/ Slow(l)

\* Mutant: every result sets its state.
TransitionAlways(s, event) ==
    CASE event \in {"CONNECT_SUCCESS", "RECONNECT_SUCCESS"} -> "CONNECTED"
      [] event \in {"CONNECT_FAILURE", "RECONNECT_EXHAUSTED"} -> "DISCONNECTED"

\* _transition: an event that does not fit the state changes nothing.
Transition(s, event) ==
    CASE s = "CONNECTING" /\ event = "CONNECT_SUCCESS"       -> "CONNECTED"
      [] s = "CONNECTING" /\ event = "CONNECT_FAILURE"       -> "DISCONNECTED"
      [] s = "RECONNECTING" /\ event = "RECONNECT_SUCCESS"   -> "CONNECTED"
      [] s = "RECONNECTING" /\ event = "RECONNECT_EXHAUSTED" -> "DISCONNECTED"
      [] OTHER -> s

Init ==
    /\ state = "DISCONNECTED" /\ attempts = 0 /\ stop = FALSE /\ current = NoLoop
    /\ pc = [l \in LoopIds |-> "ended"] /\ joined = [l \in LoopIds |-> NoLoop]
    /\ user = "idle" /\ target = NoLoop
    /\ link = FALSE /\ readers = 0 /\ reporting = 0 /\ wanted = TRUE

loopVars == <<current, pc, joined>>
transport == <<link, readers, reporting>>

-----------------------------------------------------------------------------
\* The user's thread: connect and disconnect of the controller.

\* connect takes the lock and begins to stop the reconnection, unless there
\* is a connection already.
Connect ==
    /\ user = "idle"
    /\ wanted' = TRUE
    /\ IF state \in {"CONNECTED", "CONNECTING"}
       THEN UNCHANGED <<stop, user, target>>
       ELSE stop' = TRUE /\ target' = current /\ user' = "join_connect"
    /\ UNCHANGED <<state, attempts, loopVars, transport>>

\* The join is over; _do_connect begins with a transport that is not yet open.
JoinedConnect ==
    /\ user = "join_connect" /\ JoinEnds(target)
    /\ current' = NoLoop /\ target' = NoLoop
    /\ state' = "CONNECTING" /\ user' = "connecting" /\ link' = FALSE
    /\ UNCHANGED <<attempts, stop, pc, joined, readers, reporting, wanted>>

\* What _do_connect leaves behind: an open transport with its receive thread,
\* or none.
Opened == readers + reporting < MaxReaders /\ link' = TRUE /\ readers' = readers + 1
NotOpened == link' = FALSE /\ UNCHANGED readers

ConnectEnds ==
    /\ user = "connecting"
    /\ \/ Opened /\ user' = "succeeded"
       \/ NotOpened /\ user' = "failed"
    /\ UNCHANGED <<state, attempts, stop, loopVars, target, reporting, wanted>>

ConnectSucceeded ==
    /\ user = "succeeded"
    /\ state' = Transition(state, "CONNECT_SUCCESS")
    /\ user' = "idle"
    /\ UNCHANGED <<attempts, stop, loopVars, target, transport, wanted>>

ConnectFailed ==
    /\ user = "failed"
    /\ JoinEnds(current)
    /\ state' = Transition(state, "CONNECT_FAILURE")
    /\ IF state' = state
       THEN UNCHANGED <<stop, current>>
       ELSE stop' = TRUE /\ current' = NoLoop
    /\ user' = "idle"
    /\ UNCHANGED <<attempts, pc, joined, target, transport, wanted>>

Disconnect ==
    /\ user = "idle"
    /\ wanted' = FALSE
    /\ IF state = "DISCONNECTED"
       THEN UNCHANGED <<stop, user, target>>
       ELSE stop' = TRUE /\ target' = current /\ user' = "join_disconnect"
    /\ UNCHANGED <<state, attempts, loopVars, transport>>

\* Mutant: the join has no limit and is repeated until the thread has ended.
JoinedWithoutLimit ==
    /\ user = "join_disconnect"
    /\ IF target = NoLoop \/ pc[target] = "ended"
       THEN current' = NoLoop /\ target' = NoLoop /\ state' = "SUSPENDED" /\ user' = "closing"
       ELSE UNCHANGED <<current, target, state, user>>
    /\ UNCHANGED <<attempts, stop, pc, joined, transport, wanted>>

JoinedDisconnect ==
    /\ user = "join_disconnect" /\ JoinEnds(target)
    /\ current' = NoLoop /\ target' = NoLoop
    /\ state' = "SUSPENDED" /\ user' = "closing"
    /\ UNCHANGED <<attempts, stop, pc, joined, transport, wanted>>

\* _do_disconnect, which waits for the receive threads: they poll every few
\* milliseconds and the lock they may want is free.
Closes ==
    /\ user = "closing" /\ reporting = 0
    /\ link' = FALSE /\ readers' = 0 /\ user' = "closed"
    /\ UNCHANGED <<state, attempts, stop, loopVars, target, reporting, wanted>>

Closed ==
    /\ user = "closed"
    /\ state' = "DISCONNECTED" /\ user' = "idle"
    /\ UNCHANGED <<attempts, stop, loopVars, target, transport, wanted>>

-----------------------------------------------------------------------------
\* Losing the connection.

Free(l) == pc[l] = "ended" /\ \A j \in LoopIds : joined[j] # l

\* _start_reconnection: nothing if the last loop thread is still alive.
StartReconnection ==
    IF current # NoLoop /\ pc[current] # "ended"
    THEN UNCHANGED <<stop, current, pc>>
    ELSE /\ stop' = FALSE
         /\ \E l \in LoopIds : Free(l) /\ current' = l /\ pc' = [pc EXCEPT ![l] = "top"]

\* handle_connection_lost, called without the lock.
HandleConnectionLost ==
    /\ ~LockHeld
    /\ IF state # "CONNECTED"
       THEN UNCHANGED <<state, attempts, stop, current, pc>>
       ELSE IF AutoReconnect
       THEN state' = "RECONNECTING" /\ attempts' = 0 /\ StartReconnection
       ELSE state' = "DISCONNECTED" /\ UNCHANGED <<attempts, stop, current, pc>>

\* The device or the network closes the connection.
LinkDrops ==
    /\ link /\ link' = FALSE
    /\ UNCHANGED <<state, attempts, stop, loopVars, user, target, readers, reporting, wanted>>

\* A receive thread finds the transport closed and stops; it reports the loss
\* unless the user asked for it.
ReaderNotices ==
    /\ readers > 0 /\ ~link
    /\ readers' = readers - 1
    /\ reporting' = IF wanted THEN reporting + 1 ELSE reporting
    /\ UNCHANGED <<state, attempts, stop, loopVars, user, target, link, wanted>>

ReaderReports ==
    /\ reporting > 0
    /\ reporting' = reporting - 1
    /\ HandleConnectionLost
    /\ UNCHANGED <<joined, user, target, link, readers, wanted>>

\* A command of the user's thread cannot be sent, and that thread reports it.
SendFails ==
    /\ user = "idle" /\ link
    /\ link' = FALSE
    /\ IF wanted THEN HandleConnectionLost ELSE UNCHANGED <<state, attempts, stop, current, pc>>
    /\ UNCHANGED <<joined, user, target, readers, reporting, wanted>>

-----------------------------------------------------------------------------
\* A thread of the reconnect loop.

Goto(l, where) == pc' = [pc EXCEPT ![l] = where]

LoopTop(l) ==
    /\ pc[l] = "top"
    /\ Goto(l, IF stop THEN "ended" ELSE "counting")
    /\ UNCHANGED <<state, attempts, stop, current, joined, user, target, transport, wanted>>

\* Mutant: the attempt that exceeds the maximum is made.
CountWithoutLimit(l) ==
    /\ pc[l] = "counting" /\ ~LockHeld
    /\ attempts' = attempts + 1
    /\ Goto(l, "waiting")
    /\ UNCHANGED <<state, stop, current, joined, user, target, transport, wanted>>

CountAttempt(l) ==
    /\ pc[l] = "counting" /\ ~LockHeld
    /\ attempts' = attempts + 1
    /\ Goto(l, IF attempts + 1 > MaxAttempts THEN "exhausted" ELSE "waiting")
    /\ UNCHANGED <<state, stop, current, joined, user, target, transport, wanted>>

\* The wait ends with the stop event or with its time; then an attempt begins,
\* which replaces the transport.
WaitEnds(l) ==
    /\ pc[l] = "waiting"
    /\ IF stop
       THEN Goto(l, "ended") /\ UNCHANGED link
       ELSE Goto(l, "connecting") /\ link' = FALSE
    /\ UNCHANGED <<state, attempts, stop, current, joined, user, target, readers, reporting, wanted>>

AttemptEnds(l) ==
    /\ pc[l] = "connecting"
    /\ \/ Opened /\ Goto(l, "succeeded")
       \/ NotOpened /\ Goto(l, "backing_off")
    /\ UNCHANGED <<state, attempts, stop, current, joined, user, target, reporting, wanted>>

\* Mutant: a reconnection may also succeed after it was given up.
ReconnectedLate(l) ==
    /\ pc[l] = "succeeded" /\ ~LockHeld
    /\ state' = IF state \in {"DISCONNECTED", "RECONNECTING"} THEN "CONNECTED" ELSE state
    /\ Goto(l, "leaving")
    /\ UNCHANGED <<attempts, stop, current, joined, user, target, transport, wanted>>

Reconnected(l) ==
    /\ pc[l] = "succeeded" /\ ~LockHeld
    /\ state' = Transition(state, "RECONNECT_SUCCESS")
    /\ Goto(l, "leaving")
    /\ UNCHANGED <<attempts, stop, current, joined, user, target, transport, wanted>>

BackOff(l) ==
    /\ pc[l] = "backing_off" /\ ~LockHeld
    /\ Goto(l, "top")
    /\ UNCHANGED <<state, attempts, stop, current, joined, user, target, transport, wanted>>

\* The event of giving up; only a change of state has the reconnection stopped.
Exhausted(l) ==
    /\ pc[l] = "exhausted" /\ ~LockHeld
    /\ state' = Transition(state, "RECONNECT_EXHAUSTED")
    /\ Goto(l, IF state' = state THEN "reporting" ELSE "stopping")
    /\ UNCHANGED <<attempts, stop, current, joined, user, target, transport, wanted>>

\* _stop_reconnection on the loop's own thread: joining itself raises an
\* exception, which nobody catches.
StopItself(l) ==
    /\ pc[l] = "stopping"
    /\ stop' = TRUE
    /\ \/ current = l /\ Goto(l, "ended") /\ UNCHANGED joined
       \/ current = NoLoop /\ Goto(l, "reporting") /\ UNCHANGED joined
       \/ current \notin {l, NoLoop} /\ Goto(l, "joining") /\ joined' = [joined EXCEPT ![l] = current]
    /\ UNCHANGED <<state, attempts, current, user, target, transport, wanted>>

JoinsOther(l) ==
    /\ pc[l] = "joining" /\ JoinEnds(joined[l])
    /\ current' = NoLoop /\ joined' = [joined EXCEPT ![l] = NoLoop]
    /\ Goto(l, "reporting")
    /\ UNCHANGED <<state, attempts, stop, user, target, transport, wanted>>

\* on_reconnect_failed, or the end of the thread after a success.
LoopEnds(l) ==
    /\ pc[l] \in {"reporting", "leaving"}
    /\ Goto(l, "ended")
    /\ UNCHANGED <<state, attempts, stop, current, joined, user, target, transport, wanted>>

-----------------------------------------------------------------------------
UserSteps ==
    JoinedConnect \/ ConnectEnds \/ ConnectSucceeded \/ ConnectFailed
    \/ JoinedDisconnect \/ Closes \/ Closed
LoopSteps(l) ==
    LoopTop(l) \/ CountAttempt(l) \/ WaitEnds(l) \/ AttemptEnds(l) \/ Reconnected(l)
    \/ BackOff(l) \/ Exhausted(l) \/ StopItself(l) \/ JoinsOther(l) \/ LoopEnds(l)

Next ==
    \/ Connect \/ Disconnect \/ UserSteps
    \/ LinkDrops \/ ReaderNotices \/ ReaderReports \/ SendFails
    \/ \E l \in LoopIds : LoopSteps(l)

Spec == Init /\ [][Next]_vars

\* Threads that can run do run; nothing is assumed of the user or the network.
RecoveryFairness ==
    /\ WF_vars(UserSteps) /\ WF_vars(ReaderNotices) /\ WF_vars(ReaderReports)
    /\ \A l \in LoopIds : WF_vars(LoopSteps(l))
FairSpec == Spec /\ RecoveryFairness

-----------------------------------------------------------------------------
\* Values of the variables.  Threads forgotten by a join share the counter, so
\* each of them may take it one step above the limit before it gives up.
RecoveryTypeOK ==
    /\ state \in ConnectionState /\ attempts \in 0..(MaxAttempts + Cardinality(LoopIds))
    /\ stop \in BOOLEAN /\ wanted \in BOOLEAN /\ link \in BOOLEAN
    /\ current \in LoopIds \cup {NoLoop} /\ target \in LoopIds \cup {NoLoop}
    /\ pc \in [LoopIds -> LoopPc] /\ joined \in [LoopIds -> LoopIds \cup {NoLoop}]
    /\ user \in UserPc
    /\ readers \in 0..MaxReaders /\ reporting \in 0..MaxReaders

\* The state tells which call the user's thread is in, whatever forgotten loop
\* threads and late reports deliver meanwhile: CONNECTING exactly from the end
\* of the join until the result of that very call, SUSPENDED exactly while a
\* disconnect closes the transport.
StateMatchesCall ==
    /\ state = "CONNECTING" <=> user \in {"connecting", "succeeded", "failed"}
    /\ state = "SUSPENDED" <=> user \in {"closing", "closed"}

\* A connection that was given up, by the user or after the last attempt, comes
\* back only through a call of connect, never through a late result of a loop.
ClosedStaysClosed == [][state = "DISCONNECTED" /\ state' # state => user = "join_connect"]_vars

\* connect and disconnect return, although they wait for a thread that may want
\* the lock they hold.
UserIdle == user = "idle"
CallsReturn == ~UserIdle ~> UserIdle
=============================================================================
