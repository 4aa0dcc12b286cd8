---------------------------- MODULE RecoveryProofs ----------------------------
(***************************************************************************)
(* Results of forgotten threads cannot move the connection: proved for any *)
(* number of loop threads and receive threads, any number of attempts,     *)
(* with reconnection on or off.  The states of a call are entered and left *)
(* by the steps of that call only.  That a disconnect which waits for a    *)
(* thread still finds something to disconnect rests on the lock it holds.  *)
(***************************************************************************)
EXTENDS ConnectionRecovery, FiniteSetTheorems, TLAPS

\* The results of a loop thread count in RECONNECTING only.
LEMMA LoopResults ==
    ASSUME NEW s, NEW e \in {"RECONNECT_SUCCESS", "RECONNECT_EXHAUSTED"}
    PROVE  \/ Transition(s, e) = s
           \/ s = "RECONNECTING" /\ Transition(s, e) \in {"CONNECTED", "DISCONNECTED"}
  BY DEF Transition

\* The results of a call end CONNECTING.
LEMMA CallResults ==
    /\ Transition("CONNECTING", "CONNECT_SUCCESS") = "CONNECTED"
    /\ Transition("CONNECTING", "CONNECT_FAILURE") = "DISCONNECTED"
  BY DEF Transition

\* A disconnect that is joining a thread has a connection to give up.
RInv ==
    /\ StateMatchesCall
    /\ user = "join_disconnect" => state # "DISCONNECTED"

\* What a step may do to the pair of state and call.
Loses == /\ user' = user /\ ~LockHeld
         /\ state = "CONNECTED" /\ state' \in {"RECONNECTING", "DISCONNECTED"}
Recovers == /\ user' = user /\ ~LockHeld
            /\ state = "RECONNECTING" /\ state' \in {"CONNECTED", "DISCONNECTED"}
Begins == /\ user = "idle" /\ user' \in {"join_connect", "join_disconnect"} /\ state' = state
          /\ user' = "join_disconnect" => state # "DISCONNECTED"
Connects == user = "join_connect" /\ user' = "connecting" /\ state' = "CONNECTING"
Answers == user = "connecting" /\ user' \in {"succeeded", "failed"} /\ state' = state
Decides == /\ user \in {"succeeded", "failed"} /\ user' = "idle"
           /\ state = "CONNECTING" => state' \in {"CONNECTED", "DISCONNECTED"}
Suspends == user = "join_disconnect" /\ user' = "closing" /\ state' = "SUSPENDED"
Closing == user = "closing" /\ user' = "closed" /\ state' = state
Finishes == user = "closed" /\ user' = "idle" /\ state' = "DISCONNECTED"
Stays == user' = user /\ state' = state

StepKinds ==
    \/ Loses \/ Recovers \/ Begins \/ Connects \/ Answers \/ Decides
    \/ Suspends \/ Closing \/ Finishes \/ Stays

\* Every step of every thread is of one of these kinds.
LEMMA StepsAreKinds == [Next]_vars => StepKinds
<1> SUFFICES ASSUME [Next]_vars PROVE StepKinds
  OBVIOUS
<1>1. CASE Connect
  BY <1>1 DEF Connect, StepKinds, Begins, Stays
<1>2. CASE Disconnect
  BY <1>2 DEF Disconnect, StepKinds, Begins, Stays
<1>3. CASE UserSteps
  <2>1. CASE JoinedConnect
    BY <2>1 DEF JoinedConnect, StepKinds, Connects
  <2>2. CASE ConnectEnds
    BY <2>2 DEF ConnectEnds, StepKinds, Answers
  <2>3. CASE ConnectSucceeded
    BY <2>3, CallResults DEF ConnectSucceeded, StepKinds, Decides
  <2>4. CASE ConnectFailed
    BY <2>4, CallResults DEF ConnectFailed, StepKinds, Decides
  <2>5. CASE JoinedDisconnect
    BY <2>5 DEF JoinedDisconnect, StepKinds, Suspends
  <2>6. CASE Closes
    BY <2>6 DEF Closes, StepKinds, Closing
  <2>7. CASE Closed
    BY <2>7 DEF Closed, StepKinds, Finishes
  <2> QED
    BY <1>3, <2>1, <2>2, <2>3, <2>4, <2>5, <2>6, <2>7 DEF UserSteps
<1>4. CASE LinkDrops \/ ReaderNotices
  BY <1>4 DEF LinkDrops, ReaderNotices, StepKinds, Stays
<1>5. ASSUME HandleConnectionLost, user' = user PROVE Loses \/ Stays
  BY <1>5 DEF HandleConnectionLost, Loses, Stays
<1>6. CASE ReaderReports
  BY <1>5, <1>6 DEF ReaderReports, StepKinds
<1>7. CASE SendFails
  <2>1. user' = user /\ (HandleConnectionLost \/ state' = state)
    BY <1>7 DEF SendFails
  <2> QED
    BY <1>5, <2>1 DEF StepKinds, Stays
<1>8. ASSUME NEW l \in LoopIds, LoopSteps(l) PROVE StepKinds
  <2>1. user' = user
    BY <1>8 DEF LoopSteps, LoopTop, CountAttempt, WaitEnds, AttemptEnds, Reconnected,
                BackOff, Exhausted, StopItself, JoinsOther, LoopEnds
  <2>2. CASE Reconnected(l)
    BY <2>1, <2>2, LoopResults DEF Reconnected, StepKinds, Recovers, Stays
  <2>3. CASE Exhausted(l)
    BY <2>1, <2>3, LoopResults DEF Exhausted, StepKinds, Recovers, Stays
  <2>4. CASE ~Reconnected(l) /\ ~Exhausted(l)
    <3>1. state' = state
      BY <1>8, <2>4 DEF LoopSteps, LoopTop, CountAttempt, WaitEnds, AttemptEnds,
                        BackOff, StopItself, JoinsOther, LoopEnds
    <3> QED
      BY <2>1, <3>1 DEF StepKinds, Stays
  <2> QED
    BY <2>2, <2>3, <2>4
<1>9. CASE UNCHANGED vars
  BY <1>9 DEF vars, StepKinds, Stays
<1> QED
  BY <1>1, <1>2, <1>3, <1>4, <1>6, <1>7, <1>8, <1>9 DEF Next

LEMMA RecoveryInvariant == Spec => []RInv
<1>1. Init => RInv
  BY DEF Init, RInv, StateMatchesCall
<1>2. RInv /\ StepKinds => RInv'
  BY DEF RInv, StateMatchesCall, StepKinds, LockHeld, Loses, Recovers, Begins, Connects,
         Answers, Decides, Suspends, Closing, Finishes, Stays
<1>3. RInv /\ [Next]_vars => RInv'
  BY <1>2, StepsAreKinds
<1> QED
  BY <1>1, <1>3, PTL DEF Spec

\* The state tells the call: CONNECTING and SUSPENDED belong to the user's own
\* connect and disconnect, whatever late results arrive meanwhile.
THEOREM StateFollowsCall == Spec => []StateMatchesCall
<1>1. RInv => StateMatchesCall
  BY DEF RInv
<1> QED
  BY <1>1, RecoveryInvariant, PTL

\* A connection that was given up is brought back by a call of connect only.
THEOREM GivenUpIsFinal == Spec => ClosedStaysClosed
<1> DEFINE Kept == state = "DISCONNECTED" /\ state' # state => user = "join_connect"
<1>1. RInv /\ StepKinds => Kept
  BY DEF RInv, StateMatchesCall, StepKinds, Loses, Recovers, Begins, Connects, Answers,
         Decides, Suspends, Closing, Finishes, Stays
<1>2. RInv /\ [Next]_vars => [Kept]_vars
  BY <1>1, StepsAreKinds
<1> QED
  BY <1>2, RecoveryInvariant, PTL DEF Spec, ClosedStaysClosed
-----------------------------------------------------------------------------
(* The counter of attempts is shared by the loop threads, those that a     *)
(* join gave up included.  Once it has reached the maximum a thread that   *)
(* counts is through with its attempts, and is started anew only when the  *)
(* counter is reset.                                                       *)

Attempting == {"top", "counting", "waiting", "connecting", "succeeded", "backing_off"}
Through == {l \in LoopIds : pc[l] \notin Attempting}

Valued ==
    /\ state \in ConnectionState
    /\ stop \in BOOLEAN /\ wanted \in BOOLEAN /\ link \in BOOLEAN
    /\ current \in LoopIds \cup {NoLoop} /\ target \in LoopIds \cup {NoLoop}
    /\ pc \in [LoopIds -> LoopPc] /\ joined \in [LoopIds -> LoopIds \cup {NoLoop}]
    /\ user \in UserPc

ReadersBounded == readers \in Nat /\ reporting \in Nat /\ readers + reporting <= MaxReaders
Counted == attempts \in Nat /\ attempts <= MaxAttempts + Cardinality(Through)

CountInv == Valued /\ ReadersBounded /\ Counted

LEMMA ThroughFinite ==
    /\ IsFiniteSet(Through) /\ Cardinality(Through) \in Nat
    /\ Cardinality(Through) <= Cardinality(LoopIds) /\ Cardinality(LoopIds) \in Nat
<1>1. IsFiniteSet(LoopIds) /\ Through \subseteq LoopIds
  BY RecoveryAssumption DEF Through
<1> QED
  BY <1>1, FS_Subset, FS_CardinalityType

\* A thread that moves, but does not begin anew, leaves those through.
LEMMA MovedThrough ==
    ASSUME pc \in [LoopIds -> LoopPc], NEW l \in LoopIds, NEW where \in LoopPc,
           pc' = [pc EXCEPT ![l] = where], pc[l] \in Attempting \/ where \notin Attempting
    PROVE  /\ Through' = IF where \in Attempting THEN Through ELSE Through \cup {l}
           /\ Cardinality(Through') >= Cardinality(Through)
           /\ Cardinality(Through') \in Nat
<1>1. Through' = IF where \in Attempting THEN Through ELSE Through \cup {l}
  BY DEF Through
<1>2. IsFiniteSet(Through) /\ Cardinality(Through) \in Nat
  BY ThroughFinite
<1>3. Cardinality(Through \cup {l}) = IF l \in Through THEN Cardinality(Through) ELSE Cardinality(Through) + 1
  BY <1>2, FS_AddElement
<1> QED
  BY <1>1, <1>2, <1>3

\* Only a thread that counts moves the counter; all other steps keep it or
\* set it back.
LEMMA KeptCount ==
    ASSUME CountInv, attempts' = attempts, NEW l \in LoopIds, NEW where \in LoopPc,
           pc' = [pc EXCEPT ![l] = where], pc[l] \in Attempting \/ where \notin Attempting
    PROVE  Counted'
<1>1. attempts \in Nat /\ attempts <= MaxAttempts + Cardinality(Through) /\ MaxAttempts \in Nat
  BY RecoveryAssumption DEF CountInv, Counted
<1>2. /\ Cardinality(Through') >= Cardinality(Through) /\ Cardinality(Through) \in Nat
      /\ Cardinality(Through') \in Nat
  BY MovedThrough, ThroughFinite DEF CountInv, Valued
<1>3. attempts <= MaxAttempts + Cardinality(Through')
  BY <1>1, <1>2
<1> QED
  BY <1>1, <1>3 DEF Counted

LEMMA NextCount ==
    ASSUME CountInv, NEW l \in LoopIds, CountAttempt(l)
    PROVE  Counted'
<1> DEFINE where == IF attempts + 1 > MaxAttempts THEN "exhausted" ELSE "waiting"
<1>1. attempts \in Nat /\ attempts <= MaxAttempts + Cardinality(Through) /\ MaxAttempts \in Nat
  BY RecoveryAssumption DEF CountInv, Counted
<1>2. /\ pc \in [LoopIds -> LoopPc] /\ pc[l] = "counting" /\ attempts' = attempts + 1
      /\ pc' = [pc EXCEPT ![l] = where] /\ where \in LoopPc
  BY DEF CountInv, Valued, CountAttempt, Goto, LoopPc
<1>3. pc[l] \in Attempting /\ l \notin Through
  BY <1>2 DEF Attempting, Through
<1>4. Through' = IF where \in Attempting THEN Through ELSE Through \cup {l}
  BY <1>2, <1>3, MovedThrough
<1>5. Cardinality(Through) \in Nat /\ Cardinality(Through \cup {l}) = Cardinality(Through) + 1
  BY <1>3, ThroughFinite, FS_AddElement
<1>6. CASE attempts + 1 > MaxAttempts
  <2>1. Through' = Through \cup {l}
    BY <1>4, <1>6 DEF Attempting
  <2>2. Cardinality(Through') = Cardinality(Through) + 1
    BY <1>5, <2>1
  <2> QED
    BY <1>1, <1>2, <1>5, <2>2 DEF Counted
<1>7. CASE ~(attempts + 1 > MaxAttempts)
  <2>1. Through' = Through
    BY <1>4, <1>7 DEF Attempting
  <2> QED
    BY <1>1, <1>2, <1>5, <1>7, <2>1 DEF Counted
<1> QED
  BY <1>6, <1>7

LEMMA SetBackCount == ASSUME attempts' = 0, pc' \in [LoopIds -> LoopPc] PROVE Counted'
<1>1. Through' \subseteq LoopIds /\ IsFiniteSet(LoopIds)
  BY RecoveryAssumption DEF Through
<1>2. Cardinality(Through') \in Nat
  BY <1>1, FS_Subset, FS_CardinalityType
<1> QED
  BY <1>2, RecoveryAssumption DEF Counted

LEMMA SameCount == ASSUME CountInv, attempts' = attempts, pc' = pc PROVE Counted'
BY DEF CountInv, Counted, Through

LEMMA LossCount ==
    ASSUME CountInv, HandleConnectionLost
    PROVE  /\ Counted' /\ state' \in ConnectionState /\ stop' \in BOOLEAN
           /\ current' \in LoopIds \cup {NoLoop} /\ pc' \in [LoopIds -> LoopPc]
<1>1. CASE attempts' = attempts /\ pc' = pc /\ UNCHANGED <<stop, current>>
           /\ state' \in {state, "DISCONNECTED"}
  BY <1>1, SameCount DEF CountInv, Valued, ConnectionState
<1>2. CASE attempts' = 0 /\ state' = "RECONNECTING" /\ StartReconnection
  <2>1. /\ pc' = pc \/ \E l \in LoopIds : pc' = [pc EXCEPT ![l] = "top"]
        /\ stop' \in BOOLEAN /\ current' \in LoopIds \cup {NoLoop}
    BY <1>2 DEF StartReconnection, CountInv, Valued
  <2>2. pc' \in [LoopIds -> LoopPc]
    BY <2>1 DEF CountInv, Valued, LoopPc
  <2> QED
    BY <1>2, <2>1, <2>2, SetBackCount DEF ConnectionState
<1> QED
  BY <1>1, <1>2 DEF HandleConnectionLost

\* The step of a loop thread, as far as the counters are concerned.
LEMMA LoopCount ==
    ASSUME CountInv, NEW l \in LoopIds, LoopSteps(l)
    PROVE  CountInv'
<1>1. pc \in [LoopIds -> LoopPc] /\ joined \in [LoopIds -> LoopIds \cup {NoLoop}]
  BY DEF CountInv, Valued
<1>2. PICK where \in LoopPc : pc' = [pc EXCEPT ![l] = where]
  BY DEF LoopSteps, LoopTop, CountAttempt, WaitEnds, AttemptEnds, Reconnected, BackOff, Exhausted,
         StopItself, JoinsOther, LoopEnds, Goto, LoopPc
<1>3. user' = user /\ target' = target /\ wanted' = wanted /\ reporting' = reporting
  BY DEF LoopSteps, LoopTop, CountAttempt, WaitEnds, AttemptEnds, Reconnected, BackOff, Exhausted,
         StopItself, JoinsOther, LoopEnds, transport
<1>4. stop' \in BOOLEAN /\ current' \in LoopIds \cup {NoLoop} /\ link' \in BOOLEAN
      /\ (readers' = readers \/ (readers + reporting < MaxReaders /\ readers' = readers + 1))
  BY DEF LoopSteps, LoopTop, CountAttempt, WaitEnds, AttemptEnds, Reconnected, BackOff, Exhausted,
         StopItself, JoinsOther, LoopEnds, transport, Opened, NotOpened, CountInv, Valued
<1>5. state' \in ConnectionState
  <2>1. state' \in {state, "CONNECTED", "DISCONNECTED"}
    BY DEF LoopSteps, LoopTop, CountAttempt, WaitEnds, AttemptEnds, Reconnected, BackOff, Exhausted,
           StopItself, JoinsOther, LoopEnds, Transition
  <2> QED
    BY <2>1 DEF CountInv, Valued, ConnectionState
<1>6. joined' \in [LoopIds -> LoopIds \cup {NoLoop}]
  <2>1. joined' = joined \/ \E c \in LoopIds \cup {NoLoop} : joined' = [joined EXCEPT ![l] = c]
    BY DEF LoopSteps, LoopTop, CountAttempt, WaitEnds, AttemptEnds, Reconnected, BackOff, Exhausted,
           StopItself, JoinsOther, LoopEnds, CountInv, Valued
  <2> QED
    BY <1>1, <2>1
<1>7. Valued'
  BY <1>1, <1>2, <1>3, <1>4, <1>5, <1>6 DEF CountInv, Valued
<1>8. ReadersBounded'
  BY <1>3, <1>4, RecoveryAssumption DEF CountInv, ReadersBounded
<1>9. Counted'
  <2>1. CASE CountAttempt(l)
    BY <2>1, NextCount
  <2>2. CASE ~CountAttempt(l)
    <3>1. attempts' = attempts
      BY <2>2 DEF LoopSteps, LoopTop, WaitEnds, AttemptEnds, Reconnected, BackOff, Exhausted,
                  StopItself, JoinsOther, LoopEnds
    <3>2. pc[l] \in Attempting \/ pc'[l] \notin Attempting
      BY <1>1, <1>2, <2>2 DEF LoopSteps, LoopTop, WaitEnds, AttemptEnds, Reconnected, BackOff,
                  Exhausted, StopItself, JoinsOther, LoopEnds, Goto, Attempting
    <3>3. pc'[l] = where
      BY <1>1, <1>2
    <3> QED
      BY <1>2, <3>1, <3>2, <3>3, KeptCount
  <2> QED
    BY <2>1, <2>2
<1> QED
  BY <1>7, <1>8, <1>9 DEF CountInv

LEMMA UserCount ==
    ASSUME CountInv, Connect \/ Disconnect \/ UserSteps
    PROVE  CountInv'
<1>1. attempts' = attempts /\ pc' = pc /\ joined' = joined /\ reporting' = reporting
  BY DEF Connect, Disconnect, UserSteps, JoinedConnect, ConnectEnds, ConnectSucceeded, ConnectFailed,
         JoinedDisconnect, Closes, Closed, loopVars, transport
<1>2. /\ stop' \in BOOLEAN /\ wanted' \in BOOLEAN /\ link' \in BOOLEAN /\ user' \in UserPc
      /\ current' \in LoopIds \cup {NoLoop} /\ target' \in LoopIds \cup {NoLoop}
  BY DEF Connect, Disconnect, UserSteps, JoinedConnect, ConnectEnds, ConnectSucceeded, ConnectFailed,
         JoinedDisconnect, Closes, Closed, loopVars, transport, Opened, NotOpened, CountInv, Valued, UserPc
<1>3. state' \in ConnectionState
  <2>1. state' \in {state, "CONNECTING", "SUSPENDED", "CONNECTED", "DISCONNECTED"}
    BY DEF Connect, Disconnect, UserSteps, JoinedConnect, ConnectEnds, ConnectSucceeded, ConnectFailed,
           JoinedDisconnect, Closes, Closed, Transition
  <2> QED
    BY <2>1 DEF CountInv, Valued, ConnectionState
<1>4. readers' \in {readers, 0} \/ (readers + reporting < MaxReaders /\ readers' = readers + 1)
  BY DEF Connect, Disconnect, UserSteps, JoinedConnect, ConnectEnds, ConnectSucceeded, ConnectFailed,
         JoinedDisconnect, Closes, Closed, transport, Opened, NotOpened
<1>5. ReadersBounded'
  BY <1>1, <1>4, RecoveryAssumption DEF CountInv, ReadersBounded
<1>6. Counted'
  BY <1>1, SameCount
<1> QED
  BY <1>1, <1>2, <1>3, <1>5, <1>6 DEF CountInv, Valued

LEMMA CountStep == ASSUME CountInv, [Next]_vars PROVE CountInv'
<1>1. CASE Connect \/ Disconnect \/ UserSteps
  BY <1>1, UserCount
<1>2. CASE LinkDrops
  BY <1>2, SameCount DEF LinkDrops, CountInv, Valued, ReadersBounded, loopVars
<1>3. CASE ReaderNotices
  <2>1. /\ readers' = readers - 1 /\ readers > 0
        /\ reporting' = reporting \/ reporting' = reporting + 1
    BY <1>3 DEF ReaderNotices
  <2>2. readers \in Nat /\ reporting \in Nat /\ readers + reporting <= MaxReaders /\ MaxReaders \in Nat
    BY RecoveryAssumption DEF CountInv, ReadersBounded
  <2>3. ReadersBounded'
    BY <2>1, <2>2 DEF ReadersBounded
  <2> QED
    BY <1>3, <2>3, SameCount DEF ReaderNotices, CountInv, Valued, loopVars
<1>4. CASE ReaderReports
  <2>1. ReadersBounded'
    <3>1. reporting > 0 /\ reporting' = reporting - 1 /\ readers' = readers
      BY <1>4 DEF ReaderReports
    <3> QED
      BY <3>1, RecoveryAssumption DEF CountInv, ReadersBounded
  <2>2. /\ Counted' /\ state' \in ConnectionState /\ stop' \in BOOLEAN
        /\ current' \in LoopIds \cup {NoLoop} /\ pc' \in [LoopIds -> LoopPc]
    BY <1>4, LossCount DEF ReaderReports
  <2> QED
    BY <1>4, <2>1, <2>2 DEF ReaderReports, CountInv, Valued
<1>5. CASE SendFails
  <2>1. ReadersBounded'
    BY <1>5 DEF SendFails, CountInv, ReadersBounded
  <2>2. /\ Counted' /\ state' \in ConnectionState /\ stop' \in BOOLEAN
        /\ current' \in LoopIds \cup {NoLoop} /\ pc' \in [LoopIds -> LoopPc]
    <3>1. CASE HandleConnectionLost
      BY <3>1, LossCount
    <3>2. CASE UNCHANGED <<state, attempts, stop, current, pc>>
      BY <3>2, SameCount DEF CountInv, Valued
    <3> QED
      BY <1>5, <3>1, <3>2 DEF SendFails
  <2> QED
    BY <1>5, <2>1, <2>2 DEF SendFails, CountInv, Valued
<1>6. ASSUME NEW l \in LoopIds, LoopSteps(l) PROVE CountInv'
  BY <1>6, LoopCount
<1>7. CASE UNCHANGED vars
  BY <1>7, SameCount DEF vars, CountInv, Valued, ReadersBounded
<1> QED
  BY <1>1, <1>2, <1>3, <1>4, <1>5, <1>6, <1>7 DEF Next

\* The counter of attempts goes beyond the maximum by one for each thread at
\* most, however many threads a join gave up and however they interleave
\* (_reconnect_loop), and every variable keeps its values.
THEOREM AttemptsBounded == Spec => []RecoveryTypeOK
<1>1. Init => CountInv
  <2> SUFFICES ASSUME Init PROVE CountInv
    OBVIOUS
  <2>1. Valued
    BY DEF Init, Valued, ConnectionState, UserPc, LoopPc
  <2>2. ReadersBounded /\ Counted
    BY RecoveryAssumption, ThroughFinite DEF Init, ReadersBounded, Counted
  <2> QED
    BY <2>1, <2>2 DEF CountInv
<1>2. CountInv /\ [Next]_vars => CountInv'
  BY CountStep
<1>3. CountInv => RecoveryTypeOK
  <2> SUFFICES ASSUME CountInv PROVE RecoveryTypeOK
    OBVIOUS
  <2>1. attempts \in 0 .. (MaxAttempts + Cardinality(LoopIds))
    BY RecoveryAssumption, ThroughFinite DEF CountInv, Counted
  <2>2. readers \in 0 .. MaxReaders /\ reporting \in 0 .. MaxReaders
    BY RecoveryAssumption DEF CountInv, ReadersBounded
  <2> QED
    BY <2>1, <2>2 DEF CountInv, Valued, RecoveryTypeOK
<1> QED
  BY <1>1, <1>2, <1>3, PTL DEF Spec
=============================================================================
