---------------------------- MODULE ProfetProofs ----------------------------
(***************************************************************************)
(* The output driver is safe for every number of outputs, every threshold  *)
(* and every sequence of commands, readings and injected faults; the       *)
(* conversion of the sensed current fits its 16 bits; and load is shed in  *)
(* the order of the priorities and no output twice.                        *)
(*                                                                         *)
(* The inductive invariant of the driver says the same of every output:    *)
(* its record is GoodRecord.  It is proved once for each operation on a    *)
(* record, lifted to the operations on the driver value, and from there to *)
(* the actions.                                                            *)
(***************************************************************************)
EXTENDS LoadShedding, ProfetSense, Inductions, TLAPS

GoodRecord(r) ==
    /\ r \in Channel
    /\ r.pin => Active(r)
    /\ r.state = "ON" => r.pin /\ r.pwm_duty = PwmResolution
    /\ r.state = "PWM" => r.pwm_duty \in 1 .. PwmResolution - 1
    /\ r.fault_count >= FaultThreshold => InFaultState(r)
    /\ InFaultState(r) => r.fault_count > 0 /\ r.state \in r.fault_flags \cup {"OC"}
    /\ r.fault_flags # {} => r.fault_count > 0
    /\ ~InFaultState(r) => r.fault_count < FaultThreshold

Good == {r \in Channel : GoodRecord(r)}

GoodDriver(d) ==
    /\ d = [chan |-> d.chan, queue |-> d.queue]
    /\ d.chan \in [Outputs -> Good]
    /\ d.queue \in Queues

IInv ==
    /\ chan \in [Outputs -> Good]
    /\ queue \in Queues
    /\ tick \in 0 .. DiagPeriod - 1
    /\ pos \in 0 .. Idle

-----------------------------------------------------------------------------
(* Operations on one record. *)

LEMMA ModulusInRange ==
    ASSUME NEW n \in Nat, NEW m \in Nat \ {0}
    PROVE  n % m \in 0 .. m - 1
  OBVIOUS

LEMMA FaultToStateFaulty ==
    ASSUME NEW flags \in SUBSET Faults
    PROVE  FaultToState(flags) \in flags \cup {"OC"} /\ FaultToState(flags) \in FaultStates
  BY DEF FaultToState, Faults, FaultStates

LEMMA ConstantTypes ==
    /\ PwmResolution \in Nat /\ PwmResolution > 0
    /\ FaultThreshold \in Nat /\ FaultThreshold > 0
    /\ GraceMs \in Nat /\ OvercurrentMa \in Nat /\ ShortCircuitMa \in Nat
    /\ MaxFaultCount \in Nat /\ MaxFaultCount > FaultThreshold + 1
    /\ CurrentMod \in Nat \ {0}
  BY ProfetAssumption

LEMMA CountedRange ==
    ASSUME NEW n \in Nat
    PROVE  Counted(n) \in 0 .. MaxFaultCount
<1>1. n + 1 \in Nat /\ MaxFaultCount + 1 \in Nat \ {0}
  BY ConstantTypes
<1>2. (n + 1) % (MaxFaultCount + 1) \in 0 .. (MaxFaultCount + 1) - 1
  BY <1>1, ModulusInRange
<1> QED
  BY <1>2, ConstantTypes DEF Counted

\* Below its limit the eight bits count.
LEMMA CountedNext ==
    ASSUME NEW n \in Nat, n < MaxFaultCount
    PROVE  Counted(n) = n + 1
<1>1. \A a, b \in Nat : a < b => a % b = a
  OBVIOUS
<1>2. n + 1 \in Nat /\ MaxFaultCount + 1 \in Nat /\ n + 1 < MaxFaultCount + 1
  BY ConstantTypes
<1> QED
  BY <1>1, <1>2 DEF Counted

\* The shape every proof below has: the new record is a Channel, its changed
\* fields have known values, and the clauses of GoodRecord follow.

LEMMA UnlockedCount ==
    ASSUME NEW r \in Good, ~LockedOut(r)
    PROVE  /\ r \in Channel /\ r.fault_count \in Nat /\ r.fault_count < FaultThreshold
           /\ r.fault_flags # {} => r.fault_count > 0
  BY ConstantTypes DEF Good, GoodRecord, LockedOut, Channel

LEMMA SwitchedOnGood ==
    ASSUME NEW r \in Good, ~LockedOut(r)
    PROVE  SwitchedOn(r) \in Good
<1> DEFINE s == SwitchedOn(r)
<1>1. /\ "ON" \in States /\ PwmResolution \in 0 .. PwmResolution
      /\ 0 \in 0 .. GraceMs + 1 /\ TRUE \in BOOLEAN
  BY ConstantTypes DEF States, ActiveStates
<1>2. s \in Channel
  BY <1>1, UnlockedCount DEF SwitchedOn, Channel
<1>3. /\ s.state = "ON" /\ s.pin /\ s.pwm_duty = PwmResolution
      /\ s.fault_count = r.fault_count /\ s.fault_flags = r.fault_flags
  BY UnlockedCount DEF SwitchedOn, Channel
<1> QED
  BY <1>2, <1>3, UnlockedCount, ConstantTypes
  DEF Good, GoodRecord, Active, InFaultState, ActiveStates, FaultStates

LEMMA SwitchedOffGood ==
    ASSUME NEW r \in Good, ~LockedOut(r)
    PROVE  SwitchedOff(r) \in Good
<1> DEFINE s == SwitchedOff(r)
<1>1. /\ "OFF" \in States /\ 0 \in 0 .. PwmResolution
      /\ 0 \in 0 .. GraceMs + 1 /\ FALSE \in BOOLEAN
  BY ConstantTypes DEF States
<1>2. s \in Channel
  BY <1>1, UnlockedCount DEF SwitchedOff, Channel
<1>3. /\ s.state = "OFF" /\ ~s.pin
      /\ s.fault_count = r.fault_count /\ s.fault_flags = r.fault_flags
  BY UnlockedCount DEF SwitchedOff, Channel
<1> QED
  BY <1>2, <1>3, UnlockedCount, ConstantTypes
  DEF Good, GoodRecord, Active, InFaultState, ActiveStates, FaultStates

LEMMA ModulatedGood ==
    ASSUME NEW r \in Good, ~LockedOut(r), NEW duty \in 0 .. PwmResolution
    PROVE  Modulated(r, duty) \in Good
<1> DEFINE s == Modulated(r, duty)
<1>1. /\ {"ON", "OFF", "PWM"} \subseteq States /\ 0 \in 0 .. PwmResolution
      /\ TRUE \in BOOLEAN /\ FALSE \in BOOLEAN
  BY ConstantTypes DEF States, ActiveStates
<1>2. /\ r \in Channel /\ r.fault_count \in Nat /\ r.fault_count < FaultThreshold
      /\ r.fault_flags # {} => r.fault_count > 0
  BY UnlockedCount
<1>3. s \in Channel /\ s.fault_count = r.fault_count /\ s.fault_flags = r.fault_flags
  <2>1. CASE duty = 0
    BY <2>1, <1>1, <1>2 DEF Modulated, Channel
  <2>2. CASE duty # 0 /\ duty = PwmResolution
    BY <2>2, <1>1, <1>2 DEF Modulated, Channel
  <2>3. CASE duty # 0 /\ duty # PwmResolution
    BY <2>3, <1>1, <1>2 DEF Modulated, Channel
  <2> QED
    BY <2>1, <2>2, <2>3
<1>4. \/ s.state = "ON" /\ s.pin /\ s.pwm_duty = PwmResolution
      \/ s.state = "OFF" /\ ~s.pin
      \/ s.state = "PWM" /\ s.pwm_duty \in 1 .. PwmResolution - 1
  <2>1. CASE duty = 0
    BY <1>2, <2>1 DEF Modulated, Channel
  <2>2. CASE duty # 0 /\ duty = PwmResolution
    BY <1>2, <2>2 DEF Modulated, Channel
  <2>3. CASE duty # 0 /\ duty # PwmResolution
    <3>1. duty \in 1 .. PwmResolution - 1
      BY <2>3, ConstantTypes
    <3>2. s.state = "PWM" /\ s.pwm_duty = duty
      BY <1>2, <2>3 DEF Modulated, Channel
    <3> QED
      BY <3>1, <3>2
  <2> QED
    BY <2>1, <2>2, <2>3
<1> HIDE DEF s
<1>5. s \in Good
  BY <1>2, <1>3, <1>4, ConstantTypes
  DEF Good, GoodRecord, Active, InFaultState, ActiveStates, FaultStates
<1> QED
  BY <1>5 DEF s

LEMMA OverriddenGood ==
    ASSUME NEW r \in Good, NEW manual \in BOOLEAN
    PROVE  Overridden(r, manual) \in Good
<1> DEFINE s == Overridden(r, manual)
<1>1. r \in Channel /\ GoodRecord(r)
  BY DEF Good
<1>2. s \in Channel
  BY <1>1 DEF Overridden, Channel
<1>3. /\ s.state = r.state /\ s.pin = r.pin /\ s.fault_count = r.fault_count
      /\ s.fault_flags = r.fault_flags /\ s.pwm_duty = r.pwm_duty
  BY <1>1 DEF Overridden, Channel
<1> QED
  BY <1>1, <1>2, <1>3 DEF Good, GoodRecord, Active, InFaultState

LEMMA HealedGood ==
    ASSUME NEW r \in Good
    PROVE  Healed(r) \in Good
<1> DEFINE s == Healed(r)
<1>1. r \in Channel /\ GoodRecord(r)
  BY DEF Good
<1>2. "OFF" \in States /\ {} \in SUBSET Faults /\ 0 \in 0 .. MaxFaultCount
  BY ConstantTypes DEF States
<1>3. s \in Channel
  BY <1>1, <1>2 DEF Healed, Channel
<1>4. /\ s.pin = r.pin /\ s.fault_count = 0 /\ s.fault_flags = {} /\ s.pwm_duty = r.pwm_duty
      /\ s.state = IF r.state \in FaultStates THEN "OFF" ELSE r.state
  BY <1>1 DEF Healed, Channel
<1> QED
  BY <1>1, <1>3, <1>4, ConstantTypes
  DEF Good, GoodRecord, Active, InFaultState, ActiveStates, FaultStates

LEMMA InjectedGood ==
    ASSUME NEW r \in Good, r.fault_count < MaxFaultCount - 2,
           NEW flags \in SUBSET Faults
    PROVE  Injected(r, flags) \in Good
<1> DEFINE s == Injected(r, flags)
           to == FaultToState(flags)
<1>1. r \in Channel /\ r.fault_count \in Nat /\ r.fault_flags \in SUBSET Faults
  BY ConstantTypes DEF Good, Channel
<1>2. to \in flags \cup {"OC"} /\ to \in FaultStates /\ to \in States
  BY FaultToStateFaulty DEF States
<1>3. /\ r.fault_count + 1 \in 0 .. MaxFaultCount /\ r.fault_flags \cup flags \in SUBSET Faults
      /\ FALSE \in BOOLEAN /\ Counted(r.fault_count) = r.fault_count + 1
  BY <1>1, CountedNext, ConstantTypes
<1> HIDE DEF to
<1>4. s = [r EXCEPT !.fault_flags = r.fault_flags \cup flags,
                    !.fault_count = r.fault_count + 1, !.state = to, !.pin = FALSE]
  BY <1>1, <1>3 DEF Injected, Channel, to
<1> HIDE DEF s
<1>5. s \in Channel
  BY <1>1, <1>2, <1>3, <1>4 DEF Channel
<1>6. /\ s.state = to /\ ~s.pin /\ s.fault_count = r.fault_count + 1
      /\ s.fault_flags = r.fault_flags \cup flags
  BY <1>1, <1>4 DEF Channel
<1>7. s \in Good
  BY <1>1, <1>2, <1>5, <1>6, ConstantTypes
  DEF Good, GoodRecord, Active, InFaultState, ActiveStates, FaultStates
<1> QED
  BY <1>7 DEF s

LEMMA FaultedGood ==
    ASSUME NEW r \in Good, r.fault_count <= FaultThreshold, NEW fault \in Faults
    PROVE  /\ Faulted(r, fault) \in Good
           /\ Faulted(r, fault).fault_count = r.fault_count + 1
<1> DEFINE s == Faulted(r, fault)
           to == FaultToState({fault})
<1>1. /\ r \in Channel /\ GoodRecord(r) /\ r.fault_count \in Nat
      /\ r.fault_flags \in SUBSET Faults
  BY ConstantTypes DEF Good, Channel
<1>2. to \in {fault, "OC"} /\ to \in FaultStates /\ to \in States
  BY FaultToStateFaulty DEF States
<1>3. /\ r.fault_count + 1 \in 0 .. MaxFaultCount
      /\ r.fault_flags \cup {fault} \in SUBSET Faults /\ FALSE \in BOOLEAN
      /\ Counted(r.fault_count) = r.fault_count + 1
  BY <1>1, CountedNext, ConstantTypes
<1> HIDE DEF to
<1>4. CASE ShutsDown(r, fault)
  <2>1. s = [r EXCEPT !.fault_flags = r.fault_flags \cup {fault},
                      !.fault_count = r.fault_count + 1, !.state = to, !.pin = FALSE]
    BY <1>1, <1>3, <1>4 DEF Faulted, Channel, to
  <2> HIDE DEF s
  <2>2. s \in Channel
    BY <1>1, <1>2, <1>3, <2>1 DEF Channel
  <2>3. /\ s.state = to /\ ~s.pin /\ s.fault_count = r.fault_count + 1
        /\ s.fault_flags = r.fault_flags \cup {fault}
    BY <1>1, <1>2, <2>1 DEF Channel
  <2> QED
    BY <1>1, <1>2, <2>2, <2>3, ConstantTypes
    DEF Good, GoodRecord, Active, InFaultState, ActiveStates, FaultStates, s
<1>5. CASE ~ShutsDown(r, fault)
  <2>1. r.pin \in BOOLEAN /\ (r.pin /\ ~ShutsDown(r, fault)) = r.pin
    BY <1>1, <1>5 DEF Channel
  <2>2. s = [r EXCEPT !.fault_flags = r.fault_flags \cup {fault},
                      !.fault_count = r.fault_count + 1, !.state = r.state, !.pin = r.pin]
    BY <1>1, <1>3, <1>5, <2>1 DEF Faulted, Channel
  <2>3. r.fault_count + 1 < FaultThreshold
    BY <1>1, <1>3, <1>5, ConstantTypes DEF ShutsDown
  <2> HIDE DEF s
  <2>4. s \in Channel
    BY <1>1, <1>3, <2>2 DEF Channel
  <2>5. /\ s.state = r.state /\ s.pin = r.pin /\ s.fault_count = r.fault_count + 1
        /\ s.fault_flags = r.fault_flags \cup {fault} /\ s.pwm_duty = r.pwm_duty
    BY <1>1, <2>2 DEF Channel
  <2> QED
    BY <1>1, <2>3, <2>4, <2>5, ConstantTypes
    DEF Good, GoodRecord, Active, InFaultState, s
<1> QED
  BY <1>4, <1>5

LEMMA SensedGood ==
    ASSUME NEW r \in Good, NEW reading \in Readings
    PROVE  LET s == SenseCurrent(CountOnTime(r), reading)
           IN  s \in Good /\ s.state = r.state /\ s.fault_count = r.fault_count
<1> DEFINE u == CountOnTime(r)
           s == SenseCurrent(u, reading)
<1>1. r \in Channel /\ GoodRecord(r)
  BY DEF Good
<1>2. u \in Channel
  BY <1>1, ConstantTypes DEF CountOnTime, Channel
<1>3. /\ u.state = r.state /\ u.pin = r.pin /\ u.fault_count = r.fault_count
      /\ u.fault_flags = r.fault_flags /\ u.current_mA = r.current_mA
      /\ u.pwm_duty = r.pwm_duty
  BY <1>1 DEF CountOnTime, Channel
<1> HIDE DEF u
<1>4. ((u.current_mA * 3 + reading) \div 4) % CurrentMod \in 0 .. CurrentMod - 1
  <2>1. u.current_mA \in Nat /\ reading \in Nat
    BY <1>2, ProfetAssumption, ConstantTypes DEF Channel
  <2>2. (u.current_mA * 3 + reading) \div 4 \in Nat
    BY <2>1
  <2> QED
    BY <2>2, ModulusInRange, ConstantTypes
<1>5. /\ s \in Channel
      /\ s.state = r.state /\ s.pin = r.pin /\ s.fault_count = r.fault_count
      /\ s.fault_flags = r.fault_flags /\ s.pwm_duty = r.pwm_duty
  BY <1>2, <1>3, <1>4 DEF SenseCurrent, Channel
<1> QED
  BY <1>1, <1>5 DEF Good, GoodRecord, Active, InFaultState, u

-----------------------------------------------------------------------------
(* Operations on the driver value. *)

LEMMA PutGood ==
    ASSUME NEW d, GoodDriver(d), NEW c \in Outputs, NEW r \in Good
    PROVE  /\ GoodDriver(Put(d, c, r))
           /\ Put(d, c, r).chan[c] = r
  BY DEF GoodDriver, Put

LEMMA ReportGood ==
    ASSUME NEW d, GoodDriver(d), NEW c \in Outputs, NEW type \in EventTypes
    PROVE  /\ GoodDriver(Report(d, c, type))
           /\ Report(d, c, type).chan = d.chan
<1>1. Push(d.queue, type, c) \in Queues
  <2>1. d.queue \in Seq(Event) /\ Len(d.queue) <= QueueSize
    BY DEF GoodDriver, Queues
  <2>2. [type |-> type, source |-> c] \in Event
    BY ProfetAssumption DEF Event, Outputs
  <2> QED
    BY <2>1, <2>2, EventsAssumption DEF Push, Queues
<1> QED
  BY <1>1 DEF GoodDriver, Report

LEMMA DoSetStateGood ==
    ASSUME NEW d, GoodDriver(d), NEW c \in Outputs, NEW on \in BOOLEAN
    PROVE  GoodDriver(DoSetState(d, c, on))
<1> DEFINE r == d.chan[c]
           s == IF on THEN SwitchedOn(r) ELSE SwitchedOff(r)
<1>1. r \in Good
  BY DEF GoodDriver
<1>2. CASE LockedOut(r)
  BY <1>2 DEF DoSetState
<1>3. CASE ~LockedOut(r)
  <2>1. s \in Good
    BY <1>1, <1>3, SwitchedOnGood, SwitchedOffGood
  <2>2. GoodDriver(Put(d, c, s))
    BY <2>1, PutGood
  <2>3. /\ GoodDriver(Report(Put(d, c, s), c, "CHANNEL_ON"))
        /\ GoodDriver(Report(Put(d, c, s), c, "CHANNEL_OFF"))
    BY <2>2, ReportGood DEF EventTypes
  <2> QED
    BY <1>3, <2>2, <2>3 DEF DoSetState
<1> QED
  BY <1>2, <1>3

LEMMA DoSetStateManualGood ==
    ASSUME NEW d, GoodDriver(d), NEW c \in Outputs, NEW on \in BOOLEAN
    PROVE  GoodDriver(DoSetStateManual(d, c, on))
<1> DEFINE e == DoSetState(d, c, on)
<1>1. GoodDriver(e)
  BY DoSetStateGood
<1> HIDE DEF e
<1>2. Overridden(e.chan[c], TRUE) \in Good
  BY <1>1, OverriddenGood DEF GoodDriver
<1>3. GoodDriver(Put(e, c, Overridden(e.chan[c], TRUE)))
  BY <1>1, <1>2, PutGood
<1> QED
  BY <1>3 DEF DoSetStateManual, e

LEMMA DoSetPWMGood ==
    ASSUME NEW d, GoodDriver(d), NEW c \in Outputs, NEW duty \in Nat
    PROVE  GoodDriver(DoSetPWM(d, c, duty))
<1>1. d.chan[c] \in Good
  BY DEF GoodDriver
<1>2. ClampDuty(duty) \in 0 .. PwmResolution
  BY ConstantTypes DEF ClampDuty
<1> QED
  BY <1>1, <1>2, ModulatedGood, PutGood DEF DoSetPWM

LEMMA DoWriteOutputGood ==
    ASSUME NEW d, GoodDriver(d), NEW c \in Outputs, NEW value \in Nat
    PROVE  GoodDriver(DoWriteOutput(d, c, value))
<1>1. GoodDriver(DoSetState(d, c, TRUE)) /\ GoodDriver(DoSetState(d, c, FALSE))
  BY DoSetStateGood
<1>2. GoodDriver(DoSetPWM(DoSetState(d, c, TRUE), c, value))
  BY <1>1, DoSetPWMGood
<1> QED
  BY <1>1, <1>2 DEF DoWriteOutput

LEMMA DoLogicOutputGood ==
    ASSUME NEW d, GoodDriver(d), NEW c \in Outputs, NEW duty \in Nat
    PROVE  GoodDriver(DoLogicOutput(d, c, duty))
<1>1. (duty > 0) \in BOOLEAN
  OBVIOUS
<1>2. GoodDriver(DoSetState(d, c, duty > 0)) /\ GoodDriver(DoSetPWM(d, c, duty))
  BY <1>1, DoSetStateGood, DoSetPWMGood
<1> QED
  BY <1>2 DEF DoLogicOutput

LEMMA DoClearFaultsGood ==
    ASSUME NEW d, GoodDriver(d), NEW c \in Outputs
    PROVE  GoodDriver(DoClearFaults(d, c))
<1> DEFINE e == Put(d, c, Healed(d.chan[c]))
<1>1. GoodDriver(e)
  BY HealedGood, PutGood DEF GoodDriver
<1>2. GoodDriver(Report(e, c, "CHANNEL_CLEARED"))
  BY <1>1, ReportGood DEF EventTypes
<1> QED
  BY <1>1, <1>2 DEF DoClearFaults

LEMMA HandleFaultGood ==
    ASSUME NEW d, GoodDriver(d), NEW c \in Outputs, NEW fault \in Faults,
           d.chan[c].fault_count <= FaultThreshold
    PROVE  /\ GoodDriver(HandleFault(d, c, fault))
           /\ HandleFault(d, c, fault).chan[c].fault_count = d.chan[c].fault_count + 1
<1> DEFINE s == Faulted(d.chan[c], fault)
           e == Put(d, c, s)
<1>1. s \in Good /\ s.fault_count = d.chan[c].fault_count + 1
  BY FaultedGood DEF GoodDriver
<1> HIDE DEF s
<1>2. GoodDriver(e) /\ e.chan[c] = s
  BY <1>1, PutGood
<1> HIDE DEF e
<1>3. /\ GoodDriver(Report(e, c, "CHANNEL_FAULT"))
      /\ Report(e, c, "CHANNEL_FAULT").chan = e.chan
  BY <1>2, ReportGood DEF EventTypes
<1> QED
  BY <1>1, <1>2, <1>3 DEF HandleFault, e, s

LEMMA DiagnoseGood ==
    ASSUME NEW d, GoodDriver(d), NEW c \in Outputs, NEW temp
    PROVE  GoodDriver(Diagnose(d, c, temp))
<1> DEFINE r == d.chan[c]
           loadChecked == IF OpenLoad(r) THEN HandleFault(d, c, "OL") ELSE d
<1>1. CASE ~Active(r)
  BY <1>1 DEF Diagnose
<1>2. CASE Active(r)
  <2>1. /\ r \in Channel /\ r.fault_count \in Nat /\ r.fault_count < FaultThreshold
    BY <1>2, ConstantTypes
    DEF GoodDriver, Good, GoodRecord, Channel, Active, InFaultState, ActiveStates, FaultStates
  <2>2. \A fault \in Faults :
            /\ GoodDriver(HandleFault(d, c, fault))
            /\ HandleFault(d, c, fault).chan[c].fault_count = r.fault_count + 1
    BY <2>1, HandleFaultGood, ConstantTypes
  <2>3. GoodDriver(loadChecked) /\ loadChecked.chan[c].fault_count <= FaultThreshold
    BY <2>1, <2>2, ConstantTypes DEF Faults
  <2> HIDE DEF loadChecked
  <2>4. GoodDriver(HandleFault(loadChecked, c, "OT"))
    BY <2>3, HandleFaultGood DEF Faults
  <2> QED
    BY <1>2, <2>2, <2>3, <2>4 DEF Diagnose, Faults, loadChecked
<1> QED
  BY <1>1, <1>2

LEMMA RefreshGood ==
    ASSUME NEW d, GoodDriver(d), NEW c \in Outputs, NEW reading \in Readings,
           NEW temp, NEW diagnose \in BOOLEAN
    PROVE  GoodDriver(Refresh(d, c, reading, temp, diagnose))
<1> DEFINE s == SenseCurrent(CountOnTime(d.chan[c]), reading)
<1>1. s \in Good
  BY SensedGood DEF GoodDriver
<1>2. GoodDriver(Put(d, c, s))
  BY <1>1, PutGood
<1>3. GoodDriver(Diagnose(Put(d, c, s), c, temp))
  BY <1>2, DiagnoseGood
<1> QED
  BY <1>2, <1>3 DEF Refresh

-----------------------------------------------------------------------------
(* The inductive invariant. *)

LEMMA IInvDriver == IInv => GoodDriver(Driver)
  BY DEF IInv, GoodDriver, Driver

LEMMA BecomeGood ==
    ASSUME NEW d, GoodDriver(d), Become(d)
    PROVE  chan' \in [Outputs -> Good] /\ queue' \in Queues
  BY DEF GoodDriver, Become

LEMMA CommandGood ==
    ASSUME IInv, NEW d, GoodDriver(d), Command(d)
    PROVE  IInv'
  BY BecomeGood DEF IInv, Command

LEMMA InitGood == ProfetInit => IInv
<1> SUFFICES ASSUME ProfetInit PROVE IInv
  OBVIOUS
<1>1. InitialChannel \in Channel
  <2>1. /\ "OFF" \in States /\ 0 \in 0 .. PwmResolution /\ 0 \in 0 .. GraceMs + 1
        /\ {} \in SUBSET Faults /\ 0 \in 0 .. MaxFaultCount
        /\ 0 \in 0 .. CurrentMod - 1 /\ FALSE \in BOOLEAN
    BY ConstantTypes DEF States
  <2> QED
    BY <2>1 DEF InitialChannel, Channel
<1>2. InitialChannel \in Good
  BY <1>1, ConstantTypes
  DEF Good, GoodRecord, InitialChannel, Active, InFaultState, ActiveStates, FaultStates
<1>3. chan \in [Outputs -> Good]
  BY <1>2 DEF ProfetInit
<1>4. queue \in Queues
  BY EventsAssumption DEF ProfetInit, Queues
<1>5. tick \in 0 .. DiagPeriod - 1 /\ pos \in 0 .. Idle
  BY ProfetAssumption DEF ProfetInit, Idle
<1> QED
  BY <1>3, <1>4, <1>5 DEF IInv

LEMMA UpdateGood == IInv /\ Update => IInv'
<1> SUFFICES ASSUME IInv, Update PROVE IInv'
  OBVIOUS
<1>1. CASE UpdateBegin
  <2>1. (tick + 1) % DiagPeriod \in 0 .. DiagPeriod - 1
    BY ProfetAssumption, ModulusInRange DEF IInv
  <2> QED
    BY <1>1, <2>1, ProfetAssumption DEF UpdateBegin, IInv, Idle
<1>2. ASSUME NEW reading \in Readings, NEW temp \in Temps, UpdateChannel(reading, temp)
      PROVE  IInv'
  <2>1. pos \in Outputs /\ (tick = 0) \in BOOLEAN
    BY <1>2, ProfetAssumption DEF UpdateChannel, IInv, Idle, Outputs
  <2>2. GoodDriver(Refresh(Driver, pos, reading, temp, tick = 0))
    BY <2>1, IInvDriver, RefreshGood
  <2>3. chan' \in [Outputs -> Good] /\ queue' \in Queues
    BY <1>2, <2>2, BecomeGood DEF UpdateChannel
  <2>4. tick' = tick /\ pos' = pos + 1
    BY <1>2 DEF UpdateChannel
  <2> QED
    BY <2>1, <2>3, <2>4, ProfetAssumption DEF IInv, Idle, Outputs
<1> QED
  BY <1>1, <1>2 DEF Update

LEMMA ControlCommandGood == IInv /\ ControlCommand => IInv'
<1> SUFFICES ASSUME IInv, NEW c \in Outputs,
                    \/ \E on \in BOOLEAN : SetState(c, on)
                    \/ \E duty \in Duties : SetPWM(c, duty)
                    \/ \E value \in Duties : WriteOutput(c, value)
                    \/ \E duty \in Duties : LogicOutput(c, duty)
             PROVE  IInv'
  BY DEF ControlCommand
<1> USE IInvDriver
<1>1. ASSUME NEW on \in BOOLEAN, SetState(c, on) PROVE IInv'
  BY <1>1, DoSetStateGood, CommandGood DEF SetState
<1>2. ASSUME NEW duty \in Duties, SetPWM(c, duty) PROVE IInv'
  BY <1>2, DoSetPWMGood, CommandGood, ProfetAssumption DEF SetPWM
<1>3. ASSUME NEW value \in Duties, WriteOutput(c, value) PROVE IInv'
  BY <1>3, DoWriteOutputGood, CommandGood, ProfetAssumption DEF WriteOutput
<1>4. ASSUME NEW duty \in Duties, LogicOutput(c, duty) PROVE IInv'
  BY <1>4, DoLogicOutputGood, CommandGood, ProfetAssumption DEF LogicOutput
<1> QED
  BY <1>1, <1>2, <1>3, <1>4

LEMMA ServiceCommandGood == IInv /\ ServiceCommand => IInv'
<1> SUFFICES ASSUME IInv, ServiceCommand PROVE IInv'
  OBVIOUS
<1> USE IInvDriver
<1>1. ASSUME NEW c \in Outputs, NEW on \in BOOLEAN, SetStateManual(c, on) PROVE IInv'
  BY <1>1, DoSetStateManualGood, CommandGood DEF SetStateManual
<1>2. ASSUME NEW c \in Outputs, ClearManualOverride(c) PROVE IInv'
  <2>1. Overridden(chan[c], FALSE) \in Good
    BY OverriddenGood DEF IInv
  <2> QED
    BY <1>2, <2>1, PutGood, CommandGood DEF ClearManualOverride
<1>3. ASSUME NEW c \in Outputs, ClearFaults(c) PROVE IInv'
  BY <1>3, DoClearFaultsGood, CommandGood DEF ClearFaults
<1>4. ASSUME NEW c \in Outputs, NEW flags \in SUBSET Faults, InjectFault(c, flags)
      PROVE  IInv'
  <2>2. chan[c] \in Good
    BY DEF IInv
  <2>3. chan[c].fault_count < MaxFaultCount - 2
    BY <1>4 DEF InjectFault
  <2>4. Injected(chan[c], flags) \in Good
    BY <2>2, <2>3, InjectedGood
  <2>5. GoodDriver(Put(Driver, c, Injected(chan[c], flags)))
    BY <2>4, PutGood
  <2> QED
    BY <1>4, <2>5, CommandGood DEF InjectFault
<1>5. CASE ClearAllManualOverrides
  <2> DEFINE e == [chan |-> [c \in Outputs |-> Overridden(chan[c], FALSE)], queue |-> queue]
  <2>1. \A c \in Outputs : Overridden(chan[c], FALSE) \in Good
    BY OverriddenGood DEF IInv
  <2>2. GoodDriver(e)
    BY <2>1 DEF GoodDriver, IInv
  <2> QED
    BY <1>5, <2>2, CommandGood DEF ClearAllManualOverrides
<1> QED
  BY <1>1, <1>2, <1>3, <1>4, <1>5 DEF ServiceCommand

LEMMA NextGood == IInv /\ [ProfetNext]_profetVars => IInv'
<1>1. IInv /\ UNCHANGED profetVars => IInv'
  BY DEF IInv, profetVars
<1> QED
  BY <1>1, UpdateGood, ControlCommandGood, ServiceCommandGood DEF ProfetNext

\* The inductive invariant holds of every behaviour of the driver.
THEOREM DriverInvariant == ProfetSpec => []IInv
  BY InitGood, NextGood, PTL DEF ProfetSpec

\* The state keeps its type: no width, range or queue bound is ever exceeded.
THEOREM TypeCorrect == ProfetSpec => []TypeOK
<1>1. IInv => TypeOK
  BY DEF IInv, TypeOK, Good
<1> QED
  BY <1>1, DriverInvariant, PTL

\* A pin is high only while the diagnostics watch the output.
THEOREM PinWatched == ProfetSpec => []PinIsWatched
<1>1. IInv => PinIsWatched
  BY DEF IInv, PinIsWatched, Good, GoodRecord
<1> QED
  BY <1>1, DriverInvariant, PTL

\* An output that reports ON drives its pin.
THEOREM OnDrivesPin == ProfetSpec => []OnIsDriven
<1>1. IInv => OnIsDriven
  BY DEF IInv, OnIsDriven, Good, GoodRecord
<1> QED
  BY <1>1, DriverInvariant, PTL

\* The reported duty is the one the state implies, full for ON and strictly
\* between the ends for PWM.
THEOREM DutyAndStateAgree == ProfetSpec => []DutyMatchesState
<1>1. IInv => DutyMatchesState
  BY DEF IInv, DutyMatchesState, Good, GoodRecord
<1> QED
  BY <1>1, DriverInvariant, PTL

\* Reaching the fault threshold means being locked out with the pin low.
THEOREM ThresholdLocksOut == ProfetSpec => []ThreeFaultsLockOut
<1>1. IInv => ThreeFaultsLockOut
  BY DEF IInv, ThreeFaultsLockOut, Good, GoodRecord, LockedOut, Active, InFaultState,
     ActiveStates, FaultStates
<1> QED
  BY <1>1, DriverInvariant, PTL

\* A fault state has a positive count behind it and, but for the overcurrent
\* state, to which a flag without a state of its own falls back, its own flag.
THEOREM FaultsAreRecorded == ProfetSpec => []FaultRecorded
<1>1. IInv => FaultRecorded
  BY DEF IInv, FaultRecorded, Good, GoodRecord
<1> QED
  BY <1>1, DriverInvariant, PTL

\* Pin, state and duty tell the same thing after any mix of operations.
THEOREM OutputsAgree == ProfetSpec => []OutputAgrees
<1>1. PinIsWatched /\ OnIsDriven /\ DutyMatchesState => OutputAgrees
  BY DEF OutputAgrees
<1> QED
  BY <1>1, PinWatched, OnDrivesPin, DutyAndStateAgree, PTL

\* Count, flags, state and pin agree on the faults an output has had, as far
\* as InjectFault lets them: the fallback state needs no flag of its own.
THEOREM FaultsAreExplained == ProfetSpec => []FaultsExplained
<1>1. ThreeFaultsLockOut /\ FaultRecorded => FaultsExplained
  BY DEF FaultsExplained
<1> QED
  BY <1>1, ThresholdLocksOut, FaultsAreRecorded, PTL

-----------------------------------------------------------------------------
(* The lockout and the promise of the smart fuse.  An operation on output c  *)
(* leaves the others alone, and takes a locked-out c to a locked-out or to a *)
(* healed, switched-off record.                                              *)

Kept(r, s) == LockedOut(r) => LockedOut(s) \/ (s.fault_count = 0 /\ Mode(s) = "off")

Touches(d, e, c) ==
    /\ \A o \in Outputs \ {c} : e.chan[o] = d.chan[o]
    /\ Kept(d.chan[c], e.chan[c])

LEMMA TouchesSelf == \A d, c : Touches(d, d, c)
  BY DEF Touches, Kept

LEMMA TouchesPut ==
    ASSUME NEW d, GoodDriver(d), NEW c \in Outputs, NEW r, Kept(d.chan[c], r)
    PROVE  Touches(d, Put(d, c, r), c)
  BY DEF Touches, Put, GoodDriver

LEMMA TouchesReport ==
    ASSUME NEW d, NEW e, NEW c, Touches(d, e, c), NEW type
    PROVE  Touches(d, Report(e, c, type), c)
  BY DEF Touches, Report

LEMMA DoSetStateTouches ==
    ASSUME NEW d, GoodDriver(d), NEW c \in Outputs, NEW on \in BOOLEAN
    PROVE  /\ Touches(d, DoSetState(d, c, on), c)
           /\ LockedOut(d.chan[c]) => DoSetState(d, c, on) = d
<1> DEFINE r == d.chan[c]
           e == Put(d, c, IF on THEN SwitchedOn(r) ELSE SwitchedOff(r))
<1>1. CASE LockedOut(r)
  BY <1>1, TouchesSelf DEF DoSetState
<1>2. CASE ~LockedOut(r)
  <2>1. Touches(d, e, c)
    BY <1>2, TouchesPut DEF Kept
  <2> HIDE DEF e
  <2>2. /\ Touches(d, Report(e, c, "CHANNEL_ON"), c)
        /\ Touches(d, Report(e, c, "CHANNEL_OFF"), c)
    BY <2>1, TouchesReport
  <2> QED
    BY <1>2, <2>1, <2>2 DEF DoSetState, e
<1> QED
  BY <1>1, <1>2

LEMMA DoSetPWMTouches ==
    ASSUME NEW d, GoodDriver(d), NEW c \in Outputs, NEW duty
    PROVE  /\ Touches(d, DoSetPWM(d, c, duty), c)
           /\ LockedOut(d.chan[c]) => DoSetPWM(d, c, duty) = d
<1>1. CASE LockedOut(d.chan[c])
  BY <1>1, TouchesSelf DEF DoSetPWM
<1>2. CASE ~LockedOut(d.chan[c])
  BY <1>2, TouchesPut DEF DoSetPWM, Kept
<1> QED
  BY <1>1, <1>2

LEMMA DoSetStateManualTouches ==
    ASSUME NEW d, GoodDriver(d), NEW c \in Outputs, NEW on \in BOOLEAN
    PROVE  Touches(d, DoSetStateManual(d, c, on), c)
<1> DEFINE e == DoSetState(d, c, on)
<1>1. Touches(d, e, c) /\ GoodDriver(e)
  BY DoSetStateTouches, DoSetStateGood
<1> HIDE DEF e
<1>2. CASE LockedOut(d.chan[c])
  BY <1>2, TouchesSelf DEF DoSetStateManual
<1>3. CASE ~LockedOut(d.chan[c])
  BY <1>1, <1>3 DEF DoSetStateManual, Touches, Put, Kept, GoodDriver, e
<1> QED
  BY <1>2, <1>3

LEMMA DoWriteOutputTouches ==
    ASSUME NEW d, GoodDriver(d), NEW c \in Outputs, NEW value \in Nat
    PROVE  Touches(d, DoWriteOutput(d, c, value), c)
<1> DEFINE e == DoSetState(d, c, TRUE)
           f == DoSetPWM(e, c, value)
<1>1. /\ Touches(d, e, c) /\ GoodDriver(e)
      /\ LockedOut(d.chan[c]) => e = d
      /\ Touches(d, DoSetState(d, c, FALSE), c)
  BY DoSetStateTouches, DoSetStateGood
<1> HIDE DEF e
<1>2. Touches(e, f, c) /\ (LockedOut(e.chan[c]) => f = e)
  BY <1>1, DoSetPWMTouches
<1> HIDE DEF f
<1>3. Touches(d, f, c)
  BY <1>1, <1>2 DEF Touches, Kept
<1> QED
  BY <1>1, <1>3 DEF DoWriteOutput, e, f

LEMMA DoLogicOutputTouches ==
    ASSUME NEW d, GoodDriver(d), NEW c \in Outputs, NEW duty \in Nat
    PROVE  Touches(d, DoLogicOutput(d, c, duty), c)
<1>1. (duty > 0) \in BOOLEAN
  OBVIOUS
<1>2. Touches(d, DoSetState(d, c, duty > 0), c) /\ Touches(d, DoSetPWM(d, c, duty), c)
  BY <1>1, DoSetStateTouches, DoSetPWMTouches
<1> QED
  BY <1>2, TouchesSelf DEF DoLogicOutput

LEMMA HealedKept ==
    ASSUME NEW r \in Good
    PROVE  Kept(r, Healed(r))
<1>1. CASE LockedOut(r)
  <2>1. r \in Channel /\ r.state \in FaultStates /\ r.state \notin ActiveStates /\ ~r.pin
    BY <1>1 DEF Good, GoodRecord, LockedOut, InFaultState, Active, FaultStates, ActiveStates
  <2>2. /\ Healed(r).fault_count = 0 /\ Healed(r).state = "OFF"
        /\ Healed(r).pin = r.pin
    BY <2>1 DEF Healed, Channel
  <2> QED
    BY <2>1, <2>2 DEF Kept, Mode, LockedOut, InFaultState, Active, FaultStates, ActiveStates
<1> QED
  BY <1>1 DEF Kept

LEMMA DoClearFaultsTouches ==
    ASSUME NEW d, GoodDriver(d), NEW c \in Outputs
    PROVE  Touches(d, DoClearFaults(d, c), c)
<1> DEFINE e == Put(d, c, Healed(d.chan[c]))
<1>1. Touches(d, e, c)
  BY HealedKept, TouchesPut DEF GoodDriver
<1>2. Touches(d, Report(e, c, "CHANNEL_CLEARED"), c)
  BY <1>1, TouchesReport
<1> QED
  BY <1>1, <1>2 DEF DoClearFaults

LEMMA InjectedKept ==
    ASSUME NEW r \in Good, r.fault_count < MaxFaultCount - 2, NEW flags \in SUBSET Faults
    PROVE  Kept(r, Injected(r, flags))
<1>1. r \in Channel /\ r.fault_count \in Nat /\ Counted(r.fault_count) = r.fault_count + 1
  BY CountedNext, ConstantTypes DEF Good, Channel
<1>2. /\ Injected(r, flags).fault_count = r.fault_count + 1
      /\ Injected(r, flags).state = FaultToState(flags)
  BY <1>1 DEF Injected, Channel
<1> QED
  BY <1>1, <1>2, FaultToStateFaulty, ConstantTypes DEF Kept, LockedOut, InFaultState

LEMMA HandleFaultTouches ==
    ASSUME NEW d, GoodDriver(d), NEW c \in Outputs, NEW fault, ~LockedOut(d.chan[c])
    PROVE  Touches(d, HandleFault(d, c, fault), c)
<1> DEFINE e == Put(d, c, Faulted(d.chan[c], fault))
<1>1. Touches(d, e, c)
  BY TouchesPut DEF Kept
<1>2. Touches(d, Report(e, c, "CHANNEL_FAULT"), c)
  BY <1>1, TouchesReport
<1> QED
  BY <1>1, <1>2 DEF HandleFault

LEMMA DiagnoseTouches ==
    ASSUME NEW d, GoodDriver(d), NEW c \in Outputs, NEW temp
    PROVE  /\ \A o \in Outputs \ {c} : Diagnose(d, c, temp).chan[o] = d.chan[o]
           /\ LockedOut(d.chan[c]) => Diagnose(d, c, temp) = d
<1>1. LockedOut(d.chan[c]) => ~Active(d.chan[c])
  BY DEF LockedOut, InFaultState, Active, FaultStates, ActiveStates
<1>2. \A f, fault : \A o \in Outputs \ {c} : f.chan \in [Outputs -> Good] =>
            /\ HandleFault(f, c, fault).chan[o] = f.chan[o]
  BY DEF HandleFault, Put, Report
<1>3. d.chan \in [Outputs -> Good]
  BY DEF GoodDriver
<1>4. CASE ~Active(d.chan[c])
  BY <1>4 DEF Diagnose
<1>5. CASE Active(d.chan[c])
  <2> DEFINE loadChecked == IF OpenLoad(d.chan[c]) THEN HandleFault(d, c, "OL") ELSE d
  <2>1. \A o \in Outputs \ {c} : loadChecked.chan[o] = d.chan[o]
    BY <1>2, <1>3
  <2>2. d.chan[c].fault_count <= FaultThreshold
    BY <1>5, ConstantTypes
    DEF GoodDriver, Good, GoodRecord, Channel, Active, InFaultState, ActiveStates, FaultStates
  <2>3. loadChecked.chan \in [Outputs -> Good]
    BY <1>3, <2>2, HandleFaultGood DEF Faults, GoodDriver
  <2> HIDE DEF loadChecked
  <2>4. \A o \in Outputs \ {c} : HandleFault(loadChecked, c, "OT").chan[o] = d.chan[o]
    BY <1>2, <2>1, <2>3
  <2> QED
    BY <1>1, <1>2, <1>3, <1>5, <2>1, <2>4 DEF Diagnose, loadChecked
<1> QED
  BY <1>4, <1>5

LEMMA RefreshTouches ==
    ASSUME NEW d, GoodDriver(d), NEW c \in Outputs, NEW reading \in Readings,
           NEW temp, NEW diagnose \in BOOLEAN
    PROVE  Touches(d, Refresh(d, c, reading, temp, diagnose), c)
<1> DEFINE s == SenseCurrent(CountOnTime(d.chan[c]), reading)
           e == Put(d, c, s)
           f == Diagnose(e, c, temp)
<1>1. s \in Good /\ s.state = d.chan[c].state /\ s.fault_count = d.chan[c].fault_count
  BY SensedGood DEF GoodDriver
<1> HIDE DEF s
<1>2. GoodDriver(e) /\ e.chan[c] = s
  BY <1>1, PutGood
<1>3. LockedOut(d.chan[c]) <=> LockedOut(s)
  BY <1>1 DEF LockedOut, InFaultState
<1>4. Touches(d, e, c)
  BY <1>3, TouchesPut DEF Kept
<1> HIDE DEF e
<1>5. /\ \A o \in Outputs \ {c} : f.chan[o] = e.chan[o]
      /\ LockedOut(e.chan[c]) => f = e
  BY <1>2, DiagnoseTouches
<1> HIDE DEF f
<1>6. Touches(d, f, c)
  BY <1>2, <1>3, <1>4, <1>5 DEF Touches, Kept
<1> QED
  BY <1>4, <1>6 DEF Refresh, e, f, s

-----------------------------------------------------------------------------
(* What one step does to every output. *)

\* A step either leaves the record of o alone, as far as the lockout and the
\* mode go, or is an operation on o alone.
Same(r, s) == Mode(s) = Mode(r) /\ LockedOut(s) = LockedOut(r)

OneTouched ==
    \E c \in Outputs :
        /\ \A o \in Outputs \ {c} : chan'[o] = chan[o]
        /\ Kept(chan[c], chan'[c])

NoneTouched == \A o \in Outputs : Same(chan[o], chan'[o])

LEMMA TouchedOne ==
    ASSUME NEW c \in Outputs, NEW d, Touches(Driver, d, c), Become(d)
    PROVE  OneTouched
  BY DEF Touches, Driver, Become, OneTouched

LEMMA UpdateTouches == IInv /\ Update => OneTouched \/ NoneTouched
<1> SUFFICES ASSUME IInv, Update PROVE OneTouched \/ NoneTouched
  OBVIOUS
<1>1. CASE UpdateBegin
  BY <1>1 DEF UpdateBegin, NoneTouched, Same
<1>2. ASSUME NEW reading \in Readings, NEW temp \in Temps, UpdateChannel(reading, temp)
      PROVE  OneTouched
  <2>1. pos \in Outputs /\ (tick = 0) \in BOOLEAN
    BY <1>2, ProfetAssumption DEF UpdateChannel, IInv, Idle, Outputs
  <2>2. Touches(Driver, Refresh(Driver, pos, reading, temp, tick = 0), pos)
    BY <2>1, IInvDriver, RefreshTouches
  <2> QED
    BY <1>2, <2>1, <2>2, TouchedOne DEF UpdateChannel
<1> QED
  BY <1>1, <1>2 DEF Update

LEMMA ControlCommandTouches == IInv /\ ControlCommand => OneTouched
<1> SUFFICES ASSUME IInv, NEW c \in Outputs,
                    \/ \E on \in BOOLEAN : SetState(c, on)
                    \/ \E duty \in Duties : SetPWM(c, duty)
                    \/ \E value \in Duties : WriteOutput(c, value)
                    \/ \E duty \in Duties : LogicOutput(c, duty)
             PROVE  OneTouched
  BY DEF ControlCommand
<1> USE IInvDriver DEF Command
<1>1. ASSUME NEW on \in BOOLEAN, SetState(c, on) PROVE OneTouched
  BY <1>1, DoSetStateTouches, TouchedOne DEF SetState
<1>2. ASSUME NEW duty \in Duties, SetPWM(c, duty) PROVE OneTouched
  BY <1>2, DoSetPWMTouches, TouchedOne DEF SetPWM
<1>3. ASSUME NEW value \in Duties, WriteOutput(c, value) PROVE OneTouched
  BY <1>3, DoWriteOutputTouches, TouchedOne, ProfetAssumption DEF WriteOutput
<1>4. ASSUME NEW duty \in Duties, LogicOutput(c, duty) PROVE OneTouched
  BY <1>4, DoLogicOutputTouches, TouchedOne, ProfetAssumption DEF LogicOutput
<1> QED
  BY <1>1, <1>2, <1>3, <1>4

LEMMA OverriddenSame ==
    ASSUME NEW r \in Good, NEW manual \in BOOLEAN
    PROVE  Same(r, Overridden(r, manual)) /\ Kept(r, Overridden(r, manual))
<1>1. r \in Channel
  BY DEF Good
<1>2. /\ Overridden(r, manual).state = r.state /\ Overridden(r, manual).pin = r.pin
      /\ Overridden(r, manual).fault_count = r.fault_count
  BY <1>1 DEF Overridden, Channel
<1> QED
  BY <1>2 DEF Same, Kept, Mode, LockedOut, InFaultState, Active

LEMMA ServiceCommandTouches == IInv /\ ServiceCommand => OneTouched \/ NoneTouched
<1> SUFFICES ASSUME IInv, ServiceCommand PROVE OneTouched \/ NoneTouched
  OBVIOUS
<1>1. GoodDriver(Driver) /\ Driver.chan = chan
  BY IInvDriver DEF Driver
<1>2. ASSUME NEW c \in Outputs, NEW on \in BOOLEAN, SetStateManual(c, on) PROVE OneTouched
  BY <1>1, <1>2, DoSetStateManualTouches, TouchedOne DEF SetStateManual, Command
<1>3. ASSUME NEW c \in Outputs, ClearManualOverride(c) PROVE OneTouched
  <2>1. Kept(chan[c], Overridden(chan[c], FALSE))
    BY OverriddenSame DEF IInv
  <2>2. Touches(Driver, Put(Driver, c, Overridden(chan[c], FALSE)), c)
    BY <1>1, <2>1, TouchesPut
  <2> QED
    BY <1>3, <2>2, TouchedOne DEF ClearManualOverride, Command
<1>4. ASSUME NEW c \in Outputs, ClearFaults(c) PROVE OneTouched
  BY <1>1, <1>4, DoClearFaultsTouches, TouchedOne DEF ClearFaults, Command
<1>5. ASSUME NEW c \in Outputs, NEW flags \in SUBSET Faults, InjectFault(c, flags)
      PROVE  OneTouched
  <2>2. Kept(chan[c], Injected(chan[c], flags))
    BY <1>5, InjectedKept DEF IInv, InjectFault
  <2>3. Touches(Driver, Put(Driver, c, Injected(chan[c], flags)), c)
    BY <1>1, <2>2, TouchesPut
  <2> QED
    BY <1>5, <2>3, TouchedOne DEF InjectFault, Command
<1>6. CASE ClearAllManualOverrides
  <2>1. chan' = [c \in Outputs |-> Overridden(chan[c], FALSE)]
    BY <1>6 DEF ClearAllManualOverrides, Command, Become
  <2>2. \A c \in Outputs : Same(chan[c], Overridden(chan[c], FALSE))
    BY OverriddenSame DEF IInv
  <2> QED
    BY <2>1, <2>2 DEF NoneTouched
<1> QED
  BY <1>2, <1>3, <1>4, <1>5, <1>6 DEF ServiceCommand

LEMMA NextTouches == IInv /\ [ProfetNext]_profetVars => OneTouched \/ NoneTouched
<1>1. UNCHANGED profetVars => NoneTouched
  BY DEF profetVars, NoneTouched, Same
<1> QED
  BY <1>1, UpdateTouches, ControlCommandTouches, ServiceCommandTouches DEF ProfetNext

\* A locked-out output stays locked out until its faults are cleared, whatever
\* command, reading or injected fault comes next.
THEOREM LockoutPersists == ProfetSpec => LockoutHolds
<1> DEFINE Holds == \A c \in Outputs : LockedOut(chan[c]) =>
                        LockedOut(chan'[c]) \/ chan'[c].fault_count = 0
<1>1. OneTouched \/ NoneTouched => Holds
  BY DEF OneTouched, NoneTouched, Same, Kept
<1>2. IInv /\ [ProfetNext]_profetVars => [Holds]_profetVars
  BY <1>1, NextTouches
<1> QED
  BY <1>2, DriverInvariant, PTL DEF ProfetSpec, LockoutHolds

\* The driver implements the smart fuse: every operation switches, trips or
\* resets one output, or changes nothing that the fuse shows.
THEOREM ImplementsSmartFuse == ProfetSpec => ImplementsFuse
<1> DEFINE m == [c \in Outputs |-> Mode(chan[c])]
<1>1. ProfetInit => Fuse!Init
  <2>1. Mode(InitialChannel) = "off"
    BY DEF Mode, InitialChannel, LockedOut, InFaultState, Active, FaultStates, ActiveStates
  <2> QED
    BY <2>1 DEF ProfetInit, Fuse!Init
<1>2. IInv /\ IInv' /\ (OneTouched \/ NoneTouched) => [Fuse!Next]_m
  <2> SUFFICES ASSUME IInv, IInv', OneTouched \/ NoneTouched PROVE [Fuse!Next]_m
    OBVIOUS
  <2>1. CASE NoneTouched
    <3>1. m' = m
      BY <2>1 DEF NoneTouched, Same
    <3> QED
      BY <3>1
  <2>2. CASE OneTouched
    <3>1. PICK c \in Outputs : /\ \A o \in Outputs \ {c} : chan'[o] = chan[o]
                               /\ Kept(chan[c], chan'[c])
      BY <2>2 DEF OneTouched
    <3>2. m' = [m EXCEPT ![c] = Mode(chan'[c])]
      BY <3>1
    <3>3. /\ m[c] = Mode(chan[c])
          /\ Mode(chan'[c]) \in {"off", "on", "tripped"}
          /\ m[c] = "tripped" <=> LockedOut(chan[c])
          /\ Mode(chan'[c]) = "tripped" <=> LockedOut(chan'[c])
      BY DEF Mode
    <3> HIDE DEF m
    <3>4. CASE m[c] # "tripped" /\ Mode(chan'[c]) # "tripped"
      BY <3>2, <3>3, <3>4 DEF Fuse!Next, Fuse!Switch, m
    <3>5. CASE m[c] # "tripped" /\ Mode(chan'[c]) = "tripped"
      BY <3>2, <3>3, <3>5 DEF Fuse!Next, Fuse!Trip, m
    <3>6. CASE m[c] = "tripped" /\ Mode(chan'[c]) = "tripped"
      <4>1. m' = m
        BY <3>2, <3>6 DEF m
      <4> QED
        BY <4>1
    <3>7. CASE m[c] = "tripped" /\ Mode(chan'[c]) # "tripped"
      <4>1. Mode(chan'[c]) = "off"
        BY <3>1, <3>3, <3>7 DEF Kept
      <4> QED
        BY <3>2, <3>7, <4>1 DEF Fuse!Next, Fuse!Reset, m
    <3> QED
      BY <3>4, <3>5, <3>6, <3>7
  <2> QED
    BY <2>1, <2>2
<1>3. IInv /\ [ProfetNext]_profetVars => [Fuse!Next]_m
  BY <1>2, NextGood, NextTouches
<1> QED
  BY <1>1, <1>3, DriverInvariant, PTL DEF ProfetSpec, ImplementsFuse, Fuse!Spec
-----------------------------------------------------------------------------
(* The conversion of the sensed current, for every set of ADC samples.     *)

\* The largest current the conversion gives, that of a saturated sense pin.
SenseMax == 33 * 470

SenseInv == adc \in Samples /\ current_mA \in 0 .. SenseMax

LEMMA Quotient ==
    ASSUME NEW x \in Nat, NEW n \in Nat, n > 0, NEW k \in Nat, x < n * (k + 1)
    PROVE  x \div n \in 0 .. k
<1> DEFINE y == x \div n
           r == x % n
<1>1. x = n * y + r /\ r \in 0 .. n - 1 /\ y \in Int
  OBVIOUS
<1> HIDE DEF y, r
<1>2. y >= 0
  <2> SUFFICES ASSUME y <= -1 PROVE FALSE
    BY <1>1
  <2>1. n * y <= n * (-1)
    BY <1>1
  <2> QED
    BY <1>1, <2>1
<1>3. y < k + 1
  <2> SUFFICES ASSUME y >= k + 1 PROVE FALSE
    BY <1>1
  <2>1. n * y >= n * (k + 1)
    BY <1>1
  <2> QED
    BY <1>1, <2>1
<1> QED
  BY <1>1, <1>2, <1>3 DEF y

\* Products and remainders of natural numbers.
LEMMA Scaled ==
    ASSUME NEW a \in Nat, NEW b \in Nat, a <= b, NEW n \in Nat
    PROVE  a * n \in Nat /\ a * n <= b * n
OBVIOUS

LEMMA Uncut ==
    ASSUME NEW y \in Nat, NEW n \in Nat, y < n
    PROVE  y % n = y
<1> DEFINE q == y \div n
           r == y % n
<1>1. n > 0 /\ y < n * (0 + 1) /\ 0 \in Nat
  OBVIOUS
<1>2. q \in 0 .. 0
  BY ONLY <1>1, Quotient, y \in Nat, n \in Nat
<1>3. y = n * q + r /\ r \in Int
  BY <1>1
<1> HIDE DEF q, r
<1>4. q = 0
  BY <1>2
<1>5. n * q = 0
  BY <1>4
<1> QED
  BY <1>3, <1>5 DEF r

\* The two scale factors of the conversion, and what they allow.
LEMMA SenseSizes ==
    /\ SenseMax \in Nat /\ Uint16 \in Nat /\ SenseMax < Uint16
    /\ PROFET_KILIS_RATIO \in Nat
    /\ 3300 * PROFET_KILIS_RATIO < 1000 * (SenseMax + 1)
BY DEF SenseMax, Uint16, PROFET_KILIS_RATIO

LEMMA SensedBounds == ASSUME NEW a \in Samples PROVE SensedMa(a) \in 0 .. SenseMax
<1> DEFINE top == 4095
           mv == 3300
           kilo == 1000
           m == MilliVolts(a)
           x == m * PROFET_KILIS_RATIO
<1>1. a \in 0 .. top
  BY SamplesAssumption
<1>2. m = (a * mv) \div top /\ SensedMa(a) = x \div kilo
  BY DEF MilliVolts, SensedMa
<1>3. top \in Nat /\ top > 0 /\ mv \in Nat /\ kilo \in Nat /\ kilo > 0
  OBVIOUS
<1>4. mv * PROFET_KILIS_RATIO < kilo * (SenseMax + 1)
  BY SenseSizes
<1> HIDE DEF top, mv, kilo, m, x
<1>5. m \in 0 .. mv
  <2> DEFINE v == a * mv
  <2>1. v \in Nat /\ v <= top * mv /\ top * mv < top * (mv + 1)
    BY <1>1, <1>3, Scaled
  <2> HIDE DEF v
  <2>2. v < top * (mv + 1)
    BY <1>3, <2>1
  <2>3. v \div top \in 0 .. mv
    BY ONLY <1>3, <2>1, <2>2, Quotient
  <2> QED
    BY <1>2, <2>3 DEF v
<1>6. x \in Nat /\ x < kilo * (SenseMax + 1)
  <2>1. m \in Nat /\ mv \in Nat /\ m <= mv /\ PROFET_KILIS_RATIO \in Nat
    BY <1>3, <1>5, SenseSizes
  <2>2. x \in Nat /\ x <= mv * PROFET_KILIS_RATIO
    BY ONLY <2>1, Scaled DEF x
  <2>3. kilo * (SenseMax + 1) \in Nat /\ mv * PROFET_KILIS_RATIO \in Nat
    BY <1>3, <2>1, SenseSizes
  <2> QED
    BY <1>4, <2>2, <2>3
<1>7. x \div kilo \in 0 .. SenseMax
  BY ONLY <1>3, <1>6, SenseSizes, Quotient
<1> QED
  BY <1>2, <1>7

\* A weighted mean of two currents in range is in range, and not cut.
LEMMA FilteredBounds ==
    ASSUME NEW c \in 0 .. SenseMax, NEW s \in 0 .. SenseMax
    PROVE  (c * 3 + s) \div 4 < Uint16 /\ Filtered(c, s) \in 0 .. SenseMax
<1> DEFINE x == c * 3 + s
           y == x \div 4
<1>1. Filtered(c, s) = y % Uint16
  BY DEF Filtered
<1>2. x \in Nat /\ x < 4 * (SenseMax + 1)
  BY SenseSizes
<1> HIDE DEF x
<1>3. y \in 0 .. SenseMax
  <2>1. 4 \in Nat /\ 4 > 0
    OBVIOUS
  <2> QED
    BY ONLY <1>2, <2>1, SenseSizes, Quotient
<1> HIDE DEF y
<1>4. y \in Nat /\ y < Uint16
  BY <1>3, SenseSizes
<1>5. y % Uint16 = y
  BY ONLY <1>4, SenseSizes, Uncut
<1> QED
  BY <1>1, <1>3, <1>4, <1>5 DEF x, y

LEMMA SenseStep == SenseInv /\ [Resample \/ Sense]_senseVars => SenseInv'
<1> SUFFICES ASSUME SenseInv, [Resample \/ Sense]_senseVars PROVE SenseInv'
  OBVIOUS
<1>1. CASE Resample
  BY <1>1 DEF SenseInv, Resample
<1>2. CASE Sense
  <2>1. SensedMa(adc) \in 0 .. SenseMax
    BY SensedBounds DEF SenseInv
  <2>2. Filtered(current_mA, SensedMa(adc)) \in 0 .. SenseMax
    BY <2>1, FilteredBounds DEF SenseInv
  <2> QED
    BY <1>2, <2>2 DEF SenseInv, Sense
<1>3. CASE UNCHANGED senseVars
  BY <1>3 DEF SenseInv, senseVars
<1> QED
  BY <1>1, <1>2, <1>3

\* The 16-bit cast of the filter (pmu_profet.c:640) never cuts a current that
\* came from a 12-bit sample, whichever samples the sense pin gives.
THEOREM NothingTruncated == SenseSpec => []NoTruncation
<1>1. SenseInit => SenseInv
  BY DEF SenseInit, SenseInv, SenseMax
<1>2. SenseInv => NoTruncation
  <2> SUFFICES ASSUME SenseInv PROVE NoTruncation
    OBVIOUS
  <2>1. SensedMa(adc) \in 0 .. SenseMax
    BY SensedBounds DEF SenseInv
  <2> QED
    BY <2>1, FilteredBounds DEF SenseInv, NoTruncation
<1> QED
  BY <1>1, <1>2, SenseStep, PTL DEF SenseSpec
-----------------------------------------------------------------------------
(* Shedding: for any number of outputs, any priorities, and with the       *)
(* control task running between any two steps of the protection task.      *)
(* Neither fact is inductive.  Over several passes the order holds because *)
(* within a pass every expendable output is a candidate, the victim or on  *)
(* the list, and because no candidate is less important than the victim.   *)

Taking == step \in {"pin", "state", "finish"}
InPass == Taking \/ step = "pick"
Taken(c) == Taking /\ victim.output = c

ListTyped == shedList \in Seq(Outputs) /\ left \subseteq Outputs
LeftFresh == InPass => \A c \in left : Expendable(c) /\ ~Shed(c)
VictimFresh ==
    Taking => /\ victim.output \in Outputs /\ Expendable(victim.output)
              /\ ~Shed(victim.output) /\ victim.output \notin left
VictimFirst == Taking => \A c \in left : Priority[c] <= Priority[victim.output]
AllAccounted == InPass => \A c \in Outputs : Expendable(c) => c \in left \/ Shed(c) \/ Taken(c)
InOrder ==
    \A i \in 1 .. Len(shedList) : \A c \in Outputs :
        Expendable(c) /\ Priority[c] > Priority[shedList[i]] => Shed(c) \/ Taken(c)

ShedInv ==
    /\ ListTyped /\ ShedListSound /\ LeftFresh /\ VictimFresh
    /\ VictimFirst /\ AllAccounted /\ InOrder
-----------------------------------------------------------------------------
(* The choice of the next output.                                          *)

LEMMA OutputsTyped ==
    Outputs \subseteq Nat /\ (\A c \in Outputs : Priority[c] \in Nat /\ c < NumOutputs)
    /\ NumOutputs \in Nat
BY ProfetAssumption, SheddingAssumption DEF Outputs

\* The highest priority number of some outputs, found from the lowest index up.
LEMMA HighestExists ==
    ASSUME NEW S, S \subseteq Outputs, S # {}
    PROVE  \E c \in S : \A o \in S : Priority[o] <= Priority[c]
<1> DEFINE Upto(n) == \E c \in S : \A o \in S : o < n => Priority[o] <= Priority[c]
           Bad == {n \in Nat : ~Upto(n)}
<1>1. CASE Bad = {}
  <2>1. Upto(NumOutputs)
    BY <1>1, OutputsTyped
  <2> QED
    BY <2>1, OutputsTyped
<1>2. CASE Bad # {}
  <2>0. Bad \in SUBSET Nat
    OBVIOUS
  <2> HIDE DEF Bad
  <2>1. PICK k \in Bad : \A n \in Bad : k <= n
    BY <1>2, <2>0, LeastOf
  <2> USE DEF Bad
  <2>2. k \in Nat /\ ~Upto(k)
    OBVIOUS
  <2>3. k # 0
    <3>1. PICK c \in S : TRUE
      OBVIOUS
    <3>2. \A o \in S : ~(o < 0)
      BY OutputsTyped
    <3> QED
      BY <2>2, <3>1, <3>2
  <2>4. k - 1 \in Nat /\ Upto(k - 1)
    BY <2>1, <2>2, <2>3
  <2>5. PICK c \in S : \A o \in S : o < k - 1 => Priority[o] <= Priority[c]
    BY <2>4
  <2>6. CASE k - 1 \in S /\ Priority[k - 1] > Priority[c]
    <3>1. \A o \in S : o < k => Priority[o] <= Priority[k - 1]
      BY <2>2, <2>4, <2>5, <2>6, OutputsTyped
    <3> QED
      BY <2>2, <2>6, <3>1
  <2>7. CASE ~(k - 1 \in S /\ Priority[k - 1] > Priority[c])
    <3>1. \A o \in S : o < k => Priority[o] <= Priority[c]
      BY <2>2, <2>4, <2>5, <2>7, OutputsTyped
    <3> QED
      BY <2>2, <3>1
  <2> QED
    BY <2>6, <2>7
<1> QED
  BY <1>1, <1>2

\* The bubble sort has a first candidate, and none is less important.
LEMMA FirstIsFirst ==
    ASSUME NEW S, S \subseteq Outputs, S # {}
    PROVE  First(S) \in S /\ \A o \in S : Priority[o] <= Priority[First(S)]
<1> DEFINE T == {c \in S : \A o \in S : Priority[o] <= Priority[c]}
<1>1. T \in SUBSET Nat /\ T # {}
  BY HighestExists, OutputsTyped
<1> HIDE DEF T
<1>2. PICK m \in T : \A n \in T : m <= n
  BY <1>1, LeastOf
<1> USE DEF T
<1>3. m \in S /\ \A o \in S \ {m} : \/ Priority[o] < Priority[m]
                                    \/ Priority[o] = Priority[m] /\ o > m
  <2> SUFFICES ASSUME NEW o \in S \ {m}, ~(Priority[o] < Priority[m])
               PROVE  Priority[o] = Priority[m] /\ o > m
    BY <1>2
  <2>1. Priority[o] = Priority[m]
    BY <1>2, OutputsTyped
  <2>2. o \in T
    BY <1>2, <2>1
  <2> QED
    BY <1>1, <1>2, <2>1, <2>2
<1>4. First(S) \in S /\ \A o \in S \ {First(S)} :
          \/ Priority[o] < Priority[First(S)]
          \/ Priority[o] = Priority[First(S)] /\ o > First(S)
  BY <1>3 DEF First
<1> HIDE DEF T
<1>5. SUFFICES ASSUME NEW o \in S PROVE Priority[o] <= Priority[First(S)]
  BY <1>4
<1>6. Priority[o] \in Nat /\ Priority[First(S)] \in Nat
  BY <1>4, OutputsTyped
<1> QED
  BY <1>4, <1>6
-----------------------------------------------------------------------------
(* The steps.                                                              *)

\* A step that leaves list, candidates and victim alone, outside a pass or
\* within the taking of one victim.
LEMMA Unmoved ==
    ASSUME ShedInv, UNCHANGED <<shedList, left, victim>>, Taking' <=> Taking, InPass' => InPass
    PROVE  ShedInv'
<1>1. \A c : Shed(c)' <=> Shed(c)
  BY DEF Shed
<1>2. \A c : Taken(c)' <=> Taken(c)
  BY DEF Taken
<1>3. (ListTyped /\ ShedListSound)'
  BY DEF ShedInv, ListTyped, ShedListSound, Expendable
<1>4. (LeftFresh /\ VictimFresh /\ VictimFirst)'
  BY <1>1 DEF ShedInv, LeftFresh, VictimFresh, VictimFirst, Expendable
<1>5. AllAccounted'
  BY <1>1, <1>2 DEF ShedInv, AllAccounted, Expendable
<1>6. InOrder'
  BY <1>1, <1>2 DEF ShedInv, InOrder, Expendable
<1> QED
  BY <1>3, <1>4, <1>5, <1>6 DEF ShedInv

LEMMA CheckShed == ASSUME ShedInv, CheckFaults PROVE ShedInv'
<1>0. ~Taking /\ ~InPass /\ UNCHANGED <<shedList, victim>>
  BY DEF CheckFaults, Taking, InPass
<1>1. CASE step' = "pick" /\ left' = Candidates
  <2>1. ~Taking' /\ InPass'
    BY <1>1 DEF Taking, InPass
  <2>2. \A c : Shed(c)' <=> Shed(c)
    BY <1>0 DEF Shed
  <2>3. (ListTyped /\ ShedListSound)'
    BY <1>0, <1>1 DEF ShedInv, ListTyped, ShedListSound, Expendable, Candidates
  <2>4. (LeftFresh /\ VictimFresh /\ VictimFirst)'
    BY <1>1, <2>1, <2>2 DEF LeftFresh, VictimFresh, VictimFirst, Candidates, Expendable
  <2>5. AllAccounted'
    BY <1>1, <2>2 DEF AllAccounted, Candidates, Expendable
  <2>6. InOrder'
    BY <1>0, <2>2 DEF ShedInv, InOrder, Taken, Expendable
  <2> QED
    BY <2>3, <2>4, <2>5, <2>6 DEF ShedInv
<1>2. CASE step' = "recover" /\ left' = left
  <2>1. ~Taking' /\ ~InPass'
    BY <1>2 DEF Taking, InPass
  <2> QED
    BY <1>0, <1>2, <2>1, Unmoved
<1> QED
  BY <1>1, <1>2 DEF CheckFaults

LEMMA PickShed == ASSUME ShedInv, Pick PROVE ShedInv'
<1> DEFINE c == First(left)
<1>0. ~Taking /\ InPass /\ UNCHANGED shedList /\ Taking' /\ InPass'
  BY DEF Pick, Goto, Taking, InPass
<1>1. c \in left /\ \A o \in left : Priority[o] <= Priority[c]
  BY FirstIsFirst DEF ShedInv, ListTyped, Pick
<1>2. victim'.output = c /\ left' = left \ {c}
  BY DEF Pick
<1> HIDE DEF c
<1>3. \A o : Shed(o)' <=> Shed(o)
  BY <1>0 DEF Shed
<1>4. (ListTyped /\ ShedListSound)'
  BY <1>0, <1>2 DEF ShedInv, ListTyped, ShedListSound, Expendable
<1>5. LeftFresh' /\ VictimFresh'
  BY <1>0, <1>1, <1>2, <1>3 DEF ShedInv, ListTyped, LeftFresh, VictimFresh, Expendable
<1>6. VictimFirst'
  BY <1>1, <1>2 DEF VictimFirst
<1>7. AllAccounted'
  BY <1>0, <1>2, <1>3 DEF ShedInv, AllAccounted, Taken, Expendable
<1>8. InOrder'
  BY <1>0, <1>3 DEF ShedInv, InOrder, Taken, Expendable
<1> QED
  BY <1>4, <1>5, <1>6, <1>7, <1>8 DEF ShedInv

LEMMA FinishShed == ASSUME ShedInv, Finish PROVE ShedInv'
<1> DEFINE v == victim.output
<1>0. Taking /\ InPass /\ ~Taking' /\ InPass' /\ UNCHANGED <<left, victim>>
  BY DEF Finish, Goto, Taking, InPass
<1>1. v \in Outputs /\ Expendable(v) /\ ~Shed(v) /\ v \notin left
  BY <1>0 DEF ShedInv, VictimFresh
<1>2. shedList' = Append(shedList, v) /\ shedList \in Seq(Outputs)
  BY DEF Finish, ShedInv, ListTyped
<1> HIDE DEF v
<1>3. /\ shedList' \in Seq(Outputs) /\ Len(shedList') = Len(shedList) + 1
      /\ shedList'[Len(shedList) + 1] = v
      /\ \A i \in 1 .. Len(shedList) : shedList'[i] = shedList[i]
  BY <1>1, <1>2
<1>4. \A o : Shed(o)' <=> Shed(o) \/ o = v
  BY <1>2, <1>3 DEF Shed
<1>5. ListTyped'
  BY <1>0, <1>3 DEF ShedInv, ListTyped
<1>6. ShedListSound'
  <2>1. \A i \in 1 .. Len(shedList) : shedList[i] # v /\ Expendable(shedList[i])
    BY <1>1 DEF Shed, ShedInv, ShedListSound
  <2>2. \A i \in 1 .. Len(shedList') : Expendable(shedList'[i])
    BY <1>1, <1>2, <1>3, <2>1
  <2>3. \A i, j \in 1 .. Len(shedList') : shedList'[i] = shedList'[j] => i = j
    BY <1>2, <1>3, <2>1 DEF ShedInv, ShedListSound
  <2> QED
    BY <2>2, <2>3 DEF ShedListSound, Expendable
<1>7. LeftFresh' /\ VictimFresh' /\ VictimFirst'
  BY <1>0, <1>1, <1>4 DEF ShedInv, LeftFresh, VictimFresh, VictimFirst, Expendable
<1>8. AllAccounted'
  BY <1>0, <1>4 DEF ShedInv, AllAccounted, Taken, Expendable, v
<1>9. InOrder'
  <2> SUFFICES ASSUME NEW i \in 1 .. Len(shedList'), NEW c \in Outputs, Expendable(c),
                      Priority[c] > Priority[shedList'[i]]
               PROVE  Shed(c)'
    BY DEF InOrder, Expendable
  <2>1. CASE i \in 1 .. Len(shedList)
    BY <1>3, <1>4, <2>1 DEF ShedInv, InOrder, Taken, v
  <2>2. CASE i = Len(shedList) + 1
    <3>1. Priority[c] > Priority[v]
      BY <1>3, <2>2
    <3>2. Priority[c] \in Nat /\ Priority[v] \in Nat
      BY <1>1, OutputsTyped
    <3>3. \A o \in left : Priority[o] <= Priority[v]
      BY <1>0 DEF ShedInv, VictimFirst, v
    <3>4. c \notin left /\ c # v
      BY <3>1, <3>2, <3>3
    <3>5. Shed(c)
      BY <1>0, <3>4 DEF ShedInv, AllAccounted, Taken, v
    <3> QED
      BY <1>4, <3>5
  <2> QED
    BY <1>2, <1>3, <2>1, <2>2
<1> QED
  BY <1>5, <1>6, <1>7, <1>8, <1>9 DEF ShedInv

LEMMA RecoverShed == ASSUME ShedInv, Recover PROVE ShedInv'
<1>0. ~Taking /\ ~Taking' /\ ~InPass' /\ UNCHANGED shedList /\ left' = {}
  BY DEF Recover, Goto, Taking, InPass
<1>1. \A c : Shed(c)' <=> Shed(c)
  BY <1>0 DEF Shed
<1>2. (ListTyped /\ ShedListSound)'
  BY <1>0 DEF ShedInv, ListTyped, ShedListSound, Expendable
<1>3. InOrder'
  BY <1>0, <1>1 DEF ShedInv, InOrder, Taken, Expendable
<1> QED
  BY <1>0, <1>2, <1>3 DEF ShedInv, LeftFresh, VictimFresh, VictimFirst, AllAccounted

LEMMA ServiceShed == ASSUME ShedInv, ProtectionService PROVE ShedInv'
<1>0. step = "sleep" /\ step' = "sleep" /\ UNCHANGED <<left, victim>>
  BY DEF ProtectionService, ClearProtectionFaults, SetLoadShedding, DeactivateLoadShedding,
         ServiceCall, passVars
<1>1. ~Taking /\ ~Taking' /\ ~InPass'
  BY <1>0 DEF Taking, InPass
<1>2. CASE UNCHANGED shedList
  BY <1>0, <1>1, <1>2, Unmoved
<1>3. CASE shedList' = <<>>
  BY <1>0, <1>1, <1>3 DEF ShedInv, ListTyped, ShedListSound, LeftFresh, VictimFresh, VictimFirst,
                          AllAccounted, InOrder
<1> QED
  BY <1>2, <1>3 DEF ProtectionService, ClearProtectionFaults, SetLoadShedding, DeactivateLoadShedding

LEMMA NextShed == ASSUME ShedInv, [Next]_vars PROVE ShedInv'
<1>1. CASE ControlTask
  BY <1>1, Unmoved DEF ControlTask, sheddingVars, passVars, Taking, InPass
<1>2. CASE ProtectionTask
  <2>1. CASE Wake
    BY <2>1, Unmoved DEF Wake, Goto, passVars, Taking, InPass
  <2>2. CASE \E voltage \in Voltages, temp \in BoardTemps : Sample(voltage, temp)
    BY <2>2, Unmoved DEF Sample, Goto, passVars, Taking, InPass
  <2>3. CASE CheckFaults
    BY <2>3, CheckShed
  <2>4. CASE Pick
    BY <2>4, PickShed
  <2>5. CASE LowerPin
    BY <2>5, Unmoved DEF LowerPin, Goto, passVars, Taking, InPass
  <2>6. CASE WriteState
    BY <2>6, Unmoved DEF WriteState, Goto, passVars, Taking, InPass
  <2>7. CASE Finish
    BY <2>7, FinishShed
  <2>8. CASE EndPass
    BY <2>8, Unmoved DEF EndPass, Goto, passVars, Taking, InPass
  <2>9. CASE Recover
    BY <2>9, RecoverShed
  <2> QED
    BY <1>2, <2>1, <2>2, <2>3, <2>4, <2>5, <2>6, <2>7, <2>8, <2>9 DEF ProtectionTask
<1>3. CASE ProtectionService
  BY <1>3, ServiceShed
<1>4. CASE UNCHANGED vars
  BY <1>4, Unmoved DEF vars, sheddingVars, passVars, Taking, InPass
<1> QED
  BY <1>1, <1>2, <1>3, <1>4 DEF Next

LEMMA InitShed == Init => ShedInv
<1> SUFFICES ASSUME Init PROVE ShedInv
  OBVIOUS
<1>1. ~Taking /\ ~InPass
  BY DEF Init, Taking, InPass
<1> QED
  BY <1>1 DEF Init, ShedInv, ListTyped, ShedListSound, LeftFresh, VictimFresh, VictimFirst,
              AllAccounted, InOrder

\* The invariant of the passes holds in every reachable state of the two tasks
\* (PMU_Protection_ActivateLoadShedding under the control task of main.c).
THEOREM ShedInvariant == Spec => []ShedInv
BY InitShed, NextShed, PTL DEF Spec

\* No output is listed twice and no critical or disabled one is listed, so the
\* array of PMU_Protection_ActivateLoadShedding is never overrun.
THEOREM ListSound == Spec => []ShedListSound
<1>1. ShedInv => ShedListSound
  BY DEF ShedInv
<1> QED
  BY <1>1, ShedInvariant, PTL

\* Over any number of passes and preemptions, an output is shed only when every
\* less important one has been (the sort of pmu_protection.c:730).
THEOREM PriorityKept == Spec => []ShedInPriorityOrder
<1>1. ShedInv => ShedInPriorityOrder
  BY DEF ShedInv, InOrder, ShedInPriorityOrder, Taken, Taking
<1> QED
  BY <1>1, ShedInvariant, PTL
-----------------------------------------------------------------------------
(* Loads and goals.  With preemption the record of an output is not        *)
(* GoodRecord: what remains of its type is Loose, with a current that is a *)
(* number, so that sums of currents are.                                   *)

Loose == [state : States, pwm_duty : Nat, on_time_ms : Nat, fault_flags : SUBSET Faults,
          fault_count : Nat, current_mA : Nat, manual : BOOLEAN, pin : BOOLEAN]
Drivers == [chan : [Outputs -> Loose], queue : Queues]

LEMMA RecordsLoose ==
    ASSUME NEW r \in Loose
    PROVE  /\ SwitchedOn(r) \in Loose /\ SwitchedOff(r) \in Loose
           /\ \A duty \in Nat : Modulated(r, duty) \in Loose
           /\ \A fault \in Faults : Faulted(r, fault) \in Loose
           /\ \A reading \in Readings : SenseCurrent(CountOnTime(r), reading) \in Loose
<1>1. {"ON", "OFF", "PWM"} \subseteq States /\ 0 \in Nat /\ TRUE \in BOOLEAN /\ FALSE \in BOOLEAN
  BY DEF States, ActiveStates
<1>2. SwitchedOn(r) \in Loose
  BY <1>1, ConstantTypes DEF SwitchedOn, Loose
<1>3. SwitchedOff(r) \in Loose
  BY <1>1 DEF SwitchedOff, Loose
<1>4. ASSUME NEW duty \in Nat PROVE Modulated(r, duty) \in Loose
  <2>1. [r EXCEPT !.pwm_duty = 0, !.state = "OFF", !.pin = FALSE] \in Loose
    BY <1>1 DEF Loose
  <2>2. [r EXCEPT !.pwm_duty = duty, !.state = "ON", !.pin = TRUE] \in Loose
    BY <1>1 DEF Loose
  <2>3. [r EXCEPT !.pwm_duty = duty, !.state = "PWM"] \in Loose
    BY <1>1 DEF Loose
  <2> QED
    BY <2>1, <2>2, <2>3 DEF Modulated
<1>5. ASSUME NEW fault \in Faults PROVE Faulted(r, fault) \in Loose
  <2> DEFINE flags == r.fault_flags \cup {fault}
             count == Counted(r.fault_count)
             to == IF ShutsDown(r, fault) THEN FaultToState({fault}) ELSE r.state
             p == r.pin /\ ~ShutsDown(r, fault)
  <2>1. FaultToState({fault}) \in States
    BY FaultToStateFaulty DEF States
  <2>2. flags \in SUBSET Faults /\ count \in Nat /\ to \in States
    BY <2>1, CountedRange DEF Loose
  <2>3. p \in BOOLEAN
    OBVIOUS
  <2>4. Faulted(r, fault) = [r EXCEPT !.fault_flags = flags, !.fault_count = count,
                                      !.state = to, !.pin = p]
    BY DEF Faulted, Loose
  <2> HIDE DEF flags, count, to, p
  <2> QED
    BY <2>2, <2>3, <2>4 DEF Loose
<1>6. ASSUME NEW reading \in Readings PROVE SenseCurrent(CountOnTime(r), reading) \in Loose
  <2> DEFINE u == CountOnTime(r)
  <2>1. u \in Loose
    BY DEF CountOnTime, Loose
  <2> HIDE DEF u
  <2>2. ((u.current_mA * 3 + reading) \div 4) % CurrentMod \in Nat
    <3>1. u.current_mA \in Nat /\ reading \in Nat
      BY <2>1, ProfetAssumption DEF Loose
    <3>2. (u.current_mA * 3 + reading) \div 4 \in Nat
      BY <3>1
    <3> QED
      BY <3>2, ModulusInRange, ConstantTypes
  <2> QED
    BY <2>1, <2>2 DEF SenseCurrent, Loose, u
<1> QED
  BY <1>2, <1>3, <1>4, <1>5, <1>6

LEMMA PutLoose ==
    ASSUME NEW d \in Drivers, NEW c \in Outputs, NEW r \in Loose
    PROVE  Put(d, c, r) \in Drivers
  BY DEF Drivers, Put

LEMMA ReportLoose ==
    ASSUME NEW d \in Drivers, NEW c \in Outputs, NEW type \in EventTypes
    PROVE  Report(d, c, type) \in Drivers
<1>1. Push(d.queue, type, c) \in Queues
  <2>1. d.queue \in Seq(Event) /\ Len(d.queue) <= QueueSize
    BY DEF Drivers, Queues
  <2>2. [type |-> type, source |-> c] \in Event
    BY ProfetAssumption DEF Event, Outputs
  <2> QED
    BY <2>1, <2>2, EventsAssumption DEF Push, Queues
<1> QED
  BY <1>1 DEF Drivers, Report

LEMMA DoSetStateLoose ==
    ASSUME NEW d \in Drivers, NEW c \in Outputs, NEW on
    PROVE  DoSetState(d, c, on) \in Drivers
<1> DEFINE s == IF on THEN SwitchedOn(d.chan[c]) ELSE SwitchedOff(d.chan[c])
           e == Put(d, c, s)
<1>1. s \in Loose
  BY RecordsLoose DEF Drivers
<1>2. e \in Drivers
  <2> HIDE DEF s
  <2> QED
    BY <1>1, PutLoose
<1> HIDE DEF e
<1>3. Report(e, c, "CHANNEL_ON") \in Drivers /\ Report(e, c, "CHANNEL_OFF") \in Drivers
  BY <1>2, ReportLoose DEF EventTypes
<1> QED
  BY <1>2, <1>3 DEF DoSetState, e

LEMMA DoSetPWMLoose ==
    ASSUME NEW d \in Drivers, NEW c \in Outputs, NEW duty \in Nat
    PROVE  DoSetPWM(d, c, duty) \in Drivers
<1>1. d.chan[c] \in Loose
  BY DEF Drivers
<1>2. ClampDuty(duty) \in Nat
  BY ConstantTypes DEF ClampDuty
<1> QED
  BY <1>1, <1>2, RecordsLoose, PutLoose DEF DoSetPWM

LEMMA HandleFaultLoose ==
    ASSUME NEW d \in Drivers, NEW c \in Outputs, NEW fault \in Faults
    PROVE  HandleFault(d, c, fault) \in Drivers
<1> DEFINE e == Put(d, c, Faulted(d.chan[c], fault))
<1>1. e \in Drivers
  <2>1. Faulted(d.chan[c], fault) \in Loose
    BY RecordsLoose DEF Drivers
  <2> QED
    BY <2>1, PutLoose
<1> HIDE DEF e
<1>2. Report(e, c, "CHANNEL_FAULT") \in Drivers
  BY <1>1, ReportLoose DEF EventTypes
<1> QED
  BY <1>1, <1>2 DEF HandleFault, e

LEMMA RefreshLoose ==
    ASSUME NEW d \in Drivers, NEW c \in Outputs, NEW reading \in Readings, NEW temp, NEW diagnose
    PROVE  Refresh(d, c, reading, temp, diagnose) \in Drivers
<1> DEFINE e == Put(d, c, SenseCurrent(CountOnTime(d.chan[c]), reading))
           f == IF OpenLoad(e.chan[c]) THEN HandleFault(e, c, "OL") ELSE e
<1>1. e \in Drivers
  <2>1. SenseCurrent(CountOnTime(d.chan[c]), reading) \in Loose
    BY RecordsLoose DEF Drivers
  <2> QED
    BY <2>1, PutLoose
<1> HIDE DEF e
<1>2. \A fault \in Faults : HandleFault(e, c, fault) \in Drivers
  BY <1>1, HandleFaultLoose
<1>3. f \in Drivers
  BY <1>1, <1>2 DEF Faults
<1> HIDE DEF f
<1>4. HandleFault(f, c, "OT") \in Drivers
  BY <1>3, HandleFaultLoose DEF Faults
<1>5. Diagnose(e, c, temp) \in Drivers
  BY <1>1, <1>2, <1>3, <1>4 DEF Diagnose, Faults, f
<1> QED
  BY <1>1, <1>5 DEF Refresh, e

\* The running sum of the currents, and the outputs switched on one by one.
LEMMA SumIsNumber ==
    ASSUME chan \in [Outputs -> Loose]
    PROVE  PartialCurrent[NumOutputs] \in Nat
<1> DEFINE N == NumOutputs
           F == [i \in 1 .. N |-> [v \in Nat |-> IF v > TotalCurrentMax THEN v
                                                 ELSE v + chan[i - 1].current_mA]]
           Sums(f) == f = [n \in 0 .. N |-> IF n = 0 THEN 0
                                            ELSE IF f[n - 1] > TotalCurrentMax THEN f[n - 1]
                                            ELSE f[n - 1] + chan[n - 1].current_mA]
<1>1. N \in Nat /\ \A i \in 1 .. N : chan[i - 1].current_mA \in Nat
  <2>1. NumOutputs \in Nat /\ \A i \in 1 .. NumOutputs : i - 1 \in Outputs
    BY ProfetAssumption DEF Outputs
  <2> QED
    BY <2>1 DEF Loose
<1> HIDE DEF N
<1>2. F \in [1 .. N -> [Nat -> Nat]]
  BY <1>1
<1>3. PICK a : Through(a, N, Nat, 0, F)
  <2> HIDE DEF F
  <2> QED
    BY <1>1, <1>2, RecursionExists
<1>4. a \in [0 .. N -> Nat] /\ a[0] = 0 /\ \A n \in 1 .. N : n - 1 \in 0 .. N /\ a[n] = F[n][a[n - 1]]
  BY <1>1, <1>3 DEF Through
<1>5. Sums(a)
  <2>1. \A n \in 1 .. N : a[n] = IF a[n - 1] > TotalCurrentMax THEN a[n - 1]
                                 ELSE a[n - 1] + chan[n - 1].current_mA
    BY <1>4
  <2>2. \A n \in 0 .. N : n = 0 \/ n \in 1 .. N
    BY <1>1
  <2> HIDE DEF F
  <2>3. \A n \in 0 .. N : a[n] = IF n = 0 THEN 0
                                 ELSE IF a[n - 1] > TotalCurrentMax THEN a[n - 1]
                                 ELSE a[n - 1] + chan[n - 1].current_mA
    BY <1>4, <2>1, <2>2
  <2> QED
    BY <1>4, <2>3
<1> DEFINE s == CHOOSE f : Sums(f)
<1>6. Sums(s)
  <2> HIDE DEF Sums
  <2> QED
    BY <1>5
<1>7. s = PartialCurrent
  BY DEF PartialCurrent, N
<1> DEFINE P == {n \in 0 .. N : s[n] \in Nat}
<1>8. 0 .. N \subseteq P
  <2>1. /\ 0 \in 0 .. N /\ s[0] = 0
        /\ \A n \in 0 .. N - 1 : /\ n + 1 \in 1 .. N /\ n \in 0 .. N
                                 /\ s[n + 1] = IF s[n] > TotalCurrentMax THEN s[n]
                                               ELSE s[n] + chan[n].current_mA
    <3>1. \A n \in 0 .. N : s[n] = IF n = 0 THEN 0
                                   ELSE IF s[n - 1] > TotalCurrentMax THEN s[n - 1]
                                   ELSE s[n - 1] + chan[n - 1].current_mA
      <4> HIDE DEF s
      <4> QED
        BY <1>6
    <3>2. \A n \in 0 .. N - 1 : n + 1 \in 0 .. N /\ n + 1 # 0 /\ (n + 1) - 1 = n /\ n \in 0 .. N /\ n + 1 \in 1 .. N
      BY <1>1
    <3> HIDE DEF s
    <3> QED
      BY <1>1, <3>1, <3>2
  <2> HIDE DEF s
  <2>2. 0 \in P
    BY <2>1
  <2>3. \A n \in 0 .. N - 1 : n \in P => n + 1 \in P
    <3> TAKE n \in 0 .. N - 1
    <3> HAVE n \in P
    <3>1. chan[n].current_mA \in Nat
      <4>1. n + 1 \in 1 .. N /\ (n + 1) - 1 = n
        BY <1>1
      <4> QED
        BY <1>1, <4>1
    <3>2. s[n + 1] \in Nat
      BY <2>1, <3>1
    <3>3. n + 1 \in 0 .. N
      BY <1>1
    <3> QED
      BY <3>2, <3>3
  <2> HIDE DEF P
  <2> QED
    BY <1>1, <2>2, <2>3, Induct
<1>9. N \in 0 .. N
  BY <1>1
<1> HIDE DEF s
<1> QED
  BY <1>7, <1>8, <1>9 DEF N

LEMMA RestoredLoose ==
    ASSUME Driver \in Drivers, shedList \in Seq(Outputs)
    PROVE  LET Restored[n \in 0 .. Len(shedList)] ==
                   IF n = 0 THEN Driver ELSE DoSetState(Restored[n - 1], shedList[n], TRUE)
           IN  Restored[Len(shedList)] \in Drivers
<1> DEFINE N == Len(shedList)
           F == [i \in 1 .. N |-> [d \in Drivers |-> DoSetState(d, shedList[i], TRUE)]]
           Restores(f) == f = [n \in 0 .. N |-> IF n = 0 THEN Driver
                                              ELSE DoSetState(f[n - 1], shedList[n], TRUE)]
<1>1. N \in Nat /\ \A i \in 1 .. N : shedList[i] \in Outputs
  OBVIOUS
<1>2. F \in [1 .. N -> [Drivers -> Drivers]]
  BY <1>1, DoSetStateLoose
<1>3. PICK a : Through(a, N, Drivers, Driver, F)
  <2> HIDE DEF F, N
  <2> QED
    BY <1>1, <1>2, RecursionExists
<1> HIDE DEF N
<1>4. a \in [0 .. N -> Drivers] /\ a[0] = Driver
      /\ \A n \in 1 .. N : n - 1 \in 0 .. N /\ a[n] = DoSetState(a[n - 1], shedList[n], TRUE)
  BY <1>1, <1>3 DEF Through
<1>5. Restores(a)
  <2>1. \A n \in 0 .. N : n = 0 \/ n \in 1 .. N
    BY <1>1
  <2>2. \A n \in 0 .. N : a[n] = IF n = 0 THEN Driver ELSE DoSetState(a[n - 1], shedList[n], TRUE)
    BY <1>4, <2>1
  <2> QED
    BY <1>4, <2>2
<1> DEFINE s == CHOOSE f : Restores(f)
<1>6. Restores(s)
  <2> HIDE DEF Restores
  <2> QED
    BY <1>5
<1> HIDE DEF s
<1>7. \A n \in 0 .. N : s[n] = IF n = 0 THEN Driver ELSE DoSetState(s[n - 1], shedList[n], TRUE)
  BY <1>6
<1> DEFINE P == {n \in 0 .. N : s[n] \in Drivers}
<1>8. 0 .. N \subseteq P
  <2>1. 0 \in P
    <3>1. 0 \in 0 .. N
      BY <1>1
    <3>2. s[0] = Driver
      BY <1>7, <3>1
    <3> QED
      BY <3>1, <3>2
  <2>2. \A n \in 0 .. N - 1 : n \in P => n + 1 \in P
    <3> TAKE n \in 0 .. N - 1
    <3> HAVE n \in P
    <3>1. n + 1 \in 0 .. N /\ n + 1 \in 1 .. N /\ n + 1 # 0 /\ (n + 1) - 1 = n
      BY <1>1
    <3>2. s[n + 1] = DoSetState(s[n], shedList[n + 1], TRUE)
      BY <1>7, <3>1
    <3> QED
      BY <1>1, <3>1, <3>2, DoSetStateLoose
  <2> HIDE DEF P
  <2> QED
    BY <1>1, <2>1, <2>2, Induct
<1>9. s[N] \in Drivers
  <2>1. N \in 0 .. N
    BY <1>1
  <2> QED
    BY <1>8, <2>1
<1> QED
  BY <1>9 DEF s, N

-----------------------------------------------------------------------------
(* The monitor keeps its fields, load and goal are numbers, and a pass is  *)
(* entered with something to do: before its first output is listed it has  *)
(* a goal above 0 and a candidate left.                                    *)

MonitorIs(m) ==
    /\ m = [voltage_mV |-> m.voltage_mV, undervoltage_count |-> m.undervoltage_count,
            overvoltage_count |-> m.overvoltage_count, max_temp |-> m.max_temp,
            overtemp_count |-> m.overtemp_count, total_current_mA |-> m.total_current_mA,
            fault_flags |-> m.fault_flags, status |-> m.status,
            load_shedding_active |-> m.load_shedding_active,
            fault_recovery_timer |-> m.fault_recovery_timer]
    /\ m.total_current_mA \in Nat /\ m.load_shedding_active \in BOOLEAN

DriverTyped == chan \in [Outputs -> Loose] /\ queue \in Queues /\ pos \in 0 .. Idle
LoadsTyped == load \in [Outputs -> Nat] /\ goal \in Int /\ reduced \in Nat
HasWork == step = "pick" => shedList # <<>> \/ (left # {} /\ reduced < goal)

PassInv == DriverTyped /\ MonitorIs(mon) /\ LoadsTyped /\ HasWork

LEMMA DriverStays ==
    ASSUME DriverTyped, UNCHANGED <<chan, pos>>, queue' \in Queues
    PROVE  DriverTyped'
  BY DEF DriverTyped

LEMMA DriverIs == DriverTyped => Driver \in Drivers
  BY DEF DriverTyped, Driver, Drivers

LEMMA BecomeLoose ==
    ASSUME NEW d \in Drivers, Become(d)
    PROVE  chan' \in [Outputs -> Loose] /\ queue' \in Queues
  BY DEF Drivers, Become

LEMMA ControlTyped == ASSUME DriverTyped, Update \/ ControlCommand PROVE DriverTyped'
<1>0. Driver \in Drivers
  BY DriverIs
<1>1. CASE UpdateBegin
  BY <1>1, ProfetAssumption DEF UpdateBegin, DriverTyped, Idle
<1>2. ASSUME NEW reading \in Readings, NEW temp \in Temps, UpdateChannel(reading, temp)
      PROVE  DriverTyped'
  <2>1. pos \in Outputs /\ pos + 1 \in 0 .. Idle
    BY <1>2, ProfetAssumption DEF UpdateChannel, DriverTyped, Idle, Outputs
  <2>2. Refresh(Driver, pos, reading, temp, tick = 0) \in Drivers
    BY <1>0, <2>1, RefreshLoose
  <2>3. chan' \in [Outputs -> Loose] /\ queue' \in Queues
    BY <1>2, <2>2, BecomeLoose DEF UpdateChannel
  <2> QED
    BY <1>2, <2>1, <2>3 DEF DriverTyped, UpdateChannel
<1>3. ASSUME NEW d \in Drivers, Command(d) PROVE DriverTyped'
  BY <1>3, BecomeLoose DEF DriverTyped, Command
<1>4. ASSUME NEW c \in Outputs,
             \/ \E on \in BOOLEAN : SetState(c, on)
             \/ \E duty \in Duties : SetPWM(c, duty)
             \/ \E value \in Duties : WriteOutput(c, value)
             \/ \E duty \in Duties : LogicOutput(c, duty)
      PROVE  DriverTyped'
  <2>1. \A on : DoSetState(Driver, c, on) \in Drivers
    BY <1>0, DoSetStateLoose
  <2>2. \A duty \in Duties : duty \in Nat /\ DoSetPWM(Driver, c, duty) \in Drivers
    BY <1>0, DoSetPWMLoose, ProfetAssumption
  <2>3. \A value \in Duties : DoWriteOutput(Driver, c, value) \in Drivers
    <3> TAKE value \in Duties
    <3>1. DoSetPWM(DoSetState(Driver, c, TRUE), c, value) \in Drivers
      BY <2>1, <2>2, DoSetPWMLoose
    <3> QED
      BY <2>1, <3>1 DEF DoWriteOutput
  <2>4. \A duty \in Duties : DoLogicOutput(Driver, c, duty) \in Drivers
    BY <1>0, <2>1, <2>2 DEF DoLogicOutput
  <2>5. CASE \E on \in BOOLEAN : SetState(c, on)
    BY <1>3, <2>1, <2>5 DEF SetState
  <2>6. CASE \E duty \in Duties : SetPWM(c, duty)
    BY <1>3, <2>2, <2>6 DEF SetPWM
  <2>7. CASE \E value \in Duties : WriteOutput(c, value)
    BY <1>3, <2>3, <2>7 DEF WriteOutput
  <2>8. CASE \E duty \in Duties : LogicOutput(c, duty)
    BY <1>3, <2>4, <2>8 DEF LogicOutput
  <2> QED
    BY <1>4, <2>5, <2>6, <2>7, <2>8
<1> QED
  BY <1>1, <1>2, <1>4 DEF Update, ControlCommand

\* Excess over 90 % of the maximum is positive when the maximum is exceeded.
LEMMA ExcessPositive ==
    ASSUME MonitorIs(mon)
    PROVE  Excess \in Int /\ (Overloaded(mon) => 0 < Excess)
<1>1. TotalCurrentMax \in Nat /\ mon.total_current_mA \in Nat
  BY ProtectionAssumption DEF MonitorIs
<1>2. (TotalCurrentMax * 90) \div 100 \in Int /\ (TotalCurrentMax * 90) \div 100 <= TotalCurrentMax
  BY <1>1
<1> QED
  BY <1>1, <1>2 DEF Excess, Overloaded

\* A monitor made of its fields; what samples, checks and service calls make of it.
LEMMA MonitorMade ==
    ASSUME NEW m, MonitorIs(m), NEW voltage, NEW under, NEW over, NEW temp, NEW hot, NEW total \in Nat,
           NEW flags, NEW status, NEW active \in BOOLEAN, NEW timer
    PROVE  MonitorIs([voltage_mV |-> voltage, undervoltage_count |-> under, overvoltage_count |-> over,
                      max_temp |-> temp, overtemp_count |-> hot, total_current_mA |-> total,
                      fault_flags |-> flags, status |-> status, load_shedding_active |-> active,
                      fault_recovery_timer |-> timer])
  BY DEF MonitorIs

\* Still a monitor, with shedding as it was.
Sheds(m, n) == MonitorIs(n) /\ n.load_shedding_active = m.load_shedding_active

LEMMA FieldSet ==
    ASSUME NEW m, MonitorIs(m), NEW x
    PROVE  /\ Sheds(m, [m EXCEPT !.voltage_mV = x])
           /\ Sheds(m, [m EXCEPT !.undervoltage_count = x])
           /\ Sheds(m, [m EXCEPT !.overvoltage_count = x])
           /\ Sheds(m, [m EXCEPT !.max_temp = x])
           /\ Sheds(m, [m EXCEPT !.overtemp_count = x])
<1>1. Sheds(m, [m EXCEPT !.voltage_mV = x])
  BY DEF MonitorIs, Sheds
<1>2. Sheds(m, [m EXCEPT !.undervoltage_count = x])
  BY DEF MonitorIs, Sheds
<1>3. Sheds(m, [m EXCEPT !.overvoltage_count = x])
  BY DEF MonitorIs, Sheds
<1>4. Sheds(m, [m EXCEPT !.max_temp = x])
  BY DEF MonitorIs, Sheds
<1>5. Sheds(m, [m EXCEPT !.overtemp_count = x])
  BY DEF MonitorIs, Sheds
<1> QED
  BY <1>1, <1>2, <1>3, <1>4, <1>5

LEMMA MonitorSampled ==
    ASSUME NEW m, MonitorIs(m), NEW voltage, NEW temp
    PROVE  Sheds(m, Sampled(m, voltage, temp))
<1> DEFINE under == Consecutive(m.undervoltage_count, voltage < VoltageMin)
           over == Consecutive(m.overvoltage_count, voltage > VoltageMax)
           hot == Consecutive(m.overtemp_count, temp >= TempCritical)
           a == [m EXCEPT !.voltage_mV = voltage]
           b == [a EXCEPT !.undervoltage_count = under]
           c == [b EXCEPT !.overvoltage_count = over]
           d == [c EXCEPT !.max_temp = temp]
           s == [d EXCEPT !.overtemp_count = hot]
<1>1. Sampled(m, voltage, temp) = s
  <2>1. Sampled(m, voltage, temp) =
            [m EXCEPT !.voltage_mV = voltage, !.undervoltage_count = under,
                      !.overvoltage_count = over, !.max_temp = temp, !.overtemp_count = hot]
    <3>1. DOMAIN m = {"voltage_mV", "undervoltage_count", "overvoltage_count", "max_temp",
                      "overtemp_count", "total_current_mA", "fault_flags", "status",
                      "load_shedding_active", "fault_recovery_timer"}
      BY DEF MonitorIs
    <3> QED
      BY <3>1 DEF Sampled, Consecutive
  <2> HIDE DEF under, over, hot
  <2> QED
    BY <2>1
<1> HIDE DEF under, over, hot
<1>2. Sheds(m, a)
  BY FieldSet
<1> HIDE DEF a
<1>3. Sheds(a, b)
  BY <1>2, FieldSet DEF Sheds
<1> HIDE DEF b
<1>4. Sheds(b, c)
  BY <1>3, FieldSet DEF Sheds
<1> HIDE DEF c
<1>5. Sheds(c, d)
  BY <1>4, FieldSet DEF Sheds
<1> HIDE DEF d
<1>6. Sheds(d, s)
  BY <1>5, FieldSet DEF Sheds
<1> HIDE DEF s
<1>7. Sheds(m, s)
  BY <1>2, <1>3, <1>4, <1>5, <1>6 DEF Sheds
<1> QED
  BY <1>1, <1>7

LEMMA MonitorChecked ==
    ASSUME MonitorIs(mon)
    PROVE  LET n == Checked(mon)
           IN  /\ MonitorIs(n)
               /\ mon.load_shedding_active /\ ~n.load_shedding_active =>
                     n.status = "OK" /\ n.fault_recovery_timer = 0
<1> DEFINE flags == PresentFaults(mon)
           asks == flags \cap {"OVERTEMP_CRITICAL", "OVERCURRENT_TOTAL"} # {}
           calm == flags = {} /\ mon.fault_recovery_timer = 0
           active == (mon.load_shedding_active \/ asks) /\ ~calm
           status == StatusOf(flags)
           n == [voltage_mV |-> mon.voltage_mV, undervoltage_count |-> mon.undervoltage_count,
                 overvoltage_count |-> mon.overvoltage_count, max_temp |-> mon.max_temp,
                 overtemp_count |-> mon.overtemp_count, total_current_mA |-> mon.total_current_mA,
                 fault_flags |-> flags, status |-> status, load_shedding_active |-> active,
                 fault_recovery_timer |-> mon.fault_recovery_timer]
<1>1. Checked(mon) = [mon EXCEPT !.fault_flags = flags, !.status = status,
                                 !.load_shedding_active = active]
  <2>1. mon = [voltage_mV |-> mon.voltage_mV, undervoltage_count |-> mon.undervoltage_count,
              overvoltage_count |-> mon.overvoltage_count, max_temp |-> mon.max_temp,
              overtemp_count |-> mon.overtemp_count, total_current_mA |-> mon.total_current_mA,
              fault_flags |-> mon.fault_flags, status |-> mon.status,
              load_shedding_active |-> mon.load_shedding_active,
              fault_recovery_timer |-> mon.fault_recovery_timer]
    BY DEF MonitorIs
  <2> HIDE DEF flags, status
  <2> QED
    BY <2>1 DEF Checked, flags, status
<1>2. active \in BOOLEAN
  OBVIOUS
<1>3. mon.load_shedding_active /\ ~active => flags = {} /\ mon.fault_recovery_timer = 0
  OBVIOUS
<1>4. flags = {} => status = "OK"
  BY DEF StatusOf
<1> HIDE DEF flags, active, status
<1>5. Checked(mon) = n
  BY <1>1 DEF MonitorIs
<1>6. MonitorIs(n)
  BY <1>2, MonitorMade DEF MonitorIs
<1> QED
  BY <1>3, <1>4, <1>5, <1>6

LEMMA MonitorKeeps ==
    ASSUME NEW m, MonitorIs(m)
    PROVE  /\ \A active \in BOOLEAN : MonitorIs([m EXCEPT !.load_shedding_active = active])
           /\ \A total \in Nat :
                 LET n == [m EXCEPT !.total_current_mA = total]
                 IN  MonitorIs(n) /\ n.load_shedding_active = m.load_shedding_active
           /\ MonitorIs(Recovering(m)) /\ Recovering(m).load_shedding_active = m.load_shedding_active
           /\ MonitorIs(Cleared(m))
<1>1. \A active \in BOOLEAN : MonitorIs([m EXCEPT !.load_shedding_active = active])
  BY DEF MonitorIs
<1>2. MonitorIs(Recovering(m)) /\ Recovering(m).load_shedding_active = m.load_shedding_active
  BY DEF MonitorIs, Recovering
<1>3. MonitorIs(Cleared(m))
  BY DEF MonitorIs, Cleared
<1>4. ASSUME NEW total \in Nat
      PROVE  LET n == [m EXCEPT !.total_current_mA = total]
             IN  MonitorIs(n) /\ n.load_shedding_active = m.load_shedding_active
  BY DEF MonitorIs
<1> QED
  BY <1>1, <1>2, <1>3, <1>4

LEMMA ReportedQueues ==
    ASSUME queue \in Queues, NEW old, NEW new
    PROVE  Reported(queue, old, new) \in Queues
<1>1. ASSUME NEW q \in Queues, NEW type \in EventTypes PROVE Push(q, type, System) \in Queues
  <2>1. q \in Seq(Event) /\ Len(q) <= QueueSize
    BY DEF Queues
  <2>2. [type |-> type, source |-> System] \in Event
    BY DEF Event
  <2> QED
    BY <2>1, <2>2, EventsAssumption DEF Push, Queues
<1> DEFINE report(r, fault, type) ==
               IF fault \in new.fault_flags \ old.fault_flags THEN Push(r, type, System) ELSE r
<1>2. ASSUME NEW q \in Queues, NEW fault, NEW type \in EventTypes PROVE report(q, fault, type) \in Queues
  BY <1>1, <1>2
<1> DEFINE a == report(queue, "UNDERVOLTAGE", "SYSTEM_UNDERVOLT")
           b == report(a, "OVERVOLTAGE", "SYSTEM_OVERVOLT")
<1> HIDE DEF report
<1>3. a \in Queues
  BY <1>2 DEF EventTypes
<1> HIDE DEF a
<1>4. b \in Queues
  BY <1>2, <1>3 DEF EventTypes
<1> HIDE DEF b
<1>5. report(b, "OVERTEMP_CRITICAL", "SYSTEM_OVERTEMP") \in Queues
  BY <1>2, <1>4 DEF EventTypes
<1> QED
  BY <1>5 DEF Reported, report, a, b

LEMMA PassStart == Init => PassInv
<1> SUFFICES ASSUME Init PROVE PassInv
  OBVIOUS
<1>1. DriverTyped
  <2>1. InitialChannel \in Loose
    <3>1. "OFF" \in States /\ 0 \in Nat /\ {} \in SUBSET Faults /\ FALSE \in BOOLEAN
      BY DEF States
    <3> QED
      BY <3>1 DEF InitialChannel, Loose
  <2>2. queue \in Queues
    BY EventsAssumption DEF Init, ProfetInit, Queues
  <2> QED
    BY <2>1, <2>2, ProfetAssumption DEF Init, ProfetInit, DriverTyped, Idle
<1>2. MonitorIs(mon)
  <2>1. PICK voltage, temp : mon = Sampled(InitialMonitor, voltage, temp)
    BY DEF Init
  <2>2. MonitorIs(InitialMonitor)
    BY DEF InitialMonitor, MonitorIs
  <2> QED
    BY <2>1, <2>2, MonitorSampled DEF Sheds
<1>3. LoadsTyped
  BY DEF Init, LoadsTyped
<1>4. HasWork
  BY DEF Init, HasWork
<1> QED
  BY <1>1, <1>2, <1>3, <1>4 DEF PassInv

LEMMA PassProtects == ASSUME ShedInv, PassInv, ProtectionTask PROVE PassInv'
<1>0. DriverTyped /\ MonitorIs(mon) /\ LoadsTyped /\ HasWork
  BY DEF PassInv
<1>1. CASE Wake
  <2>1. UNCHANGED <<chan, queue, pos, mon, load, goal, reduced>> /\ step' = "sample"
    BY <1>1 DEF Wake, Goto, profetVars, passVars
  <2> QED
    BY <1>0, <2>1 DEF DriverTyped, PassInv, MonitorIs, LoadsTyped, HasWork
<1>2. ASSUME NEW voltage, NEW temp, Sample(voltage, temp) PROVE PassInv'
  <2>1. PartialCurrent[NumOutputs] \in Nat
    BY <1>0, SumIsNumber DEF DriverTyped
  <2>2. MonitorIs(mon')
    BY <1>0, <1>2, <2>1, MonitorSampled, MonitorKeeps DEF Sample, Sheds
  <2>3. UNCHANGED <<chan, queue, pos, load, goal, reduced>> /\ step' = "check"
    BY <1>2 DEF Sample, Goto, profetVars, passVars
  <2> QED
    BY <1>0, <2>2, <2>3, DriverStays DEF DriverTyped, PassInv, LoadsTyped, HasWork
<1>3. CASE CheckFaults
  <2>1. mon' = Checked(mon) /\ queue' = Reported(queue, mon, mon') /\ UNCHANGED <<chan, pos>>
    BY <1>3 DEF CheckFaults
  <2>2. MonitorIs(mon')
    BY <1>0, <2>1, MonitorChecked
  <2>3. DriverTyped'
    BY <1>0, <2>1, ReportedQueues, DriverStays DEF DriverTyped
  <2>4. LoadsTyped' /\ HasWork'
    <3>1. CASE /\ Overloaded(mon) /\ Candidates # {} /\ left' = Candidates
               /\ load' = [c \in Outputs |-> chan[c].current_mA] /\ goal' = Excess /\ reduced' = 0
      <4>1. goal' \in Int /\ 0 < goal'
        BY <1>0, <3>1, ExcessPositive
      <4>2. load' \in [Outputs -> Nat]
        BY <1>0, <3>1 DEF DriverTyped, Loose
      <4> QED
        BY <3>1, <4>1, <4>2 DEF LoadsTyped, HasWork
    <3>2. CASE step' = "recover" /\ UNCHANGED <<left, load, goal, reduced>>
      BY <1>0, <3>2 DEF LoadsTyped, HasWork
    <3> QED
      BY <1>3, <3>1, <3>2 DEF CheckFaults
  <2> QED
    BY <2>2, <2>3, <2>4 DEF PassInv
<1>4. CASE Pick
  BY <1>0, <1>4, DriverStays DEF Pick, Goto, profetVars, PassInv, DriverTyped, MonitorIs,
                               LoadsTyped, HasWork
<1>5. CASE LowerPin \/ WriteState
  <2>1. UNCHANGED <<queue, pos, mon, load, goal, reduced>> /\ step' # "pick"
    BY <1>5 DEF LowerPin, WriteState, Goto, passVars
  <2>2. chan' \in [Outputs -> Loose]
    <3>1. "OFF" \in States /\ FALSE \in BOOLEAN /\ 0 \in Nat
      BY DEF States
    <3>2. \A r \in Loose : /\ [r EXCEPT !.pin = FALSE] \in Loose
                           /\ [r EXCEPT !.state = "OFF", !.pwm_duty = 0, !.on_time_ms = 0] \in Loose
      BY <3>1 DEF Loose
    <3>3. victim.output \in Outputs /\ chan[victim.output] \in Loose
      BY <1>0, <1>5 DEF ShedInv, VictimFresh, Taking, LowerPin, WriteState, Goto, DriverTyped
    <3>4. CASE LowerPin
      BY <1>0, <3>2, <3>3, <3>4 DEF LowerPin, DriverTyped
    <3>5. CASE WriteState
      BY <1>0, <3>2, <3>3, <3>5 DEF WriteState, DriverTyped
    <3> QED
      BY <1>5, <3>4, <3>5
  <2> QED
    BY <1>0, <2>1, <2>2 DEF PassInv, DriverTyped, MonitorIs, LoadsTyped, HasWork
<1>6. CASE Finish
  <2>1. victim.output \in Outputs /\ shedList \in Seq(Outputs)
    BY <1>6 DEF ShedInv, VictimFresh, ListTyped, Taking, Finish, Goto
  <2>2. queue' \in Queues
    <3>1. Push(queue, "CHANNEL_OFF", victim.output) \in Queues
      <4>1. Report(Driver, victim.output, "CHANNEL_OFF") \in Drivers
        BY <1>0, <2>1, DriverIs, ReportLoose DEF EventTypes
      <4> QED
        BY <4>1 DEF Report, Drivers, Driver
    <3> QED
      BY <1>0, <1>6, <3>1 DEF Finish, DriverTyped
  <2>3. shedList' # <<>>
    BY <1>6, <2>1 DEF Finish
  <2>4. reduced' \in Nat
    BY <1>0, <1>6, <2>1 DEF Finish, LoadsTyped
  <2>5. UNCHANGED <<chan, pos, mon, load, goal>>
    BY <1>6 DEF Finish
  <2> QED
    BY <1>0, <2>2, <2>3, <2>4, <2>5, DriverStays DEF PassInv, MonitorIs, LoadsTyped, HasWork
<1>7. CASE EndPass
  <2>1. MonitorIs(mon')
    BY <1>0, <1>7, MonitorKeeps DEF EndPass
  <2>2. UNCHANGED <<chan, queue, pos, load, goal, reduced>> /\ step' = "recover"
    BY <1>7 DEF EndPass, Goto, profetVars, passVars
  <2> QED
    BY <1>0, <2>1, <2>2, DriverStays DEF DriverTyped, PassInv, LoadsTyped, HasWork
<1>8. CASE Recover
  <2>1. MonitorIs(mon')
    BY <1>0, <1>8, MonitorKeeps DEF Recover
  <2>2. /\ UNCHANGED <<chan, queue, pos>> /\ step' = "sleep"
        /\ load' = [c \in Outputs |-> 0] /\ goal' = 0 /\ reduced' = 0
    BY <1>8 DEF Recover, Goto, profetVars
  <2> QED
    BY <1>0, <2>1, <2>2, DriverStays DEF DriverTyped, PassInv, LoadsTyped, HasWork
<1> QED
  BY <1>1, <1>2, <1>3, <1>4, <1>5, <1>6, <1>7, <1>8 DEF ProtectionTask

LEMMA PassStep == ASSUME ShedInv, PassInv, [Next]_vars PROVE PassInv'
<1>0. DriverTyped /\ MonitorIs(mon) /\ LoadsTyped /\ HasWork
  BY DEF PassInv
<1>1. CASE ControlTask
  <2>1. DriverTyped'
    BY <1>0, <1>1, ControlTyped DEF ControlTask
  <2>2. UNCHANGED sheddingVars
    BY <1>1 DEF ControlTask
  <2> QED
    BY <2>1, <2>2 DEF PassInv, sheddingVars, passVars, LoadsTyped, HasWork
<1>2. CASE ProtectionTask
  BY <1>2, PassProtects
<1>3. CASE ProtectionService
  <2>1. UNCHANGED <<pos, load, goal, reduced>> /\ step' = "sleep"
    BY <1>3 DEF ProtectionService, ClearProtectionFaults, SetLoadShedding, DeactivateLoadShedding,
                ServiceCall, passVars
  <2>2. MonitorIs(mon')
    <3>1. mon' = Cleared(mon) \/ \E active \in BOOLEAN : mon' = [mon EXCEPT !.load_shedding_active = active]
      BY <1>3 DEF ProtectionService, ClearProtectionFaults, SetLoadShedding, DeactivateLoadShedding
    <3>2. MonitorIs(Cleared(mon)) /\ \A active \in BOOLEAN : MonitorIs([mon EXCEPT !.load_shedding_active = active])
      BY <1>0, MonitorKeeps
    <3> QED
      BY ONLY <3>1, <3>2, Zenon
  <2>3. DriverTyped'
    <3>1. CASE UNCHANGED <<chan, queue>>
      BY <1>0, <2>1, <3>1 DEF DriverTyped
    <3>2. CASE DeactivateLoadShedding
      <4> DEFINE Restored[n \in 0 .. Len(shedList)] ==
                     IF n = 0 THEN Driver ELSE DoSetState(Restored[n - 1], shedList[n], TRUE)
      <4>1. Restored[Len(shedList)] \in Drivers
        BY <1>0, DriverIs, RestoredLoose DEF ShedInv, ListTyped
      <4>2. Become(Restored[Len(shedList)])
        BY <3>2 DEF DeactivateLoadShedding
      <4> HIDE DEF Restored
      <4> QED
        BY <1>0, <2>1, <4>1, <4>2, BecomeLoose DEF DriverTyped
    <3> QED
      BY <1>3, <3>1, <3>2 DEF ProtectionService, ClearProtectionFaults, SetLoadShedding
  <2> QED
    BY <1>0, <2>1, <2>2, <2>3 DEF PassInv, LoadsTyped, HasWork
<1>4. CASE UNCHANGED vars
  BY <1>4 DEF vars, profetVars, sheddingVars, passVars, PassInv, DriverTyped, MonitorIs,
              LoadsTyped, HasWork
<1> QED
  BY <1>1, <1>2, <1>3, <1>4 DEF Next

\* The list is in order and every pass, until it has listed an output, still
\* has to, whatever the control task does between its steps.
THEOREM PassInvariant == Spec => [](ShedInv /\ PassInv)
<1>1. ShedInv /\ PassInv /\ [Next]_vars => (ShedInv /\ PassInv)'
  BY NextShed, PassStep
<1> QED
  BY <1>1, InitShed, PassStart, PTL DEF Spec

\* A pass of PMU_Protection_ActivateLoadShedding ends only when the load it has
\* switched reaches its goal or no expendable output is left on, with any
\* outputs and the control task at work between its steps.
THEOREM PassesReachGoals == Spec => PassReachesGoal
<1>1. /\ ShedInv /\ PassInv /\ [Next]_vars
      => (step = "pick" /\ step' = "recover" =>
              reduced >= goal \/ \A c \in Outputs : Expendable(c) => Shed(c))
  <2> SUFFICES ASSUME ShedInv, PassInv, [Next]_vars, step = "pick", step' = "recover", ~(reduced >= goal),
                      NEW c \in Outputs, Expendable(c)
               PROVE  Shed(c)
    OBVIOUS
  <2>1. EndPass
    BY DEF Next, ControlTask, ProtectionTask, ProtectionService, ClearProtectionFaults, SetLoadShedding,
           DeactivateLoadShedding, ServiceCall, Wake, Sample, CheckFaults, Pick, LowerPin, WriteState,
           Finish, Recover, Goto, vars, sheddingVars
  <2>2. reduced < goal
    BY DEF PassInv, LoadsTyped
  <2>3. left = {}
    BY <2>1, <2>2 DEF EndPass
  <2> QED
    BY <2>3 DEF ShedInv, AllAccounted, InPass, Taken, Taking
<1> QED
  BY <1>1, PassInvariant, PTL DEF Spec, PassReachesGoal

\* Shedding is not switched off while something still asks for it: only a check
\* that finds no fault outside the recovery delay ends it, never a pass, since
\* a pass that was entered lists an output (Protection_CheckFaults).
THEOREM SheddingIsHeld == Spec => SheddingHolds
<1>1. /\ ShedInv /\ PassInv /\ [Next]_vars
      => (mon.load_shedding_active /\ ~mon'.load_shedding_active =>
            \/ mon'.status = "OK" /\ mon'.fault_recovery_timer = 0
            \/ step = "sleep")
  <2> SUFFICES ASSUME ShedInv, PassInv, [Next]_vars, mon.load_shedding_active,
                      ~mon'.load_shedding_active, step # "sleep"
               PROVE  mon'.status = "OK" /\ mon'.fault_recovery_timer = 0
    OBVIOUS
  <2>1. MonitorIs(mon)
    BY DEF PassInv
  <2>2. mon' # mon
    OBVIOUS
  <2>3. ProtectionTask
    BY <2>2 DEF Next, ControlTask, ProtectionService, ClearProtectionFaults, SetLoadShedding,
                DeactivateLoadShedding, ServiceCall, vars, sheddingVars
  <2>4. CASE CheckFaults
    BY <2>1, <2>4, MonitorChecked DEF CheckFaults
  <2>5. CASE \E voltage \in Voltages, temp \in BoardTemps : Sample(voltage, temp)
    <3>1. PICK voltage, temp : Sample(voltage, temp)
      BY <2>5
    <3>2. PartialCurrent[NumOutputs] \in Nat
      BY SumIsNumber DEF PassInv, DriverTyped
    <3>3. mon'.load_shedding_active = mon.load_shedding_active
      BY <2>1, <3>1, <3>2, MonitorSampled, MonitorKeeps DEF Sample, Sheds
    <3> QED
      BY <3>3
  <2>6. CASE EndPass
    <3>1. shedList # <<>>
      BY <2>6 DEF EndPass, Goto, PassInv, HasWork
    <3>2. mon' = [mon EXCEPT !.load_shedding_active = TRUE]
      BY <2>6, <3>1 DEF EndPass
    <3> QED
      BY <2>1, <3>2 DEF MonitorIs
  <2>7. CASE Recover
    BY <2>1, <2>7, MonitorKeeps DEF Recover
  <2> QED
    BY <2>2, <2>3, <2>4, <2>5, <2>6, <2>7 DEF ProtectionTask, Wake, Pick, LowerPin, WriteState, Finish
<1> QED
  BY <1>1, PassInvariant, PTL DEF Spec, SheddingHolds
=============================================================================
