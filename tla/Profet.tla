------------------------------- MODULE Profet -------------------------------
(***************************************************************************)
(* The PROFET 2 high-side output driver, firmware/src/pmu_profet.c.        *)
(*                                                                         *)
(* Every output has a record of run-time data (channels[]), a manual       *)
(* override flag and a GPIO pin that switches the load.  The 1 kHz control *)
(* task refreshes the outputs one after the other (UpdateBegin, then one   *)
(* UpdateChannel per output) and every DiagPeriod-th refresh also runs the *)
(* diagnostics, which may shut an output down or lock it out.  Commands    *)
(* (SetState, SetPWM, ...) come from logic, protocol, Lua and handlers and *)
(* run between two refreshes, because they share the control task.         *)
(*                                                                         *)
(* Edges are reported to the event queue of pmu_handler.c, a bounded FIFO  *)
(* that silently refuses an event when it is full.                         *)
(*                                                                         *)
(* Every operation is an operator from a driver value to a driver value    *)
(* [chan, queue], so that the callers that make several calls in one       *)
(* handler compose them.                                                   *)
(***************************************************************************)
EXTENDS Integers, Sequences, Events

CONSTANTS
    NumOutputs,        \* PMU30_NUM_OUTPUTS
    Readings,          \* load currents a sense reading can report, in mA
    Temps,             \* temperatures a status reading can report, in deg C
    Duties,            \* duty cycles a caller may ask for
    PwmResolution,     \* PMU_PROFET_PWM_RESOLUTION, full duty
    FaultThreshold,    \* PROFET_FAULT_THRESHOLD, faults before the lockout
    OvercurrentMa, ShortCircuitMa, OpenLoadMa, OvertempC,
    OpenLoadDuty,      \* duty above which an open load is reported (500)
    GraceMs,           \* grace period of the open-load check (500)
    DiagPeriod,        \* refreshes per diagnosis (10)
    CurrentMod,        \* 2^16: current_mA is a uint16_t
    MaxFaultCount      \* 2^8 - 1: fault_count is a uint8_t

ASSUME ProfetAssumption ==
    /\ NumOutputs \in Nat \ {0}
    /\ Readings \subseteq Nat
    /\ Temps \subseteq Int
    /\ PwmResolution \in Nat \ {0}
    /\ Duties \subseteq Nat
    /\ FaultThreshold \in Nat \ {0}
    /\ {OvercurrentMa, ShortCircuitMa, OpenLoadMa, OpenLoadDuty, GraceMs} \subseteq Nat
    /\ OvertempC \in Int
    /\ DiagPeriod \in Nat \ {0}
    /\ CurrentMod \in Nat \ {0}
    /\ MaxFaultCount \in Nat /\ MaxFaultCount > FaultThreshold + 1
    /\ Sources = 0 .. NumOutputs - 1

VARIABLES
    chan,      \* channels[], manual_override[] and the GPIO pins
    tick,      \* tick_1khz, modulo DiagPeriod
    pos        \* the output PMU_PROFET_Update refreshes next; Idle between calls

profetVars == <<chan, queue, tick, pos>>

-----------------------------------------------------------------------------
Outputs == 0 .. NumOutputs - 1
Idle == NumOutputs

\* PMU_PROFET_FAULT_*.  Undervoltage has no state of its own; it also stands
\* for the bits of the byte that name no fault.
Faults == {"OC", "OT", "SC", "OL", "UV"}
FaultStates == {"OC", "OT", "SC", "OL"}       \* PROFET_IsInFaultState
ActiveStates == {"ON", "PWM"}
States == {"OFF"} \cup ActiveStates \cup FaultStates

Channel == [state : States, pwm_duty : 0 .. PwmResolution,
            on_time_ms : 0 .. GraceMs + 1, fault_flags : SUBSET Faults,
            fault_count : 0 .. MaxFaultCount, current_mA : 0 .. CurrentMod - 1,
            manual : BOOLEAN, pin : BOOLEAN]

InFaultState(r) == r.state \in FaultStates
Active(r) == r.state \in ActiveStates
LockedOut(r) == InFaultState(r) /\ r.fault_count >= FaultThreshold

\* PROFET_FaultToState: the most severe flag wins; without a flag that has a
\* state (undervoltage, none at all) the overcurrent state is the fallback.
FaultToState(flags) ==
    IF "SC" \in flags THEN "SC"
    ELSE IF "OT" \in flags THEN "OT"
    ELSE IF "OL" \in flags /\ "OC" \notin flags THEN "OL"
    ELSE "OC"

-----------------------------------------------------------------------------
(* What the operations do to the record r of one output.                    *)

\* Mutant: the pin is forgotten when an output is switched off.
OffWithoutPin(r) == [r EXCEPT !.state = "OFF", !.pwm_duty = 0, !.on_time_ms = 0]

SwitchedOn(r) ==
    [r EXCEPT !.pin = TRUE, !.state = "ON", !.pwm_duty = PwmResolution, !.on_time_ms = 0]

SwitchedOff(r) ==
    [r EXCEPT !.pin = FALSE, !.state = "OFF", !.pwm_duty = 0, !.on_time_ms = 0]

ClampDuty(duty) == IF duty > PwmResolution THEN PwmResolution ELSE duty

\* PMU_PROFET_SetPWM: a duty strictly between the ends leaves the pin as it is
\* and hands the load to the timer; the on-time goes on.
Modulated(r, duty) ==
    IF duty = 0 THEN [r EXCEPT !.pwm_duty = 0, !.state = "OFF", !.pin = FALSE]
    ELSE IF duty = PwmResolution
    THEN [r EXCEPT !.pwm_duty = duty, !.state = "ON", !.pin = TRUE]
    ELSE [r EXCEPT !.pwm_duty = duty, !.state = "PWM"]

Overridden(r, manual) == [r EXCEPT !.manual = manual]

\* Mutant: clearing the faults resumes the output.
HealedAndResumed(r) ==
    [r EXCEPT !.fault_flags = {}, !.fault_count = 0,
              !.state = IF @ \in FaultStates THEN "ON" ELSE @]

Healed(r) ==
    [r EXCEPT !.fault_flags = {}, !.fault_count = 0,
              !.state = IF @ \in FaultStates THEN "OFF" ELSE @]

\* fault_count++, on its eight bits.
Counted(count) == (count + 1) % (MaxFaultCount + 1)

Injected(r, flags) ==
    [r EXCEPT !.fault_flags = @ \cup flags, !.fault_count = Counted(@),
              !.state = FaultToState(flags), !.pin = FALSE]

\* PROFET_HandleFault: SC and OT shut down at once, the others at the lockout.
ShutsDown(r, fault) == fault \in {"SC", "OT"} \/ Counted(r.fault_count) >= FaultThreshold

\* Mutant: a fault is flagged but not counted.
FaultedUncounted(r, fault) ==
    [r EXCEPT !.fault_flags = @ \cup {fault},
              !.state = IF ShutsDown(r, fault) THEN FaultToState({fault}) ELSE @,
              !.pin = @ /\ ~ShutsDown(r, fault)]

Faulted(r, fault) ==
    [r EXCEPT !.fault_flags = @ \cup {fault}, !.fault_count = Counted(@),
              !.state = IF ShutsDown(r, fault) THEN FaultToState({fault}) ELSE @,
              !.pin = @ /\ ~ShutsDown(r, fault)]

\* The on-time saturates: the code only asks whether it exceeds GraceMs.
CountOnTime(r) ==
    [r EXCEPT !.on_time_ms = IF Active(r) /\ @ <= GraceMs THEN @ + 1 ELSE @]

\* PROFET_UpdateCurrentSensing: a 4-sample filter cut to 16 bits.
SenseCurrent(r, reading) ==
    [r EXCEPT !.current_mA = ((@ * 3 + reading) \div 4) % CurrentMod]

OpenLoad(r) ==
    /\ ~r.manual
    /\ r.on_time_ms > GraceMs
    /\ r.pwm_duty > OpenLoadDuty
    /\ r.current_mA < OpenLoadMa

-----------------------------------------------------------------------------
(* The operations on a driver value d = [chan, queue]; c is an output.       *)

Put(d, c, r) == [chan |-> [d.chan EXCEPT ![c] = r], queue |-> d.queue]

Report(d, c, type) == [chan |-> d.chan, queue |-> Push(d.queue, type, c)]

\* Mutant: the fault lockout is not checked.
SetStateUnguarded(d, c, on) ==
    Put(d, c, IF on THEN SwitchedOn(d.chan[c]) ELSE SwitchedOff(d.chan[c]))

DoSetState(d, c, on) ==
    LET r == d.chan[c]
        e == Put(d, c, IF on THEN SwitchedOn(r) ELSE SwitchedOff(r))
    IN  IF LockedOut(r) THEN d
        ELSE IF on /\ ~Active(r) THEN Report(e, c, "CHANNEL_ON")
        ELSE IF ~on /\ Active(r) THEN Report(e, c, "CHANNEL_OFF")
        ELSE e

DoSetStateManual(d, c, on) ==
    LET e == DoSetState(d, c, on)
    IN  IF LockedOut(d.chan[c]) THEN d ELSE Put(e, c, Overridden(e.chan[c], TRUE))

\* Mutant: the fault lockout is not checked.
SetPWMUnguarded(d, c, duty) == Put(d, c, Modulated(d.chan[c], ClampDuty(duty)))

DoSetPWM(d, c, duty) ==
    IF LockedOut(d.chan[c]) THEN d ELSE Put(d, c, Modulated(d.chan[c], ClampDuty(duty)))

\* Channel_WritePhysicalOutput of pmu_channel.c: the value is the duty.
DoWriteOutput(d, c, value) ==
    IF value > 0 THEN DoSetPWM(DoSetState(d, c, TRUE), c, value)
                 ELSE DoSetState(d, c, FALSE)

\* PMU_Logic_ApplyOutputs of pmu_logic.c skips an output under manual override.
DoLogicOutput(d, c, duty) ==
    IF d.chan[c].manual THEN d
    ELSE IF duty > 0 /\ duty < PwmResolution THEN DoSetPWM(d, c, duty)
    ELSE DoSetState(d, c, duty > 0)

DoClearFaults(d, c) ==
    LET e == Put(d, c, Healed(d.chan[c]))
    IN  IF InFaultState(d.chan[c]) THEN Report(e, c, "CHANNEL_CLEARED") ELSE e

HandleFault(d, c, fault) ==
    LET e == Put(d, c, Faulted(d.chan[c], fault))
    IN  IF InFaultState(d.chan[c]) THEN e ELSE Report(e, c, "CHANNEL_FAULT")

\* PROFET_UpdateDiagnostics: an overcurrent ends the diagnosis, an open load
\* is followed by the temperature check.
Diagnose(d, c, temp) ==
    LET r == d.chan[c]
        loadChecked == IF OpenLoad(r) THEN HandleFault(d, c, "OL") ELSE d
    IN  IF ~Active(r) THEN d
        ELSE IF r.current_mA > ShortCircuitMa THEN HandleFault(d, c, "SC")
        ELSE IF r.current_mA > OvercurrentMa THEN HandleFault(d, c, "OC")
        ELSE IF temp > OvertempC THEN HandleFault(loadChecked, c, "OT")
        ELSE loadChecked

\* The body of the loop of PMU_PROFET_Update.
Refresh(d, c, reading, temp, diagnose) ==
    LET sensed == Put(d, c, SenseCurrent(CountOnTime(d.chan[c]), reading))
    IN  IF diagnose THEN Diagnose(sensed, c, temp) ELSE sensed

-----------------------------------------------------------------------------
Driver == [chan |-> chan, queue |-> queue]
Become(d) == chan' = d.chan /\ queue' = d.queue

InitialChannel ==
    [state |-> "OFF", pwm_duty |-> 0, on_time_ms |-> 0, fault_flags |-> {},
     fault_count |-> 0, current_mA |-> 0, manual |-> FALSE, pin |-> FALSE]

ProfetInit ==
    /\ chan = [c \in Outputs |-> InitialChannel]
    /\ queue = <<>>
    /\ tick = 0
    /\ pos = Idle

\* A command runs in the control task between two refreshes.
Command(d) == pos = Idle /\ Become(d) /\ UNCHANGED <<tick, pos>>

SetState(c, on) == Command(DoSetState(Driver, c, on))
SetStateManual(c, on) == Command(DoSetStateManual(Driver, c, on))
SetPWM(c, duty) == Command(DoSetPWM(Driver, c, duty))
WriteOutput(c, value) == Command(DoWriteOutput(Driver, c, value))
LogicOutput(c, duty) == Command(DoLogicOutput(Driver, c, duty))
ClearFaults(c) == Command(DoClearFaults(Driver, c))
ClearManualOverride(c) == Command(Put(Driver, c, Overridden(chan[c], FALSE)))

ClearAllManualOverrides ==
    Command([chan |-> [c \in Outputs |-> Overridden(chan[c], FALSE)], queue |-> queue])

\* Bound: not so many injections that the count wraps.
InjectFault(c, flags) ==
    /\ chan[c].fault_count < MaxFaultCount - 2
    /\ Command(Put(Driver, c, Injected(chan[c], flags)))

UpdateBegin ==
    /\ pos = Idle
    /\ tick' = (tick + 1) % DiagPeriod
    /\ pos' = 0
    /\ UNCHANGED <<chan, queue>>

UpdateChannel(reading, temp) ==
    /\ pos # Idle
    /\ Become(Refresh(Driver, pos, reading, temp, tick = 0))
    /\ pos' = pos + 1
    /\ UNCHANGED tick

Update ==
    \/ UpdateBegin
    \/ \E reading \in Readings, temp \in Temps : UpdateChannel(reading, temp)

\* The calls the firmware makes from the control task.
ControlCommand ==
    \E c \in Outputs :
        \/ \E on \in BOOLEAN : SetState(c, on)
        \/ \E duty \in Duties : SetPWM(c, duty)
        \/ \E value \in Duties : WriteOutput(c, value)
        \/ \E duty \in Duties : LogicOutput(c, duty)

\* The rest of the driver's interface, which the tests and the emulator use.
ServiceCommand ==
    \/ \E c \in Outputs :
        \/ \E on \in BOOLEAN : SetStateManual(c, on)
        \/ ClearManualOverride(c)
        \/ ClearFaults(c)
        \/ \E flags \in SUBSET Faults : InjectFault(c, flags)
    \/ ClearAllManualOverrides

ProfetNext == Update \/ ControlCommand \/ ServiceCommand

ProfetSpec == ProfetInit /\ [][ProfetNext]_profetVars

\* vControlTask runs the refresh every millisecond, whatever the commands.
FairSpec == ProfetSpec /\ WF_profetVars(Update)

-----------------------------------------------------------------------------
(* Properties.                                                              *)

TypeOK ==
    /\ chan \in [Outputs -> Channel]
    /\ queue \in Queues
    /\ tick \in 0 .. DiagPeriod - 1
    /\ pos \in 0 .. Idle

\* A fed load is a watched load: the diagnostics look at ON and PWM outputs
\* only, so a high pin in any other state would feed a load nobody monitors.
PinIsWatched == \A c \in Outputs : chan[c].pin => Active(chan[c])

\* An output that reports ON has its pin high.
OnIsDriven == \A c \in Outputs : chan[c].state = "ON" => chan[c].pin

\* FaultThreshold faults put an output out of service, pin low, whatever
\* commands are interleaved with the diagnoses.
ThreeFaultsLockOut ==
    \A c \in Outputs : chan[c].fault_count >= FaultThreshold =>
                          LockedOut(chan[c]) /\ ~chan[c].pin

\* A fault state has a counted fault behind it and, unless it is the fallback
\* state, a flag of its own kind, which is what the telemetry shows beside it;
\* and no flag is up without a counted fault.  (In the overcurrent state the
\* flag may be missing: an injected undervoltage ends there.)
FaultRecorded ==
    \A c \in Outputs :
        /\ InFaultState(chan[c]) =>
              /\ chan[c].fault_count > 0
              /\ chan[c].state \in chan[c].fault_flags \cup {"OC"}
        /\ chan[c].fault_flags # {} => chan[c].fault_count > 0

\* The duty that telemetry reports is the one the state implies.
DutyMatchesState ==
    \A c \in Outputs :
        /\ chan[c].state = "ON" => chan[c].pwm_duty = PwmResolution
        /\ chan[c].state = "PWM" => chan[c].pwm_duty \in 1 .. PwmResolution - 1

\* Pin, state and duty are written by five operations, each of a different
\* part; no mix of commands and diagnoses leaves them telling different things.
OutputAgrees == PinIsWatched /\ OnIsDriven /\ DutyMatchesState

\* Count, flags, state and pin agree on the faults an output has had, whatever
\* mix of diagnoses, commands, injections and clears has written them: a fault
\* state is accounted for, and the threshold means out of service.
FaultsExplained == ThreeFaultsLockOut /\ FaultRecorded

\* A locked-out output stays so until its faults are cleared.
LockoutHolds ==
    [][\A c \in Outputs : LockedOut(chan[c]) =>
            LockedOut(chan'[c]) \/ chan'[c].fault_count = 0]_profetVars

\* The driver keeps the promise of a smart fuse: no command, diagnosis or
\* override takes an output from the lockout back to a fed load in one step.
Mode(r) == IF LockedOut(r) THEN "tripped" ELSE IF r.pin \/ Active(r) THEN "on" ELSE "off"

Fuse == INSTANCE SmartFuse WITH mode <- [c \in Outputs |-> Mode(chan[c])]

ImplementsFuse == Fuse!Spec

\* An output whose load draws too much for ever does not stay on for ever: as
\* long as its faults are not cleared, the diagnoses end in the lockout,
\* however often it is switched on again.
OvercurrentTrips ==
    \A c \in Outputs :
        <>[](chan[c].current_mA > OvercurrentMa /\ chan[c].fault_flags # {})
            => []<>~chan[c].pin
=============================================================================
