---------------------------- MODULE LoadShedding ----------------------------
(***************************************************************************)
(* The control task and the protection task of main.c, at work on the same *)
(* outputs.  The control task has the higher priority: it preempts the     *)
(* protection task between any two accesses, runs a command or a whole     *)
(* refresh, and is never preempted by it.  PMU_Protection_Update is        *)
(* therefore a sequence of small steps, and PMU_PROFET_SetState, which it  *)
(* calls to shed an output, is split at its writes:                        *)
(*                                                                         *)
(*   sample -> check -> [ pick -> pin -> state -> finish ]* -> recover     *)
(*                                                                         *)
(* Nothing guards the channels, so what a step has read may be stale when a *)
(* later one uses it.                                                      *)
(***************************************************************************)
EXTENDS Profet, Protection

CONSTANTS
    Priority,       \* shed_priority of every output; 0 is never shed
    Enabled         \* the outputs whose configuration is enabled

ASSUME SheddingAssumption ==
    /\ Priority \in [Outputs -> Nat]
    /\ Enabled \subseteq Outputs

VARIABLES
    step,           \* where the protection task is; "sleep" between its periods
    shedList,       \* shed_output_list[0 .. shed_output_count - 1]
    left,           \* candidates of PMU_Protection_ActivateLoadShedding not yet shed
    load,           \* their current_mA when they were collected
    goal,           \* target_reduction_mA
    reduced,        \* current_reduced
    victim          \* the output being shed

passVars == <<left, load, goal, reduced, victim>>
sheddingVars == <<mon, step, shedList, passVars>>
vars == <<profetVars, sheddingVars>>

Steps == {"sleep", "sample", "check", "pick", "pin", "state", "finish", "recover"}

\* The running sum of Protection_UpdatePower, which stops once it is over.
PartialCurrent[n \in 0 .. NumOutputs] ==
    IF n = 0 THEN 0
    ELSE IF PartialCurrent[n - 1] > TotalCurrentMax THEN PartialCurrent[n - 1]
    ELSE PartialCurrent[n - 1] + chan[n - 1].current_mA

Shed(c) == \E i \in 1 .. Len(shedList) : shedList[i] = c

Expendable(c) == Priority[c] > 0 /\ c \in Enabled

\* Mutant: an output already shed is collected again.
AllExpendable == {c \in Outputs : Expendable(c)}

Candidates == {c \in Outputs : Expendable(c) /\ ~Shed(c)}

\* Excess over 90 % of the maximum.
Excess == mon.total_current_mA - (TotalCurrentMax * 90) \div 100

\* Mutant: the sort puts the most important output first.
MostImportant(S) == CHOOSE c \in S : \A o \in S : Priority[c] <= Priority[o]

\* The bubble sort of the candidates is stable: the next to be shed has the
\* highest priority number and, among those, the lowest index.
First(S) == CHOOSE c \in S : \A o \in S \ {c} :
                \/ Priority[o] < Priority[c]
                \/ Priority[o] = Priority[c] /\ o > c

-----------------------------------------------------------------------------
(* The protection task.  Each step waits for the control task to sleep.     *)

Goto(from, to) == pos = Idle /\ step = from /\ step' = to

Wake == Goto("sleep", "sample") /\ UNCHANGED <<profetVars, mon, shedList, passVars>>

Sample(voltage, temp) ==
    /\ Goto("sample", "check")
    /\ mon' = [Sampled(mon, voltage, temp) EXCEPT !.total_current_mA = PartialCurrent[NumOutputs]]
    /\ UNCHANGED <<profetVars, shedList, passVars>>

\* Protection_CheckFaults, then the decision of Protection_HandleLoadShedding
\* and the collection of the candidates.
CheckFaults ==
    /\ pos = Idle /\ step = "check"
    /\ mon' = Checked(mon)
    /\ queue' = Reported(queue, mon, mon')
    /\ IF mon'.load_shedding_active /\ Overloaded(mon) /\ Candidates # {}
       THEN /\ step' = "pick"
            /\ left' = Candidates
            /\ load' = [c \in Outputs |-> chan[c].current_mA]
            /\ goal' = Excess
            /\ reduced' = 0
       ELSE /\ step' = "recover"
            /\ UNCHANGED <<left, load, goal, reduced>>
    /\ UNCHANGED <<chan, tick, pos, shedList, victim>>

\* The loop test; then the lockout test of SetState, which latches was_on.
\* A locked-out candidate is not switched but listed and counted all the same.
Pick ==
    /\ step = "pick" /\ reduced < goal /\ left # {}
    /\ LET c == First(left)
       IN  /\ Goto("pick", IF LockedOut(chan[c]) THEN "finish" ELSE "pin")
           /\ victim' = [output |-> c, was_on |-> ~LockedOut(chan[c]) /\ Active(chan[c])]
           /\ left' = left \ {c}
    /\ UNCHANGED <<profetVars, mon, shedList, load, goal, reduced>>

LowerPin ==
    /\ Goto("pin", "state")
    /\ chan' = [chan EXCEPT ![victim.output].pin = FALSE]
    /\ UNCHANGED <<queue, tick, pos, mon, shedList, passVars>>

WriteState ==
    /\ Goto("state", "finish")
    /\ chan' = [chan EXCEPT ![victim.output] = [@ EXCEPT
                    !.state = "OFF", !.pwm_duty = 0, !.on_time_ms = 0]]
    /\ UNCHANGED <<queue, tick, pos, mon, shedList, passVars>>

\* The event of SetState and the bookkeeping after it.
Finish ==
    /\ Goto("finish", "pick")
    /\ queue' = IF victim.was_on THEN Push(queue, "CHANNEL_OFF", victim.output) ELSE queue
    /\ shedList' = Append(shedList, victim.output)
    /\ reduced' = reduced + load[victim.output]
    /\ UNCHANGED <<chan, tick, pos, mon, left, load, goal, victim>>

\* Mutant: a pass may end after any output.
EndPassEarly ==
    /\ Goto("pick", "recover")
    /\ mon' = [mon EXCEPT !.load_shedding_active = shedList # <<>>]
    /\ UNCHANGED <<profetVars, shedList, passVars>>

EndPass ==
    /\ Goto("pick", "recover")
    /\ ~(reduced < goal /\ left # {})
    /\ mon' = [mon EXCEPT !.load_shedding_active = shedList # <<>>]
    /\ UNCHANGED <<profetVars, shedList, passVars>>

Recover ==
    /\ Goto("recover", "sleep")
    /\ mon' = Recovering(mon)
    /\ left' = {} /\ load' = [c \in Outputs |-> 0] /\ goal' = 0 /\ reduced' = 0
    /\ victim' = [output |-> 0, was_on |-> FALSE]
    /\ UNCHANGED <<profetVars, shedList>>

ProtectionTask ==
    \/ Wake
    \/ \E voltage \in Voltages, temp \in BoardTemps : Sample(voltage, temp)
    \/ CheckFaults \/ Pick \/ LowerPin \/ WriteState \/ Finish \/ EndPass \/ Recover

-----------------------------------------------------------------------------
(* The control task. *)

\* It preempts the protection task at any step.
ControlTask == (Update \/ ControlCommand) /\ UNCHANGED sheddingVars

(* The service interface of pmu_protection.c.  No task of the firmware calls *)
(* it; the tests do, between two updates.                                    *)

ServiceCall == pos = Idle /\ step = "sleep" /\ UNCHANGED <<tick, pos, step, passVars>>

ClearProtectionFaults ==
    ServiceCall /\ mon' = Cleared(mon) /\ UNCHANGED <<chan, queue, shedList>>

SetLoadShedding(enable) ==
    /\ ServiceCall
    /\ mon' = [mon EXCEPT !.load_shedding_active = enable]
    /\ UNCHANGED <<chan, queue, shedList>>

\* The listed outputs are switched on one after the other, in list order.
DeactivateLoadShedding ==
    LET Restored[n \in 0 .. Len(shedList)] ==
            IF n = 0 THEN Driver ELSE DoSetState(Restored[n - 1], shedList[n], TRUE)
    IN  /\ ServiceCall
        /\ Become(Restored[Len(shedList)])
        /\ shedList' = <<>>
        /\ mon' = [mon EXCEPT !.load_shedding_active = FALSE]

ProtectionService ==
    \/ ClearProtectionFaults
    \/ \E enable \in BOOLEAN : SetLoadShedding(enable)
    \/ DeactivateLoadShedding

-----------------------------------------------------------------------------
Init ==
    /\ ProfetInit
    /\ \E voltage \in Voltages, temp \in BoardTemps :
            mon = Sampled(InitialMonitor, voltage, temp)
    /\ step = "sleep"
    /\ shedList = <<>>
    /\ left = {} /\ load = [c \in Outputs |-> 0] /\ goal = 0 /\ reduced = 0
    /\ victim = [output |-> 0, was_on |-> FALSE]

Next == ControlTask \/ ProtectionTask \/ ProtectionService

Spec == Init /\ [][Next]_vars

\* The image as it is built: both tasks wake every millisecond, so neither is
\* starved, and no task calls the service interface.
TasksSpec ==
    /\ Init /\ [][ControlTask \/ ProtectionTask]_vars
    /\ WF_vars(Update /\ UNCHANGED sheddingVars)
    /\ SF_vars(ProtectionTask)

-----------------------------------------------------------------------------

\* No output is listed twice, so the list never overflows shed_output_list,
\* and a critical or disabled output is never shed.
ShedListSound ==
    /\ \A i, j \in 1 .. Len(shedList) : shedList[i] = shedList[j] => i = j
    /\ \A i \in 1 .. Len(shedList) : Expendable(shedList[i])

\* Load is shed in the order of the configured priorities, over any number of
\* passes: while an output is listed, so is every less important one.
ShedInPriorityOrder ==
    \A i \in 1 .. Len(shedList) : \A c \in Outputs :
        Expendable(c) /\ Priority[c] > Priority[shedList[i]] =>
            Shed(c) \/ (step \in {"pin", "state", "finish"} /\ victim.output = c)

\* A pass ends only when enough load was switched or nothing is left to switch.
PassReachesGoal ==
    [][step = "pick" /\ step' = "recover" =>
        reduced >= goal \/ \A c \in Outputs : Expendable(c) => Shed(c)]_vars

\* What the preemption can do to the fault lockout, and no more: the test of
\* SetState may be stale when the protection task writes the state, and that one
\* write takes an output out of the lockout it has entered meanwhile.  No other
\* step of either task ends a lockout, whatever the interleaving.
LockoutLostToStaleWrite ==
    [][\A c \in Outputs : LockedOut(chan[c]) /\ ~LockedOut(chan'[c]) =>
            step = "state" /\ step' = "finish" /\ victim.output = c]_vars

\* Shedding that the task itself switched on ends only in an all-clear check
\* outside the recovery delay.
SheddingHolds ==
    [][mon.load_shedding_active /\ ~mon'.load_shedding_active =>
        \/ mon'.status = "OK" /\ mon'.fault_recovery_timer = 0
        \/ step = "sleep"]_vars

\* An undervoltage that lasts keeps raising the critical status.
UndervoltageRaisesCritical ==
    <>[](mon.voltage_mV < VoltageMin) => []<>(mon.status = "CRITICAL")

\* Once voltage, temperature and load stay normal the status returns to OK for
\* good and shedding is switched off.
Healthy ==
    /\ mon.voltage_mV \in VoltageWarnLow .. VoltageWarnHigh
    /\ mon.max_temp < TempWarning
    /\ mon.total_current_mA <= TotalCurrentMax
    /\ mon.voltage_mV * mon.total_current_mA <= TotalPowerMax * PowerUnit

Relaxed == mon.status = "OK" /\ ~mon.load_shedding_active

HealthyRecovers == <>[]Healthy => <>[]Relaxed
=============================================================================
