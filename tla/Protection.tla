----------------------------- MODULE Protection -----------------------------
(***************************************************************************)
(* The system monitors of firmware/src/pmu_protection.c: battery voltage,  *)
(* temperature and total load, the fault flags derived from them and the   *)
(* overall status.  The state is one record, protection_state with its     *)
(* private recovery timer; what the 1 kHz task does with it is in          *)
(* LoadShedding, which also owns the outputs.                              *)
(***************************************************************************)
EXTENDS Integers, Sequences, Events

CONSTANTS
    Voltages,                                  \* battery readings
    BoardTemps,                                \* hottest-sensor readings
    VoltageMin, VoltageWarnLow, VoltageWarnHigh, VoltageMax,
    TempWarning, TempCritical,
    TotalCurrentMax, TotalPowerMax,
    PowerUnit,                                 \* 10^6: mV * mA to W
    MonitorThreshold,                          \* PMU_FAULT_THRESHOLD
    RecoveryDelay,                             \* PMU_FAULT_RECOVERY_DELAY_MS
    CounterMod                                 \* 2^8: the counters are uint8_t

ASSUME ProtectionAssumption ==
    /\ Voltages \subseteq Nat /\ BoardTemps \subseteq Int
    /\ {VoltageMin, VoltageWarnLow, VoltageWarnHigh, VoltageMax} \subseteq Nat
    /\ {TempWarning, TempCritical} \subseteq Int
    /\ {TotalCurrentMax, TotalPowerMax, RecoveryDelay} \subseteq Nat
    /\ PowerUnit \in Nat \ {0} /\ CounterMod \in Nat \ {0}
    /\ MonitorThreshold \in Nat \ {0}

VARIABLE mon

Statuses == {"OK", "WARNING", "FAULT", "CRITICAL"}
CriticalFaults == {"UNDERVOLTAGE", "OVERVOLTAGE", "OVERTEMP_CRITICAL"}
SeriousFaults == {"OVERTEMP_WARNING", "OVERCURRENT_TOTAL", "BROWNOUT"}
SystemFaults == CriticalFaults \cup SeriousFaults \cup {"POWER_LIMIT"}

Monitor == [voltage_mV : Voltages \cup {0}, undervoltage_count : 0 .. CounterMod - 1,
            overvoltage_count : 0 .. CounterMod - 1,
            max_temp : BoardTemps \cup {0}, overtemp_count : 0 .. CounterMod - 1,
            total_current_mA : Nat, fault_flags : SUBSET SystemFaults,
            status : Statuses, load_shedding_active : BOOLEAN,
            fault_recovery_timer : 0 .. RecoveryDelay]

\* Mutant: the counter starts again on reaching the threshold.
WrapsAtThreshold(count, bad) == IF bad THEN (count + 1) % MonitorThreshold ELSE 0

\* A counter of consecutive bad samples, as wide as the code declares it.
Consecutive(count, bad) == IF bad THEN (count + 1) % CounterMod ELSE 0

\* Protection_UpdateVoltage and Protection_UpdateTemperature.
Sampled(m, voltage, temp) ==
    [m EXCEPT
        !.voltage_mV = voltage,
        !.undervoltage_count = Consecutive(@, voltage < VoltageMin),
        !.overvoltage_count = Consecutive(@, voltage > VoltageMax),
        !.max_temp = temp,
        !.overtemp_count = Consecutive(@, temp >= TempCritical)]

Overloaded(m) == m.total_current_mA > TotalCurrentMax

\* The power total of Protection_UpdatePower.
TotalPower(m) == (m.voltage_mV * m.total_current_mA) \div PowerUnit

PresentFaults(m) ==
    {f \in SystemFaults :
        \/ f = "UNDERVOLTAGE" /\ m.undervoltage_count >= MonitorThreshold
        \/ f = "OVERVOLTAGE" /\ m.overvoltage_count >= MonitorThreshold
        \/ f = "BROWNOUT" /\ (m.voltage_mV < VoltageWarnLow \/ m.voltage_mV > VoltageWarnHigh)
        \/ f = "OVERTEMP_CRITICAL" /\ m.overtemp_count >= MonitorThreshold
        \/ f = "OVERTEMP_WARNING" /\ m.max_temp >= TempWarning
        \/ f = "OVERCURRENT_TOTAL" /\ Overloaded(m)
        \/ f = "POWER_LIMIT" /\ TotalPower(m) > TotalPowerMax}

StatusOf(flags) ==
    CASE flags \cap CriticalFaults # {} -> "CRITICAL"
      [] flags \cap CriticalFaults = {} /\ flags \cap SeriousFaults # {} -> "FAULT"
      [] flags = {"POWER_LIMIT"} -> "WARNING"
      [] OTHER -> "OK"

\* Mutant: the flags are not recomputed from zero.
CheckedSticky(m) ==
    LET flags == m.fault_flags \cup PresentFaults(m)
        asks == flags \cap {"OVERTEMP_CRITICAL", "OVERCURRENT_TOTAL"} # {}
        calm == flags = {} /\ m.fault_recovery_timer = 0
    IN  [m EXCEPT !.fault_flags = flags, !.status = StatusOf(flags),
                  !.load_shedding_active = (@ \/ asks) /\ ~calm]

\* Mutant: shedding is switched off as soon as no fault asks for it.
CheckedEager(m) ==
    LET flags == PresentFaults(m)
    IN  [m EXCEPT !.fault_flags = flags, !.status = StatusOf(flags),
                  !.load_shedding_active =
                        flags \cap {"OVERTEMP_CRITICAL", "OVERCURRENT_TOTAL"} # {}]

\* Protection_CheckFaults.
Checked(m) ==
    LET flags == PresentFaults(m)
        asks == flags \cap {"OVERTEMP_CRITICAL", "OVERCURRENT_TOTAL"} # {}
        calm == flags = {} /\ m.fault_recovery_timer = 0
    IN  [m EXCEPT !.fault_flags = flags, !.status = StatusOf(flags),
                  !.load_shedding_active = (@ \/ asks) /\ ~calm]

\* The system events Protection_CheckFaults pushes: one for each critical fault
\* that was not flagged before, in this order.
Reported(q, old, new) ==
    LET report(r, fault, type) ==
            IF fault \in new.fault_flags \ old.fault_flags THEN Push(r, type, System) ELSE r
    IN  report(report(report(q, "UNDERVOLTAGE", "SYSTEM_UNDERVOLT"),
                      "OVERVOLTAGE", "SYSTEM_OVERVOLT"),
               "OVERTEMP_CRITICAL", "SYSTEM_OVERTEMP")

\* The auto-recovery timer at the end of PMU_Protection_Update.
Recovering(m) ==
    [m EXCEPT !.fault_recovery_timer = IF @ > 0 THEN @ - 1 ELSE @]

\* PMU_Protection_ClearFaults: refused in the critical state.
Cleared(m) ==
    IF m.status = "CRITICAL" THEN m
    ELSE [m EXCEPT !.fault_flags = {}, !.undervoltage_count = 0,
                   !.overvoltage_count = 0, !.overtemp_count = 0,
                   !.status = "OK", !.fault_recovery_timer = RecoveryDelay]

InitialMonitor ==
    [voltage_mV |-> 0, undervoltage_count |-> 0, overvoltage_count |-> 0,
     max_temp |-> 0, overtemp_count |-> 0, total_current_mA |-> 0,
     fault_flags |-> {}, status |-> "OK", load_shedding_active |-> FALSE,
     fault_recovery_timer |-> 0]
=============================================================================
