----------------------------- MODULE ProfetSense -----------------------------
(***************************************************************************)
(* The conversions behind the readings of Profet: 12-bit samples of the    *)
(* current sense pin turned into mA by the integer arithmetic of           *)
(* firmware/src/pmu_profet.c, and the 4-sample filter.                     *)
(***************************************************************************)
EXTENDS Integers

CONSTANTS Samples             \* the ADC samples the sense pin may give
ASSUME SamplesAssumption == Samples \subseteq 0 .. 4095

VARIABLES adc,                \* the latest sample
          current_mA          \* the filtered current, a uint16_t

senseVars == <<adc, current_mA>>

PROFET_KILIS_RATIO == 4700
Uint16 == 65536

MilliVolts(sample) == (sample * 3300) \div 4095

\* Mutant: the ratio is scaled by 100 instead of 1000.
SensedTenfold(sample) == (MilliVolts(sample) * PROFET_KILIS_RATIO) \div 100

\* PROFET_UpdateCurrentSensing
SensedMa(sample) == (MilliVolts(sample) * PROFET_KILIS_RATIO) \div 1000

\* Mutant: the weights of the filter do not add up.
FilteredLow(current, sensed) == ((current + sensed) \div 4) % Uint16

Filtered(current, sensed) == ((current * 3 + sensed) \div 4) % Uint16

SenseInit == adc \in Samples /\ current_mA = 0

Resample == adc' \in Samples /\ UNCHANGED current_mA

Sense == current_mA' = Filtered(current_mA, SensedMa(adc)) /\ UNCHANGED adc

SenseSpec == SenseInit /\ [][Resample \/ Sense]_senseVars /\ WF_senseVars(Sense)

-----------------------------------------------------------------------------
\* The 16-bit cast of the filter never cuts an ADC-based current.
NoTruncation == (current_mA * 3 + SensedMa(adc)) \div 4 < Uint16

\* A steady load is reported to within the filter's rounding, 3 mA, for good.
FilterSettles ==
    \A a \in Samples : <>[](adc = a) =>
        <>[](current_mA \in SensedMa(a) - 3 .. SensedMa(a))
=============================================================================
