----------------------------- MODULE Dispenser ------------------------------
(***************************************************************************)
(* dispenser.c: one call of dispenser_run after another, pulse by pulse.   *)
(* Times are in microseconds.  The calls come from one task at a time (the *)
(* feed mutex).  The manual button, which turns the same motor, is left    *)
(* out.                                                                    *)
(***************************************************************************)
EXTENDS Integers, StepCount

CONSTANTS
    Amounts,    \* what dispenser_run may be asked for
    StepsFor,   \* total_steps of each positive amount, see StepCount
    Rpm         \* CONFIG_DISPENSER_RPM

ASSUME AmountsAssumption ==
    Amounts \subseteq Int /\ StepsFor \in [{g \in Amounts : g > 0} -> Nat]

\* With 0 rpm stepper_rotate would return without a move.
ASSUME RpmAssumption == Rpm \in Nat \ {0}

MIN_STEP_PERIOD_US == 800
RAMP_STEPS == 400       \* ramp_steps of a long run
SHORT_RUN == 1200       \* below it, a third of the run
RAMP_YIELD == 2000      \* pulses between two vTaskDelay(1) ...
CRUISE_YIELD == 4000    \* ... in a ramp and in the cruise

VARIABLES
    pc,       \* where the call is
    grams,    \* its argument
    en,       \* EN_PIN, active low
    total,    \* total_steps
    i,        \* the loop counter
    \* history of the call
    pulses,   \* pulses given
    period,   \* the period of the last one
    hogged    \* pulses since the task last gave up the processor

vars == <<pc, grams, en, total, i, pulses, period, hogged>>

Looping == {"ramp_up", "cruise", "ramp_down"}
Places == Looping \cup {"idle", "waking", "stopping", "returned"}

-----------------------------------------------------------------------------
(***************************************************************************)
(* stepper_rotate: periods and the length of the ramp.                     *)
(***************************************************************************)

\* target_period_us
TargetPeriod ==
    LET nominal == 60000000 \div (Rpm * 1600)
    IN  IF nominal < MIN_STEP_PERIOD_US THEN MIN_STEP_PERIOD_US ELSE nominal

\* start_period_us
StartPeriod == 2 * TargetPeriod

\* ramp_steps, after the clamp in stepper_move_ramp.
RampSteps(steps) ==
    LET ramp == IF steps < SHORT_RUN THEN steps \div 3 ELSE RAMP_STEPS
    IN  IF 2 * ramp > steps THEN steps \div 2 ELSE ramp

CruiseStepsOneRamp(steps) == steps - RampSteps(steps)

\* cruise, an unsigned difference: TypeOK asks that it does not wrap.
CruiseSteps(steps) == steps - 2 * RampSteps(steps)

\* How far pulse number k is along a ramp of n pulses.
Slope(k, n) == ((StartPeriod - TargetPeriod) * k) \div n

UpPeriod(k, n) == StartPeriod - Slope(k, n)

DownPeriodFromStart(k, n) == StartPeriod - Slope(k, n)

DownPeriod(k, n) == TargetPeriod + Slope(k, n)

YieldsButFirst(k, n) == k # 0 /\ k % n = 0

\* if ((i % n) == 0) vTaskDelay(1)
Yields(k, n) == k % n = 0

-----------------------------------------------------------------------------
TypeOK ==
    /\ pc \in Places
    /\ grams \in Amounts
    /\ en \in {0, 1}
    /\ total \in Nat
    /\ CruiseSteps(total) \in Nat
    /\ i \in Nat
    /\ pulses \in Nat
    /\ period \in Nat
    /\ hogged \in Nat

\* dispenser_init: the driver is disabled.
Init ==
    /\ pc = "idle"
    /\ grams \in Amounts
    /\ en = 1
    /\ total = 0 /\ i = 0
    /\ pulses = 0 /\ period = 0 /\ hogged = 0

\* dispenser_run refuses an amount that is not positive ...
RunRefused ==
    /\ pc \in {"idle", "returned"}
    /\ \E g \in Amounts : g <= 0 /\ grams' = g
    /\ pc' = "idle"
    /\ UNCHANGED <<en, total, i, pulses, period, hogged>>

\* ... and for any other enables the driver and lets it wake up.
RunStarts ==
    /\ pc \in {"idle", "returned"}
    /\ \E g \in Amounts : g > 0 /\ grams' = g
    /\ en' = 0
    /\ pc' = "waking"
    /\ total' = 0 /\ i' = 0
    /\ pulses' = 0 /\ period' = 0 /\ hogged' = 0

\* stepper_rotate and the head of stepper_move_ramp; no steps, no move.
Rotate ==
    /\ pc = "waking"
    /\ total' = StepsFor[grams]
    /\ pc' = IF StepsFor[grams] = 0 THEN "stopping" ELSE "ramp_up"
    /\ UNCHANGED <<grams, en, i, pulses, period, hogged>>

\* step_pulse of the given period, the yield and the loop's i++.
Pulse(us, yield) ==
    /\ pulses' = pulses + 1
    /\ period' = us
    /\ hogged' = IF yield THEN 0 ELSE hogged + 1
    /\ i' = i + 1
    /\ UNCHANGED <<pc, grams, en, total>>

\* A loop is over.
Leave(to) ==
    /\ pc' = to
    /\ i' = 0
    /\ UNCHANGED <<grams, en, total, pulses, period, hogged>>

RampUp ==
    /\ pc = "ramp_up"
    /\ \/ /\ i < RampSteps(total)
          /\ Pulse(UpPeriod(i, RampSteps(total)), Yields(i, RAMP_YIELD))
       \/ i >= RampSteps(total) /\ Leave("cruise")

Cruise ==
    /\ pc = "cruise"
    /\ \/ i < CruiseSteps(total) /\ Pulse(TargetPeriod, Yields(i, CRUISE_YIELD))
       \/ i >= CruiseSteps(total) /\ Leave("ramp_down")

RampDown ==
    /\ pc = "ramp_down"
    /\ \/ /\ i < RampSteps(total)
          /\ Pulse(DownPeriod(i, RampSteps(total)), Yields(i, RAMP_YIELD))
       \/ i >= RampSteps(total) /\ Leave("stopping")

\* Disable the driver and return ESP_OK.
RunReturns ==
    /\ pc = "stopping"
    /\ en' = 1
    /\ pc' = "returned"
    /\ UNCHANGED <<grams, total, i, pulses, period, hogged>>

\* The device restarts and calls dispenser_init again.
Restart ==
    /\ pc' = "idle"
    /\ en' = 1
    /\ total' = 0 /\ i' = 0
    /\ pulses' = 0 /\ period' = 0 /\ hogged' = 0
    /\ UNCHANGED grams

Next ==
    \/ RunRefused
    \/ RunStarts
    \/ Rotate
    \/ RampUp
    \/ Cruise
    \/ RampDown
    \/ RunReturns
    \/ Restart

Spec == Init /\ [][Next]_vars

-----------------------------------------------------------------------------
(***************************************************************************)
(* What should hold.                                                       *)
(***************************************************************************)

\* The three loops together give every step that was asked for, no more and
\* no less, whatever the length of the run does to the ramps.
PulsesExact == pc = "returned" => pulses = StepsFor[grams]

\* The motor is never driven faster than its target speed nor than the floor
\* of 1250 steps a second, and never slower than it starts.
SpeedLimits ==
    pulses > 0 => /\ period >= MIN_STEP_PERIOD_US
                  /\ period \in TargetPeriod .. StartPeriod

\* The speed changes by no more than one ramp increment from a pulse to the
\* next, across the seams between the loops too: a jump would stall the motor
\* and lose steps.
SmoothRamp ==
    [][pulses > 0 /\ pulses' = pulses + 1 /\ RampSteps(total) > 0
          => LET increment == Slope(1, RampSteps(total)) + 1
             IN  period' - period \in (-increment) .. increment]_vars

\* The busy-waiting task gives up the processor after at most CRUISE_YIELD
\* pulses, also where one loop follows another.
HogsAtMostOneCruise == hogged < CRUISE_YIELD

\* The amounts are below 18 kg, and the steps are those of the build.
StepsAreComputed ==
    \A g \in Amounts : g > 0 => g <= MAX_EXACT_GRAMS /\ StepsFor[g] = TotalSteps(g)

\* dispenser.c:195-202, :124: the float calculation, of which StepsAreComputed
\* says that the table holds it, is exact or one step short.
AtMostOneStepShort ==
    pc = "returned" => pulses \in {ExactSteps(grams) - 1, ExactSteps(grams)}
=============================================================================
