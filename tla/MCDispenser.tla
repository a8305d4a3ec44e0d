---------------------------- MODULE MCDispenser -----------------------------
(* Dispenser with the steps that StepCount computes.                         *)
EXTENDS Dispenser

\* Refused amounts; the shortest runs; both sides of SHORT_RUN (15 g); amounts
\* of which the float loses a step (21, 42, 84); both sides of the longest
\* cruise without a second yield (60 g).
MCAmounts == {-1, 0} \cup 1 .. 24 \cup {42, 60, 61, 84, 130}

MCStepsFor == [g \in {a \in MCAmounts : a > 0} |-> TotalSteps(g)]

\* The hypothesis of FloatLosesOneStepAtMost.
ASSUME MCStepsAssumption == StepsAreComputed
=============================================================================
