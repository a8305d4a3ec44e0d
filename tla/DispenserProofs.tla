--------------------------- MODULE DispenserProofs --------------------------
(***************************************************************************)
(* What holds of the dispenser for every set of amounts, every step count  *)
(* a conversion may give and every speed; and that the conversion of the   *)
(* code is a step short at most.                                           *)
(***************************************************************************)
EXTENDS Dispenser, TLAPS

-----------------------------------------------------------------------------
\* The two ramps fit into the run, so that the unsigned difference of
\* dispenser.c:102 never wraps, and the three loops cover it.
LEMMA RampFacts ==
    ASSUME NEW s \in Nat
    PROVE  /\ RampSteps(s) \in Nat
           /\ CruiseSteps(s) \in Nat
           /\ RampSteps(s) + CruiseSteps(s) + RampSteps(s) = s
<1>1. RampSteps(s) \in Nat /\ 2 * RampSteps(s) <= s
  BY DEF RampSteps, SHORT_RUN, RAMP_STEPS
<1> QED
  BY <1>1 DEF CruiseSteps

\* The periods of a ramp lie between the target and the start period.
LEMMA TargetFacts ==
    /\ TargetPeriod \in Nat /\ TargetPeriod >= MIN_STEP_PERIOD_US
    /\ StartPeriod \in Nat /\ StartPeriod - TargetPeriod = TargetPeriod
<1>1. Rpm * 1600 \in Nat \ {0}
  BY RpmAssumption
<1>2. 60000000 \div (Rpm * 1600) \in Nat
  BY <1>1
<1>3. TargetPeriod \in Nat /\ TargetPeriod >= MIN_STEP_PERIOD_US
  BY <1>2 DEF TargetPeriod, MIN_STEP_PERIOD_US
<1> QED
  BY <1>3 DEF StartPeriod

\* A quotient of a * k by n is at most a when k is at most n.
LEMMA QuotientBound ==
    ASSUME NEW a \in Nat, NEW n \in Nat \ {0}, NEW k \in 0 .. n
    PROVE  (a * k) \div n \in 0 .. a
<1> DEFINE q == (a * k) \div n
<1>1. a * k \in Nat /\ a * k <= a * n
  OBVIOUS
<1>2. q \in Nat /\ n * q <= a * k
  BY <1>1
<1>3. n * q <= n * a
  BY <1>1, <1>2
<1>4. ASSUME q > a PROVE FALSE
  <2>1. q >= a + 1
    BY <1>2, <1>4
  <2>2. n * q >= n * (a + 1)
    BY <1>2, <2>1
  <2>3. n * (a + 1) = n * a + n
    OBVIOUS
  <2> QED
    BY <1>2, <1>3, <2>2, <2>3
<1> QED
  BY <1>2, <1>4

LEMMA PeriodBounds ==
    ASSUME NEW n \in Nat \ {0}, NEW k \in 0 .. n
    PROVE  /\ UpPeriod(k, n) \in TargetPeriod .. StartPeriod
           /\ DownPeriod(k, n) \in TargetPeriod .. StartPeriod
<1>1. Slope(k, n) \in 0 .. TargetPeriod
  BY TargetFacts, QuotientBound DEF Slope
<1> QED
  BY <1>1, TargetFacts DEF UpPeriod, DownPeriod

-----------------------------------------------------------------------------
\* Where a call is says how many pulses it has given.
RunInv ==
    /\ pc \in Looping \cup {"stopping", "returned"}
          => grams > 0 /\ total = StepsFor[grams]
    /\ pc = "waking" => grams > 0 /\ i = 0 /\ pulses = 0
    /\ pc = "ramp_up" => i <= RampSteps(total) /\ pulses = i
    /\ pc = "cruise" => i <= CruiseSteps(total) /\ pulses = RampSteps(total) + i
    /\ pc = "ramp_down" => /\ i <= RampSteps(total)
                           /\ pulses = RampSteps(total) + CruiseSteps(total) + i
    /\ pc \in {"stopping", "returned"} => pulses = total

SpeedInv == (period = 0 /\ pulses = 0) \/ period \in TargetPeriod .. StartPeriod

IInv == TypeOK /\ RunInv /\ SpeedInv

\* The period of a pulse that a loop gives.
LEMMA PulseFacts ==
    ASSUME IInv, NEW us \in TargetPeriod .. StartPeriod, NEW yield \in BOOLEAN,
           Pulse(us, yield)
    PROVE  TypeOK' /\ SpeedInv' /\ i' = i + 1 /\ pulses' = pulses + 1
BY TargetFacts DEF IInv, TypeOK, SpeedInv, Pulse

\* Leaving a loop keeps the types and the last period.
LEMMA LeaveFacts ==
    ASSUME IInv, NEW to \in Places, Leave(to)
    PROVE  TypeOK' /\ SpeedInv' /\ i' = 0 /\ pulses' = pulses /\ pc' = to
BY DEF IInv, TypeOK, SpeedInv, Leave

\* The invariant holds after every step of the call.
LEMMA Inductive == IInv /\ [Next]_vars => IInv'
<1> SUFFICES ASSUME IInv, [Next]_vars PROVE IInv'
  OBVIOUS
<1> DEFINE r == RampSteps(total)
           c == CruiseSteps(total)
<1>0. /\ total \in Nat /\ r \in Nat /\ c \in Nat /\ r + c + r = total
      /\ i \in Nat /\ pulses \in Nat
  BY RampFacts DEF IInv, TypeOK
<1>1. CASE RunRefused
  BY <1>1 DEF IInv, TypeOK, RunInv, SpeedInv, RunRefused, Places, Looping
<1>2. CASE RunStarts
  <2>1. CruiseSteps(0) \in Nat
    BY RampFacts
  <2> QED
    BY <1>2, <2>1 DEF IInv, TypeOK, RunInv, SpeedInv, RunStarts, Places, Looping
<1>3. CASE Rotate
  <2>1. grams \in {g \in Amounts : g > 0}
    BY <1>3 DEF IInv, TypeOK, RunInv, Rotate
  <2>2. total' \in Nat /\ total' = StepsFor[grams]
    BY <1>3, <2>1, AmountsAssumption DEF Rotate
  <2>3. CruiseSteps(total') \in Nat /\ RampSteps(total') \in Nat
    BY <2>2, RampFacts
  <2>4. TypeOK' /\ SpeedInv'
    BY <1>3, <2>2, <2>3 DEF IInv, TypeOK, SpeedInv, Rotate, Places, Looping, CruiseSteps
  <2>5. RunInv'
    BY <1>3, <2>1, <2>2, <2>3 DEF IInv, TypeOK, RunInv, Rotate, Places, Looping
  <2> QED
    BY <2>4, <2>5 DEF IInv
<1>4. CASE RampUp
  <2>1. CASE i < r /\ Pulse(UpPeriod(i, r), Yields(i, RAMP_YIELD))
    <3>1. UpPeriod(i, r) \in TargetPeriod .. StartPeriod
      BY <1>0, <2>1, PeriodBounds
    <3>2. TypeOK' /\ SpeedInv' /\ i' = i + 1 /\ pulses' = pulses + 1
      BY <2>1, <3>1, PulseFacts DEF Yields
    <3>3. RunInv'
      BY <1>0, <1>4, <2>1, <3>2 DEF IInv, RunInv, RampUp, Pulse, Looping
    <3> QED
      BY <3>2, <3>3 DEF IInv
  <2>2. CASE i >= r /\ Leave("cruise")
    <3>1. TypeOK' /\ SpeedInv' /\ i' = 0 /\ pulses' = pulses /\ pc' = "cruise"
      BY <2>2, LeaveFacts DEF Places, Looping
    <3>2. RunInv'
      BY <1>0, <1>4, <2>2, <3>1 DEF IInv, RunInv, RampUp, Leave, Looping
    <3> QED
      BY <3>1, <3>2 DEF IInv
  <2> QED
    BY <1>4, <2>1, <2>2 DEF RampUp
<1>5. CASE Cruise
  <2>1. CASE i < c /\ Pulse(TargetPeriod, Yields(i, CRUISE_YIELD))
    <3>1. TargetPeriod \in TargetPeriod .. StartPeriod
      BY TargetFacts
    <3>2. TypeOK' /\ SpeedInv' /\ i' = i + 1 /\ pulses' = pulses + 1
      BY <2>1, <3>1, PulseFacts DEF Yields
    <3>3. RunInv'
      BY <1>0, <1>5, <2>1, <3>2 DEF IInv, RunInv, Cruise, Pulse, Looping
    <3> QED
      BY <3>2, <3>3 DEF IInv
  <2>2. CASE i >= c /\ Leave("ramp_down")
    <3>1. TypeOK' /\ SpeedInv' /\ i' = 0 /\ pulses' = pulses /\ pc' = "ramp_down"
      BY <2>2, LeaveFacts DEF Places, Looping
    <3>2. RunInv'
      BY <1>0, <1>5, <2>2, <3>1 DEF IInv, RunInv, Cruise, Leave, Looping
    <3> QED
      BY <3>1, <3>2 DEF IInv
  <2> QED
    BY <1>5, <2>1, <2>2 DEF Cruise
<1>6. CASE RampDown
  <2>1. CASE i < r /\ Pulse(DownPeriod(i, r), Yields(i, RAMP_YIELD))
    <3>1. DownPeriod(i, r) \in TargetPeriod .. StartPeriod
      BY <1>0, <2>1, PeriodBounds
    <3>2. TypeOK' /\ SpeedInv' /\ i' = i + 1 /\ pulses' = pulses + 1
      BY <2>1, <3>1, PulseFacts DEF Yields
    <3>3. RunInv'
      BY <1>0, <1>6, <2>1, <3>2 DEF IInv, RunInv, RampDown, Pulse, Looping
    <3> QED
      BY <3>2, <3>3 DEF IInv
  <2>2. CASE i >= r /\ Leave("stopping")
    <3>1. TypeOK' /\ SpeedInv' /\ i' = 0 /\ pulses' = pulses /\ pc' = "stopping"
      BY <2>2, LeaveFacts DEF Places, Looping
    <3>2. RunInv'
      BY <1>0, <1>6, <2>2, <3>1 DEF IInv, RunInv, RampDown, Leave, Looping
    <3> QED
      BY <3>1, <3>2 DEF IInv
  <2> QED
    BY <1>6, <2>1, <2>2 DEF RampDown
<1>7. CASE RunReturns
  BY <1>7 DEF IInv, TypeOK, RunInv, SpeedInv, RunReturns, Places, Looping
<1>8. CASE Restart
  <2>1. CruiseSteps(0) \in Nat
    BY RampFacts
  <2> QED
    BY <1>8, <2>1 DEF IInv, TypeOK, RunInv, SpeedInv, Restart, Places, Looping
<1>9. CASE UNCHANGED vars
  BY <1>9 DEF IInv, TypeOK, RunInv, SpeedInv, vars, CruiseSteps, RampSteps
<1> QED
  BY <1>1, <1>2, <1>3, <1>4, <1>5, <1>6, <1>7, <1>8, <1>9 DEF Next

\* The invariant holds throughout.
LEMMA Invariant == Spec => []IInv
<1>1. Init => IInv
  <2>1. CruiseSteps(0) \in Nat
    BY RampFacts
  <2> QED
    BY <2>1 DEF Init, IInv, TypeOK, RunInv, SpeedInv, Places, Looping
<1> QED
  BY <1>1, Inductive, PTL DEF Spec

-----------------------------------------------------------------------------
\* Types, and no unsigned difference wraps, for any number of steps.
THEOREM DispenserTyping == Spec => []TypeOK
<1>1. IInv => TypeOK
  BY DEF IInv
<1> QED
  BY <1>1, Invariant, PTL

\* A call that returns has given exactly the steps it computed.
THEOREM EveryStepGiven == Spec => []PulsesExact
<1>1. IInv => PulsesExact
  BY DEF IInv, RunInv, PulsesExact
<1> QED
  BY <1>1, Invariant, PTL

\* No pulse is shorter than the floor, or outside the ramp's limits.
THEOREM SpeedStaysInLimits == Spec => []SpeedLimits
<1>1. IInv => SpeedLimits
  BY TargetFacts DEF IInv, TypeOK, SpeedInv, SpeedLimits, MIN_STEP_PERIOD_US
<1> QED
  BY <1>1, Invariant, PTL

-----------------------------------------------------------------------------
(***************************************************************************)
(* The processor.  Between two loops the count of pulses without a yield   *)
(* carries over: it is bounded by where the next yield stands, at the      *)
(* first pulse of each loop and every CRUISE_YIELD pulses of the cruise.   *)
(***************************************************************************)
PaceInv ==
    /\ hogged < CRUISE_YIELD
    /\ pc = "waking" => hogged = 0
    /\ pc = "ramp_up" => hogged <= i
    /\ pc = "cruise" => IF i = 0 THEN hogged <= RAMP_STEPS
                        ELSE hogged = (i - 1) % CRUISE_YIELD
    /\ pc = "ramp_down" /\ i > 0 => hogged < i

\* A ramp is short against the distance of two yields.
LEMMA RampIsShort == ASSUME NEW s \in Nat PROVE RampSteps(s) \in 0 .. RAMP_STEPS
BY DEF RampSteps, SHORT_RUN, RAMP_STEPS

\* Counting to the next multiple of CRUISE_YIELD.
LEMMA CountsToYield ==
    ASSUME NEW k \in Nat
    PROVE  /\ k % CRUISE_YIELD \in 0 .. CRUISE_YIELD - 1
           /\ k > 0 /\ k % CRUISE_YIELD # 0
                 => k % CRUISE_YIELD = ((k - 1) % CRUISE_YIELD) + 1
BY DEF CRUISE_YIELD

\* One step keeps the count in pace.
LEMMA PaceStep == IInv /\ PaceInv /\ [Next]_vars => PaceInv'
<1> SUFFICES ASSUME IInv, PaceInv, [Next]_vars PROVE PaceInv'
  OBVIOUS
<1> DEFINE r == RampSteps(total)
<1>0. /\ total \in Nat /\ r \in 0 .. RAMP_STEPS
      /\ i \in Nat /\ hogged \in Nat
  BY RampIsShort DEF IInv, TypeOK
<1> USE DEF RAMP_STEPS
<1>1. CASE RunRefused \/ RunStarts \/ RunReturns \/ Restart
  BY <1>1 DEF PaceInv, RunRefused, RunStarts, RunReturns, Restart, CRUISE_YIELD
<1>2. CASE Rotate
  BY <1>0, <1>2 DEF IInv, RunInv, PaceInv, Rotate
<1>3. CASE RampUp
  <2>1. pc = "ramp_up" /\ hogged <= i
    BY <1>3 DEF RampUp, PaceInv
  <2>2. CASE i < r /\ Pulse(UpPeriod(i, r), Yields(i, RAMP_YIELD))
    <3>1. i' = i + 1 /\ pc' = pc /\ hogged' \in {0, hogged + 1}
      BY <2>2 DEF Pulse
    <3> QED
      BY <1>0, <2>1, <2>2, <3>1 DEF PaceInv, CRUISE_YIELD
  <2>3. CASE i >= r /\ Leave("cruise")
    <3>1. i <= r
      BY <2>1 DEF IInv, RunInv
    <3> QED
      BY <1>0, <2>1, <2>3, <3>1 DEF PaceInv, Leave
  <2> QED
    BY <1>3, <2>2, <2>3 DEF RampUp
<1>4. CASE Cruise
  <2>1. pc = "cruise"
    BY <1>4 DEF Cruise
  <2>2. CASE i < CruiseSteps(total) /\ Pulse(TargetPeriod, Yields(i, CRUISE_YIELD))
    <3>1. i' = i + 1 /\ pc' = pc
      BY <2>2 DEF Pulse
    <3>2. hogged' = IF i % CRUISE_YIELD = 0 THEN 0 ELSE hogged + 1
      BY <2>2 DEF Pulse, Yields
    <3>3. hogged' = i % CRUISE_YIELD
      <4>1. CASE i = 0
        BY <3>2, <4>1 DEF CRUISE_YIELD
      <4>2. CASE i > 0
        BY <1>0, <2>1, <3>2, <4>2, CountsToYield DEF PaceInv
      <4> QED
        BY <1>0, <4>1, <4>2
    <3>4. i' # 0 /\ i' - 1 = i
      BY <1>0, <3>1
    <3>5. hogged' < CRUISE_YIELD
      BY <1>0, <3>3, CountsToYield DEF CRUISE_YIELD
    <3> QED
      BY <2>1, <3>1, <3>3, <3>4, <3>5 DEF PaceInv
  <2>3. CASE i >= CruiseSteps(total) /\ Leave("ramp_down")
    BY <1>0, <2>3 DEF PaceInv, Leave
  <2> QED
    BY <1>4, <2>2, <2>3 DEF Cruise
<1>5. CASE RampDown
  <2>1. pc = "ramp_down"
    BY <1>5 DEF RampDown
  <2>2. CASE i < r /\ Pulse(DownPeriod(i, r), Yields(i, RAMP_YIELD))
    <3>1. i' = i + 1 /\ pc' = pc
      BY <2>2 DEF Pulse
    <3>2. hogged' = IF i % RAMP_YIELD = 0 THEN 0 ELSE hogged + 1
      BY <2>2 DEF Pulse, Yields
    <3>3. hogged' <= i
      BY <1>0, <2>1, <3>2 DEF PaceInv, RAMP_YIELD
    <3> QED
      BY <1>0, <2>1, <2>2, <3>1, <3>2, <3>3 DEF PaceInv, CRUISE_YIELD
  <2>3. CASE i >= r /\ Leave("stopping")
    BY <1>0, <2>3 DEF PaceInv, Leave
  <2> QED
    BY <1>5, <2>2, <2>3 DEF RampDown
<1>6. CASE UNCHANGED vars
  BY <1>6 DEF PaceInv, vars
<1> QED
  BY <1>1, <1>2, <1>3, <1>4, <1>5, <1>6 DEF Next

\* The processor is given up after at most CRUISE_YIELD pulses, for runs of any
\* length and across the seams between the loops.
THEOREM ProcessorGivenUp == Spec => []HogsAtMostOneCruise
<1>1. Init => PaceInv
  BY DEF Init, PaceInv, CRUISE_YIELD
<1>2. PaceInv => HogsAtMostOneCruise
  BY DEF PaceInv, HogsAtMostOneCruise
<1> QED
  BY <1>1, <1>2, Invariant, PaceStep, PTL DEF Spec

-----------------------------------------------------------------------------
(***************************************************************************)
(* The speed.  From a pulse to the next the period moves along a slope, in *)
(* its loop or over the seam to the next one.                              *)
(***************************************************************************)

\* Along a multiple of a, quotients by n grow by a / n, rounded either way.
LEMMA QuotientStep ==
    ASSUME NEW a \in Nat, NEW n \in Nat \ {0}, NEW k \in Nat
    PROVE  /\ (a * k) \div n \in Nat
           /\ (a * (k + 1)) \div n - (a * k) \div n \in 0 .. (a \div n) + 1
<1> DEFINE p == (a * k) \div n
           q == (a * (k + 1)) \div n
           d == a \div n
<1>1. a * k \in Nat /\ a * (k + 1) \in Nat /\ a * (k + 1) = a * k + a
  OBVIOUS
<1>2. p \in Nat /\ n * p <= a * k /\ a * k < n * p + n
  BY <1>1
<1>3. q \in Nat /\ n * q <= a * k + a /\ a * k + a < n * q + n
  BY <1>1
<1>4. d \in Nat /\ n * d <= a /\ a < n * d + n
  OBVIOUS
<1>5. ASSUME q < p PROVE FALSE
  <2>1. n * (q + 1) <= n * p
    BY <1>2, <1>3, <1>5
  <2> QED
    BY <1>2, <1>3, <2>1
<1>6. ASSUME q > p + d + 1 PROVE FALSE
  <2>1. n * (p + d + 2) <= n * q
    BY <1>2, <1>3, <1>4, <1>6
  <2>2. n * (p + d + 2) = n * p + n * d + n + n
    BY <1>2, <1>4
  <2>3. n * p \in Nat /\ n * d \in Nat /\ n * q \in Nat
    BY <1>2, <1>3, <1>4
  <2>4. n * q <= a * k + a /\ a * k + a < n * p + n + n * d + n
    BY <1>1, <1>2, <1>3, <1>4, <2>3
  <2> QED
    BY <1>1, <2>1, <2>2, <2>3, <2>4
<1> QED
  BY <1>2, <1>3, <1>4, <1>5, <1>6

\* A slope starts at nothing, ends at the target period, and grows by no more
\* than an increment.
LEMMA SlopeFacts ==
    ASSUME NEW n \in Nat \ {0}
    PROVE  /\ Slope(0, n) = 0
           /\ Slope(n, n) = TargetPeriod
           /\ Slope(1, n) \in Nat
           /\ \A k \in Nat : /\ Slope(k, n) \in Nat
                             /\ Slope(k + 1, n) - Slope(k, n) \in 0 .. Slope(1, n) + 1
<1> DEFINE a == TargetPeriod
<1>1. a \in Nat /\ StartPeriod - TargetPeriod = a
  BY TargetFacts
<1>2. \A k \in Nat : Slope(k, n) = (a * k) \div n
  BY <1>1 DEF Slope
<1>3. a * 0 = 0 /\ a * 1 = a
  BY <1>1
<1>4. (a * n) \div n = a
  BY <1>1
<1> HIDE DEF a
<1>5. Slope(0, n) = 0 /\ Slope(1, n) = a \div n /\ a \div n \in Nat
  BY <1>1, <1>2, <1>3
<1>6. Slope(n, n) = a
  BY <1>2, <1>4
<1>7. \A k \in Nat : /\ (a * k) \div n \in Nat
                     /\ (a * (k + 1)) \div n - (a * k) \div n \in 0 .. (a \div n) + 1
  BY <1>1, QuotientStep
<1>8. \A k \in Nat : k + 1 \in Nat
  OBVIOUS
<1>9. \A k \in Nat : /\ Slope(k, n) \in Nat
                     /\ Slope(k + 1, n) - Slope(k, n) \in 0 .. Slope(1, n) + 1
  BY <1>2, <1>5, <1>7, <1>8, Zenon
<1> QED
  BY <1>5, <1>6, <1>9 DEF a

\* A run with ramps has a cruise between them.
LEMMA CruiseBetweenRamps ==
    ASSUME NEW s \in Nat, RampSteps(s) > 0
    PROVE  CruiseSteps(s) > 0
BY DEF RampSteps, CruiseSteps, SHORT_RUN, RAMP_STEPS

\* The period of the last pulse, by where the next one stands.
PeriodInv ==
    LET r == RampSteps(total)
    IN  r > 0 =>
        /\ pc = "ramp_up" /\ i > 0 => period = UpPeriod(i - 1, r)
        /\ pc = "cruise" => period = IF i = 0 THEN UpPeriod(r - 1, r) ELSE TargetPeriod
        /\ pc = "ramp_down" => period = IF i = 0 THEN TargetPeriod
                                        ELSE DownPeriod(i - 1, r)

\* One step moves along the profile.
LEMMA PeriodStep == IInv /\ PeriodInv /\ [Next]_vars => PeriodInv'
<1> SUFFICES ASSUME IInv, PeriodInv, [Next]_vars PROVE PeriodInv'
  OBVIOUS
<1> DEFINE r == RampSteps(total)
           c == CruiseSteps(total)
<1>0. /\ total \in Nat /\ r \in Nat /\ c \in Nat /\ i \in Nat
      /\ r > 0 => c > 0
  BY RampFacts, CruiseBetweenRamps DEF IInv, TypeOK
<1>1. CASE RunRefused \/ RunStarts \/ RunReturns \/ Restart
  BY <1>1 DEF PeriodInv, RunRefused, RunStarts, RunReturns, Restart
<1>2. CASE Rotate
  BY <1>2 DEF IInv, RunInv, PeriodInv, Rotate
<1>3. ASSUME NEW us, NEW yield, Pulse(us, yield)
      PROVE  total' = total /\ i' = i + 1 /\ i' > 0 /\ i' - 1 = i /\ pc' = pc /\ period' = us
  BY <1>0, <1>3 DEF Pulse
<1>4. ASSUME NEW to, Leave(to)
      PROVE  total' = total /\ i' = 0 /\ pc' = to /\ period' = period
  BY <1>4 DEF Leave
<1>5. CASE RampUp
  <2>1. pc = "ramp_up" /\ i <= r
    BY <1>5 DEF RampUp, IInv, RunInv
  <2>2. CASE i < r /\ Pulse(UpPeriod(i, r), Yields(i, RAMP_YIELD))
    <3>1. total' = total /\ i' > 0 /\ i' - 1 = i /\ pc' = pc /\ period' = UpPeriod(i, r)
      BY <1>3, <2>2
    <3> QED
      BY <2>1, <3>1 DEF PeriodInv, UpPeriod, Slope, RampSteps
  <2>3. CASE i >= r /\ Leave("cruise")
    <3>1. total' = total /\ i' = 0 /\ pc' = "cruise" /\ period' = period /\ i = r
      BY <1>0, <1>4, <2>1, <2>3
    <3>2. r > 0 => period = UpPeriod(r - 1, r)
      BY <2>1, <3>1 DEF PeriodInv
    <3> QED
      BY <3>1, <3>2 DEF PeriodInv, UpPeriod, Slope, RampSteps
  <2> QED
    BY <1>5, <2>2, <2>3 DEF RampUp
<1>6. CASE Cruise
  <2>1. pc = "cruise" /\ i <= c
    BY <1>6 DEF Cruise, IInv, RunInv
  <2>2. CASE i < c /\ Pulse(TargetPeriod, Yields(i, CRUISE_YIELD))
    <3>1. total' = total /\ i' > 0 /\ pc' = pc /\ period' = TargetPeriod
      BY <1>3, <2>2
    <3> QED
      BY <2>1, <3>1 DEF PeriodInv
  <2>3. CASE i >= c /\ Leave("ramp_down")
    <3>1. total' = total /\ i' = 0 /\ pc' = "ramp_down" /\ period' = period /\ i = c
      BY <1>0, <1>4, <2>1, <2>3
    <3>2. r > 0 => period = TargetPeriod
      BY <1>0, <2>1, <3>1 DEF PeriodInv
    <3> QED
      BY <3>1, <3>2 DEF PeriodInv, RampSteps
  <2> QED
    BY <1>6, <2>2, <2>3 DEF Cruise
<1>7. CASE RampDown
  <2>1. pc = "ramp_down" /\ i <= r
    BY <1>7 DEF RampDown, IInv, RunInv
  <2>2. CASE i < r /\ Pulse(DownPeriod(i, r), Yields(i, RAMP_YIELD))
    <3>1. total' = total /\ i' > 0 /\ i' - 1 = i /\ pc' = pc /\ period' = DownPeriod(i, r)
      BY <1>3, <2>2
    <3> QED
      BY <2>1, <3>1 DEF PeriodInv, DownPeriod, Slope, RampSteps
  <2>3. CASE i >= r /\ Leave("stopping")
    BY <1>4, <2>3 DEF PeriodInv
  <2> QED
    BY <1>7, <2>2, <2>3 DEF RampDown
<1>8. CASE UNCHANGED vars
  BY <1>8 DEF PeriodInv, vars
<1> QED
  BY <1>1, <1>2, <1>5, <1>6, <1>7, <1>8 DEF Next

\* The period of a pulse and of the one before differ by an increment at most.
LEMMA PeriodMoves ==
    IInv /\ PeriodInv /\ [Next]_vars
        => [pulses > 0 /\ pulses' = pulses + 1 /\ RampSteps(total) > 0
              => LET increment == Slope(1, RampSteps(total)) + 1
                 IN  period' - period \in (-increment) .. increment]_vars
<1> DEFINE r == RampSteps(total)
           c == CruiseSteps(total)
           increment == Slope(1, r) + 1
<1> SUFFICES ASSUME IInv, PeriodInv, Next, pulses > 0, pulses' = pulses + 1, r > 0
             PROVE  period' - period \in (-increment) .. increment
  OBVIOUS
<1>0. /\ total \in Nat /\ r \in Nat \ {0} /\ c \in Nat /\ i \in Nat /\ pulses \in Nat
      /\ r - 1 \in Nat /\ (i > 0 => i - 1 \in Nat /\ (i - 1) + 1 = i) /\ (r - 1) + 1 = r
  <2>1. total \in Nat /\ c \in Nat /\ i \in Nat /\ pulses \in Nat
    BY DEF IInv, TypeOK
  <2>2. r \in Nat
    BY <2>1, RampFacts
  <2> HIDE DEF r, c
  <2> QED
    BY <2>1, <2>2
<1>1. /\ TargetPeriod \in Nat /\ StartPeriod - TargetPeriod = TargetPeriod /\ StartPeriod \in Nat
      /\ Slope(0, r) = 0 /\ Slope(r, r) = TargetPeriod /\ Slope(1, r) \in Nat
      /\ \A k \in Nat : /\ Slope(k, r) \in Nat
                        /\ Slope(k + 1, r) - Slope(k, r) \in 0 .. Slope(1, r) + 1
  BY <1>0, TargetFacts, SlopeFacts
<1>2. \/ /\ pc = "ramp_up" /\ i < r /\ period' = UpPeriod(i, r)
      \/ /\ pc = "cruise" /\ i < c /\ period' = TargetPeriod
      \/ /\ pc = "ramp_down" /\ i < r /\ period' = DownPeriod(i, r)
  <2>1. pulses' # pulses
    BY <1>0
  <2>2. pulses = 0 \/ pulses' # 0
    BY <1>0
  <2>3. RampUp \/ Cruise \/ RampDown
    BY <1>0, <2>1 DEF Next, RunRefused, RunStarts, Rotate, RunReturns, Restart
  <2> QED
    BY <2>1, <2>3 DEF RampUp, Cruise, RampDown, Pulse, Leave
<1>3. CASE pc = "ramp_up" /\ i < r /\ period' = UpPeriod(i, r)
  <2>1. i > 0 /\ period = UpPeriod(i - 1, r)
    BY <1>0, <1>3 DEF IInv, RunInv, PeriodInv
  <2>2. Slope(i, r) - Slope(i - 1, r) \in 0 .. increment /\ Slope(i, r) \in Nat /\ Slope(i - 1, r) \in Nat
    BY <1>0, <1>1, <2>1
  <2> QED
    BY <1>1, <1>3, <2>1, <2>2 DEF UpPeriod
<1>4. CASE pc = "cruise" /\ i < c /\ period' = TargetPeriod
  <2>1. CASE i = 0
    <3>1. period = UpPeriod(r - 1, r)
      BY <1>4, <2>1 DEF PeriodInv
    <3>2. TargetPeriod - Slope(r - 1, r) \in 0 .. increment /\ Slope(r - 1, r) \in Nat
      BY <1>0, <1>1
    <3> QED
      BY <1>1, <1>4, <3>1, <3>2 DEF UpPeriod
  <2>2. CASE i > 0
    BY <1>1, <1>4, <2>2 DEF PeriodInv
  <2> QED
    BY <1>0, <2>1, <2>2
<1>5. CASE pc = "ramp_down" /\ i < r /\ period' = DownPeriod(i, r)
  <2>1. CASE i = 0
    BY <1>1, <1>5, <2>1 DEF PeriodInv, DownPeriod
  <2>2. CASE i > 0
    <3>1. period = DownPeriod(i - 1, r)
      BY <1>5, <2>2 DEF PeriodInv
    <3>2. Slope(i, r) - Slope(i - 1, r) \in 0 .. increment /\ Slope(i, r) \in Nat /\ Slope(i - 1, r) \in Nat
      BY <1>0, <1>1, <2>2
    <3> QED
      BY <1>1, <1>5, <3>1, <3>2 DEF DownPeriod
  <2> QED
    BY <1>0, <2>1, <2>2
<1> QED
  BY <1>2, <1>3, <1>4, <1>5

\* For every speed and every number of steps, no pulse follows another with a jump
\* in the period, in a loop or over the seam between two.
THEOREM SpeedNeverJumps == Spec => SmoothRamp
<1>1. Init => PeriodInv
  BY DEF Init, PeriodInv
<1> QED
  BY <1>1, Invariant, PeriodStep, PeriodMoves, PTL DEF Spec, SmoothRamp
-----------------------------------------------------------------------------
(***************************************************************************)
(* The float.  The quotient grams / GRAMS_PER_REV and its product by 200   *)
(* are rounded to 24 bits each, and the result is cut to a whole number.   *)
(* In numbers without fractions: the quotient is m / P, P = 16 J D the     *)
(* power of two that gives it its 24 bits, and the steps are n \div D.     *)
(***************************************************************************)
\* The table of powers.
LEMMA PowerValues ==
    /\ Power(0) = 1
    /\ Power(1) = 2
    /\ Power(2) = 4
    /\ Power(3) = 8
    /\ Power(4) = 16
    /\ Power(5) = 32
    /\ Power(6) = 64
    /\ Power(7) = 128
    /\ Power(8) = 256
    /\ Power(9) = 512
    /\ Power(10) = 1024
    /\ Power(11) = 2048
    /\ Power(12) = 4096
    /\ Power(13) = 8192
    /\ Power(14) = 16384
    /\ Power(15) = 32768
    /\ Power(16) = 65536
    /\ Power(17) = 131072
    /\ Power(18) = 262144
    /\ Power(19) = 524288
    /\ Power(20) = 1048576
    /\ Power(21) = 2097152
    /\ Power(22) = 4194304
    /\ Power(23) = 8388608
    /\ Power(24) = 16777216
    /\ Power(25) = 33554432
    /\ Power(26) = 67108864
    /\ Power(27) = 134217728
BY DEF Power
\* A quotient of an amount by the grams of a revolution can be scaled to 24 bits.
LEMMA ScaleExists ==
    ASSUME NEW a \in 1 .. MAX_EXACT_GRAMS, NEW b \in 1 .. 15
    PROVE  \E k \in 9 .. 27 : b * TWO_23 <= a * Power(k) /\ a * Power(k) < b * TWO_24
<1> SUFFICES ASSUME \A k \in 9 .. 27 : ~(b * TWO_23 <= a * Power(k) /\ a * Power(k) < b * TWO_24)
             PROVE  FALSE
  OBVIOUS
<1> USE PowerValues DEF MAX_EXACT_GRAMS, TWO_23, TWO_24
<1>1. a * 512 < b * 16777216 /\ a * 134217728 >= b * 8388608
  OBVIOUS
<1>2. a * 16384 < b * 8388608
  BY <1>1
<1>3. a * 524288 < b * 8388608
  BY <1>2
<1>4. a * 16777216 < b * 8388608
  BY <1>3
<1> QED
  BY <1>1, <1>4

\* Rounding to the nearest errs by half a unit at most.
LEMMA NearestFacts ==
    ASSUME NEW a \in Nat, NEW b \in Nat \ {0}
    PROVE  /\ Nearest(a, b) \in Nat
           /\ 2 * (b * Nearest(a, b)) <= 2 * a + b
           /\ 2 * a <= 2 * (b * Nearest(a, b)) + b
<1> DEFINE q == a \div b
           r == a % b
<1>1. q \in Nat /\ r \in 0 .. b - 1 /\ a = b * q + r
  OBVIOUS
<1>2. CASE Nearest(a, b) = q
  <2>1. 2 * r <= b
    BY <1>1, <1>2 DEF Nearest
  <2> QED
    BY <1>1, <1>2, <2>1
<1>3. CASE Nearest(a, b) = q + 1 /\ 2 * r >= b
  <2>1. b * (q + 1) = b * q + b
    BY <1>1
  <2> QED
    BY <1>1, <1>3, <2>1
<1>4. (2 * r > b \/ (2 * r = b /\ q % 2 = 1)) => 2 * r >= b
  BY <1>1
<1> QED
  BY <1>2, <1>3, <1>4 DEF Nearest

\* Products with a factor that is not negative keep an order ...
LEMMA Monotone ==
    ASSUME NEW x \in Int, NEW y \in Int, NEW c \in Nat, x <= y
    PROVE  c * x <= c * y
OBVIOUS

\* ... and with a positive one are ordered as the other factors are.
LEMMA Cancels ==
    ASSUME NEW x \in Int, NEW y \in Int, NEW c \in Nat \ {0}, c * x < c * y
    PROVE  x < y
<1> SUFFICES ASSUME y <= x PROVE FALSE
  OBVIOUS
<1> QED
  BY Monotone

\* The conversion of g grams, with b grams to a revolution, in numbers: the
\* quotient m / P, the product n * J, the steps n \div D.
RoundsTwice(g, b, P, m, J, n, D) ==
    /\ g \in 1 .. MAX_EXACT_GRAMS /\ b \in 1 .. 15
    /\ P \in Nat \ {0} /\ J \in {16, 32} /\ D \in Nat \ {0} /\ P = 16 * (J * D)
    /\ b * TWO_23 <= g * P
    /\ m \in Nat /\ 2 * (b * m) <= 2 * (g * P) + b /\ 2 * (g * P) <= 2 * (b * m) + b
    /\ n \in Nat /\ 2 * (J * n) <= 50 * m + J /\ 50 * m <= 2 * (J * n) + J

\* Together the two roundings err by less than 1 / b of a step; an exact result
\* that is no whole number is at least that far from the next one.
LEMMA RoundingIsSmall ==
    ASSUME NEW g, NEW b, NEW P, NEW m, NEW J, NEW n, NEW D,
           RoundsTwice(g, b, P, m, J, n, D)
    PROVE  n \div D \in {(g * 1600) \div (4 * b) - 1, (g * 1600) \div (4 * b)}
<1> USE DEF RoundsTwice
<1> DEFINE s == n \div D
           E == (g * 1600) \div (4 * b)
<1>1. s \in Nat /\ D * s <= n /\ n < D * s + D
  OBVIOUS
<1>2. E \in Nat /\ b * E <= 400 * g /\ 400 * g < b * E + b
  OBVIOUS
<1> HIDE DEF s, E
<1>3. 456 * b < P
  <2>1. g * P <= 18000 * P
    BY DEF MAX_EXACT_GRAMS
  <2> QED
    BY <2>1 DEF TWO_23
<1>4. J * (D * s) <= J * n /\ J * n < J * (D * s) + J * D
  BY <1>1
<1>5. 16 * (J * (D * s)) = P * s /\ 16 * (J * D) = P
  BY <1>1
<1>6. /\ P * s <= 400 * m + 8 * J
      /\ 400 * m < P * s + P + 8 * J
  BY <1>1, <1>4, <1>5
<1>7. /\ b * (P * s) <= 400 * (b * m) + 256 * b
      /\ 400 * (b * m) < b * (P * s) + b * P + 256 * b
  <2>1. P * s \in Nat
    BY <1>1
  <2>2. b * (P * s) <= b * (400 * m + 256)
    BY <1>6, <2>1
  <2>3. b * (400 * m) < b * (P * s + P + 256)
    BY <1>6, <2>1
  <2> QED
    BY <2>1, <2>2, <2>3
<1>8. P * (b * s) < P * (400 * g + 1)
  <2>1. P * (b * s) = b * (P * s) /\ P * (400 * g + 1) = 400 * (g * P) + P
    BY <1>1
  <2> QED
    BY <1>1, <1>3, <1>7, <2>1
<1>9. P * (400 * g) < P * (b * s + b + 1)
  <2>1. /\ P * (b * s + b + 1) = b * (P * s) + b * P + P
        /\ P * (400 * g) = 400 * (g * P)
    BY <1>1
  <2> QED
    BY <1>1, <1>3, <1>7, <2>1
<1>10. b * s <= 400 * g
  BY <1>1, <1>8, Cancels
<1>11. 400 * g <= b * s + b
  BY <1>1, <1>9, Cancels
<1>12. b * s < b * (E + 1) /\ b * E <= b * (s + 1)
  BY <1>1, <1>2, <1>10, <1>11
<1>13. s < E + 1 /\ E <= s + 1
  BY <1>1, <1>2, <1>12
<1> QED
  BY <1>1, <1>2, <1>13 DEF s, E

\* There is a scale, by ScaleExists, so CHOOSE finds one; none below 9 is large enough.
LEMMA ScaleFits ==
    ASSUME NEW a \in 1 .. MAX_EXACT_GRAMS, NEW b \in 1 .. 15
    PROVE  /\ Scale(a, b) \in 9 .. 27
           /\ b * TWO_23 <= a * Power(Scale(a, b))
<1>1. PICK k : k = Scale(a, b)
  OBVIOUS
<1>2. \E l \in 0 .. 27 : b * TWO_23 <= a * Power(l) /\ a * Power(l) < b * TWO_24
  <2>1. PICK l \in 9 .. 27 : b * TWO_23 <= a * Power(l) /\ a * Power(l) < b * TWO_24
    BY ScaleExists
  <2>2. l \in 0 .. 27
    OBVIOUS
  <2> QED
    BY <2>1, <2>2
<1>3. k \in 0 .. 27 /\ b * TWO_23 <= a * Power(k)
  BY <1>1, <1>2 DEF Scale
<1>4. ASSUME k \in 0 .. 8 PROVE FALSE
  <2>1. Power(k) \in Nat /\ Power(k) <= 256
    BY <1>4, PowerValues
  <2>2. a * Power(k) <= a * 256 /\ a * Power(k) \in Nat
    BY <2>1
  <2>3. a * 256 < b * TWO_23
    BY DEF MAX_EXACT_GRAMS, TWO_23
  <2>4. a * 256 \in Nat /\ b * TWO_23 \in Nat
    BY DEF TWO_23
  <2> QED
    BY <1>3, <2>2, <2>3, <2>4
<1> QED
  BY <1>1, <1>3, <1>4

\* The float calculation is exact or one step short.
LEMMA TotalStepsClose ==
    ASSUME NEW g \in 1 .. MAX_EXACT_GRAMS
    PROVE  TotalSteps(g) \in {ExactSteps(g) - 1, ExactSteps(g)}
<1>1. PICK b : b = GramsPerRev
  OBVIOUS
<1>2. PICK k : k = Scale(g, b)
  OBVIOUS
<1>3. PICK m : m = Nearest(g * Power(k), b)
  OBVIOUS
<1>4. PICK j : j = IF 25 * m < TWO_28 THEN 4 ELSE 5
  OBVIOUS
<1>5. PICK n : n = Nearest(25 * m, Power(j))
  OBVIOUS
<1>6. /\ TotalSteps(g) = n \div Power(k - j - 4)
      /\ ExactSteps(g) = (g * 1600) \div (4 * b)
  <2>1. TotalSteps(g) = n \div Power(k - j - 4)
    BY <1>1, <1>2, <1>3, <1>4, <1>5 DEF TotalSteps
  <2>2. g \in Nat /\ (g * 200) * 8 = g * 1600
    BY DEF MAX_EXACT_GRAMS
  <2> QED
    BY <1>1, <2>1, <2>2 DEF ExactSteps, STEPS_PER_REV, MICROSTEPS
<1>7. b \in 1 .. 15 /\ j \in {4, 5} /\ g \in Nat
  BY <1>1, <1>4, GramsPerRevAssumption DEF MAX_EXACT_GRAMS
<1>8. k \in 9 .. 27 /\ b * TWO_23 <= g * Power(k)
  BY <1>2, <1>7, ScaleFits
<1>9. /\ Power(k) \in Nat \ {0} /\ Power(k - j - 4) \in Nat \ {0}
      /\ Power(j) \in {16, 32}
      /\ Power(k) = 16 * (Power(j) * Power(k - j - 4))
  BY <1>7, <1>8, PowerValues
<1>10. g * Power(k) \in Nat
  BY <1>7, <1>9
<1>11. /\ m \in Nat
       /\ 2 * (b * m) <= 2 * (g * Power(k)) + b
       /\ 2 * (g * Power(k)) <= 2 * (b * m) + b
  <2>1. b \in Nat \ {0}
    BY <1>7
  <2> QED
    BY <1>3, <1>10, <2>1, NearestFacts
<1>12. /\ n \in Nat
       /\ 2 * (Power(j) * n) <= 50 * m + Power(j)
       /\ 50 * m <= 2 * (Power(j) * n) + Power(j)
  <2>1. 25 * m \in Nat /\ Power(j) \in Nat \ {0} /\ 2 * (25 * m) = 50 * m
    BY <1>9, <1>11
  <2> QED
    BY <1>5, <2>1, NearestFacts
<1>13. RoundsTwice(g, b, Power(k), m, Power(j), n, Power(k - j - 4))
  BY <1>7, <1>8, <1>9, <1>11, <1>12 DEF RoundsTwice
<1> QED
  BY <1>6, <1>13, RoundingIsSmall

\* AtMostOneStepShort: a run gives the steps of an exact calculation or one less,
\* whatever CONFIG_DISPENSER_GRAMS_PER_REV is, for all amounts up to 18 kg.
THEOREM FloatLosesOneStepAtMost ==
    ASSUME StepsAreComputed
    PROVE  Spec => []AtMostOneStepShort
<1>1. IInv => AtMostOneStepShort
  <2> SUFFICES ASSUME IInv, pc = "returned"
               PROVE  pulses \in {ExactSteps(grams) - 1, ExactSteps(grams)}
    BY DEF AtMostOneStepShort
  <2>1. pulses = StepsFor[grams] /\ grams > 0 /\ grams \in Amounts
    BY DEF IInv, TypeOK, RunInv
  <2>2. grams \in Int /\ grams > 0 /\ grams <= MAX_EXACT_GRAMS
    BY <2>1, AmountsAssumption DEF StepsAreComputed
  <2>3. pulses = TotalSteps(grams)
    BY <2>1 DEF StepsAreComputed
  <2>4. grams \in 1 .. MAX_EXACT_GRAMS
    <3>1. MAX_EXACT_GRAMS \in Nat
      BY DEF MAX_EXACT_GRAMS
    <3> QED
      BY <2>2, <3>1
  <2> QED
    BY <2>3, <2>4, TotalStepsClose
<1> QED
  BY <1>1, Invariant, PTL
=============================================================================
