------------------------- MODULE PetDetectionProofs -------------------------
(***************************************************************************)
(* What the wait for the pet and the sitting detector guarantee for all    *)
(* timeouts, tick counts and numbers of polls.                             *)
(***************************************************************************)
EXTENDS PetDetection, TLAPS

\* Clear of the wrap, the tick count tells how long a wait has lasted.
ClockInv ==
    /\ now \in Ticks /\ deadline \in Ticks /\ elapsed \in 0 .. LongestWait
    /\ stage = "waiting" /\ ClearOfWrap =>
        /\ now = deadline - Timeout + elapsed
        /\ elapsed < Timeout + MaxLoop

\* A posture that is read belongs to a verdict newer than the baseline.
NewerInv ==
    /\ updatedAt \in Nat /\ sat \in Nat /\ baseline \in Nat /\ began \in Nat
    /\ posture = "sitting" => sat = updatedAt
    /\ began <= updatedAt
    /\ detector \in {"off", "baseline"} => ~unread /\ baseline = 0
    /\ detector \in {"sleep", "posture"} => unread \/ began <= baseline
    /\ detector = "posture" => baseline < updatedAt

LEMMA Limits ==
    /\ Timeout \in Nat /\ MaxLoop \in Nat /\ HostWrap \in Nat
    /\ 0 < Timeout /\ 0 < MaxLoop /\ Timeout + MaxLoop < HostWrap
BY TofAssumption

USE Limits DEF Ticks, LongestWait, ClearOfWrap

-----------------------------------------------------------------------------
(* The wait.                                                               *)

LEMMA ClockInit == PetInit => ClockInv
BY DEF PetInit, TofInit, ClockInv

\* One poll and its delay, before the deadline.
LEMMA ClockDelay ==
    ASSUME ClockInv, stage = "waiting", now < deadline, Delay, UNCHANGED <<stage, deadline>>
    PROVE  ClockInv'
<1>1. PICK d \in 1 .. MaxLoop : Pass(d) /\ elapsed' = UpTo(LongestWait, elapsed + d)
  BY DEF Delay
<1>2. now' \in Ticks /\ elapsed' \in 0 .. LongestWait
  BY <1>1 DEF Pass, Wrapped, UpTo, ClockInv
<1>3. CASE ClearOfWrap
  <2>1. now + d < HostWrap /\ elapsed + d < LongestWait
    BY <1>3 DEF ClockInv
  <2>2. now' = now + d /\ elapsed' = elapsed + d
    BY <1>1, <2>1 DEF Pass, Wrapped, UpTo
  <2> QED
    BY <1>2, <1>3, <2>1, <2>2 DEF ClockInv
<1> QED
  BY <1>2, <1>3 DEF ClockInv

\* A deadline wraps to less than the timeout or not at all.
LEMMA DeadlineWraps ==
    ASSUME NEW t \in Ticks
    PROVE  /\ Wrapped(t + Timeout) \in Ticks
           /\ Wrapped(t + Timeout) < Timeout \/ Wrapped(t + Timeout) = t + Timeout
BY DEF Wrapped

LEMMA ClockBegins == ASSUME ClockInv, WaitBegins PROVE ClockInv'
<1>1. PICK d \in 1 .. HostWrap : now' = Wrapped(now + d)
  BY DEF WaitBegins, Pass
<1>2. Wrapped(now + d) \in Ticks
  BY DEF Wrapped, ClockInv
<1>3. PICK t \in Ticks : now' = t /\ deadline' = Wrapped(t + Timeout) /\ elapsed' = 0
  BY <1>1, <1>2 DEF WaitBegins
<1>4. PICK e \in Ticks : deadline' = e /\ (e < Timeout \/ e = t + Timeout)
  BY <1>3, DeadlineWraps
<1> QED
  BY <1>3, <1>4 DEF ClockInv

LEMMA ClockNext == ClockInv /\ [PetNext]_petVars => ClockInv'
<1> SUFFICES ASSUME ClockInv, [PetNext]_petVars PROVE ClockInv'
  OBVIOUS
<1>1. CASE InitStep
  <2>1. CASE CalibratePoll \/ CalibrateResult
    <3>1. PICK d \in 1 .. MaxLoop : now' = Wrapped(now + d)
      BY <2>1 DEF CalibratePoll, CalibrateResult, Pass
    <3>2. now' \in Ticks
      BY <3>1 DEF Wrapped, ClockInv
    <3> QED
      BY <2>1, <3>2 DEF CalibratePoll, CalibrateResult, waitVars, ClockInv
  <2>2. CASE ProbeFails \/ ProbeAnswers \/ BeginFails \/ BeginPatches \/ BeginRunning
             \/ BeginMisreads \/ SensorLost \/ Started
    BY <2>2 DEF ProbeFails, ProbeAnswers, BeginFails, BeginPatches, BeginRunning, BeginMisreads,
                StartMeasuring, SensorLost, Started, waitVars, ClockInv
  <2> QED
    BY <1>1, <2>1, <2>2 DEF InitStep
<1>2. CASE WaitStep
  <2>1. CASE WaitBegins
    BY <2>1, ClockBegins
  <2>2. CASE PollNothing \/ PollNear \/ PollFar
    BY <2>2, ClockDelay DEF PollNothing, PollNear, PollFar
  <2>3. CASE PollConfirms \/ WaitEnds
    BY <2>3 DEF PollConfirms, WaitEnds, Return, ClockInv
  <2>4. CASE WaitSkipped
    BY <2>4 DEF WaitSkipped, ClockInv
  <2> QED
    BY <1>2, <2>1, <2>2, <2>3, <2>4 DEF WaitStep
<1>3. CASE Detect \/ DetectorRuns \/ ServiceRuns \/ UNCHANGED petVars
  BY <1>3 DEF Detect, DetectorRuns, ServiceRuns, petVars, tofVars, waitVars, ClockInv
<1> QED
  BY <1>1, <1>2, <1>3 DEF PetNext, SensorStep

\* However long the tick count and the timeout, a wait that finds nobody lasts its
\* timeout and less than one poll more, as long as the count does not wrap in it.
THEOREM WaitIsTimely == PetSpec => WaitKeepsItsTime
<1>1. ClockInv /\ [PetNext]_petVars =>
        [WaitEnds /\ ClearOfWrap => elapsed \in Timeout .. Timeout + MaxLoop - 1]_tofVars
  BY DEF WaitEnds, ClockInv
<1> QED
  BY <1>1, ClockInit, ClockNext, PTL DEF PetSpec, WaitKeepsItsTime
-----------------------------------------------------------------------------
(* The detector.                                                           *)

LEMMA NewerInit == PetInit => NewerInv
BY DEF PetInit, SittingInit, NewerInv

LEMMA NewerNext == NewerInv /\ [PetNext]_petVars => NewerInv'
<1> SUFFICES ASSUME NewerInv, [PetNext]_petVars PROVE NewerInv'
  OBVIOUS
<1>1. CASE SensorStep \/ UNCHANGED petVars
  BY <1>1 DEF SensorStep, petVars, sittingVars, cloudVars, detectorVars, NewerInv
<1>2. CASE Detect
  BY <1>2 DEF Detect, DetectorBegins, cloudVars, NewerInv
<1>3. CASE DetectorStep
  <2>1. CASE BaselineRead \/ BaselineMissing
    BY <2>1 DEF BaselineRead, BaselineMissing, cloudVars, NewerInv
  <2>2. CASE PollMisses \/ PollHits
    BY <2>2 DEF PollMisses, PollHits, cloudVars, NewerInv
  <2>3. CASE Sitting \/ NotSitting \/ TimesOut
    BY <2>3 DEF Sitting, NotSitting, TimesOut, Answer, cloudVars, NewerInv
  <2> QED
    BY <1>3, <2>1, <2>2, <2>3 DEF DetectorStep
<1>4. CASE ServiceWrites
  BY <1>4 DEF ServiceWrites, detectorVars, NewerInv
<1> QED
  BY <1>1, <1>2, <1>3, <1>4 DEF PetNext, DetectorRuns, ServiceRuns

\* However often the service writes, and in between whichever GETs, no verdict from
\* before the feed makes a pet sit, unless the baseline could not be read.
THEOREM VerdictsAreNew == PetSpec => VerdictIsNew
<1>1. NewerInv /\ [PetNext]_petVars => [Sitting => unread \/ began < sat]_sittingVars
  BY DEF Sitting, NewerInv
<1> QED
  BY <1>1, NewerInit, NewerNext, PTL DEF PetSpec, VerdictIsNew
-----------------------------------------------------------------------------
(***************************************************************************)
(* Types.                                                                  *)
(***************************************************************************)

LEMMA Positive ==
    /\ BeginTries \in Nat \ {0} /\ Window \in Nat \ {0} /\ Samples \in Nat \ {0}
    /\ SensorWrap \in Nat \ {0} /\ Polls \in Nat \ {0} /\ MaxVerdicts \in Nat \ {0}
    /\ MostResults \in Nat \ {0} /\ Samples <= MostResults
BY TofAssumption, DetectorAssumption DEF MostResults

\* Division with remainder, and that there is one way only to divide.
LEMMA Division ==
    ASSUME NEW a \in Nat, NEW n \in Nat \ {0}
    PROVE  a \div n \in Nat /\ a % n \in 0 .. n - 1 /\ a = n * (a \div n) + (a % n)
OBVIOUS

LEMMA OneQuotient ==
    ASSUME NEW n \in Nat \ {0}, NEW p \in Int, NEW q \in Int,
           NEW r \in 0 .. n - 1, NEW s \in 0 .. n - 1, n * p + r = n * q + s
    PROVE  p = q /\ r = s
<1>1. n * p \in Int /\ n * q \in Int /\ n * (q - p) = n * q - n * p
  OBVIOUS
<1>2. n * (q - p) = r - s
  BY <1>1
<1>3. CASE q - p >= 1
  <2>1. n * (q - p) >= n
    BY <1>3
  <2> QED
    BY <1>2, <2>1
<1>4. CASE q - p <= -1
  <2>1. n * (q - p) <= -n
    BY <1>4
  <2> QED
    BY <1>2, <2>1
<1>5. CASE q - p = 0
  BY <1>2, <1>5
<1> QED
  BY <1>3, <1>4, <1>5

\* A result of the driver, and what may be in its window.
Results == [host : Ticks, sensor : 0 .. SensorWrap - 1]

\* The clocks stay within their words.
LEMMA PassTypes ==
    ASSUME TofTypeOK, NEW d \in 1 .. HostWrap, Pass(d)
    PROVE  now' \in Ticks /\ clock' \in 0 .. SensorWrap - 1
<1>1. now' \in Ticks
  BY DEF TofTypeOK, Pass, Wrapped
<1>2. clock + d \in Nat /\ SensorWrap \in Nat \ {0}
  BY TofAssumption DEF TofTypeOK
<1>3. (clock + d) % SensorWrap \in 0 .. SensorWrap - 1
  BY <1>2, Division
<1> QED
  BY <1>1, <1>3 DEF Pass

\* A new result goes into the window, and the ratio is one of three kinds.
LEMMA CollectTypes ==
    ASSUME TofTypeOK, Collect
    PROVE  /\ times' \in Seq(Results) /\ Len(times') <= Window
           /\ Len(times') = IF Len(times) < Window THEN Len(times) + 1 ELSE Window
           /\ scale' \in {"none", "right", "wrong"}
<1>1. /\ times \in Seq(Results) /\ Len(times) <= Window /\ Window \in Nat \ {0}
      /\ Result \in Results
  BY TofAssumption DEF TofTypeOK, Results, Result
<1>2. CASE Len(times) < Window
  <2>1. times' = Append(times, Result) /\ scale' = scale
    BY <1>2 DEF Collect
  <2>2. Len(times) \in Nat /\ times' \in Seq(Results) /\ Len(times') = Len(times) + 1
    BY <1>1, <2>1
  <2> QED
    BY <1>1, <1>2, <2>1, <2>2 DEF TofTypeOK
<1>3. CASE ~(Len(times) < Window)
  <2>1. Len(times) = Window
    BY <1>1, <1>3
  <2>2. Tail(times) \in Seq(Results) /\ Len(Tail(times)) = Window - 1
    BY <1>1, <2>1
  <2>3. scale' \in {"none", "right", "wrong"}
    BY <1>3 DEF Collect, Ratio, TofTypeOK
  <2> QED
    BY <1>1, <1>3, <2>1, <2>2, <2>3 DEF Collect
<1> QED
  BY <1>2, <1>3

\* Attempts are counted only while there are some left.
TriesLeft == stage \in {"probe", "begin"} => tries < BeginTries

\* Some sleeps and a GET take no longer than a GET may.
LEMMA SpendsBounded ==
    ASSUME took \in Nat, NEW n \in Nat, Spends(n)
    PROVE  took' \in Nat /\ took' <= took + n + MaxGet
BY DetectorAssumption DEF Spends

\* Every variable keeps its type, whatever the wraps, timeouts and polls.
THEOREM PetTyping == PetSpec => []PetTypeOK
<1> USE Positive
<1>1. PetInit => PetTypeOK /\ TriesLeft
  <2> SUFFICES ASSUME PetInit PROVE PetTypeOK /\ TriesLeft
    OBVIOUS
  <2>1. {measures, stayed, scaled} \subseteq BOOLEAN /\ unread \in BOOLEAN
    BY DEF PetInit, TofInit, SittingInit
  <2>2. times \in Seq(Results) /\ Len(times) = 0
    BY DEF PetInit, TofInit
  <2>3. TofTypeOK
    BY <2>1, <2>2 DEF PetInit, TofInit, TofTypeOK, Results
  <2>4. SittingTypeOK
    BY <2>1 DEF PetInit, SittingInit, SittingTypeOK
  <2> QED
    BY <2>3, <2>4 DEF PetTypeOK, PetInit, TofInit, TriesLeft
<1>2. TofTypeOK /\ TriesLeft /\ InitStep => TofTypeOK' /\ TriesLeft'
  <2> SUFFICES ASSUME TofTypeOK, TriesLeft, InitStep PROVE TofTypeOK' /\ TriesLeft'
    OBVIOUS
  <2> USE DEF TriesLeft, waitVars, seenVars, initVars
  <2>1. CASE ProbeFails \/ ProbeAnswers \/ Started
    BY <2>1 DEF ProbeFails, ProbeAnswers, Started, TofTypeOK
  <2>2. CASE BeginFails
    <3>1. tries' \in 0 .. BeginTries /\ TriesLeft'
      BY <2>2 DEF BeginFails, TofTypeOK
    <3> QED
      BY <2>2, <3>1 DEF BeginFails, TofTypeOK
  <2>3. ASSUME StartMeasuring PROVE stage' = "calibrate" /\ measures' \in BOOLEAN
    BY <2>3, ZenonT(30) DEF StartMeasuring
  <2>4. CASE BeginPatches \/ BeginRunning \/ BeginMisreads
    BY <2>3, <2>4 DEF BeginPatches, BeginRunning, BeginMisreads, TofTypeOK
  <2>5. CASE CalibratePoll
    <3>1. now' \in Ticks /\ clock' \in 0 .. SensorWrap - 1
      BY <2>5, PassTypes DEF CalibratePoll
    <3> QED
      BY <2>5, <3>1 DEF CalibratePoll, TofTypeOK
  <2>6. CASE CalibrateResult
    <3>1. now' \in Ticks /\ clock' \in 0 .. SensorWrap - 1
      BY <2>6, PassTypes DEF CalibrateResult
    <3>2. /\ times' \in Seq(Results) /\ Len(times') <= Window
          /\ scale' \in {"none", "right", "wrong"}
      BY <2>6, CollectTypes DEF CalibrateResult
    <3> QED
      BY <2>6, <3>1, <3>2 DEF CalibrateResult, TofTypeOK, Results
  <2>7. CASE SensorLost
    BY <2>7 DEF SensorLost, TofTypeOK
  <2> QED
    BY <2>1, <2>2, <2>4, <2>5, <2>6, <2>7 DEF InitStep
<1>3. TofTypeOK /\ WaitStep => TofTypeOK' /\ stage' \notin {"probe", "begin"}
  <2> SUFFICES ASSUME TofTypeOK, WaitStep
               PROVE  TofTypeOK' /\ stage' \notin {"probe", "begin"}
    OBVIOUS
  <2> USE DEF seenVars, initVars
  <2>1. CASE WaitSkipped
    BY <2>1 DEF WaitSkipped, TofTypeOK
  <2>2. CASE WaitBegins
    <3>1. now' \in Ticks /\ clock' \in 0 .. SensorWrap - 1
      BY <2>2, PassTypes DEF WaitBegins
    <3>2. deadline' \in Ticks
      BY <2>2, <3>1, DeadlineWraps DEF WaitBegins
    <3>3. {measures, stayed, scaled}' \subseteq BOOLEAN
      BY <2>2 DEF WaitBegins, TofTypeOK
    <3> QED
      BY <2>2, <3>1, <3>2, <3>3 DEF WaitBegins, TofTypeOK
  <2>3. Delay => /\ now' \in Ticks /\ clock' \in 0 .. SensorWrap - 1
                 /\ elapsed' \in 0 .. LongestWait
    <3> SUFFICES ASSUME Delay
                 PROVE  /\ now' \in Ticks /\ clock' \in 0 .. SensorWrap - 1
                        /\ elapsed' \in 0 .. LongestWait
      OBVIOUS
    <3>1. PICK d \in 1 .. MaxLoop : Pass(d) /\ elapsed' = UpTo(LongestWait, elapsed + d)
      BY DEF Delay
    <3>2. elapsed' \in 0 .. LongestWait
      BY <3>1 DEF UpTo, TofTypeOK
    <3> QED
      BY <3>1, <3>2, PassTypes
  <2>4. Collect => /\ times' \in Seq(Results) /\ Len(times') <= Window
                   /\ scale' \in {"none", "right", "wrong"}
    BY CollectTypes
  <2>5. CASE PollNothing
    BY <2>3, <2>5 DEF PollNothing, TofTypeOK
  <2>6. CASE PollNear
    <3>1. confirm' \in 0 .. Samples
      BY <2>6 DEF PollNear, TofTypeOK
    <3>2. results' \in 0 .. MostResults /\ inRow' \in 0 .. MostResults
      BY <2>6 DEF PollNear, UpTo, TofTypeOK
    <3> QED
      BY <2>3, <2>4, <2>6, <3>1, <3>2 DEF PollNear, TofTypeOK, Results
  <2>7. ASSUME NEW answer \in {"pet", "nobody"}, Return(answer)
        PROVE  /\ stage' = "ready" /\ verdict' \in {"pet", "nobody"} /\ deadline' \in Ticks
               /\ elapsed' \in 0 .. LongestWait /\ results' \in 0 .. MostResults
               /\ inRow' \in 0 .. MostResults /\ {measures, stayed, scaled}' \subseteq BOOLEAN
               /\ UNCHANGED <<sensor, tries, now, clock>>
    <3>1. measures' = measures /\ stayed' = TRUE /\ scaled' = FALSE
      BY <2>7 DEF Return
    <3>2. {measures, stayed, scaled}' \subseteq BOOLEAN
      BY <3>1 DEF TofTypeOK
    <3> QED
      BY <2>7, <3>2 DEF Return
  <2>8. CASE PollConfirms
    BY <2>4, <2>7, <2>8 DEF PollConfirms, TofTypeOK, Results
  <2>9. CASE PollFar
    <3>1. {measures, stayed, scaled}' \subseteq BOOLEAN
      BY <2>9 DEF PollFar, TofTypeOK
    <3>2. confirm' \in 0 .. Samples /\ inRow' \in 0 .. MostResults
      BY <2>9 DEF PollFar
    <3> QED
      BY <2>3, <2>4, <2>9, <3>1, <3>2 DEF PollFar, TofTypeOK, Results
  <2>10. CASE WaitEnds
    BY <2>7, <2>10 DEF WaitEnds, TofTypeOK
  <2> QED
    BY <2>1, <2>2, <2>5, <2>6, <2>8, <2>9, <2>10 DEF WaitStep
<1>4. SittingTypeOK /\ (DetectorStep \/ ServiceWrites \/ DetectorBegins) => SittingTypeOK'
  <2> SUFFICES ASSUME SittingTypeOK, DetectorStep \/ ServiceWrites \/ DetectorBegins
               PROVE  SittingTypeOK'
    OBVIOUS
  <2> USE DEF cloudVars, detectorVars
  <2>1. CASE DetectorBegins
    BY <2>1 DEF DetectorBegins, SittingTypeOK
  <2>2. CASE ServiceWrites
    BY <2>2 DEF ServiceWrites, SittingTypeOK
  <2>3. CASE BaselineRead
    <3>1. took' \in Nat
      BY <2>3, SpendsBounded DEF BaselineRead, SittingTypeOK
    <3> QED
      BY <2>3, <3>1 DEF BaselineRead, SittingTypeOK
  <2>4. CASE BaselineMissing
    <3>1. unread' \in BOOLEAN /\ took' \in Nat
      BY <2>4, SpendsBounded DEF BaselineMissing, SittingTypeOK
    <3> QED
      BY <2>4, <3>1 DEF BaselineMissing, SittingTypeOK
  <2>5. CASE PollMisses \/ PollHits
    <3>1. polls' \in 0 .. Polls
      BY <2>5 DEF PollMisses, PollHits, SittingTypeOK
    <3>2. took' \in Nat
      BY <2>5, SpendsBounded DEF PollMisses, PollHits, SittingTypeOK
    <3> QED
      BY <2>5, <3>1, <3>2 DEF PollMisses, PollHits, SittingTypeOK
  <2>6. CASE Sitting \/ NotSitting \/ TimesOut
    <3>1. /\ unread' \in BOOLEAN /\ polls' = 0 /\ baseline' = 0 /\ began' = 0
          /\ took' = 0
          /\ detector' = "off" /\ UNCHANGED <<updatedAt, posture, sat>>
      BY <2>6 DEF Sitting, NotSitting, TimesOut, Answer
    <3> QED
      BY <3>1 DEF SittingTypeOK
  <2> QED
    BY <2>1, <2>2, <2>3, <2>4, <2>5, <2>6 DEF DetectorStep
<1>5. PetTypeOK /\ TriesLeft /\ [PetNext]_petVars => PetTypeOK' /\ TriesLeft'
  <2> SUFFICES ASSUME PetTypeOK, TriesLeft, [PetNext]_petVars
               PROVE  PetTypeOK' /\ TriesLeft'
    OBVIOUS
  <2>1. UNCHANGED tofVars => TofTypeOK' /\ TriesLeft'
    BY DEF PetTypeOK, TofTypeOK, TriesLeft, tofVars, waitVars, seenVars, initVars
  <2>2. UNCHANGED sittingVars => SittingTypeOK'
    BY DEF PetTypeOK, SittingTypeOK, sittingVars, cloudVars, detectorVars
  <2>3. CASE SensorStep
    BY <1>2, <1>3, <2>2, <2>3 DEF SensorStep, PetTypeOK, TriesLeft
  <2>4. CASE Detect
    <3>1. TofTypeOK' /\ TriesLeft'
      BY <2>4 DEF Detect, PetTypeOK, TofTypeOK, TriesLeft, seenVars, initVars
    <3> QED
      BY <1>4, <2>4, <3>1 DEF Detect, PetTypeOK
  <2>5. CASE DetectorRuns
    BY <1>4, <2>1, <2>5 DEF DetectorRuns, PetTypeOK
  <2>6. CASE ServiceRuns
    BY <1>4, <2>1, <2>6 DEF ServiceRuns, PetTypeOK
  <2>7. CASE UNCHANGED petVars
    BY <2>1, <2>2, <2>7 DEF petVars, PetTypeOK
  <2> QED
    BY <2>3, <2>4, <2>5, <2>6, <2>7 DEF PetNext
<1> QED
  BY <1>1, <1>5, PTL DEF PetSpec

-----------------------------------------------------------------------------
(***************************************************************************)
(* The detector's time.                                                    *)
(***************************************************************************)

\* The baseline costs a GET, and each poll a sleep and a GET.
SpentInv ==
    /\ detector \in {"off", "baseline"} => took = 0 /\ polls = 0
    /\ detector \in {"sleep", "posture"} => took <= polls + (polls + 1) * MaxGet

\* However long the GETs and whatever they return, the detector has run no longer
\* than its timeout and one GET more than it has polls, before it asks for the posture.
THEOREM DetectorRunsInTime == PetSpec => []DetectorInTime
<1> USE Positive
<1>0. MaxGet \in Nat
  BY DetectorAssumption
<1>1. PetInit => SpentInv
  BY DEF PetInit, SittingInit, SpentInv
<1>2. SittingTypeOK /\ SpentInv /\ (DetectorStep \/ DetectorBegins) => SpentInv'
  <2> SUFFICES ASSUME SittingTypeOK, SpentInv, DetectorStep \/ DetectorBegins
               PROVE  SpentInv'
    OBVIOUS
  <2>0. took \in Nat /\ polls \in Nat
    BY DEF SittingTypeOK
  <2>1. CASE DetectorBegins
    BY <2>1 DEF DetectorBegins, SpentInv
  <2>2. CASE BaselineRead \/ BaselineMissing
    <3>1. took = 0 /\ polls = 0 /\ polls' = 0 /\ Spends(0) /\ detector' = "sleep"
      BY <2>2 DEF BaselineRead, BaselineMissing, SpentInv
    <3>2. took' <= MaxGet /\ took' \in Nat
      BY <1>0, <2>0, <3>1, SpendsBounded
    <3>3. (0 + 1) * MaxGet = MaxGet
      BY <1>0
    <3> QED
      BY <1>0, <3>1, <3>2, <3>3 DEF SpentInv
  <2>3. CASE PollMisses \/ PollHits
    <3>1. /\ detector = "sleep" /\ detector' \in {"sleep", "posture"}
          /\ polls' = polls + 1 /\ Spends(1)
      BY <2>3 DEF PollMisses, PollHits
    <3>2. took <= polls + (polls + 1) * MaxGet
      BY <3>1 DEF SpentInv
    <3>3. took' \in Nat /\ took' <= took + 1 + MaxGet
      BY <2>0, <3>1, SpendsBounded
    <3>4. (polls' + 1) * MaxGet = (polls + 1) * MaxGet + MaxGet
      BY <1>0, <2>0, <3>1
    <3>5. (polls + 1) * MaxGet \in Nat
      BY <1>0, <2>0
    <3> QED
      BY <1>0, <2>0, <3>1, <3>2, <3>3, <3>4, <3>5 DEF SpentInv
  <2>4. CASE Sitting \/ NotSitting \/ TimesOut
    BY <2>4 DEF Sitting, NotSitting, TimesOut, Answer, SpentInv
  <2> QED
    BY <2>1, <2>2, <2>3, <2>4 DEF DetectorStep
<1>3. PetTypeOK /\ SpentInv /\ [PetNext]_petVars => SpentInv'
  <2> SUFFICES ASSUME PetTypeOK, SpentInv, [PetNext]_petVars PROVE SpentInv'
    OBVIOUS
  <2>1. CASE SensorStep \/ ServiceRuns \/ UNCHANGED petVars
    BY <2>1 DEF SensorStep, ServiceRuns, ServiceWrites, petVars, sittingVars,
                detectorVars, SpentInv
  <2>2. CASE Detect \/ DetectorRuns
    BY <1>2, <2>2 DEF Detect, DetectorRuns, PetTypeOK
  <2> QED
    BY <2>1, <2>2 DEF PetNext
<1>4. PetTypeOK /\ SpentInv => DetectorInTime
  <2> SUFFICES ASSUME PetTypeOK, SpentInv PROVE DetectorInTime
    OBVIOUS
  <2>1. took \in Nat /\ polls \in Nat /\ polls <= Polls /\ Polls \in Nat
    BY DEF PetTypeOK, SittingTypeOK
  <2>2. (polls + 1) * MaxGet <= (Polls + 1) * MaxGet
    BY <1>0, <2>1
  <2>3. (polls + 1) * MaxGet \in Nat /\ (Polls + 1) * MaxGet \in Nat
    BY <1>0, <2>1
  <2>4. took = 0 \/ took <= polls + (polls + 1) * MaxGet
    BY DEF PetTypeOK, SittingTypeOK, SpentInv
  <2> QED
    BY <2>1, <2>2, <2>3, <2>4 DEF DetectorInTime
<1> QED
  BY <1>1, <1>3, <1>4, PetTyping, PTL DEF PetSpec
-----------------------------------------------------------------------------
(***************************************************************************)
(* The two clocks.  They count the same ticks from different beginnings,   *)
(* and since the longer word is a multiple of the shorter one, their       *)
(* readings agree modulo the shorter, now and in every result of the       *)
(* window, over any wrap of either.                                        *)
(***************************************************************************)
Agree(c) ==
    /\ clock = (now + c) % SensorWrap
    /\ \A k \in 1 .. Len(times) : times[k].sensor = (times[k].host + c) % SensorWrap

LEMMA RemainderOf ==
    ASSUME NEW n \in Nat \ {0}, NEW a \in Nat, NEW q \in Int, NEW r \in 0 .. n - 1,
           a = n * q + r
    PROVE  a % n = r
<1> DEFINE p == a \div n
           s == a % n
<1>1. p \in Int /\ s \in 0 .. n - 1 /\ a = n * p + s
  BY Division
<1> HIDE DEF p, s
<1>2. s = r
  BY <1>1, OneQuotient
<1> QED
  BY <1>2 DEF s

\* Counting on from a remainder, and leaving out whole rounds.
LEMMA CountingOn ==
    ASSUME NEW n \in Nat \ {0}, NEW a \in Nat, NEW d \in Nat
    PROVE  ((a % n) + d) % n = (a + d) % n
<1> DEFINE p == a \div n
           s == a % n
           q == (s + d) \div n
           r == (s + d) % n
<1>1. p \in Nat /\ s \in 0 .. n - 1 /\ a = n * p + s
  BY Division
<1>2. s + d \in Nat
  BY <1>1
<1>3. q \in Nat /\ r \in 0 .. n - 1 /\ s + d = n * q + r
  BY <1>2, Division
<1> HIDE DEF p, s, q, r
<1>4. a + d = n * (p + q) + r
  <2>1. n * (p + q) = n * p + n * q /\ n * p \in Nat /\ n * q \in Nat
    BY <1>1, <1>3
  <2> QED
    BY <1>1, <1>3, <2>1
<1>5. (a + d) % n = r
  <2>1. a + d \in Nat /\ p + q \in Int
    BY <1>1, <1>3
  <2> QED
    BY <1>3, <1>4, <2>1, RemainderOf
<1> QED
  BY <1>5 DEF r, s

LEMMA WholeRounds ==
    ASSUME NEW n \in Nat \ {0}, NEW a \in Nat, NEW m \in Nat
    PROVE  (a + n * m) % n = a % n
<1> DEFINE p == a \div n
           s == a % n
<1>1. p \in Nat /\ s \in 0 .. n - 1 /\ a = n * p + s
  BY Division
<1> HIDE DEF p, s
<1>2. a + n * m = n * (p + m) + s
  <2>1. n * (p + m) = n * p + n * m /\ n * p \in Nat /\ n * m \in Nat
    BY <1>1
  <2> QED
    BY <1>1, <2>1
<1>3. a + n * m \in Nat
  OBVIOUS
<1>4. (a + n * m) % n = s
  BY <1>1, <1>2, <1>3, RemainderOf
<1> QED
  BY <1>4 DEF s

\* Time passes for both clocks alike.
LEMMA PassAgrees ==
    ASSUME TofTypeOK, NEW c \in 0 .. SensorWrap - 1, clock = (now + c) % SensorWrap,
           NEW d \in 1 .. HostWrap, Pass(d)
    PROVE  clock' = (now' + c) % SensorWrap
<1> USE Positive
<1> DEFINE n == SensorWrap
           m == HostWrap \div n
<1>1. m \in Nat /\ HostWrap = n * m
  <2>1. /\ HostWrap \div n \in Nat
        /\ HostWrap = n * (HostWrap \div n) + (HostWrap % n)
    BY Division
  <2>2. HostWrap % n = 0
    BY ClocksAssumption
  <2> QED
    BY <2>1, <2>2
<1> HIDE DEF m
<1>2. now \in Nat /\ now + c \in Nat
  BY DEF TofTypeOK
<1>3. clock' = (now + c + d) % n
  <2>1. clock' = (clock + d) % n
    BY DEF Pass
  <2> DEFINE a == now + c
  <2>2. a \in Nat /\ clock = a % n /\ d \in Nat
    BY <1>2
  <2> HIDE DEF a
  <2>3. ((a % n) + d) % n = (a + d) % n
    BY <2>2, CountingOn
  <2> QED
    BY <2>1, <2>2, <2>3 DEF a
<1>4. CASE now + d < HostWrap
  <2>1. now' = now + d /\ now + d + c = now + c + d
    BY <1>2, <1>4 DEF Pass, Wrapped
  <2> QED
    BY <1>3, <2>1
<1>5. CASE ~(now + d < HostWrap)
  <2>1. now' = now + d - HostWrap /\ now' \in Nat
    BY <1>2, <1>5 DEF Pass, Wrapped
  <2> DEFINE a == now' + c
  <2>2. a \in Nat /\ now + c + d = a + n * m
    BY <1>1, <1>2, <2>1
  <2> HIDE DEF a
  <2>3. (a + n * m) % n = a % n
    BY <1>1, <2>2, WholeRounds
  <2> QED
    BY <1>3, <2>2, <2>3 DEF a
<1> QED
  BY <1>4, <1>5

\* The bounds of 0.7 and 1.3 leave no room for a round of the sensor's clock.
LEMMA RatioIsRight ==
    ASSUME NEW c \in 0 .. SensorWrap - 1, NEW old \in Results, NEW new \in Results,
           old.sensor = (old.host + c) % SensorWrap,
           new.sensor = (new.host + c) % SensorWrap
    PROVE  Ratio(old, new) \in {"right", scale}
<1> USE Positive
<1> DEFINE n == SensorWrap
           h == new.host - old.host
           s == new.sensor - old.sensor
           a == old.host + c
           b == new.host + c
           p == a \div n
           q == b \div n
<1>1. /\ old.host \in Nat /\ new.host \in Nat /\ a \in Nat /\ b \in Nat
      /\ old.sensor \in 0 .. n - 1 /\ new.sensor \in 0 .. n - 1
  BY DEF Results
<1>2. /\ old.sensor = a % n /\ new.sensor = b % n
      /\ h = b - a /\ h \in Int /\ s \in Int /\ s < n
  <2>1. old.sensor = a % n /\ new.sensor = b % n
    OBVIOUS
  <2>2. h = b - a /\ h \in Int
    BY <1>1
  <2>3. s \in Int /\ s < n
    BY <1>1
  <2> QED
    BY <2>1, <2>2, <2>3
<1> HIDE DEF a, b
<1>3. /\ p \in Nat /\ a = n * p + (a % n)
      /\ q \in Nat /\ b = n * q + (b % n)
  BY <1>1, Division
<1> HIDE DEF p, q
<1>4. h - s = n * (q - p)
  <2>1. n * (q - p) = n * q - n * p /\ n * q \in Nat /\ n * p \in Nat
    BY <1>3
  <2>2. a = n * p + old.sensor /\ b = n * q + new.sensor
    BY <1>2, <1>3
  <2>3. h = (n * q + new.sensor) - (n * p + old.sensor)
    BY <1>2, <2>2
  <2> QED
    BY <1>1, <2>1, <2>3
<1>5. ASSUME s > 0, h >= 0, 10 * h <= 13 * s PROVE h = s
  <2>1. CASE q - p >= 1
    <3>1. n * (q - p) >= n
      BY <1>3, <2>1
    <3>2. h - s >= n
      BY <1>4, <3>1
    <3> HIDE DEF h, s
    <3> QED
      BY <1>2, <1>5, <3>2
  <2>2. CASE q - p <= -1
    <3>1. n * (q - p) <= -n
      BY <1>3, <2>2
    <3>2. h - s <= -n
      BY <1>4, <3>1
    <3> HIDE DEF h, s
    <3> QED
      BY <1>2, <1>5, <3>2
  <2>3. CASE q - p = 0
    BY <1>2, <1>4, <2>3
  <2> QED
    BY <1>3, <2>1, <2>2, <2>3
<1> QED
  BY <1>5 DEF Ratio

\* A new result agrees too, and the ratio it makes is right.
LEMMA CollectAgrees ==
    ASSUME TofTypeOK, NEW c \in 0 .. SensorWrap - 1, Agree(c), Collect
    PROVE  /\ \A k \in 1 .. Len(times') :
                 times'[k].sensor = (times'[k].host + c) % SensorWrap
           /\ scale' \in {"right", scale}
<1> USE Positive
<1>1. /\ times \in Seq(Results) /\ Len(times) <= Window /\ Len(times) \in Nat
      /\ Result \in Results /\ Result.host = now /\ Result.sensor = clock
  BY DEF TofTypeOK, Results, Result
<1>2. CASE Len(times) < Window
  <2>1. times' = Append(times, Result) /\ scale' = scale
    BY <1>2 DEF Collect
  <2> QED
    BY <1>1, <2>1 DEF Agree
<1>3. CASE ~(Len(times) < Window)
  <2>1. /\ times' = Append(Tail(times), Result)
        /\ scale' = Ratio(Head(times), Result)
    BY <1>3 DEF Collect
  <2>2. /\ Len(times) = Window /\ Head(times) = times[1] /\ times[1] \in Results
        /\ Len(times') = Window /\ times'[Window] = Result
        /\ \A k \in 1 .. Window - 1 : times'[k] = times[k + 1]
    BY <1>1, <1>3, <2>1
  <2>3. scale' \in {"right", scale}
    <3>1. times[1].sensor = (times[1].host + c) % SensorWrap
      BY <2>2 DEF Agree
    <3>2. Result.sensor = (Result.host + c) % SensorWrap
      BY <1>1 DEF Agree
    <3> QED
      BY <1>1, <2>1, <2>2, <3>1, <3>2, RatioIsRight
  <2>4. ASSUME NEW k \in 1 .. Window
        PROVE  times'[k].sensor = (times'[k].host + c) % SensorWrap
    <3>1. CASE k = Window
      BY <1>1, <2>2, <3>1 DEF Agree
    <3>2. CASE k # Window
      <4>1. k \in 1 .. Window - 1 /\ k + 1 \in 1 .. Len(times)
        BY <2>2, <3>2
      <4> QED
        BY <2>2, <4>1 DEF Agree
    <3> QED
      BY <3>1, <3>2
  <2> QED
    BY <2>2, <2>3, <2>4
<1> QED
  BY <1>2, <1>3

\* The clocks agree, no ratio is wrong, and what counts towards a pet was near.
RealInv ==
    /\ \E c \in 0 .. SensorWrap - 1 : Agree(c)
    /\ scale # "wrong"
    /\ confirm <= inRow

\* One step of boot or of a wait.
LEMMA RealStep == ASSUME TofTypeOK, RealInv, InitStep \/ WaitStep PROVE RealInv'
<1> USE Positive DEF initVars, waitVars, seenVars
<1>0. confirm \in Nat /\ inRow \in 0 .. MostResults
  BY DEF TofTypeOK
<1>1. PICK c \in 0 .. SensorWrap - 1 : Agree(c)
  BY DEF RealInv
<1>2. (\E d \in 1 .. HostWrap : Pass(d)) => clock' = (now' + c) % SensorWrap
  BY <1>1, PassAgrees DEF Agree
<1>3. Delay \/ (\E d \in 1 .. MaxLoop : Pass(d)) => \E d \in 1 .. HostWrap : Pass(d)
  BY DEF Delay
<1>4. Collect => /\ \A k \in 1 .. Len(times') :
                       times'[k].sensor = (times'[k].host + c) % SensorWrap
                 /\ scale' # "wrong"
  <2> SUFFICES ASSUME Collect
               PROVE  /\ \A k \in 1 .. Len(times') :
                            times'[k].sensor = (times'[k].host + c) % SensorWrap
                      /\ scale' # "wrong"
    OBVIOUS
  <2>1. scale' \in {"right", scale}
    BY <1>1, CollectAgrees
  <2> QED
    BY <1>1, <2>1, CollectAgrees DEF RealInv
<1>5. UNCHANGED <<times, scale>>
        => /\ \A k \in 1 .. Len(times') :
                 times'[k].sensor = (times'[k].host + c) % SensorWrap
           /\ scale' # "wrong"
  BY <1>1 DEF Agree, RealInv
<1>6. UNCHANGED <<now, clock>> => clock' = (now' + c) % SensorWrap
  BY <1>1 DEF Agree
<1>7. CASE ProbeFails \/ ProbeAnswers \/ BeginFails \/ BeginPatches \/ BeginRunning
             \/ BeginMisreads \/ SensorLost \/ Started
  <2>1. UNCHANGED <<now, clock, times, scale, confirm, inRow>>
    BY <1>7 DEF ProbeFails, ProbeAnswers, BeginFails, BeginPatches, BeginRunning,
                BeginMisreads, SensorLost, Started
  <2> QED
    BY <1>5, <1>6, <2>1 DEF RealInv, Agree
<1>8. CASE CalibratePoll
  BY <1>2, <1>3, <1>5, <1>8 DEF CalibratePoll, RealInv, Agree
<1>9. CASE CalibrateResult
  BY <1>2, <1>3, <1>4, <1>9 DEF CalibrateResult, RealInv, Agree
<1>10. CASE WaitSkipped
  BY <1>5, <1>6, <1>10 DEF WaitSkipped, RealInv, Agree
<1>11. CASE WaitBegins
  <2>1. confirm' <= inRow'
    BY <1>11 DEF WaitBegins
  <2>2. (\E d \in 1 .. HostWrap : Pass(d)) /\ UNCHANGED <<times, scale>>
    BY <1>11 DEF WaitBegins
  <2> QED
    BY <1>2, <1>5, <2>1, <2>2 DEF RealInv, Agree
<1>12. CASE PollNothing
  BY <1>2, <1>3, <1>5, <1>12 DEF PollNothing, RealInv, Agree
<1>13. CASE PollNear
  <2>1. confirm' <= inRow'
    <3>1. /\ confirm' = 0 \/ confirm' = confirm + 1
          /\ confirm' < Samples
          /\ inRow' = MostResults \/ inRow' = inRow + 1
      BY <1>13 DEF PollNear, UpTo
    <3>2. confirm <= inRow
      BY DEF RealInv
    <3> QED
      BY <1>0, <3>1, <3>2
  <2>2. Delay /\ Collect
    BY <1>13 DEF PollNear
  <2>3. clock' = (now' + c) % SensorWrap
    BY <1>2, <1>3, <2>2
  <2>4. /\ \A k \in 1 .. Len(times') : times'[k].sensor = (times'[k].host + c) % SensorWrap
        /\ scale' # "wrong"
    BY <1>4, <2>2
  <2>5. Agree(c)'
    BY <2>3, <2>4 DEF Agree
  <2> QED
    BY <2>1, <2>4, <2>5 DEF RealInv
<1>14. CASE PollConfirms
  <2>1. Collect /\ confirm' = 0 /\ inRow' = 0 /\ UNCHANGED <<now, clock>>
    BY <1>14 DEF PollConfirms, Return
  <2> QED
    BY <1>4, <1>6, <2>1 DEF RealInv, Agree
<1>15. CASE PollFar
  <2>1. Delay /\ Collect /\ confirm' = 0 /\ inRow' = 0
    BY <1>15 DEF PollFar
  <2>2. clock' = (now' + c) % SensorWrap
    BY <1>2, <1>3, <2>1
  <2>3. /\ \A k \in 1 .. Len(times') : times'[k].sensor = (times'[k].host + c) % SensorWrap
        /\ scale' # "wrong"
    BY <1>4, <2>1
  <2>4. Agree(c)'
    BY <2>2, <2>3 DEF Agree
  <2> QED
    BY <2>1, <2>3, <2>4 DEF RealInv
<1>16. CASE WaitEnds
  <2>1. confirm' = 0 /\ inRow' = 0 /\ UNCHANGED <<now, clock, times, scale>>
    BY <1>16 DEF WaitEnds, Return
  <2> QED
    BY <1>5, <1>6, <2>1 DEF RealInv, Agree
<1> QED
  BY <1>7, <1>8, <1>9, <1>10, <1>11, <1>12, <1>13, <1>14, <1>15, <1>16
     DEF InitStep, WaitStep

\* The invariant in every behaviour.
LEMMA RealHolds == PetSpec => []RealInv
<1>1. PetInit => RealInv
  <2> SUFFICES ASSUME PetInit PROVE RealInv
    OBVIOUS
  <2>1. now = 0 /\ clock \in 0 .. SensorWrap - 1 /\ Len(times) = 0
    BY DEF PetInit, TofInit
  <2>2. clock = (now + clock) % SensorWrap
    <3>1. now + clock = SensorWrap * 0 + clock /\ now + clock \in Nat
      BY <2>1, Positive
    <3> QED
      BY <2>1, <3>1, Positive, RemainderOf
  <2>3. Agree(clock)
    BY <2>1, <2>2 DEF Agree
  <2> QED
    BY <2>1, <2>3 DEF PetInit, TofInit, RealInv
<1>2. PetTypeOK /\ RealInv /\ [PetNext]_petVars => RealInv'
  <2> SUFFICES ASSUME PetTypeOK, RealInv, [PetNext]_petVars PROVE RealInv'
    OBVIOUS
  <2>1. CASE SensorStep
    BY <2>1, RealStep DEF SensorStep, PetTypeOK
  <2>2. CASE ~SensorStep
    <3>1. UNCHANGED <<now, clock, times, scale, confirm, inRow>>
      BY <2>2 DEF PetNext, Detect, DetectorRuns, ServiceRuns, petVars, tofVars, waitVars,
                  seenVars
    <3> QED
      BY <3>1 DEF RealInv, Agree
  <2> QED
    BY <2>1, <2>2
<1> QED
  BY <1>1, <1>2, PetTyping, PTL DEF PetSpec

\* However the clocks stand to each other, whatever wraps, and however long the
\* pauses between the feeds: "pet" is said of that many near results in a row,
\* measured by a right ratio.
THEOREM PetIsReal == PetSpec => PetIsThere
<1>1. PetTypeOK /\ RealInv /\ [PetNext]_petVars
        => [PollConfirms => inRow + 1 >= Samples /\ scale' = "right"]_tofVars
  <2> SUFFICES ASSUME PetTypeOK, RealInv, PollConfirms
               PROVE  inRow + 1 >= Samples /\ scale' = "right"
    OBVIOUS
  <2>1. TofTypeOK /\ Collect /\ scale' # "none" /\ confirm + 1 = Samples
    BY DEF PollConfirms, PetTypeOK
  <2>2. inRow + 1 >= Samples
    BY <2>1, Positive DEF RealInv, TofTypeOK
  <2>3. PICK c \in 0 .. SensorWrap - 1 : Agree(c)
    BY DEF RealInv
  <2>4. scale' \in {"right", scale}
    BY <2>1, <2>3, CollectAgrees
  <2>5. scale \in {"none", "right"}
    BY <2>1 DEF TofTypeOK, RealInv
  <2> QED
    BY <2>1, <2>2, <2>4, <2>5
<1> QED
  BY <1>1, PetTyping, RealHolds, PTL DEF PetSpec, PetIsThere
-----------------------------------------------------------------------------
(***************************************************************************)
(* How many results a pet needs that stays.  With a ratio, each counts.    *)
(* Without one the window must fill with results of this wait, and since   *)
(* the sensor's clock returns to zero at most once in a wait, at one       *)
(* "turn", the ratio fails only for pairs on either side of it: of the     *)
(* first two windows of results, those of the second are then all late.    *)
(***************************************************************************)
Begin == deadline - Timeout

\* The sensor's clock at a time of the wait.
Reading(turn, t) == IF t < turn THEN t - turn + SensorWrap ELSE t - turn

\* The results of this wait in the window, and which of them came after the turn.
InTime(turn) ==
    /\ now < deadline => clock = Reading(turn, now)
    /\ \A k \in 1 .. Window : k + results > Window =>
        /\ Begin <= times[k].host /\ times[k].host < now
        /\ times[k].sensor = Reading(turn, times[k].host)
        /\ k + results > 2 * Window => turn <= times[k].host

Turns == Begin + 1 .. Begin + SensorWrap

SeenInv ==
    /\ stage \in {"ready", "waiting"} => Len(times) = Window
    /\ stage = "waiting" =>
        /\ confirm < Samples
        /\ stayed /\ scaled => scale # "none" /\ results <= confirm
        /\ stayed /\ ~scaled /\ ClearOfWrap =>
            /\ scale # "none" => results <= confirm + 2 * Window
            /\ scale = "none" => results <= 2 * Window /\ \E turn \in Turns : InTime(turn)

\* Both clocks go on alike through a wait, with one turn at most.
LEMMA ReadingOn ==
    ASSUME NEW b \in Nat, NEW turn \in b + 1 .. b + SensorWrap, NEW t \in Nat, NEW d \in Nat,
           b <= t, t + d < b + SensorWrap
    PROVE  (Reading(turn, t) + d) % SensorWrap = Reading(turn, t + d)
<1> USE Positive
<1> DEFINE n == SensorWrap
           a == Reading(turn, t) + d
           r == Reading(turn, t + d)
<1>1. a \in Nat /\ r \in 0 .. n - 1
  BY DEF Reading
<1>2. CASE t < turn /\ turn <= t + d
  <2>1. a = n * 1 + r
    BY <1>2 DEF Reading
  <2> HIDE DEF a, r
  <2> QED
    BY <1>1, <2>1, RemainderOf DEF a, r
<1>3. CASE ~(t < turn /\ turn <= t + d)
  <2>1. a = n * 0 + r
    BY <1>3 DEF Reading
  <2> HIDE DEF a, r
  <2> QED
    BY <1>1, <2>1, RemainderOf DEF a, r
<1> QED
  BY <1>2, <1>3

\* Only a turn between two results of a wait keeps their ratio back.
LEMMA RatioFound ==
    ASSUME NEW old \in Results, NEW new \in Results, NEW turn \in Nat,
           old.sensor = Reading(turn, old.host), new.sensor = Reading(turn, new.host),
           old.host < new.host, new.host < old.host + SensorWrap,
           Ratio(old, new) = "none"
    PROVE  scale = "none" /\ old.host < turn /\ turn <= new.host
<1> USE Positive
<1> DEFINE h == new.host - old.host
           s == new.sensor - old.sensor
<1>1. old.host \in Nat /\ new.host \in Nat
  BY DEF Results
<1>2. h \in Int /\ s \in Int /\ h > 0
  BY <1>1 DEF Reading
<1>3. ~(s > 0 /\ h >= 0 /\ 10 * h >= 7 * s /\ 10 * h <= 13 * s) /\ scale = "none"
  <2> HIDE DEF h, s
  <2>1. Ratio(old, new) = IF s > 0 /\ h >= 0 /\ 10 * h >= 7 * s /\ 10 * h <= 13 * s
                          THEN IF h = s THEN "right" ELSE "wrong"
                          ELSE scale
    BY DEF Ratio, h, s
  <2> QED
    BY <2>1
<1>4. (old.host < turn <=> new.host < turn) => s = h
  BY <1>1 DEF Reading
<1>5. s # h
  <2> HIDE DEF h, s
  <2> QED
    BY <1>2, <1>3
<1> QED
  BY <1>1, <1>3, <1>4, <1>5

\* A poll's delay, where nothing wraps.
LEMMA DelayAdds ==
    ASSUME TofTypeOK, ClearOfWrap, now < deadline, Delay
    PROVE  \E d \in 1 .. MaxLoop : now' = now + d /\ clock' = (clock + d) % SensorWrap
<1>1. PICK d \in 1 .. MaxLoop : Pass(d)
  BY DEF Delay
<1>2. now \in Nat /\ deadline \in Nat /\ now + d < HostWrap
  BY DEF TofTypeOK
<1> QED
  BY <1>1, <1>2 DEF Pass, Wrapped

\* The sensor's clock after the delay, if the wait is not over.
LEMMA DelayReads ==
    ASSUME TofTypeOK, ClearOfWrap, now < deadline, Begin <= now, Delay,
           UNCHANGED deadline, NEW turn \in Turns, InTime(turn)
    PROVE  now < now' /\ (now' < deadline' => clock' = Reading(turn, now'))
<1> USE Positive
<1>1. PICK d \in 1 .. MaxLoop : now' = now + d /\ clock' = (clock + d) % SensorWrap
  BY DelayAdds
<1>2. now \in Nat /\ deadline \in Nat /\ Begin \in Nat /\ deadline = Begin + Timeout
  BY DEF TofTypeOK, Begin
<1>3. Timeout <= SensorWrap
  BY ClocksAssumption
<1>4. ASSUME now' < deadline' PROVE clock' = Reading(turn, now')
  <2>1. now + d < Begin + SensorWrap /\ clock = Reading(turn, now)
    BY <1>1, <1>2, <1>3, <1>4 DEF InTime
  <2> HIDE DEF Begin
  <2>2. (Reading(turn, now) + d) % SensorWrap = Reading(turn, now + d)
    BY <1>2, <2>1, ReadingOn DEF Turns
  <2> QED
    BY <1>1, <2>1, <2>2
<1> QED
  BY <1>1, <1>2, <1>4

\* A poll without a result.
LEMMA InTimeNothing ==
    ASSUME TofTypeOK, ClearOfWrap, now < deadline, Begin <= now, Delay,
           UNCHANGED <<deadline, times, results>>, Len(times) = Window,
           NEW turn \in Turns, InTime(turn)
    PROVE  InTime(turn)'
<1>1. now < now' /\ (now' < deadline' => clock' = Reading(turn, now'))
  BY DelayReads
<1>2. ASSUME NEW k \in 1 .. Window, k + results' > Window
      PROVE  /\ Begin' <= times'[k].host /\ times'[k].host < now'
             /\ times'[k].sensor = Reading(turn, times'[k].host)
             /\ k + results' > 2 * Window => turn <= times'[k].host
  <2>1. /\ Begin <= times[k].host /\ times[k].host < now
        /\ times[k].sensor = Reading(turn, times[k].host)
        /\ k + results > 2 * Window => turn <= times[k].host
    BY <1>2 DEF InTime
  <2>2. times[k].host < now'
    <3>1. now \in Int /\ now' \in Int
      BY DelayAdds DEF TofTypeOK
    <3>2. times \in Seq(Results) /\ k \in 1 .. Len(times)
      BY DEF TofTypeOK, Results
    <3>3. times[k] \in Results
      BY <3>2
    <3>4. times[k].host \in Int
      BY <3>3 DEF Results
    <3> QED
      BY <1>1, <2>1, <3>1, <3>4
  <2> QED
    BY <2>1, <2>2 DEF Begin
<1> QED
  BY <1>1, <1>2 DEF InTime

\* A poll with one that makes no ratio.
LEMMA InTimeNear ==
    ASSUME TofTypeOK, ClearOfWrap, now < deadline, Begin <= now, Collect, Delay,
           UNCHANGED deadline, results' = results + 1, Len(times) = Window,
           results <= 2 * Window, NEW turn \in Turns, InTime(turn), scale' = "none"
    PROVE  InTime(turn)' /\ results' <= 2 * Window
<1> USE Positive
<1>1. now < now' /\ (now' < deadline' => clock' = Reading(turn, now'))
  BY DelayReads
<1>2. /\ now \in Nat /\ deadline \in Nat /\ Begin \in Nat /\ results \in Nat
      /\ deadline = Begin + Timeout /\ Timeout <= SensorWrap /\ turn \in Nat
  BY ClocksAssumption DEF TofTypeOK, Begin, Turns
<1>3. /\ times \in Seq(Results) /\ \A k \in 1 .. Window : times[k] \in Results
      /\ Result \in Results /\ Result.host = now /\ Result.sensor = clock
  <2>1. times \in Seq(Results) /\ now \in Ticks /\ clock \in 0 .. SensorWrap - 1
    BY DEF TofTypeOK, Results
  <2>2. \A k \in 1 .. Window : times[k] \in Results
    BY <2>1
  <2> QED
    BY <2>1, <2>2 DEF Results, Result
<1>4. /\ scale' = Ratio(times[1], Result)
      /\ times'[Window] = Result
      /\ \A k \in 1 .. Window - 1 : times'[k] = times[k + 1]
  <2>1. /\ times' = Append(Tail(times), Result)
        /\ scale' = Ratio(Head(times), Result)
    BY DEF Collect
  <2> QED
    BY <1>3, <2>1
<1>5. clock = Reading(turn, now)
  BY DEF InTime
<1>6. ASSUME 1 + results > Window
      PROVE  times[1].host < turn /\ turn <= now
  <2>1. /\ Begin <= times[1].host /\ times[1].host < now
        /\ times[1].sensor = Reading(turn, times[1].host)
    <3>1. 1 \in 1 .. Window
      OBVIOUS
    <3>2. \A k \in 1 .. Window : k + results > Window =>
            /\ Begin <= times[k].host /\ times[k].host < now
            /\ times[k].sensor = Reading(turn, times[k].host)
      BY DEF InTime
    <3> QED
      BY <1>6, <3>1, <3>2
  <2>2. times[1].host \in Nat /\ times[1] \in Results
    BY <1>3 DEF Results
  <2>3. now < times[1].host + SensorWrap
    BY <1>2, <2>1, <2>2
  <2> QED
    BY <1>2, <1>3, <1>4, <1>5, <2>1, <2>2, <2>3, RatioFound
<1>7. results' <= 2 * Window
  <2>1. CASE results = 2 * Window
    <3>1. 1 + results > Window /\ 1 + results > 2 * Window /\ 1 \in 1 .. Window
      BY <2>1
    <3>2. turn <= times[1].host /\ times[1].host < turn
      BY <1>6, <3>1 DEF InTime
    <3>3. times[1].host \in Nat
      BY <1>3 DEF Results
    <3> QED
      BY <1>2, <3>2, <3>3
  <2> QED
    BY <1>2, <2>1
<1>8. ASSUME NEW k \in 1 .. Window, k + results' > Window
      PROVE  /\ Begin' <= times'[k].host /\ times'[k].host < now'
             /\ times'[k].sensor = Reading(turn, times'[k].host)
             /\ k + results' > 2 * Window => turn <= times'[k].host
  <2>1. CASE k = Window
    <3>1. k + results' > 2 * Window => turn <= now
      BY <1>2, <1>6, <2>1
    <3> QED
      BY <1>1, <1>2, <1>3, <1>4, <1>5, <2>1, <3>1 DEF Begin
  <2>2. CASE k # Window
    <3>1. /\ k \in 1 .. Window - 1 /\ k + 1 \in 1 .. Window
          /\ k + results' = (k + 1) + results
      BY <1>2, <2>2
    <3>2. /\ Begin <= times[k + 1].host /\ times[k + 1].host < now
          /\ times[k + 1].sensor = Reading(turn, times[k + 1].host)
          /\ k + results' > 2 * Window => turn <= times[k + 1].host
      BY <1>8, <3>1 DEF InTime
    <3>3. times[k + 1].host \in Nat
      BY <1>3, <3>1 DEF Results
    <3>4. now \in Int /\ now' \in Int /\ now < now'
      BY <1>1, <1>2, DelayAdds
    <3>5. times[k + 1].host < now'
      BY <3>2, <3>3, <3>4
    <3> QED
      BY <1>4, <3>1, <3>2, <3>5 DEF Begin
  <2> QED
    BY <2>1, <2>2
<1> QED
  BY <1>1, <1>7, <1>8 DEF InTime

\* The ratio stays once there is one.
LEMMA RatioStays == ASSUME Collect, scale # "none" PROVE scale' # "none"
BY DEF Collect, Ratio

\* The wait's beginning, and the turn that lies ahead of it.
LEMMA FromBegin == \A b \in Nat : (b + Timeout) - Timeout = b
OBVIOUS

LEMMA TurnAhead ==
    ASSUME NEW b \in Nat, NEW r \in 0 .. SensorWrap - 1
    PROVE  \E turn \in b + 1 .. b + SensorWrap : r = Reading(turn, b)
<1>1. b + SensorWrap - r \in b + 1 .. b + SensorWrap
  BY Positive
<1>2. r = Reading(b + SensorWrap - r, b)
  BY Positive DEF Reading
<1> QED
  BY <1>1, <1>2

LEMMA SeenBegins == ASSUME TofTypeOK, SeenInv, WaitBegins PROVE SeenInv'
<1> USE Positive
<1>1. /\ now' \in Ticks /\ clock' \in 0 .. SensorWrap - 1
      /\ deadline' = Wrapped(now' + Timeout)
      /\ stage = "ready" /\ stage' = "waiting" /\ confirm' = 0 /\ results' = 0
      /\ (scaled' <=> scale # "none") /\ UNCHANGED <<times, scale>>
  BY PassTypes DEF WaitBegins
<1>2. Len(times') = Window
  BY <1>1 DEF SeenInv
<1>3. ASSUME ClearOfWrap' PROVE \E turn \in Turns' : InTime(turn)'
  <2>1. deadline' = now' + Timeout /\ now' \in Nat
    BY <1>1, <1>3, DeadlineWraps
  <2>2. Begin' = now'
    BY <2>1, FromBegin DEF Begin
  <2>3. PICK turn \in now' + 1 .. now' + SensorWrap : clock' = Reading(turn, now')
    BY <1>1, <2>1, TurnAhead
  <2>4. turn \in Turns'
    BY <2>2, <2>3 DEF Turns
  <2>5. InTime(turn)'
    BY <1>1, <2>3 DEF InTime
  <2> QED
    BY <2>4, <2>5
<1> QED
  BY <1>1, <1>2, <1>3 DEF SeenInv

LEMMA SeenNothing == ASSUME TofTypeOK, ClockInv, SeenInv, PollNothing PROVE SeenInv'
<1> USE Positive
<1>1. /\ now < deadline /\ Delay /\ stage = "waiting"
      /\ UNCHANGED <<stage, times, scale, deadline, confirm, results, stayed, scaled>>
  BY DEF PollNothing, seenVars
<1>2. ASSUME ClearOfWrap, NEW turn \in Turns, InTime(turn) PROVE InTime(turn)' /\ turn \in Turns'
  <2>1. Begin <= now
    BY <1>1, <1>2 DEF ClockInv, Begin
  <2>2. Len(times) = Window
    BY <1>1 DEF SeenInv
  <2>3. InTime(turn)'
    BY <1>1, <1>2, <2>1, <2>2, InTimeNothing
  <2> QED
    BY <1>1, <1>2, <2>3 DEF Turns, Begin
<1>3. ClearOfWrap' => ClearOfWrap
  BY <1>1
<1> QED
  BY <1>1, <1>2, <1>3 DEF SeenInv

LEMMA SeenNear == ASSUME TofTypeOK, ClockInv, SeenInv, PollNear PROVE SeenInv'
<1> USE Positive
<1>1. /\ now < deadline /\ Collect /\ Delay /\ stage = "waiting" /\ confirm' < Samples
      /\ confirm' = IF scale' = "none" THEN 0 ELSE confirm + 1
      /\ results' = UpTo(MostResults, results + 1)
      /\ UNCHANGED <<stage, deadline, stayed, scaled>>
  BY DEF PollNear
<1>2. /\ confirm \in Nat /\ results \in 0 .. MostResults /\ Len(times) = Window
  BY <1>1 DEF TofTypeOK, SeenInv
<1>3. Len(times') = Window
  BY <1>1, <1>2, CollectTypes
<1>4. results' \in Nat /\ results' <= results + 1
  BY <1>1, <1>2 DEF UpTo
<1>5. ASSUME stayed, scaled PROVE scale' # "none" /\ results' <= confirm'
  <2>1. scale # "none" /\ results <= confirm
    BY <1>1, <1>5 DEF SeenInv
  <2>2. scale' # "none"
    BY <1>1, <2>1, RatioStays
  <2> QED
    BY <1>1, <1>2, <1>4, <2>1, <2>2
<1>6. ASSUME stayed, ~scaled, ClearOfWrap
      PROVE  /\ scale' # "none" => results' <= confirm' + 2 * Window
             /\ scale' = "none" => /\ results' <= 2 * Window
                                   /\ \E turn \in Turns' : InTime(turn)'
  <2>1. results <= confirm + 2 * Window
    BY <1>1, <1>2, <1>6 DEF SeenInv
  <2>2. scale' # "none" => results' <= confirm' + 2 * Window
    BY <1>1, <1>2, <1>4, <2>1
  <2>3. ASSUME scale' = "none"
        PROVE  results' <= 2 * Window /\ \E turn \in Turns' : InTime(turn)'
    <3>1. scale = "none"
      BY <1>1, <2>3, RatioStays
    <3>2. results <= 2 * Window
      BY <1>1, <1>6, <3>1 DEF SeenInv
    <3>3. PICK turn \in Turns : InTime(turn)
      BY <1>1, <1>6, <3>1 DEF SeenInv
    <3>4. results' = results + 1
      BY <1>1, <1>2, <3>2 DEF UpTo, MostResults
    <3>5. Begin <= now
      BY <1>1, <1>6 DEF ClockInv, Begin
    <3>6. InTime(turn)' /\ results' <= 2 * Window
      BY <1>1, <1>2, <1>6, <2>3, <3>2, <3>3, <3>4, <3>5, InTimeNear
    <3> QED
      BY <1>1, <3>3, <3>6 DEF Turns, Begin
  <2> QED
    BY <2>2, <2>3
<1>7. ClearOfWrap' => ClearOfWrap
  BY <1>1
<1> QED
  BY <1>1, <1>3, <1>5, <1>6, <1>7 DEF SeenInv

LEMMA SeenStep ==
    ASSUME TofTypeOK, ClockInv, SeenInv, InitStep \/ WaitStep
    PROVE  SeenInv'
<1> USE DEF initVars
<1>1. CASE InitStep
  <2>1. CASE Started
    BY <2>1 DEF Started, SeenInv
  <2>2. CASE ~Started
    <3>1. stage' \notin {"ready", "waiting"}
      BY <1>1, <2>2 DEF InitStep, ProbeFails, ProbeAnswers, BeginFails, BeginPatches,
                        BeginRunning, BeginMisreads, StartMeasuring, CalibratePoll,
                        CalibrateResult, SensorLost
    <3> QED
      BY <3>1 DEF SeenInv
  <2> QED
    BY <2>1, <2>2
<1>2. CASE WaitSkipped
  BY <1>2 DEF WaitSkipped, SeenInv
<1>3. CASE WaitBegins \/ PollNothing \/ PollNear
  BY <1>3, SeenBegins, SeenNothing, SeenNear
<1>4. Collect /\ Len(times) = Window => Len(times') = Window
  BY CollectTypes
<1>5. CASE PollConfirms \/ WaitEnds
  <2>1. stage' = "ready" /\ Len(times') = Window
    BY <1>4, <1>5 DEF PollConfirms, WaitEnds, Return, SeenInv
  <2> QED
    BY <2>1 DEF SeenInv
<1>6. CASE PollFar
  <2>1. /\ stage' = "waiting" /\ Len(times') = Window /\ confirm' = 0 /\ stayed' = FALSE
    BY <1>4, <1>6 DEF PollFar, SeenInv
  <2> QED
    BY <2>1, Positive DEF SeenInv
<1> QED
  BY <1>1, <1>2, <1>3, <1>5, <1>6 DEF WaitStep

LEMMA SeenHolds == PetSpec => []SeenInv
<1>1. PetInit => SeenInv
  BY DEF PetInit, TofInit, SeenInv
<1>2. PetTypeOK /\ ClockInv /\ SeenInv /\ [PetNext]_petVars => SeenInv'
  <2> SUFFICES ASSUME PetTypeOK, ClockInv, SeenInv, [PetNext]_petVars PROVE SeenInv'
    OBVIOUS
  <2>1. CASE SensorStep
    BY <2>1, SeenStep DEF SensorStep, PetTypeOK
  <2>2. CASE ~SensorStep
    <3>1. UNCHANGED <<stage, now, clock, times, scale, deadline, confirm, results, stayed, scaled>>
      BY <2>2 DEF PetNext, Detect, DetectorRuns, ServiceRuns, petVars, tofVars, waitVars,
                  seenVars
    <3> QED
      BY <3>1 DEF SeenInv, InTime, Turns, Begin
  <2> QED
    BY <2>1, <2>2
<1> QED
  BY <1>1, <1>2, PetTyping, ClockInit, ClockNext, PTL DEF PetSpec

\* However many results the filter wants and the window holds, wherever the sensor's
\* clock stands when the wait begins and wherever in it that clock wraps: no wait ends
\* in "nobody" on a pet that stayed for all of those results.
THEOREM StayingPetIsSeen == PetSpec => PetIsSeen
<1>1. PetTypeOK /\ SeenInv /\ [PetNext]_petVars
        => [WaitEnds /\ ClearOfWrap /\ stayed =>
              results < Samples + (IF scaled THEN 0 ELSE 2 * Window)]_tofVars
  <2> SUFFICES ASSUME PetTypeOK, SeenInv, WaitEnds, ClearOfWrap, stayed
               PROVE  results < Samples + (IF scaled THEN 0 ELSE 2 * Window)
    OBVIOUS
  <2>1. confirm \in Nat /\ results \in Nat /\ confirm < Samples
    BY DEF WaitEnds, PetTypeOK, TofTypeOK, SeenInv
  <2>2. CASE scaled
    BY <2>1, <2>2, Positive DEF WaitEnds, SeenInv
  <2>3. CASE ~scaled
    BY <2>1, <2>3, Positive DEF WaitEnds, SeenInv
  <2> QED
    BY <2>2, <2>3
<1> QED
  BY <1>1, PetTyping, SeenHolds, PTL DEF PetSpec, PetIsSeen
=============================================================================
