----------------------------- MODULE TofSensor -----------------------------
(***************************************************************************)
(* tof.c on top of the TMF8701 driver: the start of the sensor at boot and *)
(* the wait for a pet.                                                     *)
(*                                                                         *)
(* The driver scales distances by the ratio of the host's to the sensor's  *)
(* clock over its last results; until it has a ratio every distance is 0.  *)
(* Both clocks wrap.  Their ticks are taken as equally long: a ratio is    *)
(* right when the two differences it is made of are the same.  millis and  *)
(* the tick count are one clock (CONFIG_FREERTOS_HZ is 1000).              *)
(***************************************************************************)
EXTENDS Integers, Sequences

CONSTANTS
    BeginTries,  \* attempts of tof_init to begin
    Window,      \* results the driver keeps besides the newest (4)
    Samples,     \* CONFIG_TOF_SAMPLES_TO_CONFIRM
    Timeout,     \* of a wait, in ticks
    MaxLoop,     \* longest time of one poll and its delay
    HostWrap,    \* the tick count is taken modulo this
    SensorWrap   \* and the sensor's clock modulo this

ASSUME TofAssumption ==
    /\ {BeginTries, Window, Samples, Timeout, MaxLoop, HostWrap, SensorWrap} \subseteq Nat \ {0}
    /\ Timeout + MaxLoop < HostWrap

\* Both clocks have 32 bits and the sensor's ticks 5000 times in one of the host, so
\* that it wraps every 14 minutes; a wait is shorter.
ASSUME ClocksAssumption ==
    /\ HostWrap % SensorWrap = 0
    /\ Timeout <= SensorWrap

VARIABLES
    stage,    \* of tof_init, then "ready" (s_ready), "absent" or "waiting"
    sensor,   \* the program that runs in the sensor
    tries,    \* failed attempts to begin
    now,      \* xTaskGetTickCount, millis
    clock,    \* the sensor's clock
    times,    \* _hostTime, _MoudleTime of the last _count results
    scale,    \* _timestamp: "none" is 0; whether the ratio is right
    deadline,
    confirm,  \* confirm_count
    verdict,  \* what the last wait said
    \* history
    measures, \* the sensor was told to measure, does so, and its results can be read
    elapsed,  \* ticks since the wait began, up to LongestWait
    results,  \* near results of this wait, up to MostResults
    inRow,    \* the last of them without another in between
    stayed,   \* all results of this wait were near
    scaled    \* there was a ratio when the wait began

initVars == <<sensor, tries, measures>>
seenVars == <<results, inRow, stayed>>
waitVars == <<deadline, confirm, verdict, elapsed, seenVars, scaled>>
tofVars == <<stage, initVars, now, clock, times, scale, waitVars>>

Ticks == 0 .. HostWrap - 1
LongestWait == Timeout + MaxLoop
MostResults == Samples + 2 * Window
UpTo(max, n) == IF n < max THEN n ELSE max

TofTypeOK ==
    /\ stage \in {"probe", "begin", "calibrate", "ready", "absent", "waiting"}
    /\ sensor \in {"bootloader", "app0"}
    /\ tries \in 0 .. BeginTries
    /\ now \in Ticks /\ deadline \in Ticks
    /\ clock \in 0 .. SensorWrap - 1
    /\ times \in Seq([host : Ticks, sensor : 0 .. SensorWrap - 1]) /\ Len(times) <= Window
    /\ scale \in {"none", "right", "wrong"}
    /\ confirm \in 0 .. Samples /\ results \in 0 .. MostResults /\ inRow \in 0 .. MostResults
    /\ verdict \in {"none", "pet", "nobody"}
    /\ elapsed \in 0 .. LongestWait
    /\ {measures, stayed, scaled} \subseteq BOOLEAN

\* After a restart of the device alone the sensor still runs, with its clock.
TofInit ==
    /\ stage = "probe"
    /\ sensor \in {"bootloader", "app0"}
    /\ tries = 0
    /\ now = 0
    /\ clock \in 0 .. SensorWrap - 1
    /\ times = << >>
    /\ scale = "none"
    /\ deadline = 0
    /\ confirm = 0
    /\ verdict = "none"
    /\ measures = FALSE
    /\ elapsed = 0
    /\ results = 0
    /\ inRow = 0
    /\ stayed = TRUE
    /\ scaled = FALSE

\* A tick count that is less than a round away from zero or from the wrap.
Wrapped(t) == IF t < HostWrap THEN t ELSE t - HostWrap

Pass(d) ==
    /\ now' = Wrapped(now + d)
    /\ clock' = (clock + d) % SensorWrap
-----------------------------------------------------------------------------
(* isDataReady.                                                            *)

Result == [host |-> now, sensor |-> clock]

\* Seeded bug: any ratio will do.
RatioUnchecked(old, new) ==
    LET h == new.host - old.host
        s == new.sensor - old.sensor
    IN  IF s > 0 /\ h >= 0
        THEN IF h = s THEN "right" ELSE "wrong"
        ELSE scale

\* The ratio over the oldest and the newest of Window + 1 results, taken where
\* neither clock went back in between and only between 0.7 and 1.3.
Ratio(old, new) ==
    LET h == new.host - old.host
        s == new.sensor - old.sensor
    IN  IF s > 0 /\ h >= 0 /\ 10 * h >= 7 * s /\ 10 * h <= 13 * s
        THEN IF h = s THEN "right" ELSE "wrong"
        ELSE scale

\* A result with a new number is noted.
Collect ==
    /\ sensor = "app0"
    /\ IF Len(times) < Window
       THEN /\ times' = Append(times, Result)
            /\ scale' = scale
       ELSE /\ times' = Append(Tail(times), Result)
            /\ scale' = Ratio(Head(times), Result)
-----------------------------------------------------------------------------
(* tof_init.                                                               *)

ProbeFails ==
    /\ stage = "probe"
    /\ stage' = "absent"
    /\ UNCHANGED <<initVars, now, clock, times, scale, waitVars>>

ProbeAnswers ==
    /\ stage = "probe"
    /\ stage' = "begin"
    /\ UNCHANGED <<initVars, now, clock, times, scale, waitVars>>

\* Seeded bug: the attempts are counted from the start again.
BeginFailsOver ==
    /\ stage = "begin"
    /\ tries' = (tries + 1) % BeginTries
    /\ stage' = "begin"
    /\ sensor' \in {sensor, "app0"}
    /\ UNCHANGED <<measures, now, clock, times, scale, waitVars>>

\* begin fails: no answer, a processor that is not ready, a patch that does not
\* start.  The application may run by now all the same.
BeginFails ==
    /\ stage = "begin"
    /\ tries' = tries + 1
    /\ stage' = IF tries + 1 = BeginTries THEN "absent" ELSE "begin"
    /\ sensor' \in {sensor, "app0"}
    /\ UNCHANGED <<measures, now, clock, times, scale, waitVars>>

\* startMeasurement: neither the write that starts the measurement nor the status that
\* should confirm it is heeded when it fails.
StartMeasuring ==
    /\ stage' = "calibrate"
    /\ measures' \in {FALSE, sensor' = "app0"}

\* The bootloader answers: downloadRamPatch, if need be loadApplication, isApp0.
BeginPatches ==
    /\ stage = "begin" /\ sensor = "bootloader"
    /\ sensor' = "app0"
    /\ StartMeasuring
    /\ UNCHANGED <<tries, now, clock, times, scale, waitVars>>

\* The application answers.
BeginRunning ==
    /\ stage = "begin" /\ sensor = "app0"
    /\ sensor' = sensor
    /\ StartMeasuring
    /\ UNCHANGED <<tries, now, clock, times, scale, waitVars>>

\* The read of the application's id fails and leaves 0, which begin only warns of.
BeginMisreads ==
    /\ stage = "begin"
    /\ sensor' = sensor
    /\ StartMeasuring
    /\ UNCHANGED <<tries, now, clock, times, scale, waitVars>>

\* setCaibrationMode polls until it has seen Window results, however long that takes.
CalibratePoll ==
    /\ stage = "calibrate" /\ Len(times) < Window
    /\ \E d \in 1 .. MaxLoop : Pass(d)
    /\ UNCHANGED <<stage, initVars, times, scale, waitVars>>

CalibrateResult ==
    /\ stage = "calibrate" /\ Len(times) < Window
    /\ measures
    /\ Collect
    /\ \E d \in 1 .. MaxLoop : Pass(d)
    /\ UNCHANGED <<stage, initVars, waitVars>>

\* The bus or the sensor fails for good.
SensorLost ==
    /\ stage = "calibrate" /\ Len(times) < Window
    /\ measures
    /\ measures' = FALSE
    /\ UNCHANGED <<stage, sensor, tries, now, clock, times, scale, waitVars>>

Started ==
    /\ stage = "calibrate" /\ Len(times) = Window
    /\ stage' = "ready"
    /\ UNCHANGED <<initVars, now, clock, times, scale, waitVars>>
-----------------------------------------------------------------------------
(* tof_wait_for_presence.                                                  *)

\* Without a sensor there is no pet.
WaitSkipped ==
    /\ stage = "absent"
    /\ verdict' = "nobody"
    /\ UNCHANGED <<stage, initVars, now, clock, times, scale,
                   deadline, confirm, elapsed, seenVars, scaled>>

\* Seeded bug: the deadline is reckoned before the pause that precedes the wait.
WaitBeginsStale ==
    /\ stage = "ready"
    /\ \E d \in 1 .. HostWrap : Pass(d)
    /\ deadline' = Wrapped(now + Timeout)
    /\ stage' = "waiting"
    /\ confirm' = 0
    /\ verdict' = "none"
    /\ elapsed' = 0
    /\ results' = 0
    /\ inRow' = 0
    /\ stayed' = TRUE
    /\ scaled' = (scale # "none")
    /\ UNCHANGED <<initVars, times, scale>>

\* The wait begins, any time after the last one.
WaitBegins ==
    /\ stage = "ready"
    /\ \E d \in 1 .. HostWrap : Pass(d)
    /\ deadline' = Wrapped(now' + Timeout)
    /\ stage' = "waiting"
    /\ confirm' = 0
    /\ verdict' = "none"
    /\ elapsed' = 0
    /\ results' = 0
    /\ inRow' = 0
    /\ stayed' = TRUE
    /\ scaled' = (scale # "none")
    /\ UNCHANGED <<initVars, times, scale>>

\* vTaskDelay, and what the poll took.
Delay ==
    \E d \in 1 .. MaxLoop :
        /\ Pass(d)
        /\ elapsed' = UpTo(LongestWait, elapsed + d)

\* Seeded bug: a poll without a new result starts the count again.
PollNothingResets ==
    /\ stage = "waiting" /\ now < deadline
    /\ confirm' = 0
    /\ Delay
    /\ UNCHANGED <<stage, initVars, times, scale, deadline, verdict, seenVars, scaled>>

\* No new result, or the bus failed: the count stays.
PollNothing ==
    /\ stage = "waiting" /\ now < deadline
    /\ Delay
    /\ UNCHANGED <<stage, initVars, times, scale, deadline, confirm, verdict, seenVars, scaled>>

\* A distance below the threshold, and not 0 for want of a ratio.
PollNear ==
    /\ stage = "waiting" /\ now < deadline
    /\ Collect
    /\ confirm' = IF scale' = "none" THEN 0 ELSE confirm + 1
    /\ confirm' < Samples
    /\ results' = UpTo(MostResults, results + 1)
    /\ inRow' = UpTo(MostResults, inRow + 1)
    /\ Delay
    /\ UNCHANGED <<stage, initVars, deadline, verdict, stayed, scaled>>

\* The locals of tof_wait_for_presence are gone with its return.
Return(answer) ==
    /\ stage' = "ready"
    /\ verdict' = answer
    /\ deadline' = 0
    /\ elapsed' = 0
    /\ results' = 0
    /\ inRow' = 0
    /\ stayed' = TRUE
    /\ scaled' = FALSE
    /\ UNCHANGED <<initVars, now, clock>>

PollConfirms ==
    /\ stage = "waiting" /\ now < deadline
    /\ Collect
    /\ scale' # "none" /\ confirm + 1 = Samples
    /\ confirm' = 0
    /\ Return("pet")

\* Another distance starts the count again.
PollFar ==
    /\ stage = "waiting" /\ now < deadline
    /\ Collect
    /\ confirm' = 0
    /\ inRow' = 0
    /\ stayed' = FALSE
    /\ Delay
    /\ UNCHANGED <<stage, initVars, deadline, verdict, results, scaled>>

WaitEnds ==
    /\ stage = "waiting" /\ now >= deadline
    /\ confirm' = 0
    /\ Return("nobody")
    /\ UNCHANGED <<times, scale>>

InitStep ==
    \/ ProbeFails \/ ProbeAnswers
    \/ BeginFails \/ BeginPatches \/ BeginRunning \/ BeginMisreads
    \/ CalibratePoll \/ CalibrateResult \/ SensorLost \/ Started

WaitStep == WaitSkipped \/ WaitBegins \/ PollNothing \/ PollNear \/ PollConfirms \/ PollFar \/ WaitEnds

TofNext == InitStep \/ WaitStep

TofSpec == TofInit /\ [][TofNext]_tofVars

\* The deadline did not wrap, nor can a poll jump over it and the wrap at once.
ClearOfWrap == Timeout <= deadline /\ deadline <= HostWrap - MaxLoop

\* Clear of the wrap, a wait that finds nobody takes its timeout and less than one
\* poll more (deadline and < in tof_wait_for_presence).
WaitKeepsItsTime ==
    [][WaitEnds /\ ClearOfWrap => elapsed \in Timeout .. Timeout + MaxLoop - 1]_tofVars

\* "Pet" is said only after Samples results in a row below the threshold, scaled by
\* a right ratio: the bounds of 0.7 and 1.3 reject every pair of results between
\* which the sensor's clock wrapped, after any pause between two feeds.
PetIsThere ==
    [][PollConfirms => inRow + 1 >= Samples /\ scale' = "right"]_tofVars

\* A pet that stays in front of the sensor is seen after as many results as the
\* filter asks for.  Only in the first wait after boot the driver needs Window
\* results more for its ratio, and as many again if the sensor's clock wraps.
PetIsSeen ==
    [][WaitEnds /\ ClearOfWrap /\ stayed =>
          results < Samples + (IF scaled THEN 0 ELSE 2 * Window)]_tofVars

\* tof_init comes to an end, and app_main goes on, after any failures of the probe and
\* of begin.  One loop is excepted, for it has no limit: setCaibrationMode waits for
\* results that never come when the identity was misread, the start of the measurement
\* got lost or the sensor fails then (DFRobot_TMF8701_espidf.cpp:383-398).
InitEnds == <>(stage \in {"ready", "absent"} \/ (stage = "calibrate" /\ ~measures))
=============================================================================
