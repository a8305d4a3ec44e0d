---------------------------- MODULE PetDetection ----------------------------
(***************************************************************************)
(* Steps 2 to 4 of do_feed_workflow: the wait for the pet at the ToF       *)
(* sensor, then the sitting detector, in feed after feed of one device.    *)
(* FeedWorkflow takes both verdicts as free choices; here they are made.   *)
(***************************************************************************)
EXTENDS TofSensor, SittingDetector

petVars == <<tofVars, sittingVars>>

PetTypeOK == TofTypeOK /\ SittingTypeOK

PetInit == TofInit /\ SittingInit

\* The sensor starts at boot, and a feed waits for the pet; the detector is off.
SensorStep ==
    /\ detector = "off"
    /\ InitStep \/ WaitStep
    /\ UNCHANGED sittingVars

\* Only a feed whose pet is there goes on to the detector, once.
Detect ==
    /\ verdict = "pet"
    /\ DetectorBegins
    /\ verdict' = "none"
    /\ UNCHANGED <<stage, initVars, now, clock, times, scale, deadline, confirm, elapsed, seenVars, scaled>>

DetectorRuns == DetectorStep /\ UNCHANGED tofVars

ServiceRuns == ServiceWrites /\ UNCHANGED tofVars

PetNext == SensorStep \/ Detect \/ DetectorRuns \/ ServiceRuns

PetSpec == PetInit /\ [][PetNext]_petVars

(***************************************************************************)
(* Fairness: the tasks run, every GET ends, and a sensor that measures     *)
(* delivers results.  Nothing is assumed of the ML service.                *)
(***************************************************************************)
PetFairness ==
    /\ WF_petVars((ProbeFails \/ ProbeAnswers) /\ UNCHANGED sittingVars)
    /\ WF_petVars((BeginFails \/ BeginPatches \/ BeginRunning \/ BeginMisreads) /\ UNCHANGED sittingVars)
    /\ WF_petVars(CalibrateResult /\ UNCHANGED sittingVars)
    /\ WF_petVars(Started /\ UNCHANGED sittingVars)
    /\ WF_petVars((PollNothing \/ PollNear \/ PollConfirms \/ PollFar \/ WaitEnds) /\ UNCHANGED sittingVars)
    /\ WF_petVars(DetectorRuns)

FairPetSpec == PetSpec /\ PetFairness
=============================================================================
