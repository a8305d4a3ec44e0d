-------------------------- MODULE SittingDetector --------------------------
(***************************************************************************)
(* sitting_detector_run of main.c, and what it sees of the ML service: an  *)
(* updatedAt that grows with every verdict, and a posture.  They are       *)
(* written together and read by two GETs, each of which may fail.          *)
(***************************************************************************)
EXTENDS Integers

CONSTANTS
    Polls,       \* CONFIG_SITTING_DETECT_TIMEOUT_S / 500 ms
    MaxGet,      \* bound: how long a GET may take, in sleeps of 500 ms
    MaxVerdicts  \* bound: verdicts of the service

ASSUME DetectorAssumption ==
    {Polls, MaxVerdicts} \subseteq Nat \ {0} /\ MaxGet \in Nat

VARIABLES
    detector,   \* where the detector is
    updatedAt,  \* final_output/<device>/updatedAt, 0 while there is none
    posture,    \* final_output/<device>/posture
    baseline,   \* baseline_updated_at
    polls,      \* elapsed_ms, which counts the sleeps only
    \* history
    sat,        \* updatedAt of the newest verdict "sitting"
    began,      \* updatedAt when the detector began
    unread,     \* its baseline could not be read
    took        \* how long it has run, in sleeps of 500 ms

cloudVars == <<updatedAt, posture, sat>>
detectorVars == <<detector, baseline, polls, began, unread, took>>
sittingVars == <<cloudVars, detectorVars>>

SittingTypeOK ==
    /\ detector \in {"off", "baseline", "sleep", "posture"}
    /\ {updatedAt, baseline, sat, began} \subseteq 0 .. MaxVerdicts
    /\ posture \in {"none", "sitting", "other"}
    /\ polls \in 0 .. Polls
    /\ unread \in BOOLEAN
    /\ took \in Nat

SittingInit ==
    /\ detector = "off"
    /\ updatedAt = 0
    /\ posture = "none"
    /\ baseline = 0
    /\ polls = 0
    /\ sat = 0
    /\ began = 0
    /\ unread = FALSE
    /\ took = 0

\* The ML service writes a verdict, about this feed or late about another one.
ServiceWrites ==
    /\ updatedAt < MaxVerdicts
    /\ updatedAt' = updatedAt + 1
    /\ \/ posture' = "sitting" /\ sat' = updatedAt + 1
       \/ posture' = "other" /\ sat' = sat
    /\ UNCHANGED detectorVars

DetectorBegins ==
    /\ detector = "off"
    /\ detector' = "baseline"
    /\ began' = updatedAt
    /\ UNCHANGED <<baseline, polls, unread, took, cloudVars>>

\* The time of so many sleeps, and of a GET.
Spends(sleeps) == \E get \in 0 .. MaxGet : took' = took + sleeps + get

BaselineRead ==
    /\ detector = "baseline" /\ updatedAt # 0
    /\ baseline' = updatedAt
    /\ Spends(0)
    /\ detector' = "sleep"
    /\ UNCHANGED <<polls, began, unread, cloudVars>>

\* The GET fails or there is no number: any value will do.
BaselineMissing ==
    /\ detector = "baseline"
    /\ unread' = (updatedAt # 0)
    /\ Spends(0)
    /\ detector' = "sleep"
    /\ UNCHANGED <<baseline, polls, began, cloudVars>>

\* Seeded bug: only a poll that shows something is counted.
PollMissesUncounted ==
    /\ detector = "sleep" /\ polls < Polls
    /\ Spends(1)
    /\ UNCHANGED <<detector, baseline, polls, began, unread, cloudVars>>

\* The GET of updatedAt fails, or shows nothing new.
PollMisses ==
    /\ detector = "sleep" /\ polls < Polls
    /\ polls' = polls + 1
    /\ Spends(1)
    /\ UNCHANGED <<detector, baseline, began, unread, cloudVars>>

\* Seeded bug: a verdict as old as the baseline will do.
PollHitsOld ==
    /\ detector = "sleep" /\ polls < Polls
    /\ updatedAt >= baseline
    /\ polls' = polls + 1
    /\ Spends(1)
    /\ detector' = "posture"
    /\ UNCHANGED <<baseline, began, unread, cloudVars>>

\* It shows a newer one.
PollHits ==
    /\ detector = "sleep" /\ polls < Polls
    /\ updatedAt > baseline
    /\ polls' = polls + 1
    /\ Spends(1)
    /\ detector' = "posture"
    /\ UNCHANGED <<baseline, began, unread, cloudVars>>

\* The detector returns, and its locals are gone.
Answer ==
    /\ detector' = "off"
    /\ baseline' = 0
    /\ polls' = 0
    /\ began' = 0
    /\ unread' = FALSE
    /\ took' = 0
    /\ UNCHANGED cloudVars

\* True: the posture is read and is "sitting".
Sitting == detector = "posture" /\ posture = "sitting" /\ Answer

\* False: it is another, or its GET fails ...
NotSitting == detector = "posture" /\ Answer

\* ... or there was nothing new in time.
TimesOut == detector = "sleep" /\ polls = Polls /\ Answer

DetectorStep ==
    \/ BaselineRead \/ BaselineMissing
    \/ PollMisses \/ PollHits
    \/ Sitting \/ NotSitting \/ TimesOut

\* The detector counts its sleeps only (main.c:432), but a sleep and a GET together
\* are counted, whether the GET succeeds or not: until the posture is asked for, it
\* has run no longer than its sleeps and one GET for each, and one more.
DetectorInTime == took <= Polls + (Polls + 1) * MaxGet

\* "Sitting" is said only of a verdict that was written while the detector ran,
\* although updatedAt and posture are read apart and the service may write in
\* between, or of any when the baseline could not be read.
VerdictIsNew ==
    [][Sitting => unread \/ began < sat]_sittingVars
=============================================================================
