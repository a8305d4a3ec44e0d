---------------------------- MODULE FeedWorkflow ----------------------------
(***************************************************************************)
(* The feed workflow of the Sit-n-Chow feeder (src/main/main.c) and what   *)
(* surrounds it: the task that polls the cloud for a pending command, the  *)
(* schedule task that calls the same workflow, the task that mirrors the   *)
(* app's live-view switch onto the camera, the realtime database they all  *)
(* talk to, the phone app that writes it, and power loss.                  *)
(*                                                                         *)
(* do_feed_workflow is one function called from two FreeRTOS tasks, so its *)
(* steps are actions indexed by the calling task.  Each blocking call      *)
(* (an HTTP request, the beep, the ToF wait, the motor) is a step of its   *)
(* own, because the other tasks run while it blocks.                       *)
(*                                                                         *)
(* A definition whose name says how it is wrong (AckOnlyUnforced,          *)
(* BeepThenAlwaysWait, ...) is a seeded bug for the definition below it:   *)
(* no action uses it, and it shows which property would notice the bug.    *)
(***************************************************************************)
EXTENDS Integers, FiniteSets

CONSTANTS
    Grams,         \* amounts an app or a schedule may ask for
    DefaultGrams,  \* what a command without "grams" means (25 in the code)
    NoGrams,       \* a command without "grams"
    NoCmd,         \* commands/<id>/pending is null
    Offers,        \* what the app's commands may ask for
    MaxCommands,   \* bound: commands the app writes
    MaxFires,      \* bound: times the schedule task calls the workflow
    MaxLostAcks,   \* bound: DELETEs lost per command
    MaxToggles,    \* bound: live-view switches by the app
    MaxReboots     \* bound: restarts of the device

ASSUME GramsAssumption ==
    /\ Grams \subseteq Int
    /\ DefaultGrams \in Grams
    /\ NoGrams \notin Grams

ASSUME BoundsAssumption ==
    /\ MaxCommands \in Nat
    /\ MaxFires \in Nat
    /\ MaxLostAcks \in Nat
    /\ MaxToggles \in Nat
    /\ MaxReboots \in Nat

\* The two tasks that call do_feed_workflow, by their FreeRTOS names.
Tasks == {"cmd_poll", "sched_runner"}
NoTask == "none"

CmdIds == 1 .. MaxCommands

\* What the app may write under commands/<deviceId>/pending.
Commands == [id : CmdIds, action : {"dispense", "other"},
             grams : Grams \cup {NoGrams}, force : BOOLEAN]

ASSUME NoCmdAssumption == NoCmd \notin Commands

ASSUME OffersAssumption ==
    Offers \subseteq [action : {"dispense", "other"}, grams : Grams \cup {NoGrams},
                      force : BOOLEAN]

\* The locals of one call of the workflow; cmd is 0 for a schedule.
Jobs == [cmd : CmdIds \cup {0}, grams : Grams, force : BOOLEAN,
         feed : Nat, sitting : BOOLEAN, low : BOOLEAN]

VARIABLES
    \* the realtime database
    pending,        \* commands/<id>/pending
    cameraActive,   \* devices/<id>/cameraActive
    events,         \* feedEvents/<id>
    notices,        \* notifications/<uid>
    lowFood,        \* devices/<id>/inventory/lowFood
    \* the device, lost when it restarts
    pc,             \* where each task is
    job,            \* the locals of each task's call
    feedMutex,      \* s_feed_mutex: its holder
    streaming,      \* s_camera_streaming
    lastState,      \* last_state of camera_poll_task
    identityReady,  \* s_identity_ready, decided at boot
    \* history and bounds
    issued, fires, toggles, reboots,
    feeds,          \* how many feeds have begun
    poured,         \* <<feed, grams>> of every completed motor run
    starts,         \* per command: feeds begun for it
    lostAcks        \* per command: DELETEs lost

cloudVars == <<pending, cameraActive, events, notices, lowFood>>
ghosts    == <<issued, fires, toggles, reboots, feeds, poured,
               starts, lostAcks>>
vars == <<pending, cameraActive, events, notices, lowFood, pc, job, feedMutex,
          streaming, lastState, identityReady, issued, fires, toggles, reboots,
          feeds, poured, starts, lostAcks>>

\* Locations at which a call of do_feed_workflow holds the feed mutex.
MlSteps       == {"sitting", "camera_off"}
BeforePour    == {"beep", "tof", "camera_on", "dispense", "motor"} \cup MlSteps
AfterPour     == {"level", "log"}
AfterReport   == {"notify", "low_notice", "low_flag", "give"}
WorkflowSteps == BeforePour \cup AfterPour \cup AfterReport
Locations     == {"loop", "ack", "call"} \cup WorkflowSteps

InWorkflow(t) == pc[t] \in WorkflowSteps

NoJob == [cmd |-> 0, grams |-> DefaultGrams, force |-> FALSE,
          feed |-> 0, sitting |-> FALSE, low |-> FALSE]

TypeOK ==
    /\ pending \in Commands \cup {NoCmd}
    /\ cameraActive \in BOOLEAN
    /\ events \subseteq [feed : Nat, grams : Grams, low : BOOLEAN]
    /\ notices \subseteq [feed : Nat, kind : {"sitting", "fed", "low"}]
    /\ lowFood \in BOOLEAN
    /\ pc \in [Tasks -> Locations]
    /\ job \in [Tasks -> Jobs]
    /\ feedMutex \in Tasks \cup {NoTask}
    /\ streaming \in BOOLEAN
    /\ lastState \in BOOLEAN
    /\ identityReady \in BOOLEAN
    /\ issued \in 0 .. MaxCommands
    /\ fires \in 0 .. MaxFires
    /\ toggles \in 0 .. MaxToggles
    /\ reboots \in 0 .. MaxReboots
    /\ feeds \in Nat
    /\ poured \subseteq (Nat \X Grams)
    /\ starts \in [CmdIds -> Nat]
    /\ lostAcks \in [CmdIds -> 0 .. MaxLostAcks]

\* The device as app_main leaves it: mutexes created, every task at its loop.
Boot ==
    /\ pc' = [t \in Tasks |-> "loop"]
    /\ job' = [t \in Tasks |-> NoJob]
    /\ feedMutex' = NoTask
    /\ streaming' = FALSE
    /\ lastState' = FALSE
    /\ identityReady' \in BOOLEAN

Init ==
    /\ pending = NoCmd
    /\ cameraActive = FALSE
    /\ events = {}
    /\ notices = {}
    /\ lowFood = FALSE
    /\ pc = [t \in Tasks |-> "loop"]
    /\ job = [t \in Tasks |-> NoJob]
    /\ feedMutex = NoTask
    /\ streaming = FALSE
    /\ lastState = FALSE
    /\ identityReady \in BOOLEAN
    /\ issued = 0
    /\ fires = 0
    /\ toggles = 0
    /\ reboots = 0
    /\ feeds = 0
    /\ poured = {}
    /\ starts = [c \in CmdIds |-> 0]
    /\ lostAcks = [c \in CmdIds |-> 0]

-----------------------------------------------------------------------------
(***************************************************************************)
(* The phone app.                                                          *)
(***************************************************************************)

\* The app puts a command, over an unread one if there is one.
AppSendCommand ==
    /\ issued < MaxCommands
    /\ issued' = issued + 1
    /\ \E o \in Offers :
          pending' = [id |-> issued + 1, action |-> o.action, grams |-> o.grams,
                      force |-> o.force]
    /\ UNCHANGED <<cameraActive, events, notices, lowFood, pc, job, feedMutex,
                   streaming, lastState, identityReady, fires, toggles, reboots,
                   feeds, poured, starts, lostAcks>>

\* The app opens or closes the live view.
AppSetCamera ==
    /\ toggles < MaxToggles
    /\ toggles' = toggles + 1
    /\ cameraActive' = ~cameraActive
    /\ UNCHANGED <<pending, events, notices, lowFood, pc, job, feedMutex,
                   streaming, lastState, identityReady, issued, fires, reboots,
                   feeds, poured, starts, lostAcks>>

-----------------------------------------------------------------------------
(***************************************************************************)
(* camera_poll_task: mirror a change of cameraActive.  Reading the flag    *)
(* and acting on it are one step: nothing else reads lastState, and an app *)
(* write in between is the same as one just after.                         *)
(***************************************************************************)

MirrorWithoutStop(active) ==
    streaming' = (streaming \/ active)

\* camera_streaming_start or _stop, on a change only.
Mirror(active) ==
    streaming' = active

CameraPoll ==
    /\ cameraActive # lastState
    /\ lastState' = cameraActive
    /\ Mirror(cameraActive)
    /\ UNCHANGED <<cloudVars, pc, job, feedMutex, identityReady, ghosts>>

-----------------------------------------------------------------------------
(***************************************************************************)
(* command_poll_task and handle_pending_command.                           *)
(***************************************************************************)

\* A command without a numeric "grams" asks for the default.
AskedGrams(cmd) == IF cmd.grams = NoGrams THEN DefaultGrams ELSE cmd.grams

\* There is a command the device knows how to execute.
Waiting == pending # NoCmd /\ pending.action = "dispense"

\* The GET finds nothing to do: the task sleeps and polls again.
PollNothing ==
    /\ pc["cmd_poll"] = "loop"
    /\ ~Waiting
    /\ UNCHANGED vars

PollOnlyWithGrams ==
    /\ pc["cmd_poll"] = "loop"
    /\ Waiting
    /\ pending.grams # NoGrams
    /\ job' = [job EXCEPT !["cmd_poll"] =
                 [NoJob EXCEPT !.cmd = pending.id, !.grams = AskedGrams(pending),
                               !.force = pending.force]]
    /\ pc' = [pc EXCEPT !["cmd_poll"] = "ack"]
    /\ UNCHANGED <<cloudVars, feedMutex, streaming, lastState, identityReady, ghosts>>

\* The GET returns a dispense command; it stays pending until the DELETE.
PollCommand ==
    /\ pc["cmd_poll"] = "loop"
    /\ Waiting
    /\ job' = [job EXCEPT !["cmd_poll"] =
                 [NoJob EXCEPT !.cmd = pending.id, !.grams = AskedGrams(pending),
                               !.force = pending.force]]
    /\ pc' = [pc EXCEPT !["cmd_poll"] = "ack"]
    /\ UNCHANGED <<cloudVars, feedMutex, streaming, lastState, identityReady, ghosts>>

AckOnlyUnforced(c) ==
    /\ pending' = IF job["cmd_poll"].force THEN pending ELSE NoCmd
    /\ lostAcks' = lostAcks

\* The DELETE reaches the cloud and removes whatever is pending by then.
AckApplied(c) ==
    /\ pending' = NoCmd
    /\ lostAcks' = lostAcks

\* The DELETE fails; handle_pending_command does not look at its result.
AckLost(c) ==
    /\ lostAcks[c] < MaxLostAcks
    /\ lostAcks' = [lostAcks EXCEPT ![c] = @ + 1]
    /\ pending' = pending

AckCommand ==
    /\ pc["cmd_poll"] = "ack"
    /\ AckApplied(job["cmd_poll"].cmd) \/ AckLost(job["cmd_poll"].cmd)
    /\ pc' = [pc EXCEPT !["cmd_poll"] = "call"]
    /\ UNCHANGED <<cameraActive, events, notices, lowFood, job, feedMutex,
                   streaming, lastState, identityReady, issued, fires, toggles,
                   reboots, feeds, poured, starts>>

-----------------------------------------------------------------------------
(***************************************************************************)
(* schedule_task: when a schedule matches (ScheduleRunner models when), it *)
(* calls the workflow with a positive amount and force false.  The task    *)
(* exists only if the owner was known at boot.                             *)
(***************************************************************************)
ScheduleFires ==
    /\ pc["sched_runner"] = "loop"
    /\ identityReady
    /\ fires < MaxFires
    /\ fires' = fires + 1
    /\ \E g \in {h \in Grams : h > 0} :
          job' = [job EXCEPT !["sched_runner"] = [NoJob EXCEPT !.grams = g]]
    /\ pc' = [pc EXCEPT !["sched_runner"] = "call"]
    /\ UNCHANGED <<cloudVars, feedMutex, streaming, lastState, identityReady,
                   issued, toggles, reboots, feeds, poured, starts, lostAcks>>

-----------------------------------------------------------------------------
(***************************************************************************)
(* do_feed_workflow, called by task t.                                     *)
(***************************************************************************)

Goto(t, from, to) ==
    /\ pc[t] = from
    /\ pc' = [pc EXCEPT ![t] = to]

\* The mutex is free: the call becomes a feed.
StartFeed(t) ==
    /\ feedMutex = NoTask
    /\ Goto(t, "call", "beep")
    /\ feedMutex' = t
    /\ feeds' = feeds + 1
    /\ job' = [job EXCEPT ![t].feed = feeds + 1]
    /\ starts' = IF job[t].cmd = 0 THEN starts
                 ELSE [starts EXCEPT ![job[t].cmd] = @ + 1]
    /\ UNCHANGED <<cloudVars, streaming, lastState, identityReady, issued, fires,
                   toggles, reboots, poured, lostAcks>>

\* A feed is in progress: the trigger is ignored.
IgnoreTrigger(t) ==
    /\ feedMutex # NoTask
    /\ Goto(t, "call", "loop")
    /\ job' = [job EXCEPT ![t] = NoJob]
    /\ UNCHANGED <<cloudVars, feedMutex, streaming, lastState, identityReady, ghosts>>

BeepThenAlwaysWait(t) ==
    /\ Goto(t, "beep", "tof")
    /\ UNCHANGED <<cloudVars, job, feedMutex, streaming, lastState,
                   identityReady, ghosts>>

\* A forced feed skips the presence check and the sitting detector.
Beep(t) ==
    /\ Goto(t, "beep", IF job[t].force THEN "dispense" ELSE "tof")
    /\ UNCHANGED <<cloudVars, job, feedMutex, streaming, lastState,
                   identityReady, ghosts>>

PetComes(t) ==
    /\ Goto(t, "tof", "camera_on")
    /\ UNCHANGED <<cloudVars, job, feedMutex, streaming, lastState,
                   identityReady, ghosts>>

\* No pet within the timeout, or no ToF sensor: the feed is aborted.
AbortFeed(t) ==
    /\ Goto(t, "tof", "loop")
    /\ feedMutex' = NoTask
    /\ job' = [job EXCEPT ![t] = NoJob]
    /\ UNCHANGED <<cloudVars, streaming, lastState, identityReady, ghosts>>

CameraOn(t) ==
    /\ Goto(t, "camera_on", "sitting")
    /\ streaming' = TRUE
    /\ UNCHANGED <<cloudVars, job, feedMutex, lastState, identityReady, ghosts>>

\* sitting_detector_run returns: confirmed, or not, or timed out.
DetectSitting(t) ==
    /\ Goto(t, "sitting", "camera_off")
    /\ \E s \in BOOLEAN : job' = [job EXCEPT ![t].sitting = s]
    /\ UNCHANGED <<cloudVars, feedMutex, streaming, lastState, identityReady, ghosts>>

CameraOff(t) ==
    /\ Goto(t, "camera_off", "dispense")
    /\ streaming' = FALSE
    /\ UNCHANGED <<cloudVars, job, feedMutex, lastState, identityReady, ghosts>>

DispenseIfSitting(t) ==
    /\ Goto(t, "dispense", IF job[t].grams > 0 /\ (job[t].force \/ job[t].sitting)
                           THEN "motor" ELSE "level")
    /\ UNCHANGED <<cloudVars, job, feedMutex, streaming, lastState,
                   identityReady, ghosts>>

\* dispenser_run starts the motor, or refuses an amount that is not positive;
\* the workflow does not look at what it returns.
Dispense(t) ==
    /\ Goto(t, "dispense", IF job[t].grams > 0 THEN "motor" ELSE "level")
    /\ UNCHANGED <<cloudVars, job, feedMutex, streaming, lastState,
                   identityReady, ghosts>>

\* The last pulse of the motor run.
MotorDone(t) ==
    /\ Goto(t, "motor", "level")
    /\ poured' = poured \cup {<<job[t].feed, job[t].grams>>}
    /\ UNCHANGED <<cloudVars, job, feedMutex, streaming, lastState,
                   identityReady, issued, fires, toggles, reboots, feeds,
                   starts, lostAcks>>

\* The ultrasonic reading: over the threshold, under it, or failed.
CheckLevel(t) ==
    /\ Goto(t, "level", "log")
    /\ \E l \in BOOLEAN : job' = [job EXCEPT ![t].low = l]
    /\ UNCHANGED <<cloudVars, feedMutex, streaming, lastState, identityReady, ghosts>>

EventOfDefault(j) == [feed |-> j.feed, grams |-> DefaultGrams, low |-> j.low]

EventOf(j) == [feed |-> j.feed, grams |-> j.grams, low |-> j.low]

\* log_feed_event: the POST is applied or lost, nobody looks which.
LogEvent(t) ==
    /\ Goto(t, "log", "notify")
    /\ events' \in {events, events \cup {EventOf(job[t])}}
    /\ UNCHANGED <<pending, cameraActive, notices, lowFood, job, feedMutex,
                   streaming, lastState, identityReady, ghosts>>

\* push_notification: silent without an owner; its POST may be lost too.
NoticesFor(f, kind) ==
    IF identityReady THEN {[feed |-> f, kind |-> kind]} ELSE {}

PushWaitsForOwner(f, kind) ==
    /\ identityReady
    /\ notices' \in {notices, notices \cup NoticesFor(f, kind)}

Push(f, kind) == notices' \in {notices, notices \cup NoticesFor(f, kind)}

NotifyAlwaysLow(t) ==
    /\ Goto(t, "notify", "low_notice")
    /\ Push(job[t].feed, IF job[t].sitting THEN "sitting" ELSE "fed")
    /\ UNCHANGED <<pending, cameraActive, events, lowFood, job, feedMutex,
                   streaming, lastState, identityReady, ghosts>>

Notify(t) ==
    /\ Goto(t, "notify", IF job[t].low THEN "low_notice" ELSE "give")
    /\ Push(job[t].feed, IF job[t].sitting THEN "sitting" ELSE "fed")
    /\ UNCHANGED <<pending, cameraActive, events, lowFood, job, feedMutex,
                   streaming, lastState, identityReady, ghosts>>

NotifyLow(t) ==
    /\ Goto(t, "low_notice", "low_flag")
    /\ Push(job[t].feed, "low")
    /\ UNCHANGED <<pending, cameraActive, events, lowFood, job, feedMutex,
                   streaming, lastState, identityReady, ghosts>>

FlagLow(t) ==
    /\ Goto(t, "low_flag", "give")
    /\ lowFood' \in {lowFood, TRUE}
    /\ UNCHANGED <<pending, cameraActive, events, notices, job, feedMutex,
                   streaming, lastState, identityReady, ghosts>>

GiveMutexUnlessLow(t) ==
    /\ Goto(t, "give", "loop")
    /\ feedMutex' = IF job[t].low THEN feedMutex ELSE NoTask
    /\ job' = [job EXCEPT ![t] = NoJob]
    /\ UNCHANGED <<cloudVars, streaming, lastState, identityReady, ghosts>>

GiveMutex(t) ==
    /\ Goto(t, "give", "loop")
    /\ feedMutex' = NoTask
    /\ job' = [job EXCEPT ![t] = NoJob]
    /\ UNCHANGED <<cloudVars, streaming, lastState, identityReady, ghosts>>

WorkflowStep(t) ==
    \/ StartFeed(t) \/ IgnoreTrigger(t)
    \/ Beep(t) \/ PetComes(t) \/ AbortFeed(t)
    \/ CameraOn(t) \/ DetectSitting(t) \/ CameraOff(t)
    \/ Dispense(t) \/ MotorDone(t) \/ CheckLevel(t)
    \/ LogEvent(t) \/ Notify(t) \/ NotifyLow(t) \/ FlagLow(t) \/ GiveMutex(t)

-----------------------------------------------------------------------------
\* Power loss: the cloud keeps its data, the device starts from app_main.
Reboot ==
    /\ reboots < MaxReboots
    /\ reboots' = reboots + 1
    /\ Boot
    /\ UNCHANGED <<cloudVars, issued, fires, toggles, feeds, poured, starts,
                   lostAcks>>

CommandStep == PollCommand \/ AckCommand

Next ==
    \/ AppSendCommand
    \/ AppSetCamera
    \/ CameraPoll
    \/ PollNothing
    \/ CommandStep
    \/ ScheduleFires
    \/ \E t \in Tasks : WorkflowStep(t)
    \/ Reboot

\* FreeRTOS runs every ready task again and again, and every blocking call
\* of the workflow returns: HTTP requests and the ToF wait have timeouts.
Fairness ==
    /\ WF_vars(CommandStep)
    /\ WF_vars(CameraPoll)
    /\ \A t \in Tasks : WF_vars(WorkflowStep(t))

Spec == Init /\ [][Next]_vars

FairSpec == Spec /\ Fairness

-----------------------------------------------------------------------------
(***************************************************************************)
(* Safety.                                                                 *)
(***************************************************************************)

\* The feed mutex and the control flow agree: a task is inside the workflow
\* exactly while it holds s_feed_mutex, on every path out of it (abort,
\* completion) and across a restart.  So two feeds, or two motor runs, never
\* overlap and the mutex never stays locked behind an aborted feed.
MutexOwned == \A t \in Tasks : InWorkflow(t) <=> feedMutex = t

\* A command is fed at most once, plus once per DELETE of it that was lost:
\* neither polling again, a busy mutex nor a restart repeats it.
CommandOnce == \A c \in CmdIds : starts[c] <= lostAcks[c] + 1

\* A feed event in the cloud that names a real amount belongs to a feed whose
\* motor run completed with that amount, and a feed has one event at most,
\* whatever was lost and whenever power went.
EventsTruthful ==
    /\ \A e \in events : e.grams > 0 => <<e.feed, e.grams>> \in poured
    /\ \A e, f \in events : e.feed = f.feed => e = f

\* What the owner is told of a feed does not contradict its event: a low-food
\* notice only for a feed logged as low, and one verdict on sitting per feed.
NoticesAgree ==
    /\ \A n \in notices, e \in events :
          n.kind = "low" /\ n.feed = e.feed => e.low
    /\ \A n, m \in notices :
          n.feed = m.feed /\ n.kind = "sitting" => m.kind # "fed"

\* Nobody is filmed after the fact: the camera streams only while the app had
\* it on at the last poll or a feed is in its sitting detection.
MlStreamEnds ==
    streaming => lastState \/ \E t \in Tasks : pc[t] \in MlSteps

\* "Quick Feed" does not depend on the pet: a forced feed for a real amount that
\* ends, and is not cut short by a power loss, has moved that amount.
EndsPoured(t) ==
    InWorkflow(t) /\ ~InWorkflow(t)' /\ reboots' = reboots
        /\ job[t].force /\ job[t].grams > 0
        => <<job[t].feed, job[t].grams>> \in poured

ForcedFeedPours == [][\A t \in Tasks : EndsPoured(t)]_vars

(***************************************************************************)
(* Liveness.                                                               *)
(***************************************************************************)

\* Every call of the workflow ends, so the next trigger can be served.
FeedEnds == \A t \in Tasks : InWorkflow(t) ~> ~InWorkflow(t)

\* A pending dispense command does not stay pending: it is read and deleted,
\* in spite of lost DELETEs and of a feed of the schedule in progress.
CommandConsumed ==
    \A c \in CmdIds :
        (Waiting /\ pending.id = c) ~> ~(Waiting /\ pending.id = c)

\* When the app has closed the live view for good, the camera is off again
\* and again, whatever feeds turned it on meanwhile.
LiveViewStops == <>[](~cameraActive) => []<>(~streaming)

-----------------------------------------------------------------------------
(***************************************************************************)
(* The workflow implements the abstract feed service.                      *)
(***************************************************************************)

phase ==
    IF feedMutex = NoTask THEN "idle"
    ELSE CASE pc[feedMutex] \in BeforePour -> "approach"
           [] pc[feedMutex] \in AfterPour -> "dispensed"
           [] OTHER -> "reported"

asked == IF feedMutex = NoTask THEN 0 ELSE job[feedMutex].grams

Service == INSTANCE FeedService
    WITH count <- feeds, reports <- {<<e.feed, e.grams>> : e \in events}

\* Seen through that mapping, every behaviour of the tasks is one the service
\* allows, and feeds make the progress the service promises.
ServiceSpec == Service!Spec
=============================================================================
