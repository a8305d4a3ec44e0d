------------------------- MODULE FeedWorkflowProofs -------------------------
(***************************************************************************)
(* What holds of the feed workflow for every set of amounts and every      *)
(* bound: its types, the ownership of the feed mutex, the end of the       *)
(* camera stream, the account of each command and of each event, that a    *)
(* forced feed pours, and that the tasks implement FeedService (but for    *)
(* its fairness, which is model-checked).  And what holds of it and of the *)
(* schedule runner together (Feeder): the two are implemented side by      *)
(* side, no food moves unasked, and a meal that is due is answered.        *)
(***************************************************************************)
EXTENDS Feeder, TLAPS

-----------------------------------------------------------------------------
\* The locals of a call keep their type when a step assigns one of them.
LEMMA JobFacts ==
    /\ NoJob \in Jobs
    /\ \A j \in Jobs, b \in BOOLEAN : /\ [j EXCEPT !.sitting = b] \in Jobs
                                      /\ [j EXCEPT !.low = b] \in Jobs
    /\ \A j \in Jobs, n \in Nat : [j EXCEPT !.feed = n] \in Jobs
    /\ \A g \in Grams : [NoJob EXCEPT !.grams = g] \in Jobs
    /\ \A c \in CmdIds, g \in Grams, b \in BOOLEAN :
          [NoJob EXCEPT !.cmd = c, !.grams = g, !.force = b] \in Jobs
BY GramsAssumption DEF NoJob, Jobs

\* What a step does with a location leaves pc a function into the locations.
LEMMA GotoType ==
    ASSUME TypeOK, NEW t \in Tasks, NEW from \in Locations, NEW to \in Locations,
           Goto(t, from, to)
    PROVE  pc' \in [Tasks -> Locations]
BY DEF Goto, TypeOK

\* The state variables keep their types: in particular a command without an
\* amount never reaches the workflow without its default.
THEOREM Typing == Spec => []TypeOK
<1>1. Init => TypeOK
  <2> SUFFICES ASSUME Init PROVE TypeOK
    OBVIOUS
  <2>1. pc \in [Tasks -> Locations] /\ job \in [Tasks -> Jobs]
    BY JobFacts DEF Init, Locations
  <2>2. /\ issued \in 0 .. MaxCommands /\ fires \in 0 .. MaxFires
        /\ toggles \in 0 .. MaxToggles /\ reboots \in 0 .. MaxReboots
        /\ starts \in [CmdIds -> Nat] /\ lostAcks \in [CmdIds -> 0 .. MaxLostAcks]
    BY BoundsAssumption DEF Init
  <2> QED
    BY <2>1, <2>2 DEF Init, TypeOK
<1>2. TypeOK /\ [Next]_vars => TypeOK'
  <2> SUFFICES ASSUME TypeOK, [Next]_vars PROVE TypeOK'
    OBVIOUS
  <2> USE DEF TypeOK, cloudVars, ghosts
  <2>1. CASE AppSendCommand
    <3>1. issued' \in 0 .. MaxCommands /\ issued + 1 \in CmdIds
      BY <2>1, BoundsAssumption DEF AppSendCommand, CmdIds
    <3>2. pending' \in Commands
      BY <2>1, <3>1, OffersAssumption DEF AppSendCommand, Commands
    <3> QED
      BY <2>1, <3>1, <3>2 DEF AppSendCommand
  <2>2. CASE AppSetCamera
    BY <2>2, BoundsAssumption DEF AppSetCamera
  <2>3. CASE CameraPoll
    BY <2>3 DEF CameraPoll, Mirror
  <2>4. CASE PollNothing
    BY <2>4 DEF PollNothing, vars
  <2>5. CASE PollCommand
    <3>1. pending \in Commands
      BY <2>5 DEF PollCommand, Waiting
    <3>2. AskedGrams(pending) \in Grams
      BY <3>1, GramsAssumption DEF AskedGrams, Commands
    <3>3. pending.id \in CmdIds /\ pending.force \in BOOLEAN
      BY <3>1 DEF Commands
    <3>4. job' \in [Tasks -> Jobs] /\ pc' \in [Tasks -> Locations]
      BY <2>5, <3>2, <3>3, JobFacts DEF PollCommand, Locations
    <3> QED
      BY <2>5, <3>4 DEF PollCommand
  <2>6. CASE AckCommand
    <3>1. pc' \in [Tasks -> Locations]
      BY <2>6 DEF AckCommand, Locations
    <3>2. pending' \in Commands \cup {NoCmd}
      BY <2>6 DEF AckCommand, AckApplied, AckLost, Commands
    <3>3. lostAcks' \in [CmdIds -> 0 .. MaxLostAcks]
      BY <2>6, BoundsAssumption DEF AckCommand, AckApplied, AckLost
    <3> QED
      BY <2>6, <3>1, <3>2, <3>3 DEF AckCommand
  <2>7. CASE ScheduleFires
    <3>1. job' \in [Tasks -> Jobs]
      BY <2>7, JobFacts DEF ScheduleFires
    <3> QED
      BY <2>7, <3>1, BoundsAssumption DEF ScheduleFires, Locations
  <2>8. ASSUME NEW t \in Tasks, WorkflowStep(t) PROVE TypeOK'
    <3> USE DEF Locations, WorkflowSteps, BeforePour, AfterPour, AfterReport, MlSteps
    <3>1. CASE StartFeed(t)
      <4>1. job' \in [Tasks -> Jobs]
        <5>1. job[t] \in Jobs /\ feeds + 1 \in Nat
          OBVIOUS
        <5>2. [job[t] EXCEPT !.feed = feeds + 1] \in Jobs
          BY <5>1, JobFacts, Zenon
        <5> QED
          BY <3>1, <5>2 DEF StartFeed
      <4>2. starts' \in [CmdIds -> Nat]
        <5>1. job[t].cmd \in CmdIds \cup {0}
          BY DEF Jobs
        <5> QED
          BY <3>1, <5>1 DEF StartFeed
      <4>3. pc' \in [Tasks -> Locations]
        BY <3>1, GotoType DEF StartFeed
      <4> QED
        BY <3>1, <4>1, <4>2, <4>3 DEF StartFeed
    <3>2. CASE IgnoreTrigger(t)
      BY <3>2, JobFacts, GotoType DEF IgnoreTrigger
    <3>3. CASE Beep(t)
      BY <3>3, GotoType DEF Beep
    <3>4. CASE PetComes(t)
      BY <3>4, GotoType DEF PetComes
    <3>5. CASE AbortFeed(t)
      BY <3>5, JobFacts, GotoType DEF AbortFeed
    <3>6. CASE CameraOn(t)
      BY <3>6, GotoType DEF CameraOn
    <3>7. CASE DetectSitting(t)
      <4>1. \A b \in BOOLEAN : [job[t] EXCEPT !.sitting = b] \in Jobs
        BY JobFacts
      <4>2. job' \in [Tasks -> Jobs]
        BY <3>7, <4>1 DEF DetectSitting
      <4> QED
        BY <3>7, <4>2, GotoType DEF DetectSitting
    <3>8. CASE CameraOff(t)
      BY <3>8, GotoType DEF CameraOff
    <3>9. CASE Dispense(t)
      BY <3>9, GotoType DEF Dispense
    <3>10. CASE MotorDone(t)
      <4>1. job[t].feed \in Nat /\ job[t].grams \in Grams
        BY DEF Jobs
      <4>2. pc' \in [Tasks -> Locations]
        BY <3>10, GotoType DEF MotorDone
      <4> QED
        BY <3>10, <4>1, <4>2 DEF MotorDone
    <3>11. CASE CheckLevel(t)
      <4>1. \A b \in BOOLEAN : [job[t] EXCEPT !.low = b] \in Jobs
        BY JobFacts
      <4>2. job' \in [Tasks -> Jobs]
        BY <3>11, <4>1 DEF CheckLevel
      <4> QED
        BY <3>11, <4>2, GotoType DEF CheckLevel
    <3>12. CASE LogEvent(t)
      <4>1. EventOf(job[t]) \in [feed : Nat, grams : Grams, low : BOOLEAN]
        BY DEF EventOf, Jobs
      <4>2. pc' \in [Tasks -> Locations]
        BY <3>12, GotoType DEF LogEvent
      <4> QED
        BY <3>12, <4>1, <4>2 DEF LogEvent
    <3>13. CASE Notify(t)
      <4>1. job[t].feed \in Nat
        BY DEF Jobs
      <4>2. notices' \subseteq [feed : Nat, kind : {"sitting", "fed", "low"}]
        BY <3>13, <4>1 DEF Notify, Push, NoticesFor
      <4> QED
        BY <3>13, <4>2, GotoType DEF Notify
    <3>14. CASE NotifyLow(t)
      <4>1. job[t].feed \in Nat
        BY DEF Jobs
      <4>2. notices' \subseteq [feed : Nat, kind : {"sitting", "fed", "low"}]
        BY <3>14, <4>1 DEF NotifyLow, Push, NoticesFor
      <4> QED
        BY <3>14, <4>2, GotoType DEF NotifyLow
    <3>15. CASE FlagLow(t)
      BY <3>15, GotoType DEF FlagLow
    <3>16. CASE GiveMutex(t)
      BY <3>16, JobFacts, GotoType DEF GiveMutex
    <3> QED
      BY <2>8, <3>1, <3>2, <3>3, <3>4, <3>5, <3>6, <3>7, <3>8, <3>9, <3>10,
         <3>11, <3>12, <3>13, <3>14, <3>15, <3>16 DEF WorkflowStep
  <2>9. CASE Reboot
    <3>1. pc' \in [Tasks -> Locations] /\ job' \in [Tasks -> Jobs]
      BY <2>9, JobFacts DEF Reboot, Boot, Locations
    <3>2. reboots' \in 0 .. MaxReboots
      BY <2>9, BoundsAssumption DEF Reboot
    <3> QED
      BY <2>9, <3>1, <3>2 DEF Reboot, Boot
  <2>10. CASE UNCHANGED vars
    BY <2>10 DEF vars
  <2> QED
    BY <2>1, <2>2, <2>3, <2>4, <2>5, <2>6, <2>7, <2>8, <2>9, <2>10
       DEF Next, CommandStep
<1> QED
  BY <1>1, <1>2, PTL DEF Spec

-----------------------------------------------------------------------------
\* A step of one task leaves the other where it is.
LEMMA GotoMoves ==
    ASSUME TypeOK, NEW t \in Tasks, NEW from, NEW to, Goto(t, from, to)
    PROVE  /\ pc[t] = from
           /\ pc'[t] = to
           /\ \A u \in Tasks \ {t} : pc'[u] = pc[u]
BY DEF Goto, TypeOK

\* One step keeps control flow and mutex in agreement.
LEMMA MutexStep == TypeOK /\ MutexOwned /\ [Next]_vars => MutexOwned'
<1> SUFFICES ASSUME TypeOK, MutexOwned, [Next]_vars PROVE MutexOwned'
  OBVIOUS
<1> USE DEF MutexOwned, InWorkflow, cloudVars, ghosts, WorkflowSteps, BeforePour,
            AfterPour, AfterReport, MlSteps, NoTask
<1>1. CASE UNCHANGED <<pc, feedMutex>>
  BY <1>1
<1>2. CASE AppSendCommand \/ AppSetCamera \/ CameraPoll \/ PollNothing \/ UNCHANGED vars
  BY <1>2, <1>1 DEF AppSendCommand, AppSetCamera, CameraPoll, PollNothing, vars
<1>3. CASE CommandStep
  <2>1. pc["cmd_poll"] \in {"loop", "ack"} /\ feedMutex' = feedMutex
    BY <1>3 DEF CommandStep, PollCommand, AckCommand
  <2>2. /\ pc'["cmd_poll"] \in {"ack", "call"}
        /\ \A u \in Tasks \ {"cmd_poll"} : pc'[u] = pc[u]
    BY <1>3 DEF CommandStep, PollCommand, AckCommand, TypeOK, Tasks
  <2> QED
    BY <2>1, <2>2
<1>4. CASE ScheduleFires
  <2>1. pc["sched_runner"] = "loop" /\ feedMutex' = feedMutex
    BY <1>4 DEF ScheduleFires
  <2>2. /\ pc'["sched_runner"] = "call"
        /\ \A u \in Tasks \ {"sched_runner"} : pc'[u] = pc[u]
    BY <1>4 DEF ScheduleFires, TypeOK, Tasks
  <2> QED
    BY <2>1, <2>2
<1>5. ASSUME NEW t \in Tasks, WorkflowStep(t) PROVE MutexOwned'
  <2>1. CASE StartFeed(t)
    BY <2>1, GotoMoves DEF StartFeed, Tasks
  <2>2. CASE IgnoreTrigger(t)
    BY <2>2, GotoMoves DEF IgnoreTrigger
  <2>3. CASE AbortFeed(t) \/ GiveMutex(t)
    BY <2>3, GotoMoves DEF AbortFeed, GiveMutex, Tasks
  <2>4. CASE Beep(t) \/ PetComes(t) \/ Dispense(t)
    BY <2>4, GotoMoves DEF Beep, PetComes, Dispense
  <2>5. CASE CameraOn(t) \/ DetectSitting(t) \/ CameraOff(t)
    BY <2>5, GotoMoves DEF CameraOn, DetectSitting, CameraOff
  <2>6. CASE MotorDone(t) \/ CheckLevel(t) \/ LogEvent(t)
    BY <2>6, GotoMoves DEF MotorDone, CheckLevel, LogEvent
  <2>7. CASE Notify(t) \/ NotifyLow(t) \/ FlagLow(t)
    <3>1. CASE Notify(t)
      BY <3>1, GotoMoves DEF Notify
    <3>2. CASE NotifyLow(t)
      BY <3>2, GotoMoves DEF NotifyLow
    <3>3. CASE FlagLow(t)
      BY <3>3, GotoMoves DEF FlagLow
    <3> QED
      BY <2>7, <3>1, <3>2, <3>3
  <2> QED
    BY <1>5, <2>1, <2>2, <2>3, <2>4, <2>5, <2>6, <2>7 DEF WorkflowStep
<1>6. CASE Reboot
  BY <1>6 DEF Reboot, Boot, Tasks
<1> QED
  BY <1>2, <1>3, <1>4, <1>5, <1>6 DEF Next

\* A task is inside do_feed_workflow exactly while it holds s_feed_mutex, for
\* any amounts and however many commands, schedules, losses and restarts.
THEOREM FeedsNeverOverlap == Spec => []MutexOwned
<1>1. Init => MutexOwned
  BY DEF Init, MutexOwned, InWorkflow, WorkflowSteps, BeforePour, AfterPour,
         AfterReport, MlSteps, Tasks, NoTask
<1> QED
  BY <1>1, Typing, MutexStep, PTL DEF Spec

-----------------------------------------------------------------------------
\* One step never leaves the stream on with nobody watching.
LEMMA StreamStep ==
    TypeOK /\ MutexOwned /\ MlStreamEnds /\ [Next]_vars => MlStreamEnds'
<1> SUFFICES ASSUME TypeOK, MutexOwned, MlStreamEnds, [Next]_vars PROVE MlStreamEnds'
  OBVIOUS
<1> USE DEF MlStreamEnds, cloudVars, ghosts, MlSteps
<1>1. CASE UNCHANGED <<pc, streaming, lastState>>
  BY <1>1
<1>2. CASE AppSendCommand \/ AppSetCamera \/ PollNothing \/ UNCHANGED vars
  BY <1>2, <1>1 DEF AppSendCommand, AppSetCamera, PollNothing, vars
<1>3. CASE CameraPoll
  BY <1>3 DEF CameraPoll, Mirror, TypeOK
<1>4. CASE CommandStep
  BY <1>4 DEF CommandStep, PollCommand, AckCommand, TypeOK, Tasks
<1>5. CASE ScheduleFires
  BY <1>5 DEF ScheduleFires, TypeOK, Tasks
<1>6. ASSUME NEW t \in Tasks, WorkflowStep(t) PROVE MlStreamEnds'
  <2>1. CASE StartFeed(t) \/ IgnoreTrigger(t) \/ AbortFeed(t) \/ GiveMutex(t)
    BY <2>1, GotoMoves DEF StartFeed, IgnoreTrigger, AbortFeed, GiveMutex
  <2>2. CASE Beep(t) \/ PetComes(t) \/ Dispense(t)
    BY <2>2, GotoMoves DEF Beep, PetComes, Dispense
  <2>3. CASE CameraOn(t)
    BY <2>3, GotoMoves DEF CameraOn
  <2>4. CASE DetectSitting(t)
    BY <2>4, GotoMoves DEF DetectSitting
  <2>5. CASE CameraOff(t)
    BY <2>5 DEF CameraOff
  <2>6. CASE MotorDone(t) \/ CheckLevel(t) \/ LogEvent(t)
    BY <2>6, GotoMoves DEF MotorDone, CheckLevel, LogEvent
  <2>7. CASE Notify(t) \/ NotifyLow(t) \/ FlagLow(t)
    <3>1. CASE Notify(t)
      BY <3>1, GotoMoves DEF Notify
    <3>2. CASE NotifyLow(t)
      BY <3>2, GotoMoves DEF NotifyLow
    <3>3. CASE FlagLow(t)
      BY <3>3, GotoMoves DEF FlagLow
    <3> QED
      BY <2>7, <3>1, <3>2, <3>3
  <2> QED
    BY <1>6, <2>1, <2>2, <2>3, <2>4, <2>5, <2>6, <2>7 DEF WorkflowStep
<1>7. CASE Reboot
  BY <1>7 DEF Reboot, Boot
<1> QED
  BY <1>2, <1>3, <1>4, <1>5, <1>6, <1>7 DEF Next

\* The camera never streams unless the app had it on at the last poll or a
\* feed is in its sitting detection.
THEOREM NobodyFilmedAfterwards == Spec => []MlStreamEnds
<1>1. Init => MlStreamEnds
  BY DEF Init, MlStreamEnds
<1> QED
  BY <1>1, Typing, FeedsNeverOverlap, StreamStep, PTL DEF Spec

-----------------------------------------------------------------------------
(***************************************************************************)
(* A command is fed once.  The bound of CommandOnce is not inductive by    *)
(* itself: it rests on where the command is, in the cloud (it may be read  *)
(* again, so every feed of it so far followed a lost DELETE), between GET  *)
(* and DELETE, or between DELETE and the call.                             *)
(***************************************************************************)
OnTheWay(c, where) == pc["cmd_poll"] \in where /\ job["cmd_poll"].cmd = c

CommandInv ==
    /\ job["sched_runner"].cmd = 0
    /\ pending # NoCmd => pending.id \in 1 .. issued
    /\ pc["cmd_poll"] \in {"ack", "call"} => job["cmd_poll"].cmd \in 1 .. issued
    /\ \A c \in CmdIds :
          /\ c > issued => starts[c] = 0
          /\ pending # NoCmd /\ pending.id = c => starts[c] <= lostAcks[c]
          /\ pending # NoCmd /\ pending.id = c /\ OnTheWay(c, {"call"})
                => starts[c] < lostAcks[c]
          /\ OnTheWay(c, {"ack", "call"}) => starts[c] <= lostAcks[c]
          /\ starts[c] <= lostAcks[c] + 1

\* A workflow step after the call is in progress changes nothing CommandInv
\* speaks of but the task's location.
LEMMA CommandInvQuiet ==
    ASSUME TypeOK, CommandInv, NEW t \in Tasks,
           UNCHANGED <<pending, issued, starts, lostAcks>>,
           \A u \in Tasks : job'[u].cmd = job[u].cmd \/ job'[u].cmd = 0,
           \A u \in Tasks \ {t} : pc'[u] = pc[u] /\ job'[u] = job[u],
           pc'[t] \notin {"ack", "call"}
    PROVE  CommandInv'
BY DEF CommandInv, OnTheWay, Tasks, TypeOK

\* One step keeps the account of every command straight.
LEMMA CommandInvStep == TypeOK /\ CommandInv /\ [Next]_vars => CommandInv'
<1> SUFFICES ASSUME TypeOK, CommandInv, [Next]_vars PROVE CommandInv'
  OBVIOUS
<1> USE DEF cloudVars, ghosts
<1>1. CASE UNCHANGED <<pending, issued, starts, lostAcks, pc, job>>
  BY <1>1 DEF CommandInv, OnTheWay
<1>2. CASE AppSetCamera \/ CameraPoll \/ PollNothing \/ UNCHANGED vars
  BY <1>2, <1>1 DEF AppSetCamera, CameraPoll, PollNothing, vars
<1>3. CASE AppSendCommand
  <2>1. /\ issued + 1 \in CmdIds /\ issued' = issued + 1 /\ issued \in Nat
        /\ pending' # NoCmd => pending'.id = issued + 1
        /\ UNCHANGED <<pc, job, starts, lostAcks>>
    BY <1>3, BoundsAssumption DEF AppSendCommand, TypeOK, CmdIds
  <2>2. starts[issued + 1] = 0 /\ lostAcks[issued + 1] \in Nat
    BY <2>1, BoundsAssumption DEF CommandInv, TypeOK
  <2>3. \A c \in CmdIds : c \in Int
    BY BoundsAssumption DEF CmdIds
  <2>4. ~OnTheWay(issued + 1, {"ack", "call"}) /\ ~OnTheWay(issued + 1, {"call"})
    BY <2>1 DEF CommandInv, OnTheWay
  <2> QED
    BY <2>1, <2>2, <2>3, <2>4 DEF CommandInv, OnTheWay
<1>4. CASE PollCommand
  <2>1. /\ pending # NoCmd /\ pending \in Commands
        /\ job'["cmd_poll"].cmd = pending.id
        /\ job'["sched_runner"] = job["sched_runner"]
        /\ pc'["cmd_poll"] = "ack"
        /\ UNCHANGED <<pending, issued, starts, lostAcks>>
    BY <1>4 DEF PollCommand, Waiting, TypeOK, Tasks, NoJob
  <2> QED
    BY <2>1 DEF CommandInv, OnTheWay
<1>5. CASE AckCommand
  <2> DEFINE c == job["cmd_poll"].cmd
  <2>1. /\ pc["cmd_poll"] = "ack" /\ pc'["cmd_poll"] = "call"
        /\ UNCHANGED <<job, issued, starts>>
    BY <1>5 DEF AckCommand, TypeOK, Tasks
  <2>2. c \in CmdIds /\ starts[c] <= lostAcks[c]
    BY <2>1, BoundsAssumption DEF CommandInv, OnTheWay, TypeOK, CmdIds
  <2>3. /\ starts \in [CmdIds -> Nat]
        /\ lostAcks \in [CmdIds -> Int]
    BY DEF TypeOK
  <2>4. CASE AckApplied(c)
    BY <2>1, <2>2, <2>3, <2>4 DEF AckApplied, CommandInv, OnTheWay
  <2>5. CASE AckLost(c)
    <3>1. /\ lostAcks'[c] = lostAcks[c] + 1
          /\ \A d \in CmdIds \ {c} : lostAcks'[d] = lostAcks[d]
          /\ UNCHANGED pending
      BY <2>2, <2>3, <2>5 DEF AckLost
    <3> QED
      BY <2>1, <2>2, <2>3, <3>1 DEF CommandInv, OnTheWay
  <2> QED
    BY <1>5, <2>4, <2>5 DEF AckCommand
<1>6. CASE ScheduleFires
  <2>1. /\ job'["sched_runner"].cmd = 0
        /\ job'["cmd_poll"] = job["cmd_poll"]
        /\ pc'["cmd_poll"] = pc["cmd_poll"]
        /\ UNCHANGED <<pending, issued, starts, lostAcks>>
    BY <1>6 DEF ScheduleFires, TypeOK, Tasks, NoJob
  <2> QED
    BY <2>1 DEF CommandInv, OnTheWay
<1>7. ASSUME NEW t \in Tasks, WorkflowStep(t) PROVE CommandInv'
  <2>1. CASE StartFeed(t)
    <3>1. /\ pc[t] = "call" /\ pc'[t] = "beep"
          /\ \A u \in Tasks \ {t} : pc'[u] = pc[u] /\ job'[u] = job[u]
          /\ job'[t].cmd = job[t].cmd
          /\ UNCHANGED <<pending, issued, lostAcks>>
      BY <2>1, GotoMoves DEF StartFeed, TypeOK, Jobs
    <3>2. CASE job[t].cmd = 0
      <4>1. starts' = starts
        BY <2>1, <3>2 DEF StartFeed
      <4> QED
        BY <3>1, <4>1, CommandInvQuiet
    <3>3. CASE job[t].cmd # 0
      <4> DEFINE c == job[t].cmd
      <4>1. t = "cmd_poll" /\ c \in CmdIds
        BY <3>3 DEF CommandInv, Tasks, TypeOK, Jobs
      <4>2. /\ starts \in [CmdIds -> Nat]
            /\ lostAcks \in [CmdIds -> Int]
            /\ c \in 1 .. issued /\ issued \in Int
        BY <3>1, <4>1 DEF CommandInv, TypeOK
      <4>3. /\ starts'[c] = starts[c] + 1
            /\ \A d \in CmdIds \ {c} : starts'[d] = starts[d]
        BY <2>1, <3>3, <4>1, <4>2 DEF StartFeed
      <4>4. /\ starts[c] <= lostAcks[c]
            /\ pending # NoCmd /\ pending.id = c => starts[c] < lostAcks[c]
        BY <3>1, <4>1 DEF CommandInv, OnTheWay
      <4>5. /\ job'["sched_runner"] = job["sched_runner"]
            /\ pc'["cmd_poll"] = "beep"
        BY <3>1, <4>1 DEF Tasks
      <4>6. \A d \in CmdIds : /\ starts[d] \in Int /\ starts'[d] \in Int
                              /\ lostAcks[d] \in Int /\ lostAcks'[d] = lostAcks[d]
        BY <3>1, <4>1, <4>2, <4>3
      <4> QED
        BY <3>1, <4>1, <4>2, <4>3, <4>4, <4>5, <4>6 DEF CommandInv, OnTheWay
    <3> QED
      BY <3>2, <3>3
  <2>2. CASE IgnoreTrigger(t) \/ AbortFeed(t) \/ GiveMutex(t)
    BY <2>2, GotoMoves, CommandInvQuiet
       DEF IgnoreTrigger, AbortFeed, GiveMutex, TypeOK, NoJob
  <2>3. CASE Beep(t) \/ PetComes(t) \/ Dispense(t)
    BY <2>3, GotoMoves, CommandInvQuiet DEF Beep, PetComes, Dispense
  <2>4. CASE CameraOn(t) \/ CameraOff(t)
    BY <2>4, GotoMoves, CommandInvQuiet DEF CameraOn, CameraOff
  <2>5. CASE DetectSitting(t)
    BY <2>5, GotoMoves, CommandInvQuiet DEF DetectSitting, TypeOK, Jobs
  <2>6. CASE CheckLevel(t)
    BY <2>6, GotoMoves, CommandInvQuiet DEF CheckLevel, TypeOK, Jobs
  <2>7. CASE MotorDone(t) \/ LogEvent(t)
    BY <2>7, GotoMoves, CommandInvQuiet DEF MotorDone, LogEvent
  <2>8. CASE Notify(t)
    BY <2>8, GotoMoves, CommandInvQuiet DEF Notify
  <2>9. CASE NotifyLow(t)
    BY <2>9, GotoMoves, CommandInvQuiet DEF NotifyLow
  <2>10. CASE FlagLow(t)
    BY <2>10, GotoMoves, CommandInvQuiet DEF FlagLow
  <2> QED
    BY <1>7, <2>1, <2>2, <2>3, <2>4, <2>5, <2>6, <2>7, <2>8, <2>9,
       <2>10 DEF WorkflowStep
<1>8. CASE Reboot
  <2>1. /\ \A t \in Tasks : pc'[t] = "loop" /\ job'[t].cmd = 0
        /\ UNCHANGED <<pending, issued, starts, lostAcks>>
    BY <1>8 DEF Reboot, Boot, NoJob
  <2> QED
    BY <2>1 DEF CommandInv, OnTheWay, Tasks
<1> QED
  BY <1>2, <1>3, <1>4, <1>5, <1>6, <1>7, <1>8 DEF Next, CommandStep

\* Polling again, a busy mutex and a restart never repeat a command: it is fed
\* once, plus at most once per DELETE of it that the cloud never saw.
THEOREM CommandFedOnce == Spec => []CommandOnce
<1>1. Init => CommandInv
  BY DEF Init, CommandInv, OnTheWay, Tasks, NoJob
<1>2. CommandInv => CommandOnce
  BY DEF CommandInv, CommandOnce
<1> QED
  BY <1>1, <1>2, Typing, CommandInvStep, PTL DEF Spec

-----------------------------------------------------------------------------
(***************************************************************************)
(* Events tell the truth.  What makes it inductive: the feed a task is in  *)
(* is the last one that began (mutual exclusion), it is not in the log     *)
(* until its LogEvent step, and its food has moved by then.                *)
(***************************************************************************)
FeedInv ==
    /\ \A e \in events : e.feed <= feeds
    /\ \A t \in Tasks :
          /\ InWorkflow(t) => job[t].feed = feeds
          /\ pc[t] = "motor" => job[t].grams > 0
          /\ pc[t] \in BeforePour \cup AfterPour => \A e \in events : e.feed # feeds
          /\ pc[t] \in AfterPour /\ job[t].grams > 0
                => <<feeds, job[t].grams>> \in poured
    /\ EventsTruthful

\* A step that logs nothing, begins no feed and does not advance a task into
\* a stage it has not earned keeps FeedInv.
LEMMA FeedInvQuiet ==
    ASSUME TypeOK, FeedInv, NEW t \in Tasks,
           UNCHANGED <<events, feeds, poured>>,
           \A u \in Tasks \ {t} : pc'[u] = pc[u] /\ job'[u] = job[u],
           \/ pc'[t] \notin WorkflowSteps
           \/ /\ job'[t].feed = job[t].feed /\ job'[t].grams = job[t].grams
              /\ pc[t] \in WorkflowSteps
              /\ pc'[t] \in BeforePour \cup AfterPour => pc[t] \in BeforePour \cup AfterPour
              /\ pc'[t] \in AfterPour => pc[t] \in AfterPour \/ ~(job[t].grams > 0)
              /\ pc'[t] = "motor" => job[t].grams > 0
    PROVE  FeedInv'
BY DEF FeedInv, InWorkflow, EventsTruthful, WorkflowSteps, BeforePour

\* One step keeps the event log truthful.
LEMMA FeedInvStep == TypeOK /\ MutexOwned /\ FeedInv /\ [Next]_vars => FeedInv'
<1> SUFFICES ASSUME TypeOK, MutexOwned, FeedInv, [Next]_vars PROVE FeedInv'
  OBVIOUS
<1> USE DEF cloudVars, ghosts
<1>1. CASE UNCHANGED <<events, feeds, poured, pc, job>>
  BY <1>1 DEF FeedInv, InWorkflow, EventsTruthful
<1>2. CASE AppSendCommand \/ AppSetCamera \/ CameraPoll \/ PollNothing \/ UNCHANGED vars
  BY <1>2, <1>1 DEF AppSendCommand, AppSetCamera, CameraPoll, PollNothing, vars
<1>3. CASE CommandStep
  <2>1. /\ UNCHANGED <<events, feeds, poured>>
        /\ \A u \in Tasks \ {"cmd_poll"} : pc'[u] = pc[u] /\ job'[u] = job[u]
        /\ pc'["cmd_poll"] \in {"ack", "call"}
    BY <1>3 DEF CommandStep, PollCommand, AckCommand, TypeOK, Tasks
  <2> QED
    BY <2>1, FeedInvQuiet
       DEF Tasks, WorkflowSteps, BeforePour, AfterPour, AfterReport, MlSteps
<1>4. CASE ScheduleFires
  <2>1. /\ UNCHANGED <<events, feeds, poured>>
        /\ \A u \in Tasks \ {"sched_runner"} : pc'[u] = pc[u] /\ job'[u] = job[u]
        /\ pc'["sched_runner"] = "call"
    BY <1>4 DEF ScheduleFires, TypeOK, Tasks
  <2> QED
    BY <2>1, FeedInvQuiet
       DEF Tasks, WorkflowSteps, BeforePour, AfterPour, AfterReport, MlSteps
<1>5. ASSUME NEW t \in Tasks, WorkflowStep(t) PROVE FeedInv'
  <2> USE DEF WorkflowSteps, BeforePour, AfterPour, AfterReport, MlSteps
  <2>1. CASE StartFeed(t)
    <3>1. /\ feeds \in Nat /\ feeds' = feeds + 1
          /\ UNCHANGED <<events, poured>>
          /\ pc'[t] = "beep" /\ job'[t].feed = feeds + 1
          /\ \A u \in Tasks \ {t} : pc'[u] = pc[u]
      BY <2>1, GotoMoves DEF StartFeed, TypeOK, Jobs
    <3>2. \A u \in Tasks \ {t} : ~InWorkflow(u)
      BY <2>1 DEF StartFeed, MutexOwned, Tasks, NoTask
    <3>3. \A e \in events : e.feed \in Nat /\ e.feed <= feeds
      BY DEF FeedInv, TypeOK
    <3> QED
      BY <3>1, <3>2, <3>3 DEF FeedInv, InWorkflow, EventsTruthful
  <2>2. CASE IgnoreTrigger(t)
    BY <2>2, GotoMoves, FeedInvQuiet DEF IgnoreTrigger, TypeOK
  <2>3. CASE AbortFeed(t)
    BY <2>3, GotoMoves, FeedInvQuiet DEF AbortFeed, TypeOK
  <2>4. CASE GiveMutex(t)
    BY <2>4, GotoMoves, FeedInvQuiet DEF GiveMutex, TypeOK
  <2>5. CASE Beep(t)
    BY <2>5, GotoMoves, FeedInvQuiet DEF Beep
  <2>6. CASE PetComes(t)
    BY <2>6, GotoMoves, FeedInvQuiet DEF PetComes
  <2>7. CASE Dispense(t)
    BY <2>7, GotoMoves, FeedInvQuiet DEF Dispense
  <2>8. CASE CameraOn(t)
    BY <2>8, GotoMoves, FeedInvQuiet DEF CameraOn
  <2>9. CASE CameraOff(t)
    BY <2>9, GotoMoves, FeedInvQuiet DEF CameraOff
  <2>10. CASE DetectSitting(t)
    BY <2>10, GotoMoves, FeedInvQuiet DEF DetectSitting, TypeOK, Jobs
  <2>11. CASE CheckLevel(t)
    BY <2>11, GotoMoves, FeedInvQuiet DEF CheckLevel, TypeOK, Jobs
  <2>12. CASE MotorDone(t)
    <3>1. /\ pc[t] = "motor" /\ pc'[t] = "level"
          /\ \A u \in Tasks \ {t} : pc'[u] = pc[u]
          /\ job[t].feed = feeds
          /\ poured' = poured \cup {<<feeds, job[t].grams>>}
          /\ UNCHANGED <<events, feeds, job>>
      BY <2>12, GotoMoves DEF MotorDone, FeedInv, InWorkflow
    <3> QED
      BY <3>1 DEF FeedInv, InWorkflow, EventsTruthful
  <2>13. CASE LogEvent(t)
    <3> DEFINE new == [feed |-> feeds, grams |-> job[t].grams, low |-> job[t].low]
    <3>1. /\ pc[t] = "log" /\ pc'[t] = "notify"
          /\ \A u \in Tasks \ {t} : pc'[u] = pc[u]
          /\ job[t].feed = feeds
          /\ UNCHANGED <<feeds, poured, job>>
      BY <2>13, GotoMoves DEF LogEvent, FeedInv, InWorkflow
    <3>2. events' = events \/ events' = events \cup {new}
      BY <2>13, <3>1 DEF LogEvent, EventOf
    <3>3. \A u \in Tasks \ {t} : ~InWorkflow(u)
      BY <3>1 DEF MutexOwned, InWorkflow
    <3>4. \A e \in events : e.feed # feeds
      BY <3>1 DEF FeedInv
    <3>5. job[t].grams > 0 => <<feeds, job[t].grams>> \in poured
      BY <3>1 DEF FeedInv
    <3>6. EventsTruthful'
      BY <3>1, <3>2, <3>4, <3>5 DEF FeedInv, EventsTruthful
    <3>7. feeds \in Nat /\ \A e \in events' : e.feed <= feeds
      BY <3>2 DEF FeedInv, TypeOK
    <3> QED
      BY <3>1, <3>3, <3>6, <3>7 DEF FeedInv, InWorkflow
  <2>14. CASE Notify(t)
    BY <2>14, GotoMoves, FeedInvQuiet DEF Notify
  <2>15. CASE NotifyLow(t)
    BY <2>15, GotoMoves, FeedInvQuiet DEF NotifyLow
  <2>16. CASE FlagLow(t)
    BY <2>16, GotoMoves, FeedInvQuiet DEF FlagLow
  <2> QED
    BY <1>5, <2>1, <2>2, <2>3, <2>4, <2>5, <2>6, <2>7, <2>8, <2>9, <2>10,
       <2>11, <2>12, <2>13, <2>14, <2>15, <2>16 DEF WorkflowStep
<1>6. CASE Reboot
  <2>1. /\ \A u \in Tasks : pc'[u] = "loop"
        /\ UNCHANGED <<events, feeds, poured>>
    BY <1>6 DEF Reboot, Boot
  <2> QED
    BY <2>1 DEF FeedInv, InWorkflow, EventsTruthful, WorkflowSteps, BeforePour,
                AfterPour, AfterReport, MlSteps
<1> QED
  BY <1>2, <1>3, <1>4, <1>5, <1>6 DEF Next

\* The feed invariant holds of every behaviour.
LEMMA FeedInvHolds == Spec => []FeedInv
<1>1. Init => FeedInv
  BY DEF Init, FeedInv, EventsTruthful, InWorkflow, WorkflowSteps, BeforePour,
         AfterPour, AfterReport, MlSteps
<1> QED
  BY <1>1, Typing, FeedsNeverOverlap, FeedInvStep, PTL DEF Spec

\* Whatever is lost and whenever power goes, an event of a positive amount is
\* the event of a completed motor run, and each feed has one event at most.
THEOREM EventsTellTheTruth == Spec => []EventsTruthful
<1>1. FeedInv => EventsTruthful
  BY DEF FeedInv
<1> QED
  BY <1>1, FeedInvHolds, PTL

-----------------------------------------------------------------------------
(***************************************************************************)
(* Notices agree with events.  What makes it inductive: nothing is told of *)
(* the feed in progress before its event has been posted, and from there   *)
(* to the low-food notice its event, if it arrived, says what the task     *)
(* holds.                                                                  *)
(***************************************************************************)
Untold == BeforePour \cup AfterPour \cup {"notify"}

NoticeInv ==
    /\ \A n \in notices : n.feed <= feeds
    /\ \A t \in Tasks :
          /\ pc[t] \in Untold => \A n \in notices : n.feed # feeds
          /\ pc[t] \in {"notify", "low_notice"}
                => \A e \in events : e.feed = feeds => e.low = job[t].low
          /\ pc[t] = "low_notice" => job[t].low
    /\ NoticesAgree

\* A step that tells nothing, logs nothing and begins no feed keeps NoticeInv.
LEMMA NoticeInvQuiet ==
    ASSUME TypeOK, NoticeInv, NEW t \in Tasks,
           UNCHANGED <<events, notices, feeds>>,
           \A u \in Tasks \ {t} : pc'[u] = pc[u] /\ job'[u] = job[u],
           \/ pc'[t] \notin WorkflowSteps
           \/ /\ pc'[t] \notin {"notify", "low_notice"}
              /\ pc'[t] \in Untold => pc[t] \in Untold
    PROVE  NoticeInv'
BY DEF NoticeInv, NoticesAgree, Untold, WorkflowSteps, AfterReport

\* One step keeps notices and events in agreement.
LEMMA NoticeInvStep ==
    TypeOK /\ MutexOwned /\ FeedInv /\ NoticeInv /\ [Next]_vars => NoticeInv'
<1> SUFFICES ASSUME TypeOK, MutexOwned, FeedInv, NoticeInv, [Next]_vars PROVE NoticeInv'
  OBVIOUS
<1> USE DEF cloudVars, ghosts
<1>1. CASE UNCHANGED <<events, notices, feeds, pc, job>>
  BY <1>1 DEF NoticeInv, NoticesAgree
<1>2. CASE AppSendCommand \/ AppSetCamera \/ CameraPoll \/ PollNothing \/ UNCHANGED vars
  BY <1>2, <1>1 DEF AppSendCommand, AppSetCamera, CameraPoll, PollNothing, vars
<1>3. CASE CommandStep
  <2>1. /\ UNCHANGED <<events, notices, feeds>>
        /\ \A u \in Tasks \ {"cmd_poll"} : pc'[u] = pc[u] /\ job'[u] = job[u]
        /\ pc'["cmd_poll"] \in {"ack", "call"}
    BY <1>3 DEF CommandStep, PollCommand, AckCommand, TypeOK, Tasks
  <2> QED
    BY <2>1, NoticeInvQuiet
       DEF Tasks, WorkflowSteps, BeforePour, AfterPour, AfterReport, MlSteps
<1>4. CASE ScheduleFires
  <2>1. /\ UNCHANGED <<events, notices, feeds>>
        /\ \A u \in Tasks \ {"sched_runner"} : pc'[u] = pc[u] /\ job'[u] = job[u]
        /\ pc'["sched_runner"] = "call"
    BY <1>4 DEF ScheduleFires, TypeOK, Tasks
  <2> QED
    BY <2>1, NoticeInvQuiet
       DEF Tasks, WorkflowSteps, BeforePour, AfterPour, AfterReport, MlSteps
<1>5. ASSUME NEW t \in Tasks, WorkflowStep(t) PROVE NoticeInv'
  <2> USE DEF WorkflowSteps, BeforePour, AfterPour, AfterReport, MlSteps, Untold
  <2>0. InWorkflow(t) => /\ job[t].feed = feeds
                         /\ \A u \in Tasks \ {t} : ~InWorkflow(u)
    BY DEF FeedInv, MutexOwned
  <2>1. CASE StartFeed(t)
    <3>1. /\ feeds \in Nat /\ feeds' = feeds + 1
          /\ UNCHANGED <<events, notices>>
          /\ pc'[t] = "beep"
          /\ \A u \in Tasks \ {t} : pc'[u] = pc[u]
      BY <2>1, GotoMoves DEF StartFeed, TypeOK
    <3>2. \A u \in Tasks \ {t} : pc'[u] \notin WorkflowSteps
      BY <2>1, <3>1 DEF StartFeed, MutexOwned, InWorkflow, Tasks, NoTask
    <3>3. \A n \in notices : n.feed \in Nat /\ n.feed <= feeds
      BY DEF NoticeInv, TypeOK
    <3>4. \A n \in notices' : n.feed <= feeds' /\ n.feed # feeds'
      BY <3>1, <3>3
    <3> QED
      BY <3>1, <3>2, <3>4 DEF NoticeInv, NoticesAgree
  <2>2. CASE IgnoreTrigger(t)
    BY <2>2, GotoMoves, NoticeInvQuiet DEF IgnoreTrigger, TypeOK
  <2>3. CASE AbortFeed(t)
    BY <2>3, GotoMoves, NoticeInvQuiet DEF AbortFeed, TypeOK
  <2>4. CASE GiveMutex(t)
    BY <2>4, GotoMoves, NoticeInvQuiet DEF GiveMutex, TypeOK
  <2>5. CASE Beep(t)
    BY <2>5, GotoMoves, NoticeInvQuiet DEF Beep
  <2>6. CASE PetComes(t)
    BY <2>6, GotoMoves, NoticeInvQuiet DEF PetComes
  <2>7. CASE Dispense(t)
    BY <2>7, GotoMoves, NoticeInvQuiet DEF Dispense
  <2>8. CASE CameraOn(t)
    BY <2>8, GotoMoves, NoticeInvQuiet DEF CameraOn
  <2>9. CASE CameraOff(t)
    BY <2>9, GotoMoves, NoticeInvQuiet DEF CameraOff
  <2>10. CASE DetectSitting(t)
    BY <2>10, GotoMoves, NoticeInvQuiet DEF DetectSitting, TypeOK, Jobs
  <2>11. CASE CheckLevel(t)
    BY <2>11, GotoMoves, NoticeInvQuiet DEF CheckLevel, TypeOK, Jobs
  <2>12. CASE MotorDone(t)
    BY <2>12, GotoMoves, NoticeInvQuiet DEF MotorDone
  <2>13. CASE LogEvent(t)
    <3> DEFINE new == [feed |-> feeds, grams |-> job[t].grams, low |-> job[t].low]
    <3>1. /\ pc[t] = "log" /\ pc'[t] = "notify"
          /\ \A u \in Tasks \ {t} : pc'[u] = pc[u] /\ pc[u] \notin WorkflowSteps
          /\ job[t].feed = feeds
          /\ UNCHANGED <<feeds, notices, job>>
      BY <2>0, <2>13, GotoMoves DEF LogEvent, InWorkflow
    <3>2. events' = events \/ events' = events \cup {new}
      BY <2>13, <3>1 DEF LogEvent, EventOf
    <3>3. /\ \A e \in events : e.feed # feeds
          /\ \A n \in notices : n.feed # feeds
      BY <3>1 DEF FeedInv, NoticeInv
    <3>4. \A e \in events' : e.feed = feeds => e.low = job[t].low
      BY <3>2, <3>3
    <3>5. NoticesAgree'
      BY <3>1, <3>2, <3>3 DEF NoticeInv, NoticesAgree
    <3> QED
      BY <3>1, <3>3, <3>4, <3>5 DEF NoticeInv
  <2>14. CASE Notify(t)
    <3> DEFINE verdict == IF job[t].sitting THEN "sitting" ELSE "fed"
    <3>1. /\ pc[t] = "notify"
          /\ pc'[t] = IF job[t].low THEN "low_notice" ELSE "give"
          /\ \A u \in Tasks \ {t} : pc'[u] = pc[u] /\ pc[u] \notin WorkflowSteps
          /\ job[t].feed = feeds
          /\ UNCHANGED <<feeds, events, job>>
      BY <2>0, <2>14, GotoMoves DEF Notify, InWorkflow
    <3>2. notices' = notices \/ notices' = notices \cup {[feed |-> feeds, kind |-> verdict]}
      BY <2>14, <3>1 DEF Notify, Push, NoticesFor
    <3>3. \A n \in notices : n.feed # feeds
      BY <3>1 DEF NoticeInv
    <3>4. feeds \in Nat /\ \A n \in notices' : n.feed <= feeds
      BY <3>2 DEF NoticeInv, TypeOK
    <3>5. NoticesAgree'
      BY <3>1, <3>2, <3>3 DEF NoticeInv, NoticesAgree
    <3> QED
      BY <3>1, <3>4, <3>5 DEF NoticeInv
  <2>15. CASE NotifyLow(t)
    <3>1. /\ pc[t] = "low_notice" /\ pc'[t] = "low_flag"
          /\ \A u \in Tasks \ {t} : pc'[u] = pc[u] /\ pc[u] \notin WorkflowSteps
          /\ job[t].feed = feeds
          /\ UNCHANGED <<feeds, events, job>>
      BY <2>0, <2>15, GotoMoves DEF NotifyLow, InWorkflow
    <3>2. notices' = notices \/ notices' = notices \cup {[feed |-> feeds, kind |-> "low"]}
      BY <2>15, <3>1 DEF NotifyLow, Push, NoticesFor
    <3>3. \A e \in events : e.feed = feeds => e.low
      BY <3>1 DEF NoticeInv
    <3>4. feeds \in Nat /\ \A n \in notices' : n.feed <= feeds
      BY <3>2 DEF NoticeInv, TypeOK
    <3>5. NoticesAgree'
      BY <3>1, <3>2, <3>3 DEF NoticeInv, NoticesAgree
    <3> QED
      BY <3>1, <3>4, <3>5 DEF NoticeInv
  <2>16. CASE FlagLow(t)
    BY <2>16, GotoMoves, NoticeInvQuiet DEF FlagLow
  <2> QED
    BY <1>5, <2>1, <2>2, <2>3, <2>4, <2>5, <2>6, <2>7, <2>8, <2>9, <2>10,
       <2>11, <2>12, <2>13, <2>14, <2>15, <2>16 DEF WorkflowStep
<1>6. CASE Reboot
  <2>1. /\ \A u \in Tasks : pc'[u] = "loop"
        /\ UNCHANGED <<events, notices, feeds>>
    BY <1>6 DEF Reboot, Boot
  <2> QED
    BY <2>1 DEF NoticeInv, NoticesAgree, Untold, BeforePour, AfterPour, MlSteps
<1> QED
  BY <1>2, <1>3, <1>4, <1>5, <1>6 DEF Next

\* What the owner is told never contradicts the log, whichever of the posts are
\* lost and whenever power goes.
THEOREM NoticesTellTheSame == Spec => []NoticesAgree
<1>1. Init => NoticeInv
  BY DEF Init, NoticeInv, NoticesAgree, Untold, BeforePour, AfterPour, MlSteps
<1>2. NoticeInv => NoticesAgree
  BY DEF NoticeInv
<1> QED
  BY <1>1, <1>2, Typing, FeedsNeverOverlap, FeedInvHolds, NoticeInvStep, PTL DEF Spec

-----------------------------------------------------------------------------
(***************************************************************************)
(* A forced feed pours before it ends: it never stands where a feed waits  *)
(* for the pet, the only way out before the motor, and a feed behind the   *)
(* motor has poured.                                                       *)
(***************************************************************************)
PetSteps == {"tof", "camera_on"} \cup MlSteps

ForcedInv ==
    \A t \in Tasks :
        /\ job[t].force => pc[t] \notin PetSteps
        /\ pc[t] \in AfterPour \cup AfterReport /\ job[t].grams > 0
              => <<job[t].feed, job[t].grams>> \in poured

\* A step that takes task t where ForcedInv asks nothing of it.
LEMMA ForcedFree ==
    ASSUME ForcedInv, NEW t \in Tasks, poured' = poured,
           \A u \in Tasks \ {t} : pc'[u] = pc[u] /\ job'[u] = job[u],
           pc'[t] \notin PetSteps \cup AfterPour \cup AfterReport
    PROVE  ForcedInv'
BY DEF ForcedInv

\* A step that forgets nothing poured and takes task t to no stage that its
\* feed has not earned.
LEMMA ForcedEarned ==
    ASSUME ForcedInv, NEW t \in Tasks, poured \subseteq poured',
           \A u \in Tasks \ {t} : pc'[u] = pc[u] /\ job'[u] = job[u],
           job'[t].force = job[t].force,
           job'[t].feed = job[t].feed, job'[t].grams = job[t].grams,
           pc'[t] \in PetSteps => pc[t] \in PetSteps \/ ~job[t].force,
           pc'[t] \in AfterPour \cup AfterReport
              => \/ pc[t] \in AfterPour \cup AfterReport
                 \/ ~(job[t].grams > 0)
                 \/ <<job[t].feed, job[t].grams>> \in poured'
    PROVE  ForcedInv'
BY DEF ForcedInv

\* One step keeps a forced feed on its way.
LEMMA ForcedInvStep == TypeOK /\ ForcedInv /\ [Next]_vars => ForcedInv'
<1> SUFFICES ASSUME TypeOK, ForcedInv, [Next]_vars PROVE ForcedInv'
  OBVIOUS
<1> USE DEF cloudVars, ghosts
<1>1. CASE UNCHANGED <<poured, pc, job>>
  BY <1>1 DEF ForcedInv
<1>2. CASE AppSendCommand \/ AppSetCamera \/ CameraPoll \/ PollNothing \/ UNCHANGED vars
  BY <1>2, <1>1 DEF AppSendCommand, AppSetCamera, CameraPoll, PollNothing, vars
<1>3. CASE CommandStep
  <2>1. /\ poured' = poured
        /\ \A u \in Tasks \ {"cmd_poll"} : pc'[u] = pc[u] /\ job'[u] = job[u]
        /\ pc'["cmd_poll"] \in {"ack", "call"}
    BY <1>3 DEF CommandStep, PollCommand, AckCommand, TypeOK, Tasks
  <2> QED
    BY <2>1, ForcedFree DEF Tasks, PetSteps, AfterPour, AfterReport, MlSteps
<1>4. CASE ScheduleFires
  <2>1. /\ poured' = poured
        /\ \A u \in Tasks \ {"sched_runner"} : pc'[u] = pc[u] /\ job'[u] = job[u]
        /\ pc'["sched_runner"] = "call"
    BY <1>4 DEF ScheduleFires, TypeOK, Tasks
  <2> QED
    BY <2>1, ForcedFree DEF Tasks, PetSteps, AfterPour, AfterReport, MlSteps
<1>5. ASSUME NEW t \in Tasks, WorkflowStep(t) PROVE ForcedInv'
  <2> USE DEF PetSteps, AfterPour, AfterReport, MlSteps
  <2>1. CASE StartFeed(t)
    <3>1. /\ pc'[t] = "beep" /\ poured' = poured
          /\ \A u \in Tasks \ {t} : pc'[u] = pc[u] /\ job'[u] = job[u]
      BY <2>1, GotoMoves DEF StartFeed, TypeOK
    <3> QED
      BY <3>1, ForcedFree
  <2>2. CASE IgnoreTrigger(t) \/ AbortFeed(t) \/ GiveMutex(t)
    <3>1. /\ pc'[t] = "loop" /\ poured' = poured
          /\ \A u \in Tasks \ {t} : pc'[u] = pc[u] /\ job'[u] = job[u]
      BY <2>2, GotoMoves DEF IgnoreTrigger, AbortFeed, GiveMutex, TypeOK
    <3> QED
      BY <3>1, ForcedFree
  <2>3. CASE Beep(t)
    <3>1. /\ pc'[t] = IF job[t].force THEN "dispense" ELSE "tof"
          /\ UNCHANGED <<job, poured>>
          /\ \A u \in Tasks \ {t} : pc'[u] = pc[u]
      BY <2>3, GotoMoves DEF Beep
    <3> QED
      BY <3>1, ForcedEarned
  <2>4. CASE PetComes(t) \/ CameraOn(t)
    <3>1. /\ pc[t] \in PetSteps /\ pc'[t] \in PetSteps
          /\ UNCHANGED <<job, poured>>
          /\ \A u \in Tasks \ {t} : pc'[u] = pc[u]
      BY <2>4, GotoMoves DEF PetComes, CameraOn
    <3> QED
      BY <3>1, ForcedEarned
  <2>5. CASE CameraOff(t)
    <3>1. /\ pc'[t] = "dispense" /\ UNCHANGED <<job, poured>>
          /\ \A u \in Tasks \ {t} : pc'[u] = pc[u]
      BY <2>5, GotoMoves DEF CameraOff
    <3> QED
      BY <3>1, ForcedEarned
  <2>6. CASE Dispense(t)
    <3>1. /\ pc'[t] = IF job[t].grams > 0 THEN "motor" ELSE "level"
          /\ UNCHANGED <<job, poured>>
          /\ \A u \in Tasks \ {t} : pc'[u] = pc[u]
      BY <2>6, GotoMoves DEF Dispense
    <3> QED
      BY <3>1, ForcedEarned
  <2>7. CASE MotorDone(t)
    <3>1. /\ pc'[t] = "level" /\ job' = job
          /\ poured' = poured \cup {<<job[t].feed, job[t].grams>>}
          /\ \A u \in Tasks \ {t} : pc'[u] = pc[u]
      BY <2>7, GotoMoves DEF MotorDone
    <3> QED
      BY <3>1, ForcedEarned
  <2>8. CASE LogEvent(t) \/ Notify(t) \/ NotifyLow(t) \/ FlagLow(t)
    <3>1. /\ pc[t] \in AfterPour \cup AfterReport
          /\ pc'[t] \in AfterReport /\ UNCHANGED <<job, poured>>
          /\ \A u \in Tasks \ {t} : pc'[u] = pc[u]
      BY <2>8, GotoMoves DEF LogEvent, Notify, NotifyLow, FlagLow
    <3> QED
      BY <3>1, ForcedEarned
  <2>9. CASE DetectSitting(t)
    <3>1. /\ pc[t] = "sitting" /\ pc'[t] = "camera_off" /\ poured' = poured
          /\ \A u \in Tasks \ {t} : pc'[u] = pc[u] /\ job'[u] = job[u]
      BY <2>9, GotoMoves DEF DetectSitting, TypeOK
    <3>2. /\ job'[t].force = job[t].force
          /\ job'[t].feed = job[t].feed /\ job'[t].grams = job[t].grams
      BY <2>9 DEF DetectSitting, TypeOK, Jobs
    <3> QED
      BY <3>1, <3>2, ForcedEarned
  <2>10. CASE CheckLevel(t)
    <3>1. /\ pc[t] = "level" /\ pc'[t] = "log" /\ poured' = poured
          /\ \A u \in Tasks \ {t} : pc'[u] = pc[u] /\ job'[u] = job[u]
      BY <2>10, GotoMoves DEF CheckLevel, TypeOK
    <3>2. /\ job'[t].force = job[t].force
          /\ job'[t].feed = job[t].feed /\ job'[t].grams = job[t].grams
      BY <2>10 DEF CheckLevel, TypeOK, Jobs
    <3> QED
      BY <3>1, <3>2, ForcedEarned
  <2> QED
    BY <1>5, <2>1, <2>2, <2>3, <2>4, <2>5, <2>6, <2>7, <2>8, <2>9, <2>10
       DEF WorkflowStep
<1>6. CASE Reboot
  <2>1. \A u \in Tasks : pc'[u] = "loop"
    BY <1>6 DEF Reboot, Boot
  <2> QED
    BY <2>1 DEF ForcedInv, PetSteps, AfterPour, AfterReport, MlSteps
<1> QED
  BY <1>2, <1>3, <1>4, <1>5, <1>6 DEF Next

\* The ways out of the workflow: an abort, which is not open to a forced feed,
\* the end, behind the motor, and a power loss.
LEMMA WaysOut ==
    ASSUME TypeOK, ForcedInv, [Next]_vars, NEW u \in Tasks
    PROVE  EndsPoured(u)
<1> USE DEF cloudVars, ghosts
<1>1. CASE pc'[u] = pc[u]
  BY <1>1 DEF EndsPoured, InWorkflow
<1>2. CASE Reboot
  BY <1>2 DEF Reboot, EndsPoured, TypeOK
<1>3. CASE CommandStep \/ ScheduleFires
  <2>1. pc'[u] = pc[u] \/ pc[u] \in {"loop", "ack"}
    BY <1>3 DEF CommandStep, PollCommand, AckCommand, ScheduleFires, TypeOK, Tasks
  <2> QED
    BY <2>1, <1>1 DEF EndsPoured, InWorkflow, WorkflowSteps, BeforePour, AfterPour,
                      AfterReport, MlSteps
<1>4. ASSUME NEW t \in Tasks, WorkflowStep(t) PROVE EndsPoured(u)
  <2>1. CASE u # t
    <3>1. \E from, to : Goto(t, from, to)
      BY <1>4 DEF WorkflowStep, StartFeed, IgnoreTrigger, Beep, PetComes, AbortFeed,
                  CameraOn, DetectSitting, CameraOff, Dispense, MotorDone, CheckLevel,
                  LogEvent, Notify, NotifyLow, FlagLow, GiveMutex
    <3> QED
      BY <2>1, <3>1, <1>1, GotoMoves
  <2>2. CASE u = t
    <3>1. CASE AbortFeed(t)
      BY <2>2, <3>1, GotoMoves DEF AbortFeed, ForcedInv, EndsPoured, PetSteps
    <3>2. CASE GiveMutex(t)
      BY <2>2, <3>2, GotoMoves DEF GiveMutex, ForcedInv, EndsPoured, AfterReport
    <3>3. CASE IgnoreTrigger(t)
      BY <2>2, <3>3, GotoMoves
         DEF IgnoreTrigger, EndsPoured, InWorkflow, WorkflowSteps, BeforePour,
             AfterPour, AfterReport, MlSteps
    <3>4. CASE StartFeed(t) \/ Beep(t) \/ PetComes(t) \/ CameraOn(t)
               \/ DetectSitting(t) \/ CameraOff(t) \/ Dispense(t)
      <4>1. pc'[t] \in WorkflowSteps
        BY <3>4, GotoMoves
           DEF StartFeed, Beep, PetComes, CameraOn, DetectSitting, CameraOff, Dispense,
               WorkflowSteps, BeforePour, AfterPour, MlSteps
      <4> QED
        BY <2>2, <4>1 DEF EndsPoured, InWorkflow
    <3>5. CASE MotorDone(t) \/ CheckLevel(t) \/ LogEvent(t) \/ Notify(t)
               \/ NotifyLow(t) \/ FlagLow(t)
      <4>1. pc'[t] \in WorkflowSteps
        BY <3>5, GotoMoves
           DEF MotorDone, CheckLevel, LogEvent, Notify, NotifyLow, FlagLow,
               WorkflowSteps, AfterPour, AfterReport
      <4> QED
        BY <2>2, <4>1 DEF EndsPoured, InWorkflow
    <3> QED
      BY <1>4, <3>1, <3>2, <3>3, <3>4, <3>5 DEF WorkflowStep
  <2> QED
    BY <2>1, <2>2
<1>5. CASE AppSendCommand \/ AppSetCamera \/ CameraPoll \/ PollNothing \/ UNCHANGED vars
  BY <1>1, <1>5 DEF AppSendCommand, AppSetCamera, CameraPoll, PollNothing, vars
<1> QED
  BY <1>2, <1>3, <1>4, <1>5 DEF Next

\* "Quick Feed" keeps its promise: no forced feed of a real amount ends, but
\* for a power loss, without having moved that amount.
THEOREM QuickFeedPours == Spec => ForcedFeedPours
<1>1. Init => ForcedInv
  BY DEF Init, ForcedInv, PetSteps, AfterPour, AfterReport, MlSteps
<1>2. TypeOK /\ ForcedInv /\ [Next]_vars => [\A t \in Tasks : EndsPoured(t)]_vars
  BY WaysOut
<1> QED
  BY <1>1, <1>2, Typing, ForcedInvStep, PTL DEF Spec, ForcedFeedPours
-----------------------------------------------------------------------------
(* The feed service: seen through the mapping at the end of FeedWorkflow,  *)
(* every step is one of FeedService or none at all.                        *)

\* The amounts and feeds of the events, as FeedService sees them.
Reports == {<<e.feed, e.grams>> : e \in events}

\* A step that moves no task within, into or out of the workflow, and leaves
\* the holder's call, the log and the history alone, is invisible.
LEMMA Invisible ==
    ASSUME UNCHANGED <<feedMutex, feeds, poured, events>>,
           feedMutex # NoTask =>
              /\ job'[feedMutex].grams = job[feedMutex].grams
              /\ pc'[feedMutex] \in BeforePour <=> pc[feedMutex] \in BeforePour
              /\ pc'[feedMutex] \in AfterPour <=> pc[feedMutex] \in AfterPour
    PROVE  UNCHANGED Service!vars
BY DEF Service!vars, phase, asked

\* A step of a task inside the workflow keeps the mutex with that task.
LEMMA HolderSteps ==
    ASSUME TypeOK, MutexOwned, NEW t \in Tasks, pc[t] \in WorkflowSteps
    PROVE  feedMutex = t /\ t # NoTask
BY DEF MutexOwned, InWorkflow, Tasks, NoTask

\* Every step of the workflow is a step of the service or a stutter.
LEMMA ServiceStep ==
    TypeOK /\ MutexOwned /\ FeedInv /\ [Next]_vars
        => [Service!Next]_(Service!vars)
<1> SUFFICES ASSUME TypeOK, MutexOwned, FeedInv, [Next]_vars
             PROVE  [Service!Next]_(Service!vars)
  OBVIOUS
<1> USE DEF cloudVars, ghosts
<1>1. CASE AppSendCommand \/ AppSetCamera \/ CameraPoll \/ PollNothing \/ UNCHANGED vars
  <2>1. UNCHANGED <<feedMutex, feeds, poured, events, pc, job>>
    BY <1>1 DEF AppSendCommand, AppSetCamera, CameraPoll, PollNothing, vars
  <2> QED
    BY <2>1, Invisible
<1>2. CASE CommandStep
  <2>1. /\ UNCHANGED <<feedMutex, feeds, poured, events>>
        /\ \A u \in Tasks \ {"cmd_poll"} : pc'[u] = pc[u] /\ job'[u] = job[u]
        /\ pc["cmd_poll"] \in {"loop", "ack"}
    BY <1>2 DEF CommandStep, PollCommand, AckCommand, TypeOK, Tasks
  <2>2. feedMutex # "cmd_poll" /\ feedMutex \in Tasks \cup {NoTask}
    BY <2>1 DEF MutexOwned, InWorkflow, Tasks, WorkflowSteps, BeforePour,
                AfterPour, AfterReport, MlSteps, TypeOK
  <2> QED
    BY <2>1, <2>2, Invisible
<1>3. CASE ScheduleFires
  <2>1. /\ UNCHANGED <<feedMutex, feeds, poured, events>>
        /\ \A u \in Tasks \ {"sched_runner"} : pc'[u] = pc[u] /\ job'[u] = job[u]
        /\ pc["sched_runner"] = "loop"
    BY <1>3 DEF ScheduleFires, TypeOK, Tasks
  <2>2. feedMutex # "sched_runner" /\ feedMutex \in Tasks \cup {NoTask}
    BY <2>1 DEF MutexOwned, InWorkflow, Tasks, WorkflowSteps, BeforePour,
                AfterPour, AfterReport, MlSteps, TypeOK
  <2> QED
    BY <2>1, <2>2, Invisible
<1>4. ASSUME NEW t \in Tasks, WorkflowStep(t) PROVE [Service!Next]_(Service!vars)
  <2> USE DEF BeforePour, AfterPour, MlSteps
  <2>1. CASE StartFeed(t)
    <3>1. /\ feedMutex = NoTask /\ feedMutex' = t /\ t # NoTask
          /\ feeds' = feeds + 1 /\ pc'[t] = "beep"
          /\ job'[t].grams = job[t].grams /\ job[t].grams \in Int
          /\ UNCHANGED <<poured, events>>
      BY <2>1, GotoMoves, GramsAssumption DEF StartFeed, TypeOK, Jobs, Tasks, NoTask
    <3>2. Service!Begin
      BY <3>1 DEF Service!Begin, phase, asked
    <3> QED
      BY <3>2 DEF Service!Next
  <2>2. CASE IgnoreTrigger(t)
    <3>1. pc[t] = "call" /\ UNCHANGED <<feedMutex, feeds, poured, events>>
      BY <2>2, GotoMoves DEF IgnoreTrigger
    <3>2. feedMutex \in Tasks \ {t}
      BY <2>2, <3>1 DEF IgnoreTrigger, MutexOwned, InWorkflow, WorkflowSteps,
                        AfterReport, TypeOK
    <3>3. \A u \in Tasks \ {t} : pc'[u] = pc[u] /\ job'[u] = job[u]
      BY <2>2, GotoMoves DEF IgnoreTrigger, TypeOK
    <3> QED
      BY <3>1, <3>2, <3>3, Invisible
  <2>3. CASE AbortFeed(t)
    <3>1. /\ pc[t] = "tof" /\ feedMutex' = NoTask
          /\ UNCHANGED <<feeds, poured, events>>
      BY <2>3, GotoMoves DEF AbortFeed
    <3>2. feedMutex = t /\ t # NoTask
      BY <3>1, HolderSteps DEF WorkflowSteps
    <3>3. Service!GiveUp
      BY <3>1, <3>2 DEF Service!GiveUp, phase, asked
    <3> QED
      BY <3>3 DEF Service!Next, Service!Progress
  <2>4. CASE Beep(t)
    <3>1. /\ pc[t] = "beep" /\ pc'[t] \in BeforePour
          /\ UNCHANGED <<feedMutex, feeds, poured, events, job>>
      BY <2>4, GotoMoves DEF Beep
    <3> QED
      BY <3>1, HolderSteps, Invisible DEF WorkflowSteps
  <2>5. CASE PetComes(t) \/ CameraOn(t) \/ CameraOff(t)
    <3>1. /\ pc[t] \in BeforePour /\ pc'[t] \in BeforePour
          /\ UNCHANGED <<feedMutex, feeds, poured, events, job>>
      BY <2>5, GotoMoves DEF PetComes, CameraOn, CameraOff
    <3> QED
      BY <3>1, HolderSteps, Invisible DEF WorkflowSteps
  <2>6. CASE DetectSitting(t)
    <3>1. /\ pc[t] \in BeforePour /\ pc'[t] \in BeforePour
          /\ job'[t].grams = job[t].grams
          /\ UNCHANGED <<feedMutex, feeds, poured, events>>
      BY <2>6, GotoMoves DEF DetectSitting, TypeOK, Jobs
    <3> QED
      BY <3>1, HolderSteps, Invisible DEF WorkflowSteps
  <2>7. CASE Dispense(t)
    <3>1. /\ pc[t] = "dispense"
          /\ UNCHANGED <<feedMutex, feeds, poured, events, job>>
      BY <2>7, GotoMoves DEF Dispense
    <3>2. feedMutex = t /\ t # NoTask
      BY <3>1, HolderSteps DEF WorkflowSteps
    <3>3. job[t].grams \in Int
      BY GramsAssumption DEF TypeOK, Jobs
    <3>4. CASE job[t].grams > 0
      <4>1. pc'[t] = "motor"
        BY <2>7, <3>4, GotoMoves DEF Dispense
      <4> QED
        BY <3>1, <3>2, <4>1, Invisible
    <3>5. CASE ~(job[t].grams > 0)
      <4>1. pc'[t] = "level"
        BY <2>7, <3>5, GotoMoves DEF Dispense
      <4>2. Service!Refuse
        BY <3>1, <3>2, <3>3, <3>5, <4>1 DEF Service!Refuse, phase, asked
      <4> QED
        BY <4>2 DEF Service!Next, Service!Progress
    <3> QED
      BY <3>4, <3>5
  <2>8. CASE MotorDone(t)
    <3>1. /\ pc[t] = "motor" /\ pc'[t] = "level"
          /\ poured' = poured \cup {<<job[t].feed, job[t].grams>>}
          /\ UNCHANGED <<feedMutex, feeds, events, job>>
      BY <2>8, GotoMoves DEF MotorDone
    <3>2. feedMutex = t /\ t # NoTask /\ job[t].feed = feeds
      BY <3>1, HolderSteps DEF WorkflowSteps, FeedInv, InWorkflow
    <3>3. job[t].grams > 0
      BY <3>1 DEF FeedInv
    <3>4. Service!Pour
      BY <3>1, <3>2, <3>3 DEF Service!Pour, phase, asked
    <3> QED
      BY <3>4 DEF Service!Next, Service!Progress
  <2>9. CASE CheckLevel(t)
    <3>1. /\ pc[t] = "level" /\ pc'[t] = "log"
          /\ job'[t].grams = job[t].grams
          /\ UNCHANGED <<feedMutex, feeds, poured, events>>
      BY <2>9, GotoMoves DEF CheckLevel, TypeOK, Jobs
    <3> QED
      BY <3>1, HolderSteps, Invisible DEF WorkflowSteps
  <2>10. CASE LogEvent(t)
    <3>1. /\ pc[t] = "log" /\ pc'[t] = "notify"
          /\ UNCHANGED <<feedMutex, feeds, poured, job>>
      BY <2>10, GotoMoves DEF LogEvent
    <3>2. feedMutex = t /\ t # NoTask /\ job[t].feed = feeds
      BY <3>1, HolderSteps DEF WorkflowSteps, FeedInv, InWorkflow
    <3>3. events' = events \/ events' = events \cup {EventOf(job[t])}
      BY <2>10 DEF LogEvent
    <3>4. Reports' = Reports \/ Reports' = Reports \cup {<<feeds, job[t].grams>>}
      BY <3>2, <3>3 DEF Reports, EventOf
    <3>5. Service!Report
      BY <3>1, <3>2, <3>4 DEF Service!Report, phase, asked, Reports
    <3> QED
      BY <3>5 DEF Service!Next, Service!Progress
  <2>11. CASE Notify(t) \/ NotifyLow(t) \/ FlagLow(t)
    <3>1. /\ pc[t] \in AfterReport /\ pc'[t] \in AfterReport
          /\ UNCHANGED <<feedMutex, feeds, poured, events, job>>
      <4>1. CASE Notify(t)
        BY <4>1, GotoMoves DEF Notify, AfterReport
      <4>2. CASE NotifyLow(t)
        BY <4>2, GotoMoves DEF NotifyLow, AfterReport
      <4>3. CASE FlagLow(t)
        BY <4>3, GotoMoves DEF FlagLow, AfterReport
      <4> QED
        BY <2>11, <4>1, <4>2, <4>3
    <3> QED
      BY <3>1, HolderSteps, Invisible DEF WorkflowSteps, AfterReport
  <2>12. CASE GiveMutex(t)
    <3>1. /\ pc[t] = "give" /\ feedMutex' = NoTask
          /\ UNCHANGED <<feeds, poured, events>>
      BY <2>12, GotoMoves DEF GiveMutex
    <3>2. feedMutex = t /\ t # NoTask
      BY <3>1, HolderSteps DEF WorkflowSteps, AfterReport
    <3>3. Service!Finish
      BY <3>1, <3>2 DEF Service!Finish, phase, asked
    <3> QED
      BY <3>3 DEF Service!Next, Service!Progress
  <2> QED
    BY <1>4, <2>1, <2>2, <2>3, <2>4, <2>5, <2>6, <2>7, <2>8, <2>9, <2>10,
       <2>11, <2>12 DEF WorkflowStep
<1>5. CASE Reboot
  <2>1. feedMutex' = NoTask /\ UNCHANGED <<feeds, poured, events>>
    BY <1>5 DEF Reboot, Boot
  <2>2. Service!PowerLoss
    BY <2>1 DEF Service!PowerLoss, phase, asked
  <2> QED
    BY <2>2 DEF Service!Next
<1> QED
  BY <1>1, <1>2, <1>3, <1>4, <1>5 DEF Next

\* Under any interleaving of the two tasks, losses and restarts, the feeder
\* behaves as a service that serves one feed at a time, gives up only before
\* any food has moved, and reports only after its dispense step.
THEOREM WorkflowImplementsService ==
    Spec => Service!Init /\ [][Service!Next]_(Service!vars)
<1>1. Init => Service!Init
  BY DEF Init, Service!Init, phase, asked
<1> QED
  BY <1>1, Typing, FeedsNeverOverlap, FeedInvHolds, ServiceStep, PTL DEF Spec

-----------------------------------------------------------------------------
(***************************************************************************)
(* The feeder.  Its steps are steps of the workflow and of the runner, so  *)
(* that what is proved of each holds of the two together.                  *)
(***************************************************************************)
RP == INSTANCE ScheduleRunnerProofs WITH pc <- runner, MaxRequests <- 0

\* The feeder's constants are as the runner's theorems want them.
LEMMA RunnerConstants ==
    /\ Tables \subseteq Seq(RP!Entries) /\ Tables # {}
    /\ SlotsPerMinute \in Nat \ {0} /\ MinutesPerDay \in Nat \ {0}
    /\ DaysPerWeek \in Nat \ {0} /\ CheckSlots \in Nat \ {0}
    /\ RefreshSlots \in Nat \ {0} /\ MaxFetchSlots \in Nat /\ MaxFeedSlots \in Nat
    /\ MaxSchedules \in Nat /\ Horizon \in Nat /\ MaxEdits \in Nat
    /\ 0 \in Nat /\ MaxFailures \in Nat /\ MaxReboots \in Nat
<1>1. RP!Entries = Runner!Entries
  BY DEF RP!Entries, Runner!Entries, RP!NoTime, Runner!NoTime
<1> QED
  BY <1>1, FeederAssumption, BoundsAssumption

\* Every step of the feeder is one of the workflow, or none.
LEMMA WorkflowSide == [FeederNext]_feederVars => [Next]_vars
<1> SUFFICES ASSUME [FeederNext]_feederVars PROVE [Next]_vars
  OBVIOUS
<1>1. CASE AppOrders
  BY <1>1 DEF AppOrders, Next
<1>2. ASSUME NEW t \in Tasks, FeedBegins(t) \/ FeedIgnored(t) PROVE [Next]_vars
  BY <1>2 DEF FeedBegins, FeedIgnored, Next, WorkflowStep
<1>3. CASE WorkflowAlone
  BY <1>3 DEF WorkflowAlone, Next, WorkflowStep
<1>4. CASE AppEditsSchedules \/ RunnerAlone \/ CallReturns
  <2>1. UNCHANGED vars
    BY <1>4 DEF AppEditsSchedules, RunnerAlone, CallReturns
  <2> QED
    BY <2>1
<1>5. CASE RunnerCalls
  BY <1>5 DEF RunnerCalls, Next
<1>6. CASE DeviceRestarts
  BY <1>6 DEF DeviceRestarts, Next
<1>7. CASE UNCHANGED feederVars
  <2>1. UNCHANGED vars
    BY <1>7 DEF feederVars
  <2> QED
    BY <2>1
<1> QED
  BY <1>1, <1>2, <1>3, <1>4, <1>5, <1>6, <1>7 DEF FeederNext

\* The steps of the workflow alone restart nothing.
LEMMA NoRestart ==
    ASSUME NEW t \in Tasks,
           AppSendCommand \/ AppSetCamera \/ CameraPoll \/ PollNothing \/ CommandStep
              \/ WorkflowStep(t)
    PROVE  UNCHANGED reboots
<1> USE DEF ghosts
<1>1. CASE AppSendCommand \/ AppSetCamera \/ CameraPoll \/ PollNothing \/ CommandStep
  BY <1>1 DEF AppSendCommand, AppSetCamera, CameraPoll, PollNothing, CommandStep,
              PollCommand, AckCommand, vars
<1>2. CASE WorkflowStep(t)
  BY <1>2 DEF WorkflowStep, StartFeed, IgnoreTrigger, Beep, PetComes, AbortFeed,
              CameraOn, DetectSitting, CameraOff, Dispense, MotorDone, CheckLevel,
              LogEvent, Notify, NotifyLow, FlagLow, GiveMutex
<1> QED
  BY <1>1, <1>2

\* Every step of the feeder is one of the runner, or none.
LEMMA RunnerSide == [FeederNext]_feederVars => [RP!Next]_(RP!vars)
<1> SUFFICES ASSUME [FeederNext]_feederVars PROVE [RP!Next]_(RP!vars)
  OBVIOUS
<1> USE DEF RP!taskVars, Runner!taskVars, RP!vars, Runner!vars, RP!NoTime, Runner!NoTime
<1>1. CASE UNCHANGED <<runnerVars, reboots>>
  BY <1>1 DEF runnerVars
<1>2. CASE AppOrders \/ (\E t \in Tasks : FeedBegins(t) \/ FeedIgnored(t)) \/ WorkflowAlone
  BY <1>1, <1>2, NoRestart
     DEF AppOrders, FeedBegins, FeedIgnored, WorkflowAlone, WorkflowStep, Tasks
<1>3. CASE AppEditsSchedules
  BY <1>3 DEF AppEditsSchedules, Runner!AppEdit, RP!AppEdit, RP!Next
<1>4. CASE RunnerAlone
  <2>1. CASE Runner!Tick
    BY <2>1 DEF Runner!Tick, RP!Tick, Runner!Patience, RP!Patience, RP!Next
  <2>2. CASE Runner!FetchReturns
    <3>1. ASSUME NEW raw PROVE RP!Parsed(raw) = Runner!Parsed(raw)
      <4>1. RP!Kept(raw) = Runner!Kept(raw)
        BY DEF RP!Kept, Runner!Kept, RP!Accepted, Runner!Accepted, RP!Cardinality,
               Runner!Cardinality, RP!IsFiniteSet, Runner!IsFiniteSet
      <4> QED
        BY <4>1 DEF RP!Parsed, Runner!Parsed
    <3>2. RP!FetchReturns
      BY <2>2, <3>1 DEF Runner!FetchReturns, RP!FetchReturns, Runner!FetchFails,
            RP!FetchFails, Runner!FetchSucceeds, RP!FetchSucceeds
    <3> QED
      BY <3>2 DEF RP!Next
  <2>3. CASE Runner!WakeUp \/ Runner!Decide \/ Runner!Clear \/ Runner!SendGet
    BY <2>3 DEF Runner!WakeUp, RP!WakeUp, Runner!Decide, RP!Decide, Runner!TimeToRefresh,
          RP!TimeToRefresh, Runner!Clear, RP!Clear, Runner!SendGet, RP!SendGet, RP!Next
  <2>4. CASE Runner!NothingToFire
    BY <2>4 DEF Runner!NothingToFire, RP!NothingToFire, Runner!AlreadyFired,
          RP!AlreadyFired, Runner!Matching, RP!Matching, Runner!Hhmm, RP!Hhmm, Runner!Wday,
          RP!Wday, Runner!IsoIndex, RP!IsoIndex, RP!Next
  <2> QED
    BY <1>4, <2>1, <2>2, <2>3, <2>4 DEF RunnerAlone
<1>5. CASE RunnerCalls
  BY <1>5 DEF RunnerCalls, Runner!Fire, RP!Fire, Runner!Remember, RP!Remember,
        Runner!AlreadyFired, RP!AlreadyFired, Runner!Matching, RP!Matching, Runner!Hhmm,
        RP!Hhmm, Runner!Wday, RP!Wday, Runner!IsoIndex, RP!IsoIndex, RP!Next
<1>6. CASE CallReturns
  BY <1>6 DEF CallReturns, Runner!FeedReturns, RP!FeedReturns, RP!Next
<1>7. CASE DeviceRestarts
  BY <1>7 DEF DeviceRestarts, Runner!Reboot, RP!Reboot, Runner!NoTable, RP!NoTable, RP!Next
<1>8. CASE UNCHANGED feederVars
  <2>1. UNCHANGED <<runnerVars, reboots>>
    BY <1>8 DEF feederVars, vars
  <2> QED
    BY <1>1, <2>1
<1> QED
  BY <1>2, <1>3, <1>4, <1>5, <1>6, <1>7, <1>8 DEF FeederNext

\* The feeder implements both of its parts: what is proved of the workflow, and of
\* the schedule runner, for every behaviour of theirs, holds of the two together.
THEOREM FeederRunsBoth == FeederSpec => Spec /\ RP!Spec
<1>1. FeederInit => Init /\ RP!Init
  BY DEF FeederInit, Runner!Init, RP!Init, Runner!NoTable, RP!NoTable, Runner!NoTime,
         RP!NoTime
<1> QED
  BY <1>1, WorkflowSide, RunnerSide, PTL DEF FeederSpec, Spec, RP!Spec

-----------------------------------------------------------------------------
\* What the history records keeps its type.
LEMMA HistoryTypeStep ==
    TypeOK /\ FeederTypeOK /\ [FeederNext]_feederVars
        => /\ orders' \in Seq(Commands)
           /\ causes' \in Seq([cmd : CmdIds \cup {0}, call : Nat])
           /\ excused' \subseteq Nat
<1> SUFFICES ASSUME TypeOK, FeederTypeOK, [FeederNext]_feederVars
             PROVE  /\ orders' \in Seq(Commands)
                    /\ causes' \in Seq([cmd : CmdIds \cup {0}, call : Nat])
                    /\ excused' \subseteq Nat
  OBVIOUS
<1> USE DEF FeederTypeOK, history
<1>1. CASE AppOrders
  <2>1. issued + 1 \in CmdIds
    BY <1>1, BoundsAssumption DEF AppOrders, AppSendCommand, CmdIds, TypeOK
  <2>2. pending' \in Commands
    BY <1>1, <2>1, OffersAssumption DEF AppOrders, AppSendCommand, Commands
  <2> QED
    BY <1>1, <2>2 DEF AppOrders
<1>2. ASSUME NEW t \in Tasks, FeedBegins(t)
      PROVE  causes' \in Seq([cmd : CmdIds \cup {0}, call : Nat])
  <2>1. job[t].cmd \in CmdIds \cup {0} /\ fires \in Nat
    BY BoundsAssumption DEF TypeOK, Jobs
  <2>2. Cause(t) \in [cmd : CmdIds \cup {0}, call : Nat]
    BY <2>1 DEF Cause
  <2> QED
    BY <1>2, <2>2 DEF FeedBegins
<1>3. ASSUME NEW t \in Tasks, FeedIgnored(t) PROVE excused' \subseteq Nat
  BY <1>3, BoundsAssumption DEF FeedIgnored, TypeOK
<1> QED
  BY <1>1, <1>2, <1>3
     DEF FeederNext, FeedBegins, FeedIgnored, WorkflowAlone, AppEditsSchedules,
         RunnerAlone, RunnerCalls, CallReturns, DeviceRestarts, feederVars

\* The feeder's variables keep their types.
THEOREM FeederTyping == FeederSpec => []FeederTypeOK
<1>1. RP!TypeOK => Runner!TypeOK
  BY DEF RP!TypeOK, Runner!TypeOK, RP!Locations, Runner!Locations, RP!Blocking,
         Runner!Blocking, RP!Entries, Runner!Entries, RP!NoTime, Runner!NoTime
<1>2. RP!Spec => []RP!TypeOK
  BY RP!RunnerTyping, RunnerConstants
<1>3. FeederInit /\ TypeOK /\ Runner!TypeOK => FeederTypeOK
  BY DEF FeederInit, FeederTypeOK
<1>4. /\ FeederTypeOK /\ [FeederNext]_feederVars /\ TypeOK /\ TypeOK' /\ Runner!TypeOK'
      => FeederTypeOK'
  BY HistoryTypeStep DEF FeederTypeOK
<1> QED
  BY <1>1, <1>2, <1>3, <1>4, FeederRunsBoth, Typing, PTL DEF FeederSpec

-----------------------------------------------------------------------------
(***************************************************************************)
(* Why a feed pours what was asked for, and for whom.  EveryPourAsked is   *)
(* not inductive: it rests on the way an amount takes, from the cloud to   *)
(* the command task (OrderInv), from the runner to the schedule task       *)
(* (CallInv), from the call to the feed (CauseInv) and to the motor        *)
(* (PourInv).                                                              *)
(***************************************************************************)
OrderInv ==
    /\ issued = Len(orders)
    /\ pending # NoCmd
          => pending.id \in 1 .. Len(orders) /\ pending = orders[pending.id]
    /\ pc["cmd_poll"] # "loop"
          => LET c == job["cmd_poll"].cmd IN
                /\ c \in 1 .. Len(orders) /\ orders[c].action = "dispense"
                /\ job["cmd_poll"].grams = Ordered(c)

CallInv ==
    /\ fires = Len(fired)
    /\ job["sched_runner"].cmd = 0
    /\ pc["sched_runner"] # "ack"
    /\ pc["sched_runner"] # "loop"
          => /\ runner = "feed" /\ fires > 0
             /\ job["sched_runner"].grams = fired[fires].entry.grams

CauseInv ==
    /\ feeds = Len(causes)
    /\ \A f \in 1 .. Len(causes) :
          IF causes[f].call = 0
          THEN causes[f].cmd \in 1 .. Len(orders)
               /\ orders[causes[f].cmd].action = "dispense"
          ELSE causes[f].call \in 1 .. Len(fired)
    /\ \A f, g \in 1 .. Len(causes) :
          causes[f].call # 0 /\ causes[f].call = causes[g].call => f = g
    /\ pc["sched_runner"] = "call" => ~BeganFeed(fires)
    /\ \A t \in Tasks :
          InWorkflow(t) => job[t].feed \in 1 .. Len(causes)
                           /\ causes[job[t].feed] = Cause(t)

\* What feed f is to move.
Owed(f) == IF causes[f].call = 0 THEN Ordered(causes[f].cmd)
           ELSE fired[causes[f].call].entry.grams

PourInv == \A p \in poured : p[1] \in 1 .. Len(causes) /\ p[2] = Owed(p[1])

\* A step of a feed in progress: it stays one, or it ends.
InnerStep(t) ==
    \/ Beep(t) \/ PetComes(t) \/ AbortFeed(t)
    \/ CameraOn(t) \/ DetectSitting(t) \/ CameraOff(t)
    \/ Dispense(t) \/ MotorDone(t) \/ CheckLevel(t)
    \/ LogEvent(t) \/ Notify(t) \/ NotifyLow(t) \/ FlagLow(t) \/ GiveMutex(t)

SameJob(t) == /\ job'[t].feed = job[t].feed /\ job'[t].cmd = job[t].cmd
              /\ job'[t].grams = job[t].grams

Inside(t) ==
    /\ InWorkflow(t)
    /\ \/ InWorkflow(t)' /\ SameJob(t)
       \/ pc'[t] = "loop" /\ job'[t] = NoJob
    /\ \A u \in Tasks \ {t} : pc'[u] = pc[u] /\ job'[u] = job[u]
    /\ UNCHANGED <<pending, issued, fires, reboots, feeds>>
    /\ poured' = poured \/ poured' = poured \cup {<<job[t].feed, job[t].grams>>}

\* A step of a feed in progress touches no job but its own, and pours what that carries.
LEMMA InnerSteps ==
    ASSUME TypeOK, NEW t \in Tasks, InnerStep(t)
    PROVE  Inside(t)
<1> USE DEF Inside, InWorkflow, SameJob, WorkflowSteps, BeforePour, AfterPour, AfterReport,
            MlSteps, cloudVars, ghosts
<1>1. \A b \in BOOLEAN :
         /\ [job[t] EXCEPT !.sitting = b].feed = job[t].feed
         /\ [job[t] EXCEPT !.sitting = b].cmd = job[t].cmd
         /\ [job[t] EXCEPT !.sitting = b].grams = job[t].grams
         /\ [job[t] EXCEPT !.low = b].feed = job[t].feed
         /\ [job[t] EXCEPT !.low = b].cmd = job[t].cmd
         /\ [job[t] EXCEPT !.low = b].grams = job[t].grams
  BY DEF TypeOK, Jobs
<1>2. CASE Beep(t) \/ PetComes(t) \/ CameraOn(t) \/ CameraOff(t) \/ Dispense(t)
  BY <1>2, GotoMoves DEF Beep, PetComes, CameraOn, CameraOff, Dispense
<1>3. CASE AbortFeed(t) \/ GiveMutex(t)
  BY <1>3, GotoMoves DEF AbortFeed, GiveMutex, TypeOK
<1>4. CASE DetectSitting(t)
  BY <1>1, <1>4, GotoMoves DEF DetectSitting, TypeOK
<1>5. CASE CheckLevel(t)
  BY <1>1, <1>5, GotoMoves DEF CheckLevel, TypeOK
<1>6. CASE MotorDone(t)
  BY <1>6, GotoMoves DEF MotorDone
<1>7. CASE LogEvent(t)
  BY <1>7, GotoMoves DEF LogEvent
<1>8. CASE Notify(t)
  BY <1>8, GotoMoves DEF Notify
<1>9. CASE NotifyLow(t)
  BY <1>9, GotoMoves DEF NotifyLow
<1>10. CASE FlagLow(t)
  BY <1>10, GotoMoves DEF FlagLow
<1> QED
  BY <1>2, <1>3, <1>4, <1>5, <1>6, <1>7, <1>8, <1>9, <1>10 DEF InnerStep

\* A step that leaves the calls, the feeds and the commands alone: one of the runner
\* by itself, of the live view or of the clock.
Elsewhere ==
    /\ UNCHANGED <<pending, pc, job, issued, fires, feeds, poured, reboots, fired, history>>
    /\ runner = "feed" => runner' = "feed" \/ pc["sched_runner"] = "loop"
    /\ \/ minute' = minute /\ (steady' => steady)
       \/ minute' = minute + 1

\* Every step of the feeder is one of these.
LEMMA FeederSteps ==
    ASSUME FeederTypeOK, [FeederNext]_feederVars
    PROVE  \/ AppOrders \/ RunnerCalls \/ DeviceRestarts \/ Elsewhere
           \/ (PollCommand \/ AckCommand) /\ UNCHANGED <<runnerVars, history>>
           \/ \E t \in Tasks :
                 \/ FeedBegins(t) \/ FeedIgnored(t)
                 \/ InnerStep(t) /\ UNCHANGED <<runnerVars, history>>
<1> USE DEF history, ghosts, cloudVars
<1>1. CASE WorkflowAlone
  <2>1. CASE AppSetCamera \/ CameraPoll \/ PollNothing
    BY <1>1, <2>1
       DEF WorkflowAlone, runnerVars, Elsewhere, AppSetCamera, CameraPoll, PollNothing, vars
  <2> QED
    BY <1>1, <2>1 DEF WorkflowAlone, CommandStep, InnerStep
<1>2. CASE AppEditsSchedules
  BY <1>2 DEF AppEditsSchedules, Runner!AppEdit, Elsewhere, vars, Runner!taskVars
<1>3. CASE RunnerAlone
  <2> USE DEF RunnerAlone, Elsewhere, vars
  <2>1. CASE Runner!Tick
    BY <1>3, <2>1 DEF Runner!Tick
  <2>2. CASE Runner!FetchReturns
    BY <1>3, <2>2 DEF Runner!FetchReturns
  <2>3. CASE Runner!WakeUp \/ Runner!Decide \/ Runner!Clear \/ Runner!SendGet
    BY <1>3, <2>3 DEF Runner!WakeUp, Runner!Decide, Runner!Clear, Runner!SendGet
  <2>4. CASE Runner!NothingToFire
    BY <1>3, <2>4 DEF Runner!NothingToFire
  <2> QED
    BY <1>3, <2>1, <2>2, <2>3, <2>4
<1>4. CASE CallReturns
  BY <1>4 DEF CallReturns, Runner!FeedReturns, Elsewhere, vars
<1>5. CASE UNCHANGED feederVars
  BY <1>5 DEF feederVars, runnerVars, Elsewhere, vars
<1>6. CASE \E t \in Tasks : FeedBegins(t) \/ FeedIgnored(t)
  BY <1>6
<1> QED
  BY <1>1, <1>2, <1>3, <1>4, <1>5, <1>6 DEF FeederNext

\* What a call of the runner does to what the invariants speak of.
LEMMA CallFacts ==
    ASSUME FeederTypeOK, RunnerCalls
    PROVE  /\ Len(fired) \in Nat /\ Len(fired') = Len(fired) + 1
           /\ \A k \in 1 .. Len(fired) : fired'[k] = fired[k]
           /\ fired'[Len(fired) + 1].minute = minute
           /\ fired'[Len(fired) + 1].boot = reboots
           /\ fires' = fires + 1 /\ runner' = "feed"
           /\ pc["sched_runner"] = "loop" /\ pc'["sched_runner"] = "call"
           /\ job'["sched_runner"].cmd = 0
           /\ job'["sched_runner"].grams = fired'[Len(fired')].entry.grams
           /\ pc'["cmd_poll"] = pc["cmd_poll"] /\ job'["cmd_poll"] = job["cmd_poll"]
           /\ UNCHANGED <<minute, steady, reboots, issued, feeds, poured, history>>
<1> DEFINE call(i) == [minute |-> minute, boot |-> reboots, entry |-> table[i]]
<1>1. PICK i \in DOMAIN table : fired' = Append(fired, call(i))
  BY DEF RunnerCalls, Runner!Fire, Runner!Matching
<1>2. /\ fired \in Seq([minute : Nat, boot : Nat, entry : Runner!Entries])
      /\ call(i) \in [minute : Nat, boot : Nat, entry : Runner!Entries]
  BY BoundsAssumption DEF FeederTypeOK, Runner!TypeOK
<1>3. /\ Len(fired) \in Nat /\ Len(fired') = Len(fired) + 1
      /\ \A k \in 1 .. Len(fired) : fired'[k] = fired[k]
      /\ fired'[Len(fired) + 1] = call(i)
  <2> HIDE DEF call
  <2> QED
    BY <1>1, <1>2
<1>4. call(i).minute = minute /\ call(i).boot = reboots
  OBVIOUS
<1>5. /\ runner' = "feed" /\ UNCHANGED <<minute, steady, reboots, history>>
      /\ job'["sched_runner"].grams = fired'[Len(fired')].entry.grams
  BY DEF RunnerCalls, Runner!Fire
<1>6. /\ fires' = fires + 1
      /\ pc["sched_runner"] = "loop" /\ pc'["sched_runner"] = "call"
      /\ job'["sched_runner"].cmd = 0
      /\ pc'["cmd_poll"] = pc["cmd_poll"] /\ job'["cmd_poll"] = job["cmd_poll"]
      /\ UNCHANGED <<issued, feeds, poured>>
  BY DEF RunnerCalls, ScheduleFires, FeederTypeOK, TypeOK, Tasks, NoJob
<1> QED
  BY <1>3, <1>4, <1>5, <1>6

\* What the start of a feed does to it.
LEMMA BeginFacts ==
    ASSUME FeederTypeOK, NEW t \in Tasks, FeedBegins(t)
    PROVE  /\ Len(causes) \in Nat /\ Len(causes') = Len(causes) + 1
           /\ \A k \in 1 .. Len(causes) : causes'[k] = causes[k]
           /\ causes'[Len(causes) + 1] = Cause(t) /\ Cause(t)' = Cause(t)
           /\ feeds' = feeds + 1
           /\ pc[t] = "call" /\ pc'[t] = "beep"
           /\ job'[t].feed = feeds + 1
           /\ job'[t].cmd = job[t].cmd /\ job'[t].grams = job[t].grams
           /\ \A u \in Tasks \ {t} : pc'[u] = pc[u] /\ job'[u] = job[u]
           /\ UNCHANGED <<fires, issued, pending, reboots, poured, runnerVars, orders,
                          excused>>
<1>1. /\ causes \in Seq([cmd : CmdIds \cup {0}, call : Nat])
      /\ Cause(t) \in [cmd : CmdIds \cup {0}, call : Nat]
      /\ causes' = Append(causes, Cause(t))
  BY BoundsAssumption DEF FeederTypeOK, FeedBegins, Cause, TypeOK, Jobs
<1>2. /\ Len(causes) \in Nat /\ Len(causes') = Len(causes) + 1
      /\ \A k \in 1 .. Len(causes) : causes'[k] = causes[k]
      /\ causes'[Len(causes) + 1] = Cause(t)
  BY <1>1
<1>3. /\ feeds' = feeds + 1
      /\ pc[t] = "call" /\ pc'[t] = "beep"
      /\ job'[t].feed = feeds + 1
      /\ job'[t].cmd = job[t].cmd /\ job'[t].grams = job[t].grams
      /\ \A u \in Tasks \ {t} : pc'[u] = pc[u] /\ job'[u] = job[u]
      /\ UNCHANGED <<fires, issued, pending, reboots, poured, runnerVars, orders, excused>>
  BY DEF FeedBegins, StartFeed, Goto, FeederTypeOK, TypeOK, Jobs, cloudVars
<1>4. Cause(t)' = Cause(t)
  BY <1>3 DEF Cause
<1> QED
  BY <1>2, <1>3, <1>4

\* What a call that meets the mutex does to it.
LEMMA IgnoreFacts ==
    ASSUME FeederTypeOK, NEW t \in Tasks, FeedIgnored(t)
    PROVE  /\ feedMutex # NoTask
           /\ pc[t] = "call" /\ pc'[t] = "loop" /\ job'[t] = NoJob
           /\ \A u \in Tasks \ {t} : pc'[u] = pc[u] /\ job'[u] = job[u]
           /\ UNCHANGED <<fires, issued, pending, reboots, poured, feeds, runnerVars,
                          orders, causes>>
           /\ excused' = IF t = "sched_runner" /\ InWorkflow("cmd_poll")
                         THEN excused \cup {fires} ELSE excused
BY DEF FeedIgnored, IgnoreTrigger, Goto, FeederTypeOK, TypeOK, cloudVars, ghosts

\* What a step of the command poll does to it.
LEMMA PollFacts ==
    ASSUME FeederTypeOK, PollCommand \/ AckCommand, UNCHANGED <<runnerVars, history>>
    PROVE  /\ pc["cmd_poll"] \in {"loop", "ack"} /\ pc'["cmd_poll"] \in {"ack", "call"}
           /\ pc'["sched_runner"] = pc["sched_runner"]
           /\ job'["sched_runner"] = job["sched_runner"]
           /\ UNCHANGED <<fires, issued, reboots, poured, feeds, runnerVars, history>>
BY DEF PollCommand, AckCommand, FeederTypeOK, TypeOK, Tasks, ghosts

\* What a command of the app does to it.
LEMMA OrderFacts ==
    ASSUME FeederTypeOK, AppOrders
    PROVE  /\ Len(orders) \in Nat /\ Len(orders') = Len(orders) + 1
           /\ \A c \in 1 .. Len(orders) : orders'[c] = orders[c]
           /\ orders'[Len(orders) + 1] = pending'
           /\ pending'.id = issued + 1 /\ issued' = issued + 1
           /\ UNCHANGED <<pc, job, fires, reboots, poured, feeds, runnerVars, causes,
                          excused>>
<1>1. orders \in Seq(Commands) /\ pending' \in Commands
  <2>1. issued + 1 \in CmdIds
    BY BoundsAssumption DEF AppOrders, AppSendCommand, CmdIds, FeederTypeOK, TypeOK
  <2> QED
    BY <2>1, OffersAssumption DEF AppOrders, AppSendCommand, Commands, FeederTypeOK
<1> QED
  BY <1>1 DEF AppOrders, AppSendCommand

\* What a restart does to it.
LEMMA RestartFacts ==
    ASSUME FeederTypeOK, DeviceRestarts
    PROVE  /\ \A t \in Tasks : pc'[t] = "loop" /\ job'[t] = NoJob
           /\ reboots' = reboots + 1 /\ steady' = FALSE
           /\ UNCHANGED <<pending, fires, issued, poured, feeds, minute, fired, history>>
BY DEF DeviceRestarts, Reboot, Boot, Runner!Reboot, FeederTypeOK, TypeOK, cloudVars

-----------------------------------------------------------------------------
\* After one step, what the schedule task carries is still what the runner fired last.
LEMMA CallStep == FeederTypeOK /\ CallInv /\ [FeederNext]_feederVars => CallInv'
<1> SUFFICES ASSUME FeederTypeOK, CallInv, [FeederNext]_feederVars PROVE CallInv'
  OBVIOUS
<1> USE DEF CallInv, runnerVars
<1>0. TypeOK /\ "sched_runner" \in Tasks /\ "cmd_poll" # "sched_runner"
  BY DEF FeederTypeOK, Tasks
<1>1. CASE AppOrders
  BY <1>1, OrderFacts
<1>2. CASE Elsewhere
  BY <1>2 DEF Elsewhere
<1>3. CASE RunnerCalls
  BY <1>3, CallFacts
<1>4. CASE DeviceRestarts
  BY <1>0, <1>4, RestartFacts DEF NoJob
<1>5. CASE (PollCommand \/ AckCommand) /\ UNCHANGED <<runnerVars, history>>
  BY <1>5, PollFacts
<1>6. ASSUME NEW t \in Tasks, FeedBegins(t) PROVE CallInv'
  BY <1>0, <1>6, BeginFacts
<1>7. ASSUME NEW t \in Tasks, FeedIgnored(t) PROVE CallInv'
  BY <1>0, <1>7, IgnoreFacts DEF NoJob
<1>8. ASSUME NEW t \in Tasks, InnerStep(t), UNCHANGED <<runnerVars, history>>
      PROVE  CallInv'
  <2>1. Inside(t)
    BY <1>0, <1>8, InnerSteps
  <2>2. pc[t] \notin {"loop", "ack"} /\ pc'[t] # "ack"
    BY <2>1 DEF Inside, InWorkflow, WorkflowSteps, BeforePour, AfterPour, AfterReport,
                MlSteps
  <2> QED
    BY <1>0, <1>8, <2>1, <2>2 DEF Inside, SameJob, NoJob
<1> QED
  BY <1>1, <1>2, <1>3, <1>4, <1>5, <1>6, <1>7, <1>8, FeederSteps

\* After one step, what the command task carries is still what the app ordered.
LEMMA OrderStep == FeederTypeOK /\ OrderInv /\ [FeederNext]_feederVars => OrderInv'
<1> SUFFICES ASSUME FeederTypeOK, OrderInv, [FeederNext]_feederVars PROVE OrderInv'
  OBVIOUS
<1> USE DEF OrderInv, Ordered, history
<1>0. TypeOK /\ "cmd_poll" \in Tasks /\ "cmd_poll" # "sched_runner"
  BY DEF FeederTypeOK, Tasks
<1>1. CASE AppOrders
  BY <1>1, OrderFacts
<1>2. CASE Elsewhere
  BY <1>2 DEF Elsewhere
<1>3. CASE RunnerCalls
  BY <1>3, CallFacts DEF RunnerCalls, ScheduleFires, cloudVars
<1>4. CASE DeviceRestarts
  BY <1>0, <1>4, RestartFacts
<1>5. CASE (PollCommand \/ AckCommand) /\ UNCHANGED <<runnerVars, history>>
  <2>1. CASE PollCommand
    <3>1. pending # NoCmd /\ pending.action = "dispense" /\ pending = orders[pending.id]
          /\ pending.id \in 1 .. Len(orders)
      BY <2>1 DEF PollCommand, Waiting
    <3>2. /\ job'["cmd_poll"].cmd = pending.id
          /\ job'["cmd_poll"].grams = AskedGrams(pending)
      BY <1>0, <2>1 DEF PollCommand, TypeOK, NoJob
    <3> QED
      BY <1>5, <2>1, <3>1, <3>2 DEF PollCommand, AskedGrams, cloudVars, ghosts
  <2>2. CASE AckCommand
    BY <1>0, <1>5, <2>2 DEF AckCommand, AckApplied, AckLost, TypeOK
  <2> QED
    BY <1>5, <2>1, <2>2
<1>6. ASSUME NEW t \in Tasks, FeedBegins(t) PROVE OrderInv'
  BY <1>0, <1>6, BeginFacts
<1>7. ASSUME NEW t \in Tasks, FeedIgnored(t) PROVE OrderInv'
  BY <1>0, <1>7, IgnoreFacts
<1>8. ASSUME NEW t \in Tasks, InnerStep(t), UNCHANGED <<runnerVars, history>>
      PROVE  OrderInv'
  <2>1. Inside(t)
    BY <1>0, <1>8, InnerSteps
  <2>2. pc[t] # "loop"
    BY <2>1 DEF Inside, InWorkflow, WorkflowSteps, BeforePour, AfterPour, AfterReport,
                MlSteps
  <2> QED
    BY <1>0, <1>8, <2>1, <2>2 DEF Inside, SameJob
<1> QED
  BY <1>1, <1>2, <1>3, <1>4, <1>5, <1>6, <1>7, <1>8, FeederSteps

\* One step keeps each feed tied to one command, or to one call of the runner.
LEMMA CauseStep ==
    /\ FeederTypeOK /\ OrderInv /\ CallInv /\ CauseInv /\ [FeederNext]_feederVars
    => CauseInv'
<1> SUFFICES ASSUME FeederTypeOK, OrderInv, CallInv, CauseInv, [FeederNext]_feederVars
             PROVE  CauseInv'
  OBVIOUS
<1> USE DEF CauseInv, BeganFeed, runnerVars, history
<1>0. /\ TypeOK /\ "sched_runner" \in Tasks /\ "cmd_poll" \in Tasks
      /\ Len(orders) \in Nat /\ Len(fired) \in Nat /\ Len(causes) \in Nat
      /\ "cmd_poll" # "sched_runner" /\ Tasks = {"cmd_poll", "sched_runner"}
      /\ \A f \in 1 .. Len(causes) : causes[f].call \in Nat
  BY DEF FeederTypeOK, Tasks, Runner!TypeOK
<1>1. \A t \in Tasks : ~InWorkflow(t) \/ pc[t] \notin {"loop", "ack", "call"}
  BY DEF InWorkflow, WorkflowSteps, BeforePour, AfterPour, AfterReport, MlSteps
<1>2. CASE AppOrders
  BY <1>0, <1>2, OrderFacts DEF InWorkflow, Cause, OrderInv
<1>3. CASE Elsewhere
  BY <1>3 DEF Elsewhere, InWorkflow, Cause
<1>4. CASE RunnerCalls
  <2>1. ~InWorkflow("sched_runner")' /\ InWorkflow("cmd_poll")' = InWorkflow("cmd_poll")
    BY <1>4, CallFacts
       DEF InWorkflow, WorkflowSteps, BeforePour, AfterPour, AfterReport, MlSteps
  <2>2. Cause("cmd_poll")' = Cause("cmd_poll")
    BY <1>0, <1>4, CallFacts DEF Cause
  <2>3. fires = Len(fired)
    BY DEF CallInv
  <2> QED
    BY <1>0, <1>4, <2>1, <2>2, <2>3, CallFacts
<1>5. CASE DeviceRestarts
  BY <1>0, <1>5, RestartFacts
     DEF InWorkflow, WorkflowSteps, BeforePour, AfterPour, AfterReport, MlSteps
<1>6. CASE (PollCommand \/ AckCommand) /\ UNCHANGED <<runnerVars, history>>
  <2>1. ~InWorkflow("cmd_poll")' /\ InWorkflow("sched_runner")' = InWorkflow("sched_runner")
    BY <1>6, PollFacts
       DEF InWorkflow, WorkflowSteps, BeforePour, AfterPour, AfterReport, MlSteps
  <2> QED
    BY <1>0, <1>6, <2>1, PollFacts DEF Cause
<1>7. ASSUME NEW t \in Tasks, FeedBegins(t) PROVE CauseInv'
  <2>1. feeds' = Len(causes')
    BY <1>0, <1>7, BeginFacts
  <2>2. IF Cause(t).call = 0
        THEN Cause(t).cmd \in 1 .. Len(orders) /\ orders[Cause(t).cmd].action = "dispense"
        ELSE Cause(t).call \in 1 .. Len(fired) /\ ~BeganFeed(Cause(t).call)
    <3>1. CASE t = "sched_runner"
      BY <1>0, <1>7, <3>1, BeginFacts DEF Cause, CallInv
    <3>2. CASE t = "cmd_poll"
      BY <1>0, <1>7, <3>2, BeginFacts DEF Cause, OrderInv
    <3> QED
      BY <1>0, <3>1, <3>2
  <2>3. \A f \in 1 .. Len(causes') :
           IF causes'[f].call = 0
           THEN causes'[f].cmd \in 1 .. Len(orders')
                /\ orders'[causes'[f].cmd].action = "dispense"
           ELSE causes'[f].call \in 1 .. Len(fired')
    <3>1. UNCHANGED <<orders, fired>>
      BY <1>7, BeginFacts
    <3>2. \A f \in 1 .. Len(causes') :
             \/ f \in 1 .. Len(causes) /\ causes'[f] = causes[f]
             \/ causes'[f] = Cause(t)
      BY <1>0, <1>7, BeginFacts
    <3> QED
      BY <2>2, <3>1, <3>2
  <2>4. \A f, g \in 1 .. Len(causes') :
           causes'[f].call # 0 /\ causes'[f].call = causes'[g].call => f = g
    <3>1. /\ \A k \in 1 .. Len(causes) : causes'[k] = causes[k]
          /\ causes'[Len(causes) + 1] = Cause(t)
          /\ \A k \in 1 .. Len(causes') : k \in 1 .. Len(causes) \/ k = Len(causes) + 1
      BY <1>0, <1>7, BeginFacts
    <3>2. \A f \in 1 .. Len(causes) : Cause(t).call # 0 => causes[f].call # Cause(t).call
      BY <2>2
    <3> QED
      BY <3>1, <3>2
  <2>5. pc'["sched_runner"] = "call" => ~BeganFeed(fires)'
    <3> SUFFICES ASSUME pc'["sched_runner"] = "call" PROVE ~BeganFeed(fires)'
      OBVIOUS
    <3>1. t = "cmd_poll" /\ pc["sched_runner"] = "call"
      BY <1>0, <1>7, BeginFacts
    <3>2. Cause(t).call # fires
      BY <1>0, <3>1 DEF Cause, CallInv
    <3> QED
      BY <1>0, <1>7, <3>1, <3>2, BeginFacts
  <2>6. ASSUME NEW u \in Tasks, InWorkflow(u)'
        PROVE  job'[u].feed \in 1 .. Len(causes') /\ causes'[job'[u].feed] = Cause(u)'
    <3>1. CASE u = t
      BY <1>0, <1>7, <3>1, BeginFacts
    <3>2. CASE u # t
      <4>1. Cause(u)' = Cause(u) /\ InWorkflow(u)
        <5>1. pc'[u] = pc[u] /\ job'[u] = job[u] /\ fires' = fires
          BY <1>7, <3>2, BeginFacts
        <5> QED
          BY <2>6, <5>1 DEF Cause, InWorkflow
      <4> QED
        BY <1>0, <1>7, <3>2, <4>1, BeginFacts
    <3> QED
      BY <3>1, <3>2
  <2> QED
    BY <2>1, <2>3, <2>4, <2>5, <2>6
<1>8. ASSUME NEW t \in Tasks, FeedIgnored(t) PROVE CauseInv'
  <2>1. \A u \in Tasks : InWorkflow(u)' => u # t /\ InWorkflow(u) /\ Cause(u)' = Cause(u)
    BY <1>8, IgnoreFacts
       DEF InWorkflow, WorkflowSteps, BeforePour, AfterPour, AfterReport, MlSteps, Cause
  <2>2. /\ UNCHANGED <<causes, orders, fired, fires, feeds>>
        /\ pc'["sched_runner"] = "call" => pc["sched_runner"] = "call"
        /\ \A u \in Tasks : u # t => job'[u] = job[u]
    BY <1>0, <1>8, IgnoreFacts
  <2> QED
    BY <2>1, <2>2
<1>9. ASSUME NEW t \in Tasks, InnerStep(t), UNCHANGED <<runnerVars, history>>
      PROVE  CauseInv'
  <2>1. Inside(t)
    BY <1>0, <1>9, InnerSteps
  <2>2. \A u \in Tasks :
           InWorkflow(u)' => /\ InWorkflow(u) /\ Cause(u)' = Cause(u)
                             /\ job'[u].feed = job[u].feed
    BY <2>1 DEF Inside, SameJob, Cause, InWorkflow, WorkflowSteps, BeforePour, AfterPour,
                AfterReport, MlSteps
  <2>3. pc'["sched_runner"] = "call" => pc["sched_runner"] = "call"
    BY <1>0, <2>1 DEF Inside, InWorkflow, WorkflowSteps, BeforePour, AfterPour,
                      AfterReport, MlSteps
  <2> QED
    BY <1>9, <2>1, <2>2, <2>3 DEF Inside
<1> QED
  BY <1>2, <1>3, <1>4, <1>5, <1>6, <1>7, <1>8, <1>9, FeederSteps

\* The records only grow, so that what a feed owes stays what it was.
LEMMA OwedStays ==
    ASSUME FeederTypeOK, CauseInv, [FeederNext]_feederVars, NEW f \in 1 .. Len(causes)
    PROVE  f \in 1 .. Len(causes') /\ Owed(f)' = Owed(f)
<1> USE DEF history, runnerVars, Owed, Ordered
<1>0. /\ Len(causes) \in Nat /\ TypeOK
      /\ IF causes[f].call = 0 THEN causes[f].cmd \in 1 .. Len(orders)
         ELSE causes[f].call \in 1 .. Len(fired)
  BY DEF CauseInv, FeederTypeOK
<1>1. CASE AppOrders
  BY <1>0, <1>1, OrderFacts
<1>2. CASE RunnerCalls
  BY <1>0, <1>2, CallFacts
<1>3. CASE DeviceRestarts \/ Elsewhere
  BY <1>0, <1>3, RestartFacts DEF Elsewhere
<1>4. CASE (PollCommand \/ AckCommand) /\ UNCHANGED <<runnerVars, history>>
  BY <1>0, <1>4
<1>5. ASSUME NEW t \in Tasks, FeedBegins(t)
      PROVE  f \in 1 .. Len(causes') /\ Owed(f)' = Owed(f)
  BY <1>0, <1>5, BeginFacts
<1>6. ASSUME NEW t \in Tasks, FeedIgnored(t)
      PROVE  f \in 1 .. Len(causes') /\ Owed(f)' = Owed(f)
  BY <1>0, <1>6, IgnoreFacts
<1>7. ASSUME NEW t \in Tasks, InnerStep(t), UNCHANGED <<runnerVars, history>>
      PROVE  f \in 1 .. Len(causes') /\ Owed(f)' = Owed(f)
  BY <1>0, <1>7
<1> QED
  BY <1>1, <1>2, <1>3, <1>4, <1>5, <1>6, <1>7, FeederSteps

\* A feed in progress owes the amount it carries.
LEMMA CarriesWhatItOwes ==
    ASSUME OrderInv, CallInv, CauseInv, NEW t \in Tasks, InWorkflow(t)
    PROVE  job[t].feed \in 1 .. Len(causes) /\ job[t].grams = Owed(job[t].feed)
<1>1. pc[t] # "loop"
  BY DEF InWorkflow, WorkflowSteps, BeforePour, AfterPour, AfterReport, MlSteps
<1>2. job[t].feed \in 1 .. Len(causes) /\ causes[job[t].feed] = Cause(t)
  BY DEF CauseInv
<1>3. CASE t = "cmd_poll"
  BY <1>1, <1>2, <1>3 DEF Cause, Owed, OrderInv
<1>4. CASE t = "sched_runner"
  BY <1>1, <1>2, <1>4 DEF Cause, Owed, CallInv
<1> QED
  BY <1>2, <1>3, <1>4 DEF Tasks

\* One step pours only what its feed owes.
LEMMA PourStep ==
    /\ FeederTypeOK /\ OrderInv /\ CallInv /\ CauseInv /\ PourInv
    /\ [FeederNext]_feederVars
    => PourInv'
<1> SUFFICES ASSUME FeederTypeOK, OrderInv, CallInv, CauseInv, PourInv,
                    [FeederNext]_feederVars
             PROVE  PourInv'
  OBVIOUS
<1>1. poured' \subseteq poured
        \/ \E t \in Tasks :
              InWorkflow(t) /\ poured' = poured \cup {<<job[t].feed, job[t].grams>>}
  <2>1. TypeOK
    BY DEF FeederTypeOK
  <2> QED
    BY <2>1, FeederSteps, OrderFacts, CallFacts, RestartFacts, PollFacts, BeginFacts,
       IgnoreFacts, InnerSteps DEF Elsewhere, Inside
<1>2. \A p \in poured' : p[1] \in 1 .. Len(causes) /\ p[2] = Owed(p[1])
  <2>1. \A t \in Tasks : InWorkflow(t) =>
           LET p == <<job[t].feed, job[t].grams>> IN
              p[1] \in 1 .. Len(causes) /\ p[2] = Owed(p[1])
    BY CarriesWhatItOwes
  <2> QED
    BY <1>1, <2>1 DEF PourInv
<1>3. \A f \in 1 .. Len(causes) : f \in 1 .. Len(causes') /\ Owed(f)' = Owed(f)
  BY OwedStays
<1> HIDE DEF Owed
<1> QED
  BY <1>2, <1>3 DEF PourInv

\* All of it together.
LEMMA FeederInvHolds ==
    FeederSpec => [](OrderInv /\ CallInv /\ CauseInv /\ PourInv)
<1>1. FeederInit => OrderInv /\ CallInv /\ CauseInv /\ PourInv
  BY DEF FeederInit, Init, Runner!Init, OrderInv, CallInv, CauseInv, PourInv, Tasks,
         NoJob, InWorkflow, WorkflowSteps, BeforePour, AfterPour, AfterReport, MlSteps
<1> QED
  BY <1>1, FeederTyping, OrderStep, CallStep, CauseStep, PourStep, PTL DEF FeederSpec

\* Whatever the commands, the schedules, the timing and the restarts: each motor run
\* gave what a dispense command, or an entry that was due, asks for, and each call of
\* the schedule runner began one feed at most.
THEOREM NothingPoursUnasked == FeederSpec => []EveryPourAsked
<1>1. RP!FiresOnlyWhatIsDue => \A k \in 1 .. Len(fired) : WasDue(k)
  BY DEF RP!FiresOnlyWhatIsDue, WasDue, RP!Hhmm, Runner!Hhmm, RP!IsoDay, Runner!IsoDay,
         RP!Wday, Runner!Wday
<1>2. RP!Spec => []RP!FiresOnlyWhatIsDue
  BY RP!OnlyWhatIsDue, RunnerConstants
<1>3. /\ CauseInv /\ PourInv /\ (\A k \in 1 .. Len(fired) : WasDue(k))
      => EveryPourAsked
  <2> SUFFICES ASSUME CauseInv, PourInv, \A k \in 1 .. Len(fired) : WasDue(k)
               PROVE  EveryPourAsked
    OBVIOUS
  <2> USE DEF CauseInv
  <2>1. ASSUME NEW p \in poured
        PROVE  LET why == causes[p[1]] IN
                  IF why.call = 0
                  THEN orders[why.cmd].action = "dispense" /\ p[2] = Ordered(why.cmd)
                  ELSE WasDue(why.call) /\ p[2] = fired[why.call].entry.grams
    <3>1. p[1] \in 1 .. Len(causes) /\ p[2] = Owed(p[1])
      BY DEF PourInv
    <3> HIDE DEF WasDue
    <3> QED
      BY <3>1 DEF Owed
  <2> QED
    BY <2>1 DEF EveryPourAsked
<1> QED
  BY <1>1, <1>2, <1>3, FeederRunsBoth, FeederInvHolds, PTL

-----------------------------------------------------------------------------
(***************************************************************************)
(* What becomes of a call of the runner.  Those of this boot have begun a  *)
(* feed or met one of the command task, but for the last, which may be on  *)
(* its way; in an undisturbed minute every call is one of this boot.       *)
(***************************************************************************)
AnswerInv ==
    \A k \in 1 .. Len(fired) :
        /\ fired[k].minute <= minute /\ fired[k].boot <= reboots
        /\ steady /\ fired[k].minute = minute => fired[k].boot = reboots
        /\ fired[k].boot = reboots
              => BeganFeed(k) \/ k \in excused
                    \/ (k = Len(fired) /\ pc["sched_runner"] = "call")

\* An element of a sequence is in the set the sequence is over.
LEMMA SeqElements ==
    ASSUME NEW S, NEW s \in Seq(S)
    PROVE  \A k \in 1 .. Len(s) : s[k] \in S
OBVIOUS

\* One step leaves no call of this boot unanswered but the last.
LEMMA AnswerStep ==
    /\ FeederTypeOK /\ MutexOwned /\ CallInv /\ AnswerInv /\ [FeederNext]_feederVars
    => AnswerInv'
<1> SUFFICES ASSUME FeederTypeOK, MutexOwned, CallInv, AnswerInv, [FeederNext]_feederVars
             PROVE  AnswerInv'
  OBVIOUS
<1> USE DEF AnswerInv, BeganFeed, runnerVars, history
<1>0. /\ TypeOK /\ Len(fired) \in Nat /\ Len(causes) \in Nat
      /\ minute \in Nat /\ reboots \in Nat
      /\ fires = Len(fired) /\ Tasks = {"cmd_poll", "sched_runner"}
      /\ \A k \in 1 .. Len(fired) : fired[k].minute \in Nat /\ fired[k].boot \in Nat
  <2>1. fired \in Seq([minute : Nat, boot : Nat, entry : Runner!Entries])
    BY DEF FeederTypeOK, Runner!TypeOK
  <2>2. \A k \in 1 .. Len(fired) :
           fired[k] \in [minute : Nat, boot : Nat, entry : Runner!Entries]
    BY <2>1, SeqElements, Zenon
  <2>3. minute \in Nat /\ reboots \in Nat /\ Len(causes) \in Nat /\ Len(fired) \in Nat
    BY <2>1, BoundsAssumption DEF FeederTypeOK, TypeOK, Runner!TypeOK
  <2> QED
    BY <2>2, <2>3 DEF FeederTypeOK, CallInv, Tasks
<1>1. CASE AppOrders
  BY <1>1, OrderFacts
<1>2. CASE Elsewhere
  BY <1>0, <1>2 DEF Elsewhere
<1>3. CASE RunnerCalls
  BY <1>0, <1>3, CallFacts
<1>4. CASE DeviceRestarts
  BY <1>0, <1>4, RestartFacts
<1>5. CASE (PollCommand \/ AckCommand) /\ UNCHANGED <<runnerVars, history>>
  BY <1>5, PollFacts
<1>6. ASSUME NEW t \in Tasks, FeedBegins(t) PROVE AnswerInv'
  <2>1. \A k \in 1 .. Len(fired) : BeganFeed(k) => BeganFeed(k)'
    BY <1>0, <1>6, BeginFacts
  <2>2. t = "sched_runner" => BeganFeed(fires)'
    BY <1>0, <1>6, BeginFacts DEF Cause
  <2>3. t # "sched_runner" => pc'["sched_runner"] = pc["sched_runner"]
    BY <1>0, <1>6, BeginFacts
  <2> HIDE DEF BeganFeed
  <2> QED
    BY <1>0, <1>6, <2>1, <2>2, <2>3, BeginFacts
<1>7. ASSUME NEW t \in Tasks, FeedIgnored(t) PROVE AnswerInv'
  <2>1. CASE t = "sched_runner"
    <3>1. InWorkflow("cmd_poll")
      <4>1. feedMutex \in Tasks /\ ~InWorkflow("sched_runner")
        BY <1>0, <1>7, <2>1, IgnoreFacts
           DEF TypeOK, InWorkflow, WorkflowSteps, BeforePour, AfterPour, AfterReport,
               MlSteps
      <4> QED
        BY <1>0, <4>1 DEF MutexOwned
    <3>2. excused' = excused \cup {fires}
      BY <1>7, <2>1, <3>1, IgnoreFacts
    <3>3. UNCHANGED <<causes, fired, minute, steady, reboots>>
      BY <1>7, IgnoreFacts
    <3> QED
      BY <1>0, <3>2, <3>3
  <2>2. CASE t = "cmd_poll"
    BY <1>0, <1>7, <2>2, IgnoreFacts
  <2> QED
    BY <1>0, <2>1, <2>2
<1>8. ASSUME NEW t \in Tasks, InnerStep(t), UNCHANGED <<runnerVars, history>>
      PROVE  AnswerInv'
  <2>1. Inside(t)
    BY <1>0, <1>8, InnerSteps
  <2>2. pc["sched_runner"] = "call" => pc'["sched_runner"] = "call"
    BY <1>0, <2>1 DEF Inside, InWorkflow, WorkflowSteps, BeforePour, AfterPour,
                      AfterReport, MlSteps
  <2> QED
    BY <1>0, <1>8, <2>1, <2>2 DEF Inside
<1> QED
  BY <1>1, <1>2, <1>3, <1>4, <1>5, <1>6, <1>7, <1>8, FeederSteps

\* So it is in every reachable state.
LEMMA AnswerHolds == FeederSpec => []AnswerInv
<1>1. FeederInit => AnswerInv
  BY DEF FeederInit, Runner!Init, AnswerInv
<1> QED
  BY <1>1, FeederTyping, FeederRunsBoth, FeedsNeverOverlap, FeederInvHolds, AnswerStep,
     PTL DEF FeederSpec

\* Within one week, and when a nap and a request fit in a minute, each undisturbed
\* minute in which a schedule was due has begun a feed, or met one of the command
\* task: what ScheduleRunner promises of its calls, carried through the mutex.
THEOREM DueMealsAreAnswered ==
    ASSUME CheckSlots + MaxFetchSlots <= SlotsPerMinute,
           Horizon <= DaysPerWeek * MinutesPerDay
    PROVE  FeederSpec => DueMealAnswered
<1>1. RP!Spec => RP!DueMinuteIsServed
  BY RP!ServedWithinTheWeek, RunnerConstants
<1>2. /\ FeederTypeOK /\ CallInv /\ AnswerInv /\ [FeederNext]_feederVars
      /\ [minute' # minute /\ steady /\ runner # "feed" /\ RP!IsDue(minute)
            => \E i \in 1 .. Len(fired) : fired[i].minute = minute]_(RP!vars)
      => [minute' # minute /\ steady /\ runner # "feed" /\ Runner!IsDue(minute)
            => \E k \in 1 .. Len(fired) :
                  fired[k].minute = minute /\ (BeganFeed(k) \/ k \in excused)]_feederVars
  <2> SUFFICES ASSUME FeederTypeOK, CallInv, AnswerInv,
                      minute' # minute, steady, runner # "feed", Runner!IsDue(minute),
                      [minute' # minute /\ steady /\ runner # "feed" /\ RP!IsDue(minute)
                         => \E i \in 1 .. Len(fired) : fired[i].minute = minute]_(RP!vars)
               PROVE  \E k \in 1 .. Len(fired) :
                         fired[k].minute = minute /\ (BeganFeed(k) \/ k \in excused)
    OBVIOUS
  <2>1. RP!IsDue(minute)
    BY DEF RP!IsDue, Runner!IsDue, RP!Hhmm, Runner!Hhmm, RP!IsoDay, Runner!IsoDay,
           RP!Wday, Runner!Wday
  <2>2. PICK k \in 1 .. Len(fired) : fired[k].minute = minute
    BY <2>1 DEF RP!vars
  <2>3. fired[k].boot = reboots /\ pc["sched_runner"] = "loop"
    BY <2>2 DEF AnswerInv, CallInv
  <2> QED
    BY <2>2, <2>3 DEF AnswerInv
<1> QED
  BY <1>1, <1>2, FeederTyping, FeederRunsBoth, FeederInvHolds, AnswerHolds, PTL
     DEF RP!DueMinuteIsServed, DueMealAnswered, FeederSpec
=============================================================================
