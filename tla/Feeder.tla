------------------------------- MODULE Feeder -------------------------------
(***************************************************************************)
(* The schedule runner and the feed workflow as app_main ties them         *)
(* together (main.c:810-816): schedule_runner_start gets do_feed_workflow  *)
(* as its callback, so that a schedule that fires runs the workflow in the *)
(* runner's own task, while the command task may be in it already.         *)
(*                                                                         *)
(* Each action is one of FeedWorkflow, one of ScheduleRunner, or one of    *)
(* both at once: the call, its return and the restart.  Without an owner   *)
(* there is no schedule task, and time, which only it looks at, stands     *)
(* still.  schedule_runner_refresh has no caller and is left out.          *)
(***************************************************************************)
EXTENDS FeedWorkflow, Sequences

CONSTANTS
    \* those of ScheduleRunner
    Tables, MaxSchedules, SlotsPerMinute, MinutesPerDay, DaysPerWeek, CheckSlots,
    RefreshSlots, MaxFetchSlots, MaxFeedSlots, Horizon, MaxEdits, MaxFailures

VARIABLES
    \* those of ScheduleRunner; its pc is runner, and reboots is shared
    minute, slot, cloud, runner, waited, table, lastHhmm, lastWday, sinceRefresh,
    requested, answers, edits, requests, failures, fired, steady, unserved, stale,
    \* history
    orders,   \* the commands as the app wrote them
    causes,   \* per feed: the command, or the call of the runner, it is for
    excused   \* calls of the runner that met a feed of the command task

runnerVars == <<minute, slot, cloud, runner, waited, table, lastHhmm, lastWday,
                sinceRefresh, requested, answers, edits, requests, failures, fired,
                steady, unserved, stale>>
history == <<orders, causes, excused>>
feederVars == <<vars, runnerVars, history>>

Runner == INSTANCE ScheduleRunner WITH pc <- runner, MaxRequests <- 0

\* What ScheduleRunner assumes of its constants, and that FeedWorkflow knows the
\* amounts of the schedules.
ASSUME FeederAssumption ==
    /\ Tables \subseteq Seq(Runner!Entries) /\ Tables # {}
    /\ {SlotsPerMinute, MinutesPerDay, DaysPerWeek, CheckSlots, RefreshSlots}
          \subseteq Nat \ {0}
    /\ {MaxFetchSlots, MaxFeedSlots, MaxSchedules, Horizon, MaxEdits, MaxFailures}
          \subseteq Nat
    /\ \A raw \in Tables : \A i \in 1 .. Len(raw) :
          Runner!Accepted(raw[i]) => raw[i].grams \in Grams

FeederTypeOK ==
    /\ TypeOK
    /\ Runner!TypeOK
    /\ orders \in Seq(Commands)
    /\ causes \in Seq([cmd : CmdIds \cup {0}, call : Nat])
    /\ excused \subseteq Nat

FeederInit ==
    /\ Init
    /\ Runner!Init
    /\ orders = <<>>
    /\ causes = <<>>
    /\ excused = {}

-----------------------------------------------------------------------------
(***************************************************************************)
(* The workflow's side.                                                    *)
(***************************************************************************)

AppOrders ==
    /\ AppSendCommand
    /\ orders' = Append(orders, pending')
    /\ UNCHANGED <<runnerVars, causes, excused>>

\* What the call of task t is for.
Cause(t) == [cmd |-> job[t].cmd, call |-> IF t = "sched_runner" THEN fires ELSE 0]

\* It becomes a feed.
FeedBegins(t) ==
    /\ StartFeed(t)
    /\ causes' = Append(causes, Cause(t))
    /\ UNCHANGED <<runnerVars, orders, excused>>

\* It meets the mutex.  A schedule that called is not tried again in its minute.
FeedIgnored(t) ==
    /\ IgnoreTrigger(t)
    /\ excused' = IF t = "sched_runner" /\ InWorkflow("cmd_poll")
                  THEN excused \cup {fires} ELSE excused
    /\ UNCHANGED <<runnerVars, orders, causes>>

WorkflowAlone ==
    /\ \/ AppSetCamera \/ CameraPoll \/ PollNothing \/ CommandStep
       \/ \E t \in Tasks :
             \/ Beep(t) \/ PetComes(t) \/ AbortFeed(t)
             \/ CameraOn(t) \/ DetectSitting(t) \/ CameraOff(t)
             \/ Dispense(t) \/ MotorDone(t) \/ CheckLevel(t)
             \/ LogEvent(t) \/ Notify(t) \/ NotifyLow(t) \/ FlagLow(t) \/ GiveMutex(t)
    /\ UNCHANGED <<runnerVars, history>>

-----------------------------------------------------------------------------
(***************************************************************************)
(* The runner's side.                                                      *)
(***************************************************************************)

AppEditsSchedules == Runner!AppEdit /\ UNCHANGED <<vars, history>>

RunnerAlone ==
    /\ identityReady
    /\ \/ Runner!Tick \/ Runner!FetchReturns \/ Runner!WakeUp
       \/ Runner!Decide \/ Runner!Clear \/ Runner!SendGet \/ Runner!NothingToFire
    /\ UNCHANGED <<vars, history>>

-----------------------------------------------------------------------------
(***************************************************************************)
(* Both.                                                                   *)
(***************************************************************************)

\* s_on_feed(s->grams, "schedule", false)
RunnerCalls ==
    /\ Runner!Fire
    /\ ScheduleFires
    /\ job'["sched_runner"].grams = fired'[Len(fired')].entry.grams
    /\ UNCHANGED history

CallReturns ==
    /\ pc["sched_runner"] = "loop"
    /\ Runner!FeedReturns
    /\ UNCHANGED <<vars, history>>

DeviceRestarts == Reboot /\ Runner!Reboot /\ UNCHANGED history

FeederNext ==
    \/ AppOrders
    \/ \E t \in Tasks : FeedBegins(t) \/ FeedIgnored(t)
    \/ WorkflowAlone
    \/ AppEditsSchedules
    \/ RunnerAlone
    \/ RunnerCalls
    \/ CallReturns
    \/ DeviceRestarts

FeederSpec == FeederInit /\ [][FeederNext]_feederVars

-----------------------------------------------------------------------------
(***************************************************************************)
(* What should hold.                                                       *)
(***************************************************************************)

\* What the app's command number c asks for.
Ordered(c) == IF orders[c].grams = NoGrams THEN DefaultGrams ELSE orders[c].grams

\* Call k of the runner was for an entry that is enabled and names this device,
\* at a time and on a day, by the ISO calendar, that the entry names.
WasDue(k) ==
    LET e == fired[k].entry IN
        /\ e.enabled /\ e.mine
        /\ e.time = Runner!Hhmm(fired[k].minute)
        /\ Runner!IsoDay(fired[k].minute) \in e.days

\* No food moves that nobody asked for: each motor run gave what a dispense command
\* of the app asks for, or what an entry of the schedules that was due asks for,
\* and no call of the schedule runner began two feeds, whatever commands, schedules
\* and restarts came between.
EveryPourAsked ==
    /\ \A p \in poured :
          LET why == causes[p[1]] IN
              IF why.call = 0
              THEN orders[why.cmd].action = "dispense" /\ p[2] = Ordered(why.cmd)
              ELSE WasDue(why.call) /\ p[2] = fired[why.call].entry.grams
    /\ \A f, g \in 1 .. Len(causes) :
          causes[f].call # 0 /\ causes[f].call = causes[g].call => f = g

BeganFeed(k) == \E f \in 1 .. Len(causes) : causes[f].call = k

\* "fires the feed workflow when the current time matches a schedule entry"
\* (schedule_runner.c:4-5), to the feed: when a minute ends that is undisturbed in
\* the sense of DueMinuteIsServed and in which an entry was due, a call in that
\* minute has begun a feed, or the command task was in a feed when it came.
\* Nothing else costs the meal: no aborted feed, earlier call or lost mutex.
DueMealAnswered ==
    [][minute' # minute /\ steady /\ runner # "feed" /\ Runner!IsDue(minute)
          => \E k \in 1 .. Len(fired) :
                fired[k].minute = minute /\ (BeganFeed(k) \/ k \in excused)]_feederVars
=============================================================================
