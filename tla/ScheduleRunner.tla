--------------------------- MODULE ScheduleRunner ---------------------------
(***************************************************************************)
(* schedule_runner.c: the task that keeps a copy of the owner's schedules  *)
(* and calls the feed workflow when one matches the local time.            *)
(*                                                                         *)
(* Time advances in slots, a fraction of a minute, and only while the task *)
(* sleeps or is blocked in a call (an HTTP request, or the whole feed      *)
(* workflow, which runs inside the callback); the code in between takes no *)
(* time.  Week, day and minute are scaled by constants.  s_mutex guards    *)
(* data only this task touches, so nothing ever waits for it; it is left   *)
(* out.                                                                    *)
(***************************************************************************)
EXTENDS Integers, Sequences, FiniteSets

CONSTANTS
    Tables,          \* what userSchedules/<uid> may hold
    MaxSchedules,    \* MAX_SCHEDULES
    SlotsPerMinute,
    MinutesPerDay,
    DaysPerWeek,
    CheckSlots,      \* CHECK_INTERVAL_MS
    RefreshSlots,    \* REFRESH_INTERVAL_S
    MaxFetchSlots,   \* bound: longest HTTP request
    MaxFeedSlots,    \* bound: longest feed
    Horizon,         \* bound: minutes looked at
    MaxEdits,        \* bound: edits of the schedules by the app
    MaxRequests,     \* bound: calls of schedule_runner_refresh
    MaxFailures,     \* bound: failed fetches
    MaxReboots       \* bound: restarts

NoTime == -1

\* s_schedule_count is 0.
NoTable == [i \in {} |-> NoTime]

\* One entry of userSchedules: time may be missing, days are ISO (1 is Monday),
\* mine says whether this device is in the entry's "devices".
Entries == [time : (0 .. MinutesPerDay - 1) \cup {NoTime},
            days : SUBSET (1 .. DaysPerWeek), grams : Int,
            enabled : BOOLEAN, mine : BOOLEAN]

ASSUME TablesAssumption == Tables \subseteq Seq(Entries) /\ Tables # {}

ASSUME ClockAssumption ==
    /\ SlotsPerMinute \in Nat \ {0} /\ MinutesPerDay \in Nat \ {0}
    /\ DaysPerWeek \in Nat \ {0} /\ CheckSlots \in Nat \ {0}
    /\ RefreshSlots \in Nat \ {0} /\ MaxFetchSlots \in Nat /\ MaxFeedSlots \in Nat

ASSUME RunnerBounds ==
    /\ MaxSchedules \in Nat /\ Horizon \in Nat /\ MaxEdits \in Nat
    /\ MaxRequests \in Nat /\ MaxFailures \in Nat /\ MaxReboots \in Nat

VARIABLES
    minute, slot,       \* the local clock: minutes since some Sunday 00:00
    cloud,              \* userSchedules/<uid>
    pc,                 \* where schedule_task is
    waited,             \* slots since it sleeps or blocks there
    table,              \* s_schedules[0 .. s_schedule_count - 1], see Parsed
    lastHhmm, lastWday, \* s_last_fired_hhmm, s_last_fired_wday (ISO)
    sinceRefresh,       \* slots since last_refresh
    requested,          \* s_refresh_requested
    answers,            \* what the server may answer the request under way, if any
    \* history and bounds
    edits, requests, failures, reboots,
    fired,              \* calls of the feed callback, in order
    steady,             \* the minute is undisturbed: by a restart, by a new
                        \* table, or by a feed that returns near its end
    unserved,           \* a refresh was asked for and no fetch began since
    stale               \* slots since the last edit, failed fetch or restart

taskVars == <<pc, waited, table, lastHhmm, lastWday, sinceRefresh>>
vars == <<minute, slot, cloud, pc, waited, table, lastHhmm, lastWday, sinceRefresh,
          requested, answers, edits, requests, failures, reboots, fired, steady,
          unserved, stale>>

Blocking == {"boot_fetch", "sleep", "fetch", "feed"}
Locations == Blocking \cup {"decide", "clear", "get", "check"}

TypeOK ==
    /\ minute \in Nat
    /\ slot \in 0 .. SlotsPerMinute - 1
    /\ cloud \in Tables
    /\ pc \in Locations
    /\ waited \in Nat
    /\ DOMAIN table \subseteq Nat /\ \A i \in DOMAIN table : table[i] \in Entries
    /\ lastHhmm \in (0 .. MinutesPerDay - 1) \cup {NoTime}
    /\ lastWday \in (0 .. DaysPerWeek - 1) \cup {NoTime}
    /\ sinceRefresh \in Nat
    /\ requested \in BOOLEAN
    /\ answers \subseteq Tables
    /\ edits \in 0 .. MaxEdits
    /\ requests \in 0 .. MaxRequests
    /\ failures \in 0 .. MaxFailures
    /\ reboots \in 0 .. MaxReboots
    /\ fired \in Seq([minute : Nat, boot : Nat, entry : Entries])
    /\ steady \in BOOLEAN
    /\ unserved \in BOOLEAN
    /\ stale \in Nat

Init ==
    /\ minute = 0 /\ slot = 0
    /\ cloud \in Tables
    /\ pc = "boot_fetch"
    /\ waited = 0
    /\ table = NoTable
    /\ lastHhmm = NoTime /\ lastWday = NoTime
    /\ sinceRefresh = 0
    /\ requested = FALSE
    /\ answers = {cloud}
    /\ edits = 0 /\ requests = 0 /\ failures = 0 /\ reboots = 0
    /\ fired = <<>>
    /\ steady = FALSE
    /\ unserved = FALSE
    /\ stale = 0

-----------------------------------------------------------------------------
(***************************************************************************)
(* Local time.                                                             *)
(***************************************************************************)

\* current_hhmm and tm_wday (0 is Sunday) of a minute.
Hhmm(m) == m % MinutesPerDay

Wday(m) == (m \div MinutesPerDay) % DaysPerWeek

IsoIndexFromSunday(wday) == wday

\* tm_wday_to_iso_index: 0 is Monday.
IsoIndex(wday) == IF wday = 0 THEN DaysPerWeek - 1 ELSE wday - 1

\* What tm_wday, in the local calendar, is called in ISO 8601 (7 is Sunday).
IsoDay(m) == IF Wday(m) = 0 THEN DaysPerWeek ELSE Wday(m)

(***************************************************************************)
(* parse_schedules: the entries of the snapshot that are enabled, have a   *)
(* time, ask for a positive amount and name this device, in their order,   *)
(* as many as the array holds.  A table is a function from the positions   *)
(* of those entries in the snapshot.                                       *)
(***************************************************************************)

Accepted(e) == e.enabled /\ e.time # NoTime /\ e.grams > 0 /\ e.mine

Kept(raw) ==
    {i \in 1 .. Len(raw) :
        /\ Accepted(raw[i])
        /\ Cardinality({j \in 1 .. i - 1 : Accepted(raw[j])}) < MaxSchedules}

Parsed(raw) == [i \in Kept(raw) |-> raw[i]]

-----------------------------------------------------------------------------
(***************************************************************************)
(* Around the task: the clock, the app, the public refresh call.           *)
(***************************************************************************)

\* How long the task can stay where it is.
Patience ==
    CASE pc = "sleep" -> CheckSlots
      [] pc \in {"boot_fetch", "fetch"} -> MaxFetchSlots
      [] pc = "feed" -> MaxFeedSlots
      [] OTHER -> 0

Tick ==
    /\ waited < Patience
    /\ minute < Horizon
    /\ waited' = waited + 1
    /\ sinceRefresh' = sinceRefresh + 1
    /\ stale' = stale + 1
    /\ IF slot = SlotsPerMinute - 1
       THEN slot' = 0 /\ minute' = minute + 1 /\ steady' = TRUE
       ELSE slot' = slot + 1 /\ UNCHANGED <<minute, steady>>
    /\ UNCHANGED <<cloud, pc, table, lastHhmm, lastWday, requested, answers, edits,
                   requests, failures, reboots, fired, unserved>>

\* The clock stops at the bound.
AtHorizon == minute = Horizon /\ UNCHANGED vars

\* The app rewrites the schedules: before the server answers the request under way, or
\* while the answer is on its way.
AppEdit ==
    /\ edits < MaxEdits
    /\ edits' = edits + 1
    /\ cloud' \in Tables
    /\ answers' = IF answers = {} THEN {} ELSE answers \cup {cloud'}
    /\ stale' = 0
    /\ UNCHANGED <<minute, slot, taskVars, requested, requests, failures, reboots,
                   fired, steady, unserved>>

\* schedule_runner_refresh, from any task.
Refresh ==
    /\ requests < MaxRequests
    /\ requests' = requests + 1
    /\ requested' = TRUE
    /\ unserved' = TRUE
    /\ UNCHANGED <<minute, slot, cloud, taskVars, answers, edits, failures, reboots,
                   fired, steady, stale>>

-----------------------------------------------------------------------------
(***************************************************************************)
(* fetch_schedules.  The response carries the schedules as they are when   *)
(* the server answers; a fetch that fails leaves the table alone.          *)
(***************************************************************************)

FetchFails ==
    /\ failures < MaxFailures
    /\ failures' = failures + 1
    /\ stale' = 0
    /\ table' = table

FetchSucceeds ==
    /\ \E raw \in answers : table' = Parsed(raw)
    /\ UNCHANGED <<failures, stale>>

FetchReturnsClearing ==
    /\ pc \in {"boot_fetch", "fetch"}
    /\ FetchSucceeds \/ FetchFails
    /\ answers' = {}
    /\ steady' = (steady /\ table' = table)
    /\ sinceRefresh' = 0
    /\ pc' = IF pc = "boot_fetch" THEN "sleep" ELSE "check"
    /\ waited' = 0
    /\ requested' = FALSE
    /\ UNCHANGED <<minute, slot, cloud, lastHhmm, lastWday, edits, requests,
                   reboots, fired, unserved>>

\* The fetch returns at "boot_fetch" or "fetch"; then the loop sleeps first,
\* or goes on to the time check.
FetchReturns ==
    /\ pc \in {"boot_fetch", "fetch"}
    /\ FetchSucceeds \/ FetchFails
    /\ answers' = {}
    /\ steady' = (steady /\ table' = table)
    /\ sinceRefresh' = 0
    /\ pc' = IF pc = "boot_fetch" THEN "sleep" ELSE "check"
    /\ waited' = 0
    /\ UNCHANGED <<minute, slot, cloud, lastHhmm, lastWday, requested, edits,
                   requests, reboots, fired, unserved>>

-----------------------------------------------------------------------------
(***************************************************************************)
(* schedule_task.                                                          *)
(***************************************************************************)

\* The CHECK_INTERVAL_MS delay is over.
WakeUp ==
    /\ pc = "sleep"
    /\ waited = CheckSlots
    /\ pc' = "decide"
    /\ waited' = 0
    /\ UNCHANGED <<minute, slot, cloud, table, lastHhmm, lastWday, sinceRefresh,
                   requested, answers, edits, requests, failures, reboots, fired,
                   steady, unserved, stale>>

TimeToRefreshWrongUnit == sinceRefresh >= 10 * RefreshSlots

TimeToRefresh == sinceRefresh >= RefreshSlots

\* time_to_refresh || s_refresh_requested
Decide ==
    /\ pc = "decide"
    /\ pc' = IF TimeToRefresh \/ requested THEN "clear" ELSE "check"
    /\ UNCHANGED <<minute, slot, cloud, waited, table, lastHhmm, lastWday,
                   sinceRefresh, requested, answers, edits, requests, failures,
                   reboots, fired, steady, unserved, stale>>

\* The flag is cleared first ...
Clear ==
    /\ pc = "clear"
    /\ requested' = FALSE
    /\ pc' = "get"
    /\ UNCHANGED <<minute, slot, cloud, waited, table, lastHhmm, lastWday,
                   sinceRefresh, answers, edits, requests, failures, reboots, fired,
                   steady, unserved, stale>>

\* ... and then the request goes out.
SendGet ==
    /\ pc = "get"
    /\ pc' = "fetch"
    /\ answers' = {cloud}
    /\ unserved' = FALSE
    /\ UNCHANGED <<minute, slot, cloud, waited, table, lastHhmm, lastWday,
                   sinceRefresh, requested, edits, requests, failures, reboots,
                   fired, steady, stale>>

-----------------------------------------------------------------------------
(***************************************************************************)
(* check_and_fire.                                                         *)
(***************************************************************************)

AlreadyFiredThisDay == IsoIndex(Wday(minute)) = lastWday

\* Already fired this minute on this weekday?
AlreadyFired ==
    Hhmm(minute) = lastHhmm /\ IsoIndex(Wday(minute)) = lastWday

\* The positions of the loaded schedules that match this minute.
Matching ==
    {i \in DOMAIN table : /\ table[i].time = Hhmm(minute)
                          /\ IsoIndex(Wday(minute)) + 1 \in table[i].days}

RememberTimeOnly ==
    /\ lastHhmm' = Hhmm(minute)
    /\ lastWday' = NoTime

\* Record so we don't re-fire this minute.
Remember ==
    /\ lastHhmm' = Hhmm(minute)
    /\ lastWday' = IsoIndex(Wday(minute))

\* The first schedule that matches calls the workflow, which blocks the task.
Fire ==
    /\ pc = "check"
    /\ ~AlreadyFired
    /\ \E i \in Matching :
          /\ \A j \in Matching : i <= j
          /\ fired' = Append(fired, [minute |-> minute, boot |-> reboots,
                                     entry |-> table[i]])
    /\ Remember
    /\ pc' = "feed"
    /\ waited' = 0
    /\ UNCHANGED <<minute, slot, cloud, table, sinceRefresh, requested, answers, edits,
                   requests, failures, reboots, steady, unserved, stale>>

\* Fired already, or nothing matches.
NothingToFire ==
    /\ pc = "check"
    /\ AlreadyFired \/ Matching = {}
    /\ pc' = "sleep"
    /\ waited' = 0
    /\ UNCHANGED <<minute, slot, cloud, table, lastHhmm, lastWday, sinceRefresh,
                   requested, answers, edits, requests, failures, reboots, fired,
                   steady, unserved, stale>>

\* The workflow returns: fed, aborted, or ignored at once because another
\* feed was in progress.  Near the end of a minute that is too late for one
\* more nap and fetch.
FeedReturns ==
    /\ pc = "feed"
    /\ pc' = "sleep"
    /\ waited' = 0
    /\ steady' = (steady /\ slot + CheckSlots + MaxFetchSlots < SlotsPerMinute)
    /\ UNCHANGED <<minute, slot, cloud, table, lastHhmm, lastWday, sinceRefresh,
                   requested, answers, edits, requests, failures, reboots, fired,
                   unserved, stale>>

\* The device restarts; whatever the task knew is gone.
Reboot ==
    /\ reboots < MaxReboots
    /\ reboots' = reboots + 1
    /\ pc' = "boot_fetch"
    /\ waited' = 0
    /\ table' = NoTable
    /\ lastHhmm' = NoTime
    /\ lastWday' = NoTime
    /\ sinceRefresh' = 0
    /\ requested' = FALSE
    /\ answers' = {cloud}
    /\ unserved' = FALSE
    /\ steady' = FALSE
    /\ stale' = 0
    /\ UNCHANGED <<minute, slot, cloud, edits, requests, failures, fired>>

Next ==
    \/ Tick
    \/ AtHorizon
    \/ AppEdit
    \/ Refresh
    \/ FetchReturns
    \/ WakeUp
    \/ Decide
    \/ Clear
    \/ SendGet
    \/ Fire
    \/ NothingToFire
    \/ FeedReturns
    \/ Reboot

Spec == Init /\ [][Next]_vars

-----------------------------------------------------------------------------
(***************************************************************************)
(* What should hold.                                                       *)
(***************************************************************************)

\* schedule_runner.c:16-17 "It fires a schedule at most once per minute by
\* remembering the last HH:mm string": between two restarts, which lose what is
\* remembered, the minutes in which the callback is called strictly increase,
\* however the checks fall into the minute.
FiresOncePerMinuteAndBoot ==
    \A i, j \in 1 .. Len(fired) :
        i < j /\ fired[i].boot = fired[j].boot => fired[i].minute < fired[j].minute

\* A loaded schedule that is due in minute m, by the ISO calendar.
IsDue(m) ==
    \E i \in DOMAIN table : table[i].time = Hhmm(m) /\ IsoDay(m) \in table[i].days

\* schedule_runner.c:4-5 "fires the feed workflow when the current time matches
\* a schedule entry": when a minute ends during which a loaded schedule was
\* due, that nothing disturbed, and that no feed outlasts, the callback has
\* been called in that minute.
DueMinuteIsServed ==
    [][minute' # minute /\ steady /\ pc # "feed" /\ IsDue(minute)
          => \E i \in 1 .. Len(fired) : fired[i].minute = minute]_vars

\* The callback is called only for an entry that was due when it was called
\* and that asks this device for food.
FiresOnlyWhatIsDue ==
    \A i \in 1 .. Len(fired) :
        LET e == fired[i].entry IN
            /\ e.enabled /\ e.mine /\ e.grams > 0
            /\ e.time = Hhmm(fired[i].minute)
            /\ IsoDay(fired[i].minute) \in e.days

\* A refresh is never lost: until a fetch begins after it, the flag is up or
\* the fetch that will serve it is about to go out.
RefreshHonoured == unserved => requested \/ pc = "get"

\* The table follows the cloud: a table that differs from it is younger than one
\* refresh interval, one nap, one feed and two requests together, counted from the
\* last edit, failed fetch or restart.  The first of the requests may bring a table
\* that was edited after the server had answered.
StaleBounded ==
    table # Parsed(cloud)
        => stale < RefreshSlots + CheckSlots + MaxFeedSlots + 2 * MaxFetchSlots
=============================================================================
