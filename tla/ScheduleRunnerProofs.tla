------------------------ MODULE ScheduleRunnerProofs ------------------------
(***************************************************************************)
(* What holds of the schedule runner for every calendar, timing and table. *)
(***************************************************************************)
EXTENDS ScheduleRunner, TLAPS

USE DEF NoTime

\* The calendar functions stay within the calendar.
LEMMA Calendar ==
    ASSUME NEW m \in Nat
    PROVE  /\ Hhmm(m) \in 0 .. MinutesPerDay - 1
           /\ Wday(m) \in 0 .. DaysPerWeek - 1
           /\ IsoIndex(Wday(m)) \in 0 .. DaysPerWeek - 1
<1>1. \A a \in Nat, n \in Nat \ {0} : a % n \in 0 .. n - 1 /\ a \div n \in Nat
  OBVIOUS
<1>2. MinutesPerDay \in Nat \ {0} /\ DaysPerWeek \in Nat \ {0}
  BY ClockAssumption
<1>3. m \div MinutesPerDay \in Nat
  BY <1>1, <1>2
<1>4. Wday(m) \in 0 .. DaysPerWeek - 1
  BY <1>1, <1>2, <1>3 DEF Wday
<1> QED
  BY <1>1, <1>2, <1>4 DEF Hhmm, IsoIndex

\* Converting a weekday to ISO and back to the app's numbering is the ISO day.
LEMMA IsoAgrees == ASSUME NEW m \in Nat PROVE IsoIndex(Wday(m)) + 1 = IsoDay(m)
BY Calendar, ClockAssumption DEF IsoIndex, IsoDay

\* An element of a sequence is in the set the sequence is over.
LEMMA SeqElements ==
    ASSUME NEW S, NEW s \in Seq(S)
    PROVE  \A k \in 1 .. Len(s) : s[k] \in S
OBVIOUS

\* The type of a loaded table, of accepted entries only.
IsTable(t) ==
    DOMAIN t \subseteq Nat /\ \A i \in DOMAIN t : t[i] \in Entries /\ Accepted(t[i])

\* What parse_schedules loads is a table.
LEMMA ParsedIsTable == ASSUME NEW raw \in Tables PROVE IsTable(Parsed(raw))
<1>1. raw \in Seq(Entries)
  BY TablesAssumption
<1>2. \A i \in Kept(raw) : i \in Nat /\ raw[i] \in Entries /\ Accepted(raw[i])
  BY <1>1 DEF Kept
<1> QED
  BY <1>2 DEF Parsed, IsTable

-----------------------------------------------------------------------------
\* The next-state relation as the proofs use it: the steps that can fire, the
\* ones that change table or clock, and the ones that leave all of that alone.
Quiet == AtHorizon \/ AppEdit \/ Refresh \/ WakeUp \/ Decide \/ Clear \/ SendGet
            \/ NothingToFire \/ FeedReturns \/ UNCHANGED vars

\* The variables keep their types, for every calendar.
THEOREM RunnerTyping == Spec => []TypeOK
<1>1. Init => TypeOK
  <2> SUFFICES ASSUME Init PROVE TypeOK
    OBVIOUS
  <2>1. slot \in 0 .. SlotsPerMinute - 1
    BY ClockAssumption DEF Init
  <2>2. /\ edits \in 0 .. MaxEdits /\ requests \in 0 .. MaxRequests
        /\ failures \in 0 .. MaxFailures /\ reboots \in 0 .. MaxReboots
    BY RunnerBounds DEF Init
  <2>3. DOMAIN table \subseteq Nat /\ \A i \in DOMAIN table : table[i] \in Entries
    BY DEF Init, NoTable
  <2>4. pc \in Locations /\ fired \in Seq([minute : Nat, boot : Nat, entry : Entries])
    BY DEF Init, Locations, Blocking
  <2> QED
    BY <2>1, <2>2, <2>3, <2>4 DEF Init, TypeOK
<1>2. TypeOK /\ [Next]_vars => TypeOK'
  <2> SUFFICES ASSUME TypeOK, [Next]_vars PROVE TypeOK'
    OBVIOUS
  <2> USE DEF TypeOK, Locations, Blocking, taskVars
  <2>1. CASE Tick
    <3>1. slot' \in 0 .. SlotsPerMinute - 1 /\ minute' \in Nat /\ steady' \in BOOLEAN
      <4>1. CASE slot = SlotsPerMinute - 1
        BY <2>1, <4>1, ClockAssumption DEF Tick
      <4>2. CASE slot # SlotsPerMinute - 1
        BY <2>1, <4>2, ClockAssumption DEF Tick
      <4> QED
        BY <4>1, <4>2
    <3>2. waited' \in Nat /\ sinceRefresh' \in Nat /\ stale' \in Nat
      BY <2>1 DEF Tick
    <3> QED
      BY <2>1, <3>1, <3>2 DEF Tick
  <2>2. CASE AtHorizon \/ UNCHANGED vars
    BY <2>2 DEF AtHorizon, vars
  <2>3. CASE AppEdit
    BY <2>3, RunnerBounds DEF AppEdit
  <2>4. CASE Refresh
    BY <2>4, RunnerBounds DEF Refresh
  <2>5. CASE FetchReturns
    <3>1. /\ DOMAIN table' \subseteq Nat
          /\ \A i \in DOMAIN table' : table'[i] \in Entries
      BY <2>5, ParsedIsTable DEF FetchReturns, FetchSucceeds, FetchFails, IsTable
    <3>2. failures' \in 0 .. MaxFailures /\ stale' \in Nat
      BY <2>5, RunnerBounds DEF FetchReturns, FetchSucceeds, FetchFails
    <3>3. steady' \in BOOLEAN /\ pc' \in Locations
      BY <2>5 DEF FetchReturns
    <3> QED
      BY <2>5, <3>1, <3>2, <3>3 DEF FetchReturns
  <2>6. CASE WakeUp \/ Decide \/ Clear \/ SendGet
    <3>1. CASE WakeUp
      BY <3>1 DEF WakeUp
    <3>2. CASE Decide
      BY <3>2 DEF Decide
    <3>3. CASE Clear
      BY <3>3 DEF Clear
    <3>4. CASE SendGet
      BY <3>4 DEF SendGet
    <3> QED
      BY <2>6, <3>1, <3>2, <3>3, <3>4
  <2>7. CASE Fire
    <3>1. lastHhmm' \in 0 .. MinutesPerDay - 1 /\ lastWday' \in 0 .. DaysPerWeek - 1
      BY <2>7, Calendar DEF Fire, Remember
    <3>2. fired' \in Seq([minute : Nat, boot : Nat, entry : Entries])
      BY <2>7, RunnerBounds DEF Fire, Matching
    <3> QED
      BY <2>7, <3>1, <3>2 DEF Fire
  <2>8. CASE NothingToFire \/ FeedReturns
    <3>1. CASE NothingToFire
      BY <3>1 DEF NothingToFire
    <3>2. CASE FeedReturns
      BY <3>2 DEF FeedReturns
    <3> QED
      BY <2>8, <3>1, <3>2
  <2>9. CASE Reboot
    <3>1. reboots' \in 0 .. MaxReboots
      BY <2>9, RunnerBounds DEF Reboot
    <3>2. /\ DOMAIN table' \subseteq Nat
          /\ \A i \in DOMAIN table' : table'[i] \in Entries
      BY <2>9 DEF Reboot, NoTable
    <3> QED
      BY <2>9, <3>1, <3>2 DEF Reboot
  <2> QED
    BY <2>1, <2>2, <2>3, <2>4, <2>5, <2>6, <2>7, <2>8, <2>9 DEF Next
<1> QED
  BY <1>1, <1>2, PTL DEF Spec

-----------------------------------------------------------------------------
(***************************************************************************)
(* The firing history.  That the minutes increase within a boot is not     *)
(* inductive by itself: it needs that no recorded minute lies ahead of the *)
(* clock, and that a callback made in the current minute and boot is the   *)
(* one that s_last_fired_hhmm and s_last_fired_wday still describe.        *)
(***************************************************************************)
HistoryInv ==
    /\ IsTable(table)
    /\ FiresOnlyWhatIsDue
    /\ FiresOncePerMinuteAndBoot
    /\ \A i \in 1 .. Len(fired) :
          /\ fired[i].minute <= minute
          /\ fired[i].boot <= reboots
          /\ fired[i].boot = reboots /\ fired[i].minute = minute => AlreadyFired

\* One step keeps the firing history in order.
LEMMA HistoryStep == TypeOK /\ HistoryInv /\ [Next]_vars => HistoryInv'
<1> SUFFICES ASSUME TypeOK, HistoryInv, [Next]_vars PROVE HistoryInv'
  OBVIOUS
<1> USE DEF taskVars
<1>0. /\ minute \in Nat /\ reboots \in Nat
      /\ fired \in Seq([minute : Nat, boot : Nat, entry : Entries])
      /\ \A k \in 1 .. Len(fired) : fired[k].minute \in Nat /\ fired[k].boot \in Nat
  <2>1. /\ minute \in Nat /\ reboots \in Nat
        /\ fired \in Seq([minute : Nat, boot : Nat, entry : Entries])
    BY RunnerBounds DEF TypeOK
  <2>2. \A k \in 1 .. Len(fired) : fired[k] \in [minute : Nat, boot : Nat, entry : Entries]
    BY <2>1, SeqElements, Zenon
  <2> QED
    BY <2>1, <2>2
<1>1. CASE UNCHANGED <<minute, reboots, table, lastHhmm, lastWday, fired>>
  BY <1>1 DEF HistoryInv, FiresOnlyWhatIsDue, FiresOncePerMinuteAndBoot, AlreadyFired
<1>2. CASE Quiet
  <2>1. UNCHANGED <<minute, reboots, table, lastHhmm, lastWday, fired>>
    BY <1>2 DEF Quiet, AtHorizon, AppEdit, Refresh, WakeUp, Decide, Clear, SendGet,
                NothingToFire, FeedReturns, vars
  <2> QED
    BY <1>1, <2>1
<1>3. CASE Tick
  <2>1. /\ UNCHANGED <<reboots, table, lastHhmm, lastWday, fired>>
        /\ minute' = minute \/ minute' = minute + 1
    BY <1>3 DEF Tick
  <2>2. CASE minute' = minute
    BY <1>1, <2>1, <2>2
  <2>3. CASE minute' = minute + 1
    <3>1. IsTable(table)' /\ FiresOnlyWhatIsDue' /\ FiresOncePerMinuteAndBoot'
      BY <2>1 DEF HistoryInv, FiresOnlyWhatIsDue, FiresOncePerMinuteAndBoot
    <3>2. \A k \in 1 .. Len(fired) :
            fired[k].minute <= minute /\ fired[k].boot <= reboots
      BY DEF HistoryInv
    <3>3. \A k \in 1 .. Len(fired) :
            fired[k].minute < minute' /\ fired[k].boot <= reboots
      BY <1>0, <2>3, <3>2
    <3> QED
      BY <1>0, <2>1, <2>3, <3>1, <3>3 DEF HistoryInv
  <2> QED
    BY <2>1, <2>2, <2>3
<1>4. CASE FetchReturns
  <2>1. /\ UNCHANGED <<minute, reboots, lastHhmm, lastWday, fired>>
        /\ IsTable(table')
    BY <1>4, ParsedIsTable
       DEF FetchReturns, FetchSucceeds, FetchFails, HistoryInv, TypeOK
  <2> QED
    BY <2>1 DEF HistoryInv, FiresOnlyWhatIsDue, FiresOncePerMinuteAndBoot, AlreadyFired
<1>5. CASE Fire
  <2>1. PICK i \in Matching :
          fired' = Append(fired, [minute |-> minute, boot |-> reboots,
                                  entry |-> table[i]])
    BY <1>5 DEF Fire
  <2> DEFINE new == [minute |-> minute, boot |-> reboots, entry |-> table[i]]
             n == Len(fired)
  <2>2. /\ ~AlreadyFired /\ AlreadyFired'
        /\ UNCHANGED <<minute, reboots, table>>
    BY <1>5 DEF Fire, Remember, AlreadyFired
  <2>3. /\ table[i] \in Entries /\ Accepted(table[i])
        /\ table[i].time = Hhmm(minute) /\ IsoDay(minute) \in table[i].days
    BY <1>0, IsoAgrees DEF Matching, HistoryInv, IsTable
  <2>4. /\ n \in Nat /\ Len(fired') = n + 1
        /\ fired'[n + 1] = new
        /\ \A k \in 1 .. n : fired'[k] = fired[k]
    BY <1>0, <2>1, <2>3
  <2>5. \A k \in 1 .. n : /\ fired[k].minute \in Nat /\ fired[k].boot \in Nat
                          /\ fired[k].minute <= minute
                          /\ fired[k].boot = reboots => fired[k].minute < minute
    <3> TAKE k \in 1 .. n
    <3>1. /\ fired[k].minute <= minute
          /\ fired[k].boot = reboots => fired[k].minute # minute
      BY <2>2 DEF HistoryInv
    <3> QED
      BY <1>0, <3>1
  <2>6. FiresOnlyWhatIsDue'
    <3> SUFFICES ASSUME NEW k \in 1 .. n + 1
                 PROVE  LET e == fired'[k].entry IN
                          /\ e.enabled /\ e.mine /\ e.grams > 0
                          /\ e.time = Hhmm(fired'[k].minute)
                          /\ IsoDay(fired'[k].minute) \in e.days
      BY <2>4 DEF FiresOnlyWhatIsDue
    <3>1. CASE k = n + 1
      BY <2>3, <2>4, <3>1 DEF Accepted
    <3>2. CASE k \in 1 .. n
      BY <2>4, <3>2 DEF HistoryInv, FiresOnlyWhatIsDue
    <3> QED
      BY <2>4, <3>1, <3>2
  <2>7. FiresOncePerMinuteAndBoot'
    <3> SUFFICES ASSUME NEW j \in 1 .. n + 1, NEW k \in 1 .. n + 1, j < k,
                        fired'[j].boot = fired'[k].boot
                 PROVE  fired'[j].minute < fired'[k].minute
      BY <2>4 DEF FiresOncePerMinuteAndBoot
    <3>1. j \in 1 .. n
      BY <2>4
    <3>2. CASE k = n + 1
      BY <2>4, <2>5, <3>1, <3>2
    <3>3. CASE k \in 1 .. n
      BY <2>4, <3>1, <3>3 DEF HistoryInv, FiresOncePerMinuteAndBoot
    <3> QED
      BY <2>4, <3>2, <3>3
  <2>8. \A k \in 1 .. n + 1 : fired'[k].minute <= minute /\ fired'[k].boot <= reboots
    <3> SUFFICES ASSUME NEW k \in 1 .. n + 1
                 PROVE  fired'[k].minute <= minute /\ fired'[k].boot <= reboots
      OBVIOUS
    <3>1. CASE k = n + 1
      BY <1>0, <2>4, <3>1
    <3>2. CASE k # n + 1
      <4>1. k \in 1 .. n /\ fired'[k] = fired[k]
        BY <2>4, <3>2
      <4> QED
        BY <4>1 DEF HistoryInv
    <3> QED
      BY <3>1, <3>2
  <2>9. IsTable(table')
    BY <2>2 DEF HistoryInv
  <2> QED
    BY <2>2, <2>4, <2>6, <2>7, <2>8, <2>9 DEF HistoryInv
<1>6. CASE Reboot
  <2>1. /\ reboots' = reboots + 1 /\ table' = NoTable
        /\ UNCHANGED <<minute, fired>>
    BY <1>6 DEF Reboot
  <2>2. IsTable(table')
    BY <2>1 DEF NoTable, IsTable
  <2>3. \A i \in 1 .. Len(fired) : fired[i].boot \in Nat /\ fired[i].boot < reboots + 1
    BY <1>0 DEF HistoryInv
  <2> QED
    BY <1>0, <2>1, <2>2, <2>3
       DEF HistoryInv, FiresOnlyWhatIsDue, FiresOncePerMinuteAndBoot
<1> QED
  BY <1>2, <1>3, <1>4, <1>5, <1>6 DEF Next, Quiet

\* The firing invariant holds of every behaviour.
LEMMA HistoryHolds == Spec => []HistoryInv
<1>1. Init => HistoryInv
  BY DEF Init, HistoryInv, NoTable, IsTable, FiresOnlyWhatIsDue,
         FiresOncePerMinuteAndBoot
<1> QED
  BY <1>1, RunnerTyping, HistoryStep, PTL DEF Spec

\* Between two restarts no minute has two feeds, for any interval between the
\* checks, any length of the feeds and any edits of the schedules.
THEOREM OncePerMinute == Spec => []FiresOncePerMinuteAndBoot
<1>1. HistoryInv => FiresOncePerMinuteAndBoot
  BY DEF HistoryInv
<1> QED
  BY <1>1, HistoryHolds, PTL

\* A feed is started only for an enabled entry of this device with a positive
\* amount, in its minute and on one of its ISO days.
THEOREM OnlyWhatIsDue == Spec => []FiresOnlyWhatIsDue
<1>1. HistoryInv => FiresOnlyWhatIsDue
  BY DEF HistoryInv
<1> QED
  BY <1>1, HistoryHolds, PTL

-----------------------------------------------------------------------------
\* A refresh asked for at any moment, even between the test of the flag and
\* its reset or while a fetch is under way, is followed by a fetch.
THEOREM RefreshNeverLost == Spec => []RefreshHonoured
<1> DEFINE R == /\ RefreshHonoured
                /\ pc \in {"clear", "get", "fetch", "check", "sleep", "decide",
                           "feed", "boot_fetch"}
<1>1. Init => R
  BY DEF Init, RefreshHonoured
<1>2. R /\ [Next]_vars => R'
  <2> SUFFICES ASSUME R, [Next]_vars PROVE R'
    OBVIOUS
  <2> USE DEF RefreshHonoured, taskVars
  <2>1. CASE Tick \/ AtHorizon \/ AppEdit \/ Refresh \/ UNCHANGED vars
    BY <2>1 DEF Tick, AtHorizon, AppEdit, Refresh, vars
  <2>2. CASE FetchReturns
    BY <2>2 DEF FetchReturns
  <2>3. CASE WakeUp \/ Decide \/ Clear \/ SendGet
    BY <2>3 DEF WakeUp, Decide, Clear, SendGet
  <2>4. CASE Fire \/ NothingToFire \/ FeedReturns
    BY <2>4 DEF Fire, NothingToFire, FeedReturns
  <2>5. CASE Reboot
    BY <2>5 DEF Reboot
  <2> QED
    BY <2>1, <2>2, <2>3, <2>4, <2>5 DEF Next
<1>3. R => RefreshHonoured
  OBVIOUS
<1> QED
  BY <1>1, <1>2, <1>3, PTL DEF Spec
-----------------------------------------------------------------------------
(***************************************************************************)
(* Time.  What the loop has waited since the table was last refreshed is   *)
(* known at every step of it, and a table that differs from the cloud is   *)
(* no older than that.                                                     *)
(***************************************************************************)
LoopTime == RefreshSlots + MaxFeedSlots + CheckSlots

TimeInv ==
    /\ pc \in Blocking => waited <= Patience
    /\ pc \notin Blocking => waited = 0
    /\ pc \in {"boot_fetch", "fetch"} <=> answers # {}
    /\ \A raw \in answers : raw # cloud => stale <= waited
    /\ table # Parsed(cloud) => stale <= sinceRefresh + MaxFetchSlots
    /\ pc = "boot_fetch" => sinceRefresh <= waited
    /\ pc = "check" => sinceRefresh < RefreshSlots
    /\ pc = "feed" => sinceRefresh < RefreshSlots + waited
    /\ pc = "sleep" => sinceRefresh < RefreshSlots + MaxFeedSlots + waited
    /\ pc \in {"decide", "clear", "get", "fetch"} => sinceRefresh < LoopTime + waited

\* One step keeps the loop in time.
LEMMA TimeStep == TypeOK /\ TimeInv /\ [Next]_vars => TimeInv'
<1> SUFFICES ASSUME TypeOK, TimeInv, [Next]_vars PROVE TimeInv'
  OBVIOUS
<1> USE DEF taskVars, Blocking
<1>0. /\ pc \in Locations /\ waited \in Nat /\ sinceRefresh \in Nat /\ stale \in Nat
      /\ RefreshSlots \in Nat \ {0} /\ CheckSlots \in Nat \ {0}
      /\ MaxFetchSlots \in Nat /\ MaxFeedSlots \in Nat /\ LoopTime \in Nat
  BY ClockAssumption DEF TypeOK, LoopTime
<1> DEFINE Current == \A raw \in answers : raw # cloud => stale <= waited
<1>1. CASE Tick
  <2>1. /\ UNCHANGED <<pc, table, cloud, answers>> /\ waited' = waited + 1
        /\ sinceRefresh' = sinceRefresh + 1 /\ stale' = stale + 1 /\ waited < Patience
    BY <1>1 DEF Tick
  <2>2. pc \in Blocking /\ Patience \in Nat /\ Patience' = Patience
    BY <1>0, <2>1 DEF Patience, Locations
  <2>3. waited' <= Patience'
    BY <1>0, <2>1, <2>2
  <2>4. table' # Parsed(cloud)' => stale' <= sinceRefresh' + MaxFetchSlots
    BY <1>0, <2>1 DEF TimeInv
  <2>5. Current'
    BY <1>0, <2>1 DEF TimeInv
  <2> QED
    BY <1>0, <2>1, <2>2, <2>3, <2>4, <2>5 DEF TimeInv
<1>2. CASE AtHorizon \/ Refresh \/ UNCHANGED vars
  <2>1. UNCHANGED <<pc, waited, table, cloud, answers, stale, sinceRefresh>>
    BY <1>2 DEF AtHorizon, Refresh, vars
  <2> QED
    BY <2>1 DEF TimeInv, Patience
<1>3. CASE AppEdit
  <2>1. /\ UNCHANGED <<pc, waited, table, sinceRefresh>> /\ stale' = 0
        /\ answers' = IF answers = {} THEN {} ELSE answers \cup {cloud'}
    BY <1>3 DEF AppEdit
  <2>2. answers' = {} <=> answers = {}
    BY <2>1
  <2>3. Current' /\ stale' <= sinceRefresh' + MaxFetchSlots
    BY <1>0, <2>1
  <2> QED
    BY <1>0, <2>1, <2>2, <2>3 DEF TimeInv, Patience
<1>4. CASE FetchReturns
  <2>1. /\ sinceRefresh' = 0 /\ waited' = 0 /\ cloud' = cloud /\ answers' = {}
        /\ pc' \in {"sleep", "check"}
    BY <1>4 DEF FetchReturns
  <2>2. table' # Parsed(cloud)' => stale' <= sinceRefresh' + MaxFetchSlots
    <3>1. CASE FetchFails
      BY <1>0, <2>1, <3>1 DEF FetchFails
    <3>2. CASE FetchSucceeds
      <4>1. PICK raw \in answers : table' = Parsed(raw)
        BY <3>2 DEF FetchSucceeds
      <4>2. CASE raw = cloud
        BY <2>1, <4>1, <4>2
      <4>3. CASE raw # cloud
        <5>1. stale <= waited /\ stale' = stale
          BY <3>2, <4>1, <4>3 DEF TimeInv, FetchSucceeds
        <5>2. waited <= MaxFetchSlots
          BY <1>4 DEF FetchReturns, TimeInv, Patience
        <5> QED
          BY <1>0, <2>1, <5>1, <5>2
      <4> QED
        BY <4>2, <4>3
    <3> QED
      BY <1>4, <3>1, <3>2 DEF FetchReturns
  <2>3. Patience' \in Nat
    BY <1>0, <2>1 DEF Patience
  <2> QED
    BY <1>0, <2>1, <2>2, <2>3 DEF TimeInv
<1>5. CASE WakeUp \/ Decide \/ Clear \/ SendGet \/ NothingToFire
  <2>1. UNCHANGED <<table, cloud, stale, sinceRefresh>>
    BY <1>5 DEF WakeUp, Decide, Clear, SendGet, NothingToFire
  <2>2. CASE WakeUp
    <3>1. pc = "sleep" /\ pc' = "decide" /\ waited = CheckSlots /\ waited' = 0 /\ answers' = answers
      BY <2>2 DEF WakeUp
    <3> QED
      BY <1>0, <2>1, <3>1 DEF TimeInv, LoopTime
  <2>3. CASE Decide
    <3>1. /\ pc = "decide" /\ waited' = 0 /\ sinceRefresh < LoopTime
          /\ answers' = answers
      BY <1>0, <2>3 DEF Decide, TimeInv
    <3>2. pc' = "clear" \/ (pc' = "check" /\ ~TimeToRefresh)
      BY <2>3 DEF Decide
    <3>3. ~TimeToRefresh => sinceRefresh < RefreshSlots
      BY <1>0 DEF TimeToRefresh
    <3> QED
      BY <1>0, <2>1, <3>1, <3>2, <3>3 DEF TimeInv
  <2>4. CASE Clear
    BY <1>0, <2>1, <2>4 DEF Clear, TimeInv
  <2>5. CASE SendGet
    <3>1. pc' = "fetch" /\ waited' = 0 /\ sinceRefresh < LoopTime /\ answers' = {cloud}
      BY <1>0, <2>5 DEF SendGet, TimeInv
    <3> QED
      BY <1>0, <2>1, <3>1 DEF TimeInv, Patience
  <2>6. CASE NothingToFire
    <3>1. /\ pc = "check" /\ pc' = "sleep" /\ waited' = 0 /\ sinceRefresh < RefreshSlots
          /\ answers' = answers
      BY <2>6 DEF NothingToFire, TimeInv
    <3> QED
      BY <1>0, <2>1, <3>1 DEF TimeInv, Patience
  <2> QED
    BY <1>5, <2>2, <2>3, <2>4, <2>5, <2>6
<1>6. CASE Fire
  <2>1. /\ UNCHANGED <<table, cloud, answers, stale, sinceRefresh>>
        /\ pc = "check" /\ pc' = "feed" /\ waited' = 0 /\ sinceRefresh < RefreshSlots
    BY <1>6 DEF Fire, TimeInv
  <2> QED
    BY <1>0, <2>1 DEF TimeInv, Patience
<1>7. CASE FeedReturns
  <2>1. /\ UNCHANGED <<table, cloud, answers, stale, sinceRefresh>>
        /\ pc = "feed" /\ pc' = "sleep" /\ waited' = 0 /\ waited <= MaxFeedSlots
        /\ sinceRefresh < RefreshSlots + waited
    BY <1>7 DEF FeedReturns, TimeInv, Patience
  <2>2. sinceRefresh' < RefreshSlots + MaxFeedSlots + waited'
    BY <1>0, <2>1
  <2> QED
    BY <1>0, <2>1, <2>2 DEF TimeInv, Patience
<1>8. CASE Reboot
  <2>1. /\ pc' = "boot_fetch" /\ waited' = 0 /\ sinceRefresh' = 0 /\ stale' = 0
        /\ answers' = {cloud} /\ cloud' = cloud
    BY <1>8 DEF Reboot
  <2> QED
    BY <1>0, <2>1 DEF TimeInv, Patience
<1> QED
  BY <1>1, <1>2, <1>3, <1>4, <1>5, <1>6, <1>7, <1>8 DEF Next

\* The loop keeps its time in every behaviour.
LEMMA TimeHolds == Spec => []TimeInv
<1>1. Init => TimeInv
  BY ClockAssumption DEF Init, TimeInv, Blocking, Patience
<1> QED
  BY <1>1, RunnerTyping, TimeStep, PTL DEF Spec

\* Whatever the intervals, and whatever the app edits, a loaded table that differs
\* from the cloud is younger than one turn of the loop with a feed in it and one
\* request more, whose answer was on its way when the app edited.
THEOREM TableFollowsCloud == Spec => []StaleBounded
<1>1. TypeOK /\ TimeInv => StaleBounded
  <2> SUFFICES ASSUME TypeOK, TimeInv, table # Parsed(cloud)
               PROVE  stale < RefreshSlots + CheckSlots + MaxFeedSlots + 2 * MaxFetchSlots
    BY DEF StaleBounded
  <2>1. /\ pc \in Locations /\ waited \in Nat /\ sinceRefresh \in Nat /\ stale \in Nat
        /\ RefreshSlots \in Nat \ {0} /\ CheckSlots \in Nat \ {0}
        /\ MaxFetchSlots \in Nat /\ MaxFeedSlots \in Nat
    BY ClockAssumption DEF TypeOK
  <2>2. stale <= sinceRefresh + MaxFetchSlots
    BY DEF TimeInv
  <2>3. sinceRefresh < RefreshSlots + CheckSlots + MaxFeedSlots + MaxFetchSlots
    <3>1. CASE pc \in {"boot_fetch", "fetch"}
      <4>1. waited <= MaxFetchSlots
        BY <3>1 DEF TimeInv, Blocking, Patience
      <4> QED
        BY <2>1, <3>1, <4>1 DEF TimeInv, LoopTime
    <3>2. CASE pc = "sleep"
      <4>1. waited <= CheckSlots
        BY <3>2 DEF TimeInv, Blocking, Patience
      <4> QED
        BY <2>1, <3>2, <4>1 DEF TimeInv
    <3>3. CASE pc = "feed"
      <4>1. waited <= MaxFeedSlots
        BY <3>3 DEF TimeInv, Blocking, Patience
      <4> QED
        BY <2>1, <3>3, <4>1 DEF TimeInv
    <3>4. CASE pc \in {"decide", "clear", "get", "check"}
      <4>1. waited = 0
        BY <3>4 DEF TimeInv, Blocking
      <4> QED
        BY <2>1, <3>4, <4>1 DEF TimeInv, LoopTime
    <3> QED
      BY <2>1, <3>1, <3>2, <3>3, <3>4 DEF Locations, Blocking
  <2> QED
    BY <2>1, <2>2, <2>3
<1> QED
  BY <1>1, RunnerTyping, TimeHolds, PTL
-----------------------------------------------------------------------------
(***************************************************************************)
(* Due minutes.  While nothing disturbs a minute in which something is     *)
(* due, either it has been served, or the memory names its time and        *)
(* weekday already, or the task comes to the check before the minute ends. *)
(* The memory, for its part, names a call of this boot: one made whole     *)
(* weeks before.                                                           *)
(***************************************************************************)
Served(m) == \E k \in 1 .. Len(fired) : fired[k].minute = m

WeeksBefore(k, m) == \E w \in Nat : m = k + w * (DaysPerWeek * MinutesPerDay)

ServedWeeksBefore(m) ==
    \E k \in 1 .. Len(fired) : fired[k].boot = reboots /\ WeeksBefore(fired[k].minute, m)

TimeLeft ==
    /\ pc = "sleep" => slot + (CheckSlots - waited) + MaxFetchSlots < SlotsPerMinute
    /\ pc = "fetch" => slot + (MaxFetchSlots - waited) < SlotsPerMinute
    /\ pc \in {"decide", "clear", "get"} => slot + MaxFetchSlots < SlotsPerMinute

DueInv ==
    /\ pc = "boot_fetch" => table = NoTable
    /\ steady /\ IsDue(minute) => Served(minute) \/ AlreadyFired \/ TimeLeft

MemoryInv ==
    lastHhmm # NoTime
        => \E k \in 1 .. Len(fired) :
              /\ fired[k].boot = reboots
              /\ Hhmm(fired[k].minute) = lastHhmm
              /\ IsoIndex(Wday(fired[k].minute)) = lastWday

\* The division with remainder.
LEMMA Division ==
    ASSUME NEW a \in Nat, NEW n \in Nat \ {0}
    PROVE  a \div n \in Nat /\ a % n \in 0 .. n - 1 /\ a = n * (a \div n) + (a % n)
OBVIOUS

\* Of two numbers with the same remainder, the smaller has the smaller quotient.
LEMMA QuotientGrows ==
    ASSUME NEW n \in Nat \ {0}, NEW p \in Nat, NEW q \in Nat, NEW r \in Nat,
           n * p + r <= n * q + r
    PROVE  p <= q
<1> SUFFICES ASSUME q + 1 <= p PROVE FALSE
  OBVIOUS
<1>1. n * p \in Nat /\ n * q \in Nat /\ n * (q + 1) = n * q + n
  OBVIOUS
<1>2. n * (q + 1) <= n * p
  OBVIOUS
<1> QED
  BY <1>1, <1>2

\* Two minutes with the same time and weekday are whole weeks apart.
LEMMA WeeksApart ==
    ASSUME NEW k \in Nat, NEW m \in Nat, k <= m, Hhmm(k) = Hhmm(m),
           IsoIndex(Wday(k)) = IsoIndex(Wday(m))
    PROVE  WeeksBefore(k, m)
<1> DEFINE D == MinutesPerDay
           W == DaysPerWeek
           a == k \div D
           b == m \div D
           p == a \div W
           q == b \div W
           r == Hhmm(k)
           s == Wday(k)
<1>0. D \in Nat \ {0} /\ W \in Nat \ {0} /\ r \in Nat /\ s \in Nat
  BY ClockAssumption, Calendar
<1>1. s = Wday(m)
  BY <1>0, Calendar DEF IsoIndex
<1>2. a \in Nat /\ k = D * a + r
  BY <1>0, Division DEF Hhmm
<1>3. b \in Nat /\ m = D * b + r
  BY <1>0, Division DEF Hhmm
<1>4. p \in Nat /\ a = W * p + s
  BY <1>0, <1>2, Division DEF Wday
<1>5. q \in Nat /\ b = W * q + s
  BY <1>0, <1>1, <1>3, Division DEF Wday
<1> HIDE DEF D, W, a, b, p, q, r, s
<1>6. a <= b
  BY <1>0, <1>2, <1>3, QuotientGrows
<1>7. p <= q
  BY <1>0, <1>4, <1>5, <1>6, QuotientGrows
<1> DEFINE w == q - p
<1>8. w \in Nat /\ q = p + w
  BY <1>4, <1>5, <1>7
<1> HIDE DEF w
<1>9. b = a + W * w
  <2>1. W * q = W * p + W * w /\ W * p \in Nat /\ W * w \in Nat
    BY <1>0, <1>4, <1>8
  <2> QED
    BY <1>0, <1>2, <1>3, <1>4, <1>5, <2>1
<1>10. m = k + D * (W * w)
  <2>1. W * w \in Nat
    BY <1>0, <1>8
  <2>2. D * b = D * a + D * (W * w) /\ D * a \in Nat /\ D * (W * w) \in Nat
    BY <1>0, <1>2, <1>9, <2>1
  <2> QED
    BY <1>0, <1>2, <1>3, <2>2
<1>11. D * (W * w) = w * (W * D)
  BY <1>0, <1>8
<1> QED
  BY <1>8, <1>10, <1>11 DEF WeeksBefore, D, W

\* Less than a week apart they are the same minute.
LEMMA WithinAWeek ==
    ASSUME NEW k \in Nat, NEW m \in Nat, WeeksBefore(k, m),
           m < DaysPerWeek * MinutesPerDay
    PROVE  k = m
<1> DEFINE week == DaysPerWeek * MinutesPerDay
<1>1. week \in Nat
  BY ClockAssumption
<1>2. PICK w \in Nat : m = k + w * week
  BY DEF WeeksBefore
<1> HIDE DEF week
<1>3. w * week < week
  <2>1. w * week \in Nat
    BY <1>1
  <2> QED
    BY <1>1, <1>2, <2>1 DEF week
<1>4. w = 0
  <2> SUFFICES ASSUME w > 0 PROVE FALSE
    OBVIOUS
  <2>1. w * week >= week
    BY <1>1
  <2> QED
    BY <1>1, <1>3, <2>1
<1> QED
  BY <1>1, <1>2, <1>4
-----------------------------------------------------------------------------
\* One step keeps what the memory names among the calls of this boot.
LEMMA MemoryStep == TypeOK /\ MemoryInv /\ [Next]_vars => MemoryInv'
<1> SUFFICES ASSUME TypeOK, MemoryInv, [Next]_vars PROVE MemoryInv'
  OBVIOUS
<1> USE DEF taskVars
<1>1. CASE Tick \/ FetchReturns \/ Quiet
  <2>1. UNCHANGED <<reboots, lastHhmm, lastWday, fired>>
    BY <1>1 DEF Tick, FetchReturns, Quiet, AtHorizon, AppEdit, Refresh, WakeUp, Decide,
                Clear, SendGet, NothingToFire, FeedReturns, vars
  <2> QED
    BY <2>1 DEF MemoryInv
<1>2. CASE Fire
  <2>1. PICK i \in Matching :
          fired' = Append(fired, [minute |-> minute, boot |-> reboots,
                                  entry |-> table[i]])
    BY <1>2 DEF Fire
  <2>2. /\ reboots' = reboots /\ lastHhmm' = Hhmm(minute)
        /\ lastWday' = IsoIndex(Wday(minute))
    BY <1>2 DEF Fire, Remember
  <2>3. /\ fired \in Seq([minute : Nat, boot : Nat, entry : Entries])
        /\ [minute |-> minute, boot |-> reboots, entry |-> table[i]]
              \in [minute : Nat, boot : Nat, entry : Entries]
    BY RunnerBounds DEF TypeOK, Matching
  <2>4. LET n == Len(fired) + 1 IN
          /\ n \in 1 .. Len(fired')
          /\ fired'[n] = [minute |-> minute, boot |-> reboots, entry |-> table[i]]
    BY <2>1, <2>3
  <2> QED
    BY <2>2, <2>4 DEF MemoryInv
<1>3. CASE Reboot
  BY <1>3 DEF Reboot, MemoryInv
<1> QED
  BY <1>1, <1>2, <1>3 DEF Next, Quiet

\* A request and a nap fit into a minute: one step keeps the due minutes on time.
LEMMA DueStep ==
    ASSUME CheckSlots + MaxFetchSlots <= SlotsPerMinute
    PROVE  TypeOK /\ TimeInv /\ DueInv /\ [Next]_vars => DueInv'
<1> SUFFICES ASSUME TypeOK, TimeInv, DueInv, [Next]_vars PROVE DueInv'
  OBVIOUS
<1> USE DEF taskVars
<1>0. /\ SlotsPerMinute \in Nat \ {0} /\ CheckSlots \in Nat \ {0} /\ MaxFetchSlots \in Nat
      /\ slot \in 0 .. SlotsPerMinute - 1 /\ waited \in Nat /\ pc \in Locations
      /\ minute \in Nat
  BY ClockAssumption DEF TypeOK
<1>1. CASE Tick
  <2>1. /\ UNCHANGED <<pc, table, fired, lastHhmm, lastWday>> /\ waited' = waited + 1
        /\ pc \in Blocking /\ waited < Patience
    BY <1>0, <1>1 DEF Tick, Patience, Locations, Blocking
  <2>2. CASE slot = SlotsPerMinute - 1
    <3>1. slot' = 0
      BY <1>1, <2>2 DEF Tick
    <3>2. pc = "sleep" => slot' + (CheckSlots - waited') + MaxFetchSlots < SlotsPerMinute
      BY <1>0, <2>1, <3>1
    <3>3. pc = "fetch" => slot' + (MaxFetchSlots - waited') < SlotsPerMinute
      BY <1>0, <2>1, <3>1
    <3>4. TimeLeft'
      BY <2>1, <3>2, <3>3 DEF TimeLeft, Blocking
    <3> QED
      BY <2>1, <3>4 DEF DueInv
  <2>3. CASE slot # SlotsPerMinute - 1
    <3>1. slot' = slot + 1 /\ UNCHANGED <<minute, steady>>
      BY <1>1, <2>3 DEF Tick
    <3>2. TimeLeft => TimeLeft'
      BY <1>0, <2>1, <3>1 DEF TimeLeft, Blocking
    <3> QED
      BY <2>1, <3>1, <3>2 DEF DueInv, IsDue, Served, AlreadyFired
  <2> QED
    BY <2>2, <2>3
<1>2. CASE AtHorizon \/ AppEdit \/ Refresh \/ UNCHANGED vars
  <2>1. UNCHANGED <<pc, waited, table, fired, lastHhmm, lastWday, minute, slot, steady>>
    BY <1>2 DEF AtHorizon, AppEdit, Refresh, vars
  <2> QED
    BY <2>1 DEF DueInv, IsDue, Served, AlreadyFired, TimeLeft
<1>3. CASE FetchReturns
  <2>1. /\ UNCHANGED <<minute, slot, fired, lastHhmm, lastWday>>
        /\ pc' = IF pc = "boot_fetch" THEN "sleep" ELSE "check"
        /\ steady' => table' = table
    BY <1>3 DEF FetchReturns
  <2>2. CASE pc = "boot_fetch"
    <3>1. pc' = "sleep" /\ (steady' => table' = NoTable)
      BY <2>1, <2>2 DEF DueInv
    <3> QED
      BY <3>1 DEF DueInv, IsDue, NoTable
  <2>3. CASE pc # "boot_fetch"
    BY <2>1, <2>3 DEF DueInv, TimeLeft
  <2> QED
    BY <2>2, <2>3
<1>4. CASE WakeUp \/ Decide \/ Clear \/ SendGet
  <2>1. UNCHANGED <<table, fired, lastHhmm, lastWday, minute, slot, steady>>
    BY <1>4 DEF WakeUp, Decide, Clear, SendGet
  <2>2. pc' # "boot_fetch"
    BY <1>4 DEF WakeUp, Decide, Clear, SendGet
  <2>3. TimeLeft => TimeLeft'
    <3>1. CASE WakeUp
      BY <1>0, <2>1, <3>1 DEF TimeLeft, WakeUp
    <3>2. CASE Decide
      BY <1>0, <2>1, <3>2 DEF TimeLeft, Decide
    <3>3. CASE Clear
      BY <1>0, <2>1, <3>3 DEF TimeLeft, Clear
    <3>4. CASE SendGet
      <4>1. pc = "get" /\ pc' = "fetch" /\ waited' = 0
        BY <3>4 DEF SendGet, TimeInv, Blocking
      <4> QED
        BY <1>0, <2>1, <4>1 DEF TimeLeft
    <3> QED
      BY <1>4, <3>1, <3>2, <3>3, <3>4
  <2> QED
    BY <2>1, <2>2, <2>3 DEF DueInv, IsDue, Served, AlreadyFired
<1>5. CASE Fire
  <2>1. pc' = "feed"
    BY <1>5 DEF Fire
  <2> QED
    BY <2>1 DEF DueInv, TimeLeft
<1>6. CASE NothingToFire
  <2>1. /\ UNCHANGED <<table, fired, lastHhmm, lastWday, minute, steady>> /\ pc' = "sleep"
        /\ AlreadyFired \/ Matching = {}
    BY <1>6 DEF NothingToFire
  <2>2. Matching = {} => ~IsDue(minute)
    BY <1>0, IsoAgrees DEF Matching, IsDue
  <2> QED
    BY <2>1, <2>2 DEF DueInv, IsDue, AlreadyFired
<1>7. CASE FeedReturns
  <2>1. /\ pc' = "sleep" /\ waited' = 0 /\ slot' = slot
        /\ steady' => slot + CheckSlots + MaxFetchSlots < SlotsPerMinute
    BY <1>7 DEF FeedReturns
  <2> QED
    BY <1>0, <2>1 DEF DueInv, TimeLeft
<1>8. CASE Reboot
  <2>1. steady' = FALSE /\ table' = NoTable
    BY <1>8 DEF Reboot
  <2> QED
    BY <2>1 DEF DueInv
<1> QED
  BY <1>1, <1>2, <1>3, <1>4, <1>5, <1>6, <1>7, <1>8 DEF Next

\* The end of an undisturbed due minute outside a feed.
LEMMA DueEnds ==
    TypeOK /\ TimeInv /\ HistoryInv /\ MemoryInv /\ DueInv /\ [Next]_vars
        => [minute' # minute /\ steady /\ pc # "feed" /\ IsDue(minute)
              => Served(minute) \/ ServedWeeksBefore(minute)]_vars
<1> SUFFICES ASSUME TypeOK, TimeInv, HistoryInv, MemoryInv, DueInv, Next,
                    minute' # minute, steady, pc # "feed", IsDue(minute),
                    ~Served(minute)
             PROVE  ServedWeeksBefore(minute)
  OBVIOUS
<1> USE DEF taskVars
<1>0. /\ SlotsPerMinute \in Nat \ {0} /\ CheckSlots \in Nat \ {0} /\ MaxFetchSlots \in Nat
      /\ slot \in 0 .. SlotsPerMinute - 1 /\ waited \in Nat /\ pc \in Locations
      /\ minute \in Nat
      /\ \A k \in 1 .. Len(fired) : fired[k].minute \in Nat /\ fired[k].minute <= minute
  <2>1. \A k \in 1 .. Len(fired) : fired[k] \in [minute : Nat, boot : Nat, entry : Entries]
    BY SeqElements, Zenon DEF TypeOK
  <2> QED
    BY <2>1, ClockAssumption DEF TypeOK, HistoryInv
<1>1. /\ Tick /\ slot = SlotsPerMinute - 1
  BY DEF Next, Tick, AtHorizon, AppEdit, Refresh, FetchReturns, WakeUp, Decide, Clear,
         SendGet, Fire, NothingToFire, FeedReturns, Reboot, vars
<1>2. pc \in {"sleep", "fetch"}
  <2>1. pc \in Blocking
    BY <1>0, <1>1 DEF Tick, Patience, Locations, Blocking
  <2>2. pc # "boot_fetch"
    BY DEF DueInv, IsDue, NoTable
  <2> QED
    BY <2>1, <2>2 DEF Blocking
<1>3. ~TimeLeft
  BY <1>0, <1>1, <1>2 DEF Tick, Patience, TimeLeft
<1>4. AlreadyFired
  BY <1>3 DEF DueInv
<1>5. PICK k \in 1 .. Len(fired) :
        /\ fired[k].boot = reboots
        /\ Hhmm(fired[k].minute) = Hhmm(minute)
        /\ IsoIndex(Wday(fired[k].minute)) = IsoIndex(Wday(minute))
  <2>1. lastHhmm # NoTime
    BY <1>0, <1>4, Calendar, ClockAssumption DEF AlreadyFired
  <2> QED
    BY <1>4, <2>1 DEF AlreadyFired, MemoryInv
<1>6. WeeksBefore(fired[k].minute, minute)
  BY <1>0, <1>5, WeeksApart
<1> QED
  BY <1>5, <1>6 DEF ServedWeeksBefore

\* All of it together, for the two theorems.
LEMMA DueHolds ==
    ASSUME CheckSlots + MaxFetchSlots <= SlotsPerMinute
    PROVE  Spec => []MemoryInv /\ []DueInv
<1>1. Init => MemoryInv /\ DueInv
  BY DEF Init, MemoryInv, DueInv
<1>2. TypeOK /\ TimeInv /\ DueInv /\ [Next]_vars => DueInv'
  BY DueStep
<1> QED
  BY <1>1, <1>2, MemoryStep, RunnerTyping, TimeHolds, PTL DEF Spec

\* An undisturbed minute in which something is due goes by without a feed only
\* after a feed of the same boot whole weeks before: the one way in which the
\* promise of schedule_runner.c:4-5 fails, and the one TLC shows.
THEOREM MissedOnlyWeeksLater ==
    ASSUME CheckSlots + MaxFetchSlots <= SlotsPerMinute
    PROVE  Spec => [][minute' # minute /\ steady /\ pc # "feed" /\ IsDue(minute)
                        => Served(minute) \/ ServedWeeksBefore(minute)]_vars
<1> QED
  BY RunnerTyping, TimeHolds, HistoryHolds, DueHolds, DueEnds, PTL DEF Spec

\* Within one week every such minute is served, for every table and timing.
THEOREM ServedWithinTheWeek ==
    ASSUME CheckSlots + MaxFetchSlots <= SlotsPerMinute,
           Horizon <= DaysPerWeek * MinutesPerDay
    PROVE  Spec => DueMinuteIsServed
<1>1. TypeOK /\ HistoryInv /\ [Next]_vars
        /\ [minute' # minute /\ steady /\ pc # "feed" /\ IsDue(minute)
              => Served(minute) \/ ServedWeeksBefore(minute)]_vars
      => [minute' # minute /\ steady /\ pc # "feed" /\ IsDue(minute)
            => \E i \in 1 .. Len(fired) : fired[i].minute = minute]_vars
  <2> SUFFICES ASSUME TypeOK, HistoryInv, Next, minute' # minute,
                      NEW k \in 1 .. Len(fired), WeeksBefore(fired[k].minute, minute)
               PROVE  fired[k].minute = minute
    BY DEF Served, ServedWeeksBefore, vars
  <2>1. Tick
    BY DEF Next, Tick, AtHorizon, AppEdit, Refresh, FetchReturns, WakeUp, Decide, Clear,
           SendGet, Fire, NothingToFire, FeedReturns, Reboot, vars, taskVars
  <2>2. fired[k] \in [minute : Nat, boot : Nat, entry : Entries]
    BY SeqElements, Zenon DEF TypeOK
  <2>3. minute < DaysPerWeek * MinutesPerDay
    <3>1. DaysPerWeek * MinutesPerDay \in Nat
      BY ClockAssumption
    <3> QED
      BY <2>1, <3>1, RunnerBounds DEF Tick, TypeOK
  <2> QED
    BY <2>2, <2>3, WithinAWeek DEF TypeOK
<1> QED
  BY <1>1, RunnerTyping, HistoryHolds, MissedOnlyWeeksLater, PTL
     DEF Spec, DueMinuteIsServed
=============================================================================
