-------------------------- MODULE MCScheduleRunner --------------------------
(* ScheduleRunner on a small calendar: days of three minutes, weeks of two   *)
(* days (1, and 2 which is Sunday), minutes of three slots.                  *)
EXTENDS ScheduleRunner

Entry(t, d, g, on, me) ==
    [time |-> t, days |-> d, grams |-> g, enabled |-> on, mine |-> me]

\* Fed every day at minute 1.
Daily == <<Entry(1, {1, 2}, 10, TRUE, TRUE)>>

\* Fed on Sunday only.
Weekly == <<Entry(1, {2}, 10, TRUE, TRUE)>>

\* Entries that parse_schedules skips around two it keeps; one array slot less
\* than it could use.
Mixed == <<Entry(0, {1}, 10, FALSE, TRUE), Entry(NoTime, {1, 2}, 10, TRUE, TRUE),
           Entry(2, {1}, 10, TRUE, TRUE), Entry(1, {1, 2}, 0, TRUE, TRUE),
           Entry(0, {2}, 10, TRUE, FALSE), Entry(0, {1, 2}, 20, TRUE, TRUE),
           Entry(1, {1, 2}, 30, TRUE, TRUE)>>

EditedTables == {<<>>, Daily, Mixed}
WeeklyTables == {Weekly}
=============================================================================
