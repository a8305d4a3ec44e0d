----------------------------- MODULE FeedService -----------------------------
(***************************************************************************)
(* What the feeder promises about one feed, whoever asked for it: feeds    *)
(* are served one at a time; a feed is either given up before any food     *)
(* has moved, or it has its dispense step and is then reported at most     *)
(* once, with the amount it was asked for; and a feed that began ends.     *)
(* FeedWorkflow, the tasks of main.c, is checked to implement this module. *)
(***************************************************************************)
EXTENDS Integers

VARIABLES
    phase,    \* where the current feed stands
    asked,    \* the amount the current feed was asked for
    count,    \* how many feeds have begun
    poured,   \* <<feed, grams>> of every feed whose food has moved
    reports   \* <<feed, grams>> of every feed event in the cloud

vars == <<phase, asked, count, poured, reports>>

Phases == {"idle", "approach", "dispensed", "reported"}

TypeOK ==
    /\ phase \in Phases
    /\ asked \in Int
    /\ count \in Nat
    /\ poured \subseteq (Nat \X Int)
    /\ reports \subseteq (Nat \X Int)

Init ==
    /\ phase = "idle"
    /\ asked = 0
    /\ count = 0
    /\ poured = {}
    /\ reports = {}

\* Someone asks for g grams and nobody is being fed.
Begin ==
    /\ phase = "idle"
    /\ phase' = "approach"
    /\ asked' \in Int
    /\ count' = count + 1
    /\ UNCHANGED <<poured, reports>>

\* The pet never came: nothing is dispensed and nothing is reported.
GiveUp ==
    /\ phase = "approach"
    /\ phase' = "idle"
    /\ asked' = 0
    /\ UNCHANGED <<count, poured, reports>>

\* The dispenser turns an amount that makes sense into food.
Pour ==
    /\ phase = "approach"
    /\ asked > 0
    /\ phase' = "dispensed"
    /\ poured' = poured \cup {<<count, asked>>}
    /\ UNCHANGED <<asked, count, reports>>

\* The dispenser refuses an amount that does not.
Refuse ==
    /\ phase = "approach"
    /\ asked <= 0
    /\ phase' = "dispensed"
    /\ UNCHANGED <<asked, count, poured, reports>>

\* The event reaches the cloud, or is lost on the way.
Report ==
    /\ phase = "dispensed"
    /\ phase' = "reported"
    /\ reports' \in {reports, reports \cup {<<count, asked>>}}
    /\ UNCHANGED <<asked, count, poured>>

Finish ==
    /\ phase = "reported"
    /\ phase' = "idle"
    /\ asked' = 0
    /\ UNCHANGED <<count, poured, reports>>

\* The device restarts: the current feed is gone, the cloud keeps the reports.
PowerLoss ==
    /\ phase' = "idle"
    /\ asked' = 0
    /\ UNCHANGED <<count, poured, reports>>

Progress == GiveUp \/ Pour \/ Refuse \/ Report \/ Finish

Next == Begin \/ Progress \/ PowerLoss

Spec == Init /\ [][Next]_vars /\ WF_vars(Progress)
=============================================================================
