------------------------------ MODULE MCFeeder ------------------------------
(* Feeder on a small calendar (minutes of two slots, days of two minutes,    *)
(* weeks of two days).  The app orders the Quick Feed without an amount.      *)
EXTENDS Feeder

MCGrams == {10, 25}
MCDefaultGrams == 25

MCOffers == {[action |-> "dispense", grams |-> NoGrams, force |-> TRUE]}

Entry(t, d, g, on, me) ==
    [time |-> t, days |-> d, grams |-> g, enabled |-> on, mine |-> me]

\* Entries for another device and for the other day around those that fire.
MCTables ==
    {<<Entry(1, {1, 2}, 25, TRUE, FALSE), Entry(1, {1}, 25, TRUE, TRUE),
       Entry(1, {2}, 10, TRUE, TRUE)>>}
=============================================================================
