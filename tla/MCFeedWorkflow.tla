--------------------------- MODULE MCFeedWorkflow ---------------------------
(* FeedWorkflow with small constants for TLC.                                *)
EXTENDS FeedWorkflow

MCGrams == {25}
MCDefaultGrams == 25

\* The Quick Feed without an amount, and an action the device does not know.
MCOffers == {[action |-> "dispense", grams |-> NoGrams, force |-> TRUE],
             [action |-> "other", grams |-> NoGrams, force |-> FALSE]}

\* A lost DELETE and the live view have nothing to do with each other: the one is
\* about pending, the other about streaming.  TLC looks at each with a restart.
LostOrWatched == toggles = 0 \/ \A c \in CmdIds : lostAcks[c] = 0
=============================================================================
