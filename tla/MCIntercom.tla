----------------------------- MODULE MCIntercom -----------------------------
(* Intercom with a buffer of three samples and messages of one and two.      *)
EXTENDS Intercom

MCLengths == {1, 2}
=============================================================================
