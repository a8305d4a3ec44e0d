-------------------------- MODULE MCCameraPipeline --------------------------
(* CameraPipeline with two addresses, one of which may come back.            *)
EXTENDS CameraPipeline

CONSTANTS b1, b2

MCBases == {b1, b2}
=============================================================================
