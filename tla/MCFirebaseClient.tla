-------------------------- MODULE MCFirebaseClient --------------------------
EXTENDS FirebaseClient
CONSTANTS a, b, s
MCRest == {a, b}
MCStream == {s}
=============================================================================
