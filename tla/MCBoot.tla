------------------------------- MODULE MCBoot -------------------------------
EXTENDS Boot
CONSTANTS sched, cmd
MCRest == {sched, cmd}
=============================================================================
