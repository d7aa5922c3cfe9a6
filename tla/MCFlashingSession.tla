------------------------- MODULE MCFlashingSession -------------------------
(* Instances of FlashingSession for TLC.                                    *)
EXTENDS FlashingSession

\* One thing goes wrong per behaviour: a second session, a power loss, a fault
\* or a stray command.
Troubles == sessions + losses + faults + strays <= 2
=============================================================================
