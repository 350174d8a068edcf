----------------------------- MODULE MCAccount -----------------------------
(***************************************************************************)
(* Small instances of Account for TLC.                                     *)
(***************************************************************************)
EXTENDS Account

CONSTANTS timer, operator

\* One slot, put to every use.
MayAll == [p \in {timer} |-> Uses]
\* The timer's slot.
MayEnsure == [p \in {timer} |-> {"obtain"}]
\* The first run of the timer and one by hand.
MayRace == [p \in {timer, operator} |-> {"obtain"}]
=============================================================================
