----------------------------- MODULE MCRenewal -----------------------------
(***************************************************************************)
(* Three deployments for TLC, each with as many failures as its margin has *)
(* room for.                                                               *)
(***************************************************************************)
EXTENDS Renewal

\* The timer and a certificate of six days, in hours: not one run may fail.
SixDays ==
  [calendar |-> TRUE, period |-> 24, jitter |-> 12, lifetime |-> 144,
   backdate |-> 1, renewBefore |-> 0, failures |-> 0]

\* The timer, a certificate of ninety days and renew_before = "30d", in half days.
NinetyDays ==
  [calendar |-> TRUE, period |-> 2, jitter |-> 1, lifetime |-> 180,
   backdate |-> 1, renewBefore |-> 60, failures |-> 28]

\* --interval 12h with cycles of up to an hour and six days, in hours.
Sidecar ==
  [calendar |-> FALSE, period |-> 12, jitter |-> 1, lifetime |-> 144,
   backdate |-> 1, renewBefore |-> 0, failures |-> 2]

MCPlans == {SixDays, NinetyDays, Sidecar}

ASSUME MarginHolds == \A p \in Plans : Margin(p)
=============================================================================
