------------------------------ MODULE Renewal ------------------------------
(***************************************************************************)
(* When ensure runs and when it renews: the schedule of syscert.timer, or  *)
(* of --interval, against renewal.Due.  A plan is a schedule and a kind of *)
(* certificate, with its times in ticks of one unit.                       *)
(***************************************************************************)
EXTENDS Integers

CONSTANT
  Plans         \* the deployments considered

Plan ==
  [calendar : BOOLEAN,         \* syscert.timer, or syscert --interval
   period : Nat \ {0},         \* OnCalendar=daily, or the interval
   jitter : Nat,               \* RandomizedDelaySec, or the longest cycle
   lifetime : Nat,             \* NotAfter - NotBefore of the CA's certificates
   backdate : Nat,             \* how long before the issuance it puts NotBefore
   renewBefore : Nat,          \* renewal.renew_before, 0 for ""
   failures : Nat]             \* bound: runs in a row that fail, or are missed

ASSUME RenewalAssumption ==
  /\ Plans \subseteq Plan
  /\ \A p \in Plans : p.jitter <= p.period

VARIABLES
  plan,
  left,         \* what is left of the stored certificate, up to its NotAfter
  wait,         \* time to the next scheduled run
  delay,        \* its random delay after midnight, or the length of its cycle
  failed        \* the runs in a row that found it due and failed

vars == <<plan, left, wait, delay, failed>>

\* What is left of a certificate when it is issued.
Fresh(p) == p.lifetime - p.backdate

\* Inspect's renewal window.
Window(p) == IF p.renewBefore = 0 THEN p.lifetime \div 3 ELSE p.renewBefore

\* Mutant: the window is not subtracted.
Due_AtExpiry == left < 0

\* Inspect: now is after NotAfter - window.
Due == left < Window(plan)

TypeOK ==
  /\ plan \in Plans
  /\ left \in Int /\ left <= Fresh(plan)
  /\ delay \in 0..plan.jitter
  /\ wait \in 0..(plan.period + delay)
  /\ failed \in 0..plan.failures

\* The first run, at the end of the installation, has issued.
Init ==
  /\ plan \in Plans
  /\ left = Fresh(plan)
  /\ delay \in 0..plan.jitter
  /\ wait \in 0..(plan.period + delay)
  /\ failed = 0

-----------------------------------------------------------------------------
\* The timer elapses at a new delay after the next midnight; the loop sleeps for
\* the interval and its next cycle takes its time.
Rearm ==
  /\ delay' \in 0..plan.jitter
  /\ wait' = (IF plan.calendar THEN plan.period - delay ELSE plan.period) + delay'

Tick ==
  /\ wait > 0
  /\ wait' = wait - 1 /\ left' = left - 1
  /\ UNCHANGED <<plan, delay, failed>>

\* ensureCycle finds the certificate not due.
RunKeeps ==
  /\ wait = 0 /\ ~Due
  /\ failed' = 0 /\ Rearm /\ UNCHANGED <<plan, left>>

RunRenews ==
  /\ wait = 0 /\ Due
  /\ left' = Fresh(plan) /\ failed' = 0 /\ Rearm /\ UNCHANGED plan

\* The order is refused, the CA is away, the host is down: no retry before the
\* next run.
RunFails ==
  /\ wait = 0 /\ Due /\ failed < plan.failures
  /\ failed' = failed + 1 /\ Rearm /\ UNCHANGED <<plan, left>>

\* renew --force, issue, void, or the run after a boot: between two scheduled
\* runs, which stay where they are.
ByHand ==
  /\ wait > 0
  /\ left' = Fresh(plan) /\ failed' = 0
  /\ UNCHANGED <<plan, wait, delay>>

Next == Tick \/ RunKeeps \/ RunRenews \/ RunFails \/ ByHand

Spec == Init /\ [][Next]_vars

-----------------------------------------------------------------------------
\* What one more failed run costs.
Cost(p) == IF p.calendar THEN p.period ELSE p.period + p.jitter

\* The window leaves room for the failures, and a new certificate is not due.
Margin(p) ==
  /\ (p.failures + 1) * Cost(p) + (IF p.calendar THEN p.jitter ELSE 0) < Window(p)
  /\ Window(p) <= Fresh(p)

\* "A daily check covers both long-lived (~90d) and short-lived (~6d) certs"
\* (syscert.timer): the stored certificate never expires while no more runs in a
\* row fail than the plan has room for.
NeverExpired == left > 0

\* What keeps that so: at the next run the certificate is still outside its
\* window, or has lost at most a period for every failed run.
InTime ==
  left - wait >=
    Window(plan) - (failed + 1) * Cost(plan) - (IF plan.calendar THEN delay ELSE 0)

\* docs/configuration.md of an empty renew_before: "short-lived certs renew ~daily".
RenewedAboutDaily == failed = 0 => Fresh(plan) - left <= 2 * plan.period + plan.jitter
=============================================================================
