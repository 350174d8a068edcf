------------------------------ MODULE Interval ------------------------------
(***************************************************************************)
(* One process of the zero-argument command: the checks before the first   *)
(* cycle, the cycle, and with --interval the loop, its sleep and SIGTERM.  *)
(* The process keeps its last pc when it ends.                             *)
(***************************************************************************)
EXTENDS Naturals

CONSTANTS
  Longest,      \* the longest an order may take, DNS propagation included
  Graces        \* the times a runtime may leave between SIGTERM and SIGKILL

ASSUME IntervalAssumption == Longest \in Nat /\ Graces \subseteq Nat

VARIABLES
  caBundle,     \* [acme] ca_bundle is set: the client has no time limit
  patience,     \* the runtime's grace
  mode,         \* "once" or "loop", after the checks
  pc,
  err,       \* the cycle returned an error
  cancelled,    \* the context of signal.NotifyContext
  timer,        \* the timer of sleepCtx
  late,         \* cycles begun with the context cancelled, counted up to 2
  work,         \* what the order still takes
  grace,        \* what is left of it once the signal was sent
  status        \* running, killed by a signal, or the exit code

loopVars == <<caBundle, patience, mode, pc, err, cancelled, timer, late, work, grace, status>>

Cycle == {"decide", "provision", "deliver", "observe"}

Places == {"start", "return", "sleep"} \cup Cycle

LoopTypeOK ==
  /\ caBundle \in BOOLEAN /\ patience \in Graces
  /\ mode \in {"unknown", "once", "loop"}
  /\ pc \in Places
  /\ err \in BOOLEAN /\ cancelled \in BOOLEAN
  /\ timer \in {"off", "armed", "fired"}
  /\ late \in 0..2 /\ work \in 0..Longest /\ grace \in 0..patience
  /\ status \in {"running", "killed", "0", "1", "2"}

LoopInit ==
  /\ caBundle \in BOOLEAN
  /\ patience \in Graces /\ grace = patience
  /\ mode = "unknown" /\ pc = "start"
  /\ err = FALSE /\ cancelled = FALSE
  /\ timer = "off" /\ late = 0 /\ work = 0 /\ status = "running"

-----------------------------------------------------------------------------
At(label) == status = "running" /\ pc = label

\* An env file or the configuration does not load, the interval does not parse or
\* is below a minute, the configuration has problems, the store is another user's.
Refuse ==
  /\ At("start")
  /\ status' \in {"1", "2"}
  /\ UNCHANGED <<caBundle, patience, mode, pc, err, cancelled, timer, late, work, grace>>

\* One shot, or NotifyContext and the loop.
Begin ==
  /\ At("start")
  /\ mode' \in {"once", "loop"}
  /\ pc' = "decide"
  /\ UNCHANGED <<caBundle, patience, err, cancelled, timer, late, work, grace, status>>

Return(e) == pc' = "return" /\ err' = e

\* The stored certificate is missing or due, is neither, or cannot be read.
Decide ==
  /\ At("decide")
  /\ \/ pc' = "provision" /\ work' \in 0..Longest /\ UNCHANGED err
     \/ pc' = "deliver" /\ UNCHANGED <<work, err>>
     \/ Return(TRUE) /\ UNCHANGED work
  /\ UNCHANGED <<caBundle, patience, mode, cancelled, timer, late, grace, status>>

\* provision has no context: a signal does not reach it, it takes its time.
Elapse ==
  /\ At("provision") /\ work > 0
  /\ work' = work - 1
  /\ grace' = IF cancelled /\ grace > 0 THEN grace - 1 ELSE grace
  /\ UNCHANGED <<caBundle, patience, mode, pc, err, cancelled, timer, late, status>>

\* The CA says nothing.  The HTTP client newClientAndAccount makes for a ca_bundle
\* has no time limit, so only the runtime's patience is spent.
Silent ==
  /\ At("provision") /\ caBundle
  /\ cancelled /\ grace > 0
  /\ grace' = grace - 1
  /\ UNCHANGED <<caBundle, patience, mode, pc, err, cancelled, timer, late, work, status>>

Provision ==
  /\ At("provision") /\ work = 0
  /\ \/ pc' = "deliver" /\ UNCHANGED err
     \/ Return(TRUE)
  /\ UNCHANGED <<caBundle, patience, mode, cancelled, timer, late, work, grace, status>>

Deliver ==
  /\ At("deliver")
  /\ pc' = "observe" /\ err' \in BOOLEAN
  /\ UNCHANGED <<caBundle, patience, mode, cancelled, timer, late, work, grace, status>>

\* The observation files are written before the error of the delivery is returned.
Observe ==
  /\ At("observe")
  /\ Return(err)
  /\ UNCHANGED <<caBundle, patience, mode, cancelled, timer, late, work, grace, status>>

EndOnce ==
  /\ At("return") /\ mode = "once"
  /\ status' = IF err THEN "1" ELSE "0"
  /\ UNCHANGED <<caBundle, patience, mode, pc, err, cancelled, timer, late, work, grace>>

\* Mutant: the error of a cycle ends the loop.
EndCycle_Returns ==
  /\ At("return") /\ mode = "loop"
  /\ IF cancelled \/ err
       THEN status' = (IF err THEN "1" ELSE "0") /\ UNCHANGED <<pc, timer>>
       ELSE pc' = "sleep" /\ timer' = "armed" /\ UNCHANGED status
  /\ UNCHANGED <<caBundle, patience, mode, err, cancelled, late, work, grace>>

\* Mutant: the context is looked at in the sleep only.
EndCycle_Sleeps ==
  /\ At("return") /\ mode = "loop"
  /\ pc' = "sleep" /\ timer' = "armed"
  /\ UNCHANGED <<caBundle, patience, mode, err, cancelled, late, work, grace, status>>

\* An error is logged, and forgotten.
EndCycle ==
  /\ At("return") /\ mode = "loop"
  /\ IF cancelled
       THEN status' = "0" /\ UNCHANGED <<pc, timer>>
       ELSE pc' = "sleep" /\ timer' = "armed" /\ UNCHANGED status
  /\ UNCHANGED <<caBundle, patience, mode, err, cancelled, late, work, grace>>

TimerFires ==
  /\ timer = "armed" /\ status = "running"
  /\ timer' = "fired"
  /\ UNCHANGED <<caBundle, patience, mode, pc, err, cancelled, late, work, grace, status>>

\* The two cases of the select; with both ready, either is taken.
Wake ==
  /\ At("sleep") /\ timer = "fired"
  /\ pc' = "decide" /\ timer' = "off" /\ err' = FALSE
  /\ late' = IF cancelled /\ late < 2 THEN late + 1 ELSE late
  /\ UNCHANGED <<caBundle, patience, mode, cancelled, work, grace, status>>

Cancelled ==
  /\ At("sleep") /\ cancelled
  /\ status' = "0" /\ timer' = "off"
  /\ UNCHANGED <<caBundle, patience, mode, pc, err, cancelled, late, work, grace>>

\* Mutant: the signal is not handled.
Signal_Default ==
  /\ status = "running" /\ ~cancelled
  /\ status' = "killed"
  /\ UNCHANGED <<caBundle, patience, mode, pc, err, cancelled, timer, late, work, grace>>

\* SIGTERM or SIGINT.  Before NotifyContext, and in one shot, it has its default
\* action; later signals add nothing to the first.
Signal ==
  /\ status = "running" /\ ~cancelled
  /\ IF mode = "loop"
       THEN cancelled' = TRUE /\ UNCHANGED status
       ELSE status' = "killed" /\ UNCHANGED cancelled
  /\ UNCHANGED <<caBundle, patience, mode, pc, err, timer, late, work, grace>>

\* The runtime loses patience.
SigKill ==
  /\ status = "running" /\ cancelled /\ grace = 0
  /\ status' = "killed"
  /\ UNCHANGED <<caBundle, patience, mode, pc, err, cancelled, timer, late, work, grace>>

\* The steps that wait for nobody, and those that wait for the CA.
Local ==
  \/ Refuse \/ Begin \/ Decide \/ Deliver \/ Observe
  \/ EndOnce \/ EndCycle \/ Wake \/ Cancelled

Order == Elapse \/ Provision

LoopNext == Local \/ Order \/ Silent \/ TimerFires \/ Signal \/ SigKill

LoopSpec == LoopInit /\ [][LoopNext]_loopVars

\* Local steps are taken, time passes, and an order comes to an end, one way or the
\* other, where the client gives up (lego's own client and its DNS checks do).
LoopFairSpec ==
  /\ LoopSpec
  /\ WF_loopVars(Local) /\ WF_loopVars(TimerFires)
  /\ WF_loopVars(~caBundle /\ Order)

\* The process waits for a CA that may never answer.
Hung == caBundle /\ At("provision")

-----------------------------------------------------------------------------
\* "the cycle is never abandoned half-way" (ensureCycle): a loop that ends has
\* finished its cycle, and the one that the race below may add, if no order takes
\* as long as the grace.
WholeCycles ==
  ~caBundle /\ Longest < patience /\ mode = "loop" /\ status # "running" => pc \in {"return", "sleep"}

\* However sleep and signal meet, at most one more cycle begins after the signal.
AtMostOneLate == late <= 1

\* What keeps that so: nothing counts before the signal, only a loop hears it, and a
\* late cycle does not sleep again,
Heard ==
  /\ pc = "start" <=> mode = "unknown"
  /\ cancelled => mode = "loop"
  /\ ~cancelled => late = 0 /\ grace = patience
  /\ late > 0 => late = 1 /\ pc # "sleep"

\* and the grace is whole until an order spends it, and outlasts what the order takes.
GraceLasts ==
  cancelled => /\ pc \in {"decide", "sleep"} => grace = patience
               /\ grace > (IF pc = "provision" THEN work ELSE 0)

\* A signal ends the loop, in whatever it finds it, unless an order hangs for ever.
SignalStops == <>[]Hung \/ (cancelled ~> status # "running")

\* "a sidecar must survive transient ACME/DNS/network blips": without a signal, and
\* unless an order hangs for ever, there is always another cycle.
KeepsGoing == <>[]Hung \/ [](mode = "loop" => <>(pc = "decide" \/ cancelled))

\* The same without the exception, which the code does not keep: a connection that
\* dies in silence is a blip too, and with a ca_bundle it stops the loop for good.
SurvivesSilence == [](mode = "loop" => <>(pc = "decide" \/ cancelled))
=============================================================================
