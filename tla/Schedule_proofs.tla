-------------------------- MODULE Schedule_proofs --------------------------
(***************************************************************************)
(* The two schedulers.  For every schedule and every certificate with the  *)
(* margin, the stored certificate does not expire.  The loop of --interval *)
(* begins at most one cycle after its signal, and ends none half-way.      *)
(***************************************************************************)
EXTENDS Renewal, Interval, TLAPS

USE RenewalAssumption DEF RenewalAssumption, Plan

LEMMA Numbers ==
  ASSUME NEW p \in Plans
  PROVE  /\ Window(p) \in Int /\ Fresh(p) \in Int /\ Cost(p) \in Nat
         /\ p.period \in Nat /\ p.jitter \in 0..p.period /\ p.failures \in Nat
         /\ p.calendar \in BOOLEAN
BY DEF Window, Fresh, Cost

\* Multiplication is kept away from the steps: one more failure is one cost more,
LEMMA OneMore ==
  ASSUME NEW n \in Nat, NEW c \in Nat
  PROVE  (n + 1) * c \in Int /\ (n + 1 + 1) * c = (n + 1) * c + c /\ (0 + 1) * c = c
OBVIOUS

\* and more failures cost more.
LEMMA Monotone ==
  ASSUME NEW m \in Nat, NEW n \in 0..m, NEW c \in Nat
  PROVE  (n + 1) * c <= (m + 1) * c
<1>1. PICK k \in Nat : m + 1 = n + 1 + k
  <2>1. m - n \in Nat /\ m + 1 = n + 1 + (m - n)
    OBVIOUS
  <2> QED BY <2>1
<1>2. (m + 1) * c = (n + 1) * c + k * c
  BY <1>1
<1>3. k * c \in Nat /\ (n + 1) * c \in Nat
  OBVIOUS
<1> QED BY <1>2, <1>3

LEMMA Reset ==
  ASSUME NEW p \in Nat, NEW d \in 0..p, NEW e \in Nat
  PROVE  p - d + e \in 0..(p + e) /\ p + e \in 0..(p + e)
OBVIOUS

\* The next run is at most a period and its own delay away.
LEMMA NextRun ==
  ASSUME TypeOK, Rearm
  PROVE  /\ delay' \in 0..plan.jitter /\ wait' \in 0..(plan.period + delay')
         /\ plan.calendar => wait' = plan.period - delay + delay'
         /\ ~plan.calendar => wait' = plan.period + delay'
<1>1. CASE plan.calendar
  <2>1. wait' = plan.period - delay + delay'
    BY <1>1 DEF Rearm
  <2>2. delay \in 0..plan.jitter /\ delay' \in 0..plan.jitter
    BY DEF TypeOK, Rearm
  <2>3. wait' \in 0..(plan.period + delay')
    <3>1. delay \in 0..plan.period /\ delay' \in Nat /\ plan.period \in Nat
      BY <2>2, Numbers DEF TypeOK
    <3> QED BY <2>1, <3>1, Reset
  <2> QED BY <1>1, <2>1, <2>2, <2>3
<1>2. CASE ~plan.calendar
  <2>1. wait' = plan.period + delay'
    BY <1>2 DEF Rearm
  <2>2. delay \in 0..plan.jitter /\ delay' \in 0..plan.jitter
    BY DEF TypeOK, Rearm
  <2>3. wait' \in 0..(plan.period + delay')
    <3>1. delay \in 0..plan.period /\ delay' \in Nat /\ plan.period \in Nat
      BY <2>2, Numbers DEF TypeOK
    <3> QED BY <2>1, <3>1, Reset
  <2> QED BY <1>2, <2>1, <2>2, <2>3
<1> QED BY <1>1, <1>2

\* Every action of the schedule keeps the types.
LEMMA Typed == Spec => []TypeOK
<1> USE DEF TypeOK
<1>1. Init => TypeOK
  BY Numbers DEF Init
<1>2. ASSUME TypeOK, [Next]_vars PROVE TypeOK'
  <2>1. CASE Tick
    BY <1>2, <2>1, Numbers DEF Tick
  <2>2. CASE RunKeeps
    BY <1>2, <2>2, Numbers, NextRun DEF RunKeeps
  <2>3. CASE RunRenews
    BY <1>2, <2>3, Numbers, NextRun DEF RunRenews
  <2>4. CASE RunFails
    BY <1>2, <2>4, Numbers, NextRun DEF RunFails
  <2>5. CASE ByHand
    BY <1>2, <2>5, Numbers DEF ByHand
  <2>6. CASE UNCHANGED vars
    BY <1>2, <2>6 DEF vars
  <2> QED BY <1>2, <2>1, <2>2, <2>3, <2>4, <2>5, <2>6 DEF Next
<1> QED BY <1>1, <1>2, PTL DEF Spec

\* The inductive invariant (renewal.Due, syscert.timer): at the next run the
\* certificate is still outside its window, less what the failed runs have cost.
THEOREM RunsInTime == ASSUME \A p \in Plans : Margin(p) PROVE Spec => []InTime
<1> DEFINE cost == Cost(plan)
           slack == IF plan.calendar THEN delay ELSE 0
<1> USE DEF TypeOK
<1>0. ASSUME plan \in Plans PROVE cost \in Nat /\ 1 * cost = cost /\ Window(plan) <= Fresh(plan)
  BY <1>0, Numbers DEF Margin
<1>1. ASSUME Init PROVE InTime
  <2>1. left - wait >= Window(plan) - cost - slack
    BY <1>0, <1>1, Numbers DEF Init, Cost
  <2>2. (failed + 1) * cost = cost
    BY <1>0, <1>1 DEF Init
  <2> QED BY <2>1, <2>2 DEF InTime
<1>2. ASSUME TypeOK, InTime, [Next]_vars PROVE InTime'
  <2> DEFINE spent == (failed + 1) * cost
             slackN == IF plan.calendar THEN delay' ELSE 0
  <2>0. /\ spent \in Int /\ cost \in Nat
        /\ (failed + 1 + 1) * cost = spent + cost /\ (0 + 1) * cost = cost
    BY <1>0, <1>2, OneMore
  <2>1. left - wait >= Window(plan) - spent - slack
    BY <1>2 DEF InTime
  <2>2. SUFFICES /\ plan' = plan
                 /\ left' - wait' >= Window(plan) - (failed' + 1) * cost - slackN
    BY DEF InTime
  <2>3. CASE Tick
    <3>1. left' - wait' = left - wait /\ failed' = failed /\ slackN = slack
      BY <1>2, <2>3 DEF Tick
    <3> QED BY <2>1, <2>3, <3>1 DEF Tick
  <2>4. CASE RunKeeps
    <3>1. left' - wait' >= Window(plan) - cost - slackN
      BY <1>2, <2>4, Numbers, NextRun DEF RunKeeps, Due, Cost
    <3> QED BY <2>0, <2>4, <3>1 DEF RunKeeps
  <2>5. CASE RunRenews
    <3>1. left' - wait' >= Window(plan) - cost - slackN
      BY <1>0, <1>2, <2>5, Numbers, NextRun DEF RunRenews, Cost
    <3> QED BY <2>0, <2>5, <3>1 DEF RunRenews
  <2>6. CASE RunFails
    <3> HIDE DEF spent
    <3>1. left' - wait' >= Window(plan) - (spent + cost) - slackN
      BY <1>2, <2>0, <2>1, <2>6, Numbers, NextRun DEF RunFails, Cost
    <3> QED BY <2>0, <2>6, <3>1 DEF RunFails
  <2>7. CASE ByHand
    <3>1. left' - wait' >= Window(plan) - cost - slackN
      BY <1>0, <1>2, <2>7, Numbers DEF ByHand, Cost
    <3> QED BY <2>0, <2>7, <3>1 DEF ByHand
  <2>8. CASE UNCHANGED vars
    BY <1>2, <2>1, <2>8 DEF vars
  <2> QED BY <1>2, <2>3, <2>4, <2>5, <2>6, <2>7, <2>8 DEF Next
<1> QED BY <1>1, <1>2, Typed, PTL DEF Spec

\* Never expired (NeverExpired): with the margin, every length of certificate,
\* period and delay leaves some of the certificate at all times.
THEOREM StaysValid == ASSUME \A p \in Plans : Margin(p) PROVE Spec => []NeverExpired
<1>1. ASSUME TypeOK, InTime PROVE NeverExpired
  <2> DEFINE spent == (failed + 1) * Cost(plan)
             most == (plan.failures + 1) * Cost(plan)
             window == Window(plan)
             slack == IF plan.calendar THEN delay ELSE 0
             mostSlack == IF plan.calendar THEN plan.jitter ELSE 0
  <2>1. spent <= most
    BY <1>1, Numbers, Monotone DEF TypeOK
  <2>2. spent \in Int /\ most \in Int /\ window \in Int
    BY <1>1, Numbers, OneMore DEF TypeOK
  <2>3. left - wait >= window - spent - slack
    BY <1>1 DEF InTime
  <2>4. most + mostSlack < window
    BY <1>1 DEF Margin, TypeOK
  <2>5. slack \in Nat /\ mostSlack \in Nat /\ slack <= mostSlack
    BY <1>1, Numbers DEF TypeOK
  <2>6. left \in Int /\ wait \in Nat
    BY <1>1, Numbers DEF TypeOK
  <2> HIDE DEF spent, most, window, slack, mostSlack
  <2> QED BY <2>1, <2>2, <2>3, <2>4, <2>5, <2>6 DEF NeverExpired
<1> QED BY <1>1, RunsInTime, Typed, PTL

-----------------------------------------------------------------------------
(* The loop of --interval and its signal.                                  *)

\* Every step of the process keeps its types.
THEOREM LoopTypeCorrect == LoopSpec => []LoopTypeOK
<1> USE IntervalAssumption DEF IntervalAssumption, LoopTypeOK, Places, Cycle
<1>1. ASSUME LoopInit PROVE LoopTypeOK
  <2>1. patience \in Nat /\ Longest \in Nat
    BY <1>1 DEF LoopInit
  <2>2. grace \in 0..patience /\ work \in 0..Longest /\ late \in 0..2
    BY <1>1, <2>1 DEF LoopInit
  <2> QED BY <1>1, <2>2 DEF LoopInit
<1>2. ASSUME LoopTypeOK, [LoopNext]_loopVars PROVE LoopTypeOK'
  <2> USE <1>2
  <2>1. CASE Refuse \/ Begin
    BY <2>1 DEF Refuse, Begin, At
  <2>2. CASE Decide \/ Provision \/ Deliver \/ Observe
    BY <2>2 DEF Decide, Provision, Deliver, Observe, Return, At
  <2>3. CASE Elapse \/ Silent
    BY <2>3 DEF Elapse, Silent, At
  <2>4. CASE EndOnce \/ EndCycle
    BY <2>4 DEF EndOnce, EndCycle, At
  <2>5. CASE Wake
    <3>1. late' \in 0..2
      BY <2>5 DEF Wake
    <3> QED BY <2>5, <3>1 DEF Wake, At
  <2>6. CASE Cancelled \/ TimerFires \/ Signal \/ SigKill
    BY <2>6 DEF Cancelled, TimerFires, Signal, SigKill, At
  <2>7. CASE UNCHANGED loopVars
    BY <2>7 DEF loopVars
  <2> QED BY <1>2, <2>1, <2>2, <2>3, <2>4, <2>5, <2>6, <2>7 DEF LoopNext, Local, Order
<1> QED BY <1>1, <1>2, PTL DEF LoopSpec

\* Nothing counts before the signal, and a late cycle does not sleep again.
LEMMA SignalsAreHeard == LoopSpec => []Heard
<1> USE IntervalAssumption DEF IntervalAssumption, LoopTypeOK, Places, Cycle, Heard
<1>1. LoopInit => Heard
  BY DEF LoopInit
<1>2. ASSUME LoopTypeOK, Heard, [LoopNext]_loopVars PROVE Heard'
  <2> USE <1>2
  <2>1. CASE Refuse \/ Begin
    BY <2>1 DEF Refuse, Begin, At
  <2>2. CASE Decide \/ Provision \/ Deliver \/ Observe
    BY <2>2 DEF Decide, Provision, Deliver, Observe, Return, At
  <2>3. CASE Elapse \/ Silent
    BY <2>3 DEF Elapse, Silent, At
  <2>4. CASE EndOnce \/ EndCycle
    BY <2>4 DEF EndOnce, EndCycle, At
  <2>5. CASE Wake
    <3>1. late = 0 /\ pc' = "decide"
      BY <2>5 DEF Wake, At
    <3> QED BY <2>5, <3>1 DEF Wake, At
  <2>6. CASE Cancelled \/ TimerFires \/ Signal \/ SigKill
    BY <2>6 DEF Cancelled, TimerFires, Signal, SigKill, At
  <2>7. CASE UNCHANGED loopVars
    BY <2>7 DEF loopVars
  <2> QED BY <1>2, <2>1, <2>2, <2>3, <2>4, <2>5, <2>6, <2>7 DEF LoopNext, Local, Order
<1> QED BY <1>1, <1>2, LoopTypeCorrect, PTL DEF LoopSpec

\* At most one cycle begins after the signal (AtMostOneLate, sleepCtx and
\* runIntervalLoop), whatever the order of timer, signal and cycle.
THEOREM OneLateCycle == LoopSpec => []AtMostOneLate
<1>1. LoopTypeOK /\ Heard => AtMostOneLate
  BY DEF LoopTypeOK, Heard, AtMostOneLate
<1> QED BY <1>1, LoopTypeCorrect, SignalsAreHeard, PTL

\* If no order takes as long as the grace, a loop never ends half-way through a cycle
\* (WholeCycles): the inductive invariant is that the grace outlasts the order.
THEOREM CyclesAreWhole == LoopSpec => []WholeCycles
<1> DEFINE Lasts == ~caBundle /\ Longest < patience => GraceLasts
<1> USE IntervalAssumption DEF IntervalAssumption, LoopTypeOK, Places, Cycle
<1>1. LoopInit => Lasts /\ WholeCycles
  BY DEF LoopInit, GraceLasts, WholeCycles
<1>2. ASSUME LoopTypeOK, Heard, Lasts, WholeCycles, [LoopNext]_loopVars
      PROVE  Lasts' /\ WholeCycles'
  <2> USE <1>2 DEF Heard, GraceLasts, WholeCycles
  <2>0. patience \in Nat /\ work \in Nat /\ grace \in Nat
    OBVIOUS
  <2>1. CASE Refuse \/ Begin
    BY <2>1 DEF Refuse, Begin, At
  <2>2. CASE Decide \/ Provision \/ Deliver \/ Observe
    BY <2>0, <2>2 DEF Decide, Provision, Deliver, Observe, Return, At
  <2>3. CASE Elapse \/ Silent
    BY <2>0, <2>3 DEF Elapse, Silent, At
  <2>4. CASE EndOnce \/ EndCycle
    BY <2>4 DEF EndOnce, EndCycle, At
  <2>5. CASE Wake
    BY <2>0, <2>5 DEF Wake, At
  <2>6. CASE Cancelled \/ TimerFires
    BY <2>6 DEF Cancelled, TimerFires, At
  <2>7. CASE Signal
    BY <2>0, <2>7 DEF Signal
  <2>8. CASE SigKill
    BY <2>0, <2>8 DEF SigKill
  <2>9. CASE UNCHANGED loopVars
    BY <2>9 DEF loopVars
  <2> QED BY <1>2, <2>1, <2>2, <2>3, <2>4, <2>5, <2>6, <2>7, <2>8, <2>9 DEF LoopNext, Local, Order
<1> QED BY <1>1, <1>2, LoopTypeCorrect, SignalsAreHeard, PTL DEF LoopSpec
=============================================================================
