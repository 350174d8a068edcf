--------------------------- MODULE Delivery_proofs ---------------------------
(***************************************************************************)
(* For any outputs, blocks, directories and faults: the grants stay narrow, *)
(* and a run serves every output it can and owns up to every other.        *)
(***************************************************************************)
EXTENDS Delivery, TLAPS

Runs ==
  [pc : {"idle", "probe", "renew", "deliver", "done"},
   kind : {"service", "ensure", "distribute", "dry-run"},
   cfg : SUBSET Outputs, sandbox : SUBSET Dirs, todo : SUBSET (Dirs \cup Outputs),
   failed : SUBSET Outputs, still : SUBSET Dirs]

\* An output whose turn was: served or failed, and not failed if nothing was wrong
\* with it.
DoneRight ==
  run.pc \in {"deliver", "done"} =>
    \A o \in Delivering(run.kind, run.cfg) \ run.todo :
      /\ o \notin run.failed => at[o] = gen
      /\ DirOf[o] \in run.still /\ Writable(DirOf[o]) /\ ~OwnError(o) => o \notin run.failed

\* The probe has every directory before it; an output whose turn was not yet has not
\* failed; at the end nothing is left.
Progress ==
  /\ run.pc = "probe" => run.todo = OutputDirs(run.cfg)
  /\ run.pc \in {"probe", "renew"} => run.failed = {}
  /\ run.pc = "deliver" => run.todo \cap run.failed = {}
  /\ run.pc = "done" => run.todo = {}

IInv == TypeOK /\ NarrowSandbox /\ DoneRight /\ Progress

-----------------------------------------------------------------------------
(* What the steps leave alone.                                             *)

LEMMA IdleRuns == Idle \in Runs
  BY DEF Idle, Runs

\* A run that is not there yet, or not any more.
LEMMA NoRun ==
  ASSUME run = Idle
  PROVE  DoneRight /\ Progress
  BY DEF Idle, DoneRight, Progress

LEMMA NoRunNext ==
  ASSUME run' = Idle
  PROVE  (DoneRight /\ Progress)'
  BY DEF Idle, DoneRight, Progress

\* Steps that concern neither the run nor what it meets.
LEMMA RunUntouched ==
  ASSUME IInv, UNCHANGED <<block, run, exists, acl, gen, at>>
  PROVE  (DoneRight /\ Progress)'
<1>1. \A d : Refusal(d)' = Refusal(d)
  BY DEF Refusal
<1> QED
  BY <1>1 DEF IInv, DoneRight, Progress, Writable, Delivering, OutputDirs,
                 OwnError, MayNotChown

\* The environment touches one directory: it answers differently, and is not counted
\* among the untouched ones any more.
LEMMA Touched ==
  ASSUME IInv, NEW d \in Dirs, NEW gone \in BOOLEAN, Touch(d, gone),
         \A e \in Dirs \ {d} : (e \in exists' <=> e \in exists) /\ (e \in acl' <=> e \in acl),
         UNCHANGED <<block, gen, at>>
  PROVE  (DoneRight /\ Progress)' /\ run' \in Runs
<1>1. run' \in Runs
  BY DEF IInv, TypeOK, Touch, Runs
<1>2. /\ run'.pc = run.pc /\ run'.kind = run.kind /\ run'.cfg = run.cfg
      /\ run'.todo = run.todo /\ run'.failed = run.failed
      /\ run'.still = run.still \ {d}
      /\ run'.sandbox \in {run.sandbox, run.sandbox \ {d}}
  BY DEF IInv, TypeOK, Touch
<1>3. \A e \in Dirs \ {d} : Refusal(e)' = Refusal(e)
  BY <1>2 DEF Refusal
<1>4. \A e \in run'.still : e \in run.still /\ (Writable(e)' <=> Writable(e))
  BY <1>2, <1>3 DEF IInv, TypeOK, Writable
<1>5. DoneRight'
  BY <1>2, <1>4 DEF IInv, DoneRight, Delivering, OwnError, MayNotChown
<1>6. Progress'
  BY <1>2 DEF IInv, Progress, OutputDirs
<1> QED BY <1>1, <1>5, <1>6

\* Steps that leave the drop-in, what systemd read of it and the command alone.
LEMMA GrantsKept ==
  ASSUME IInv, UNCHANGED <<dropIn, loaded, cmd>>
  PROVE  NarrowSandbox'
  BY DEF IInv, NarrowSandbox

-----------------------------------------------------------------------------
LEMMA InitIInv == Init => IInv
<1> SUFFICES ASSUME Init PROVE IInv
  OBVIOUS
<1>1. run \in Runs /\ cmd \in [pc : {"idle", "truncate", "fill"}, dirs : SUBSET Dirs]
  BY IdleRuns DEF Init, NoCmd
<1>2. TypeOK
  <2>1. "none" \in Verdict /\ 0 \in 0..MaxEdits /\ 0 \in 0..MaxFaults
    BY DeliveryAssumption DEF Verdict
  <2>2. at \in [Outputs -> Nat] /\ report \in [Dirs -> Verdict]
    BY <2>1 DEF Init
  <2>3. block \in [Outputs -> Blocks] /\ config \subseteq Outputs /\ exists \subseteq Dirs /\ acl \subseteq exists
    BY DEF Init
  <2> QED BY <1>1, <2>1, <2>2, <2>3 DEF Init, TypeOK, Runs
<1>3. NarrowSandbox
  BY DEF Init, NarrowSandbox, NoCmd
<1> QED BY <1>2, <1>3, NoRun DEF IInv, Init

LEMMA BeginIInv ==
  ASSUME IInv, NEW kind \in {"service", "ensure", "distribute", "dry-run"},
         NEW sandbox \in SUBSET Dirs, Begin(kind, sandbox), UNCHANGED report
  PROVE  IInv'
<1>1. OutputDirs(config) \subseteq Dirs /\ Delivering(kind, config) \subseteq Outputs
  BY DeliveryAssumption DEF IInv, TypeOK, OutputDirs, Delivering
<1>2. run' \in Runs
  BY <1>1 DEF Begin, Runs, Probing, IInv, TypeOK
<1>3. TypeOK'
  BY <1>2 DEF Begin, IInv, TypeOK, Runs
<1>4. NarrowSandbox'
  BY GrantsKept DEF Begin
<1>5. /\ run'.pc = (IF Probing(kind) THEN "probe" ELSE "deliver")
      /\ run'.kind = kind /\ run'.cfg = config /\ run'.failed = {}
      /\ run'.todo = IF Probing(kind) THEN OutputDirs(config) ELSE Delivering(kind, config)
  BY DEF Begin
<1>6. Progress'
  BY <1>5 DEF Progress, Probing, OutputDirs
<1>7. DoneRight'
  BY <1>5 DEF DoneRight, Delivering, Probing
<1> QED BY <1>3, <1>4, <1>6, <1>7 DEF IInv

LEMMA ServiceIInv == IInv /\ Service => IInv'
<1> SUFFICES ASSUME IInv, Service PROVE IInv'
  OBVIOUS
<1>1. CASE StartService
  BY <1>1, BeginIInv DEF StartService, IInv, TypeOK
<1>2. CASE ServiceBlocked
  <2>1. TypeOK'
    BY <1>2 DEF ServiceBlocked, IInv, TypeOK, Verdict
  <2> QED BY <1>2, <2>1, RunUntouched, GrantsKept DEF ServiceBlocked, IInv
<1> QED BY <1>1, <1>2 DEF Service

LEMMA InteractiveIInv ==
  IInv /\ (\E kind \in Kinds : StartInteractive(kind)) => IInv'
<1> SUFFICES ASSUME IInv, NEW kind \in Kinds, StartInteractive(kind) PROVE IInv'
  OBVIOUS
<1> QED BY BeginIInv, DeliveryAssumption DEF StartInteractive

\* The answers of the kernel are verdicts.
LEMMA RefusalType == \A d : Refusal(d) \in Verdict
  BY DEF Refusal, Verdict

LEMMA ProbeIInv == IInv /\ Probe => IInv'
<1> SUFFICES ASSUME IInv, Probe PROVE IInv'
  OBVIOUS
<1>1. run.todo = OutputDirs(run.cfg) /\ run.failed = {}
  BY DEF IInv, Progress, Probe, At
<1>2. run' \in Runs /\ report' \in [Dirs -> Verdict]
  BY IdleRuns, RefusalType DEF Probe, IInv, TypeOK, Runs
<1>3. TypeOK'
  BY <1>2 DEF Probe, IInv, TypeOK, Runs
<1>4. NarrowSandbox'
  BY GrantsKept DEF Probe
<1>5. CASE run.kind = "dry-run"
  BY <1>3, <1>4, <1>5, NoRunNext DEF Probe, IInv
<1>6. CASE run.kind # "dry-run"
  <2>1. run'.pc = "renew" /\ run'.failed = {}
    BY <1>1, <1>6 DEF Probe, IInv, TypeOK
  <2>2. DoneRight' /\ Progress'
    BY <2>1 DEF DoneRight, Progress
  <2> QED BY <1>3, <1>4, <2>2 DEF IInv
<1> QED BY <1>5, <1>6

LEMMA RenewIInv == IInv /\ Renew => IInv'
<1> SUFFICES ASSUME IInv, Renew PROVE IInv'
  OBVIOUS
<1>1. Delivering(run.kind, run.cfg) \subseteq Outputs
  BY DEF IInv, TypeOK, Delivering
<1>2. /\ run'.pc = "deliver" /\ run'.todo = Delivering(run.kind, run.cfg)
      /\ run'.kind = run.kind /\ run'.cfg = run.cfg
      /\ run'.failed = run.failed /\ run'.still = run.still /\ run'.sandbox = run.sandbox
  BY DEF Renew, IInv, TypeOK
<1>3. TypeOK'
  <2>1. run' \in Runs
    BY <1>1 DEF Renew, IInv, TypeOK, Runs
  <2>2. gen' \in Nat /\ due' \in BOOLEAN
    <3>1. gen \in Nat /\ due \in BOOLEAN
      BY DEF IInv, TypeOK
    <3>2. CASE due
      <4>1. gen' = gen + 1 /\ due' = FALSE
        BY <3>2 DEF Renew
      <4>2. gen' \in Nat
        BY <3>1, <4>1
      <4>3. due' \in BOOLEAN
        BY <4>1, Zenon
      <4> QED BY <4>2, <4>3
    <3>3. CASE ~due
      <4>1. UNCHANGED gen /\ UNCHANGED due
        BY <3>3 DEF Renew
      <4> QED BY <3>1, <4>1
    <3> QED BY <3>2, <3>3
  <2> QED BY <2>1, <2>2 DEF Renew, IInv, TypeOK, Runs
<1>4. NarrowSandbox'
  BY GrantsKept DEF Renew
<1>5. DoneRight' /\ Progress'
  BY <1>2 DEF Renew, At, IInv, DoneRight, Progress, Delivering
<1> QED BY <1>3, <1>4, <1>5 DEF IInv

LEMMA AnswerType == \A o : Answer(o) \in Verdict
  BY RefusalType DEF Answer, Verdict

\* An output that is placed and does not fail has the store's certificate; one that
\* fails is to blame, or its directory.
LEMMA FailsRightly ==
  ASSUME NEW o \in Outputs
  PROVE  /\ ~Fails(o) => Placed(o)
         /\ Writable(DirOf[o]) /\ ~OwnError(o) => ~Fails(o)
  BY DEF Fails, Placed, Answer, OwnError, Writable

LEMMA DeliverIInv ==
  ASSUME IInv, NEW o \in Outputs, Deliver(o)
  PROVE  IInv'
<1>0. run \in Runs /\ o \in run.todo /\ run.pc = "deliver"
  BY DEF Deliver, Turn, At, IInv, TypeOK, Runs
<1>1. /\ run'.pc = "deliver" /\ run'.todo = run.todo \ {o}
      /\ run'.kind = run.kind /\ run'.cfg = run.cfg
      /\ run'.failed = IF Fails(o) THEN run.failed \cup {o} ELSE run.failed
      /\ run'.still = run.still /\ run'.sandbox = run.sandbox
  BY <1>0 DEF Deliver, Runs
<1>2. /\ \A q \in Outputs \ {o} : at'[q] = at[q]
      /\ Placed(o) => at'[o] = gen
  BY DEF Deliver, IInv, TypeOK
<1>3. TypeOK'
  <2>1. DirOf[o] \in Dirs /\ Answer(o) \in Verdict
    BY DeliveryAssumption, AnswerType
  <2>2. report' \in [Dirs -> Verdict]
    BY <2>1 DEF Deliver, Explained, Told, IInv, TypeOK
  <2>3. run' \in Runs
    <3>1. /\ run.todo \ {o} \in SUBSET (Dirs \cup Outputs)
          /\ run.failed \cup {o} \in SUBSET Outputs /\ run.failed \in SUBSET Outputs
      BY <1>0 DEF Runs
    <3> QED BY <1>0, <3>1 DEF Deliver, Runs
  <2>4. at' \in [Outputs -> Nat]
    BY DEF Deliver, IInv, TypeOK
  <2> QED BY <2>2, <2>3, <2>4 DEF Deliver, IInv, TypeOK, Runs
<1>4. NarrowSandbox'
  BY GrantsKept DEF Deliver
<1>5. \A q : (Writable(DirOf[q])' <=> Writable(DirOf[q])) /\ (OwnError(q)' <=> OwnError(q))
  BY <1>1 DEF Deliver, Writable, Refusal, OwnError, MayNotChown
<1>6. DoneRight'
  <2> SUFFICES ASSUME NEW q \in Delivering(run.kind, run.cfg) \ run'.todo
               PROVE  /\ q \notin run'.failed => at'[q] = gen
                      /\ DirOf[q] \in run.still /\ Writable(DirOf[q]) /\ ~OwnError(q)
                           => q \notin run'.failed
    BY <1>1, <1>5 DEF DoneRight, Delivering, Deliver
  <2>1. CASE q = o
    <3>1. o \notin run.failed
      BY <1>0 DEF IInv, Progress
    <3> QED BY <1>1, <1>2, <2>1, <3>1, FailsRightly
  <2>2. CASE q # o
    <3>1. q \in Delivering(run.kind, run.cfg) \ run.todo /\ q \in Outputs
      BY <1>0, <1>1, <2>2 DEF Runs, Delivering
    <3> QED BY <1>0, <1>1, <1>2, <2>2, <3>1 DEF IInv, DoneRight
  <2> QED BY <2>1, <2>2
<1>7. Progress'
  BY <1>0, <1>1 DEF IInv, Progress
<1> QED BY <1>3, <1>4, <1>6, <1>7 DEF IInv

LEMMA EndsIInv == IInv /\ RunEnds => IInv'
<1> SUFFICES ASSUME IInv, RunEnds PROVE IInv'
  OBVIOUS
<1>1. NarrowSandbox'
  BY GrantsKept DEF RunEnds
<1>2. TypeOK'
  BY IdleRuns DEF RunEnds, IInv, TypeOK, Runs
<1>3. CASE run' = Idle
  BY <1>1, <1>2, <1>3, NoRunNext DEF IInv
<1>4. CASE At("deliver") /\ run.todo = {} /\ run' = [run EXCEPT !.pc = "done"]
  <2>1. /\ run'.pc = "done" /\ run.pc = "deliver" /\ run'.todo = {} /\ run.todo = {}
        /\ run'.kind = run.kind /\ run'.cfg = run.cfg
        /\ run'.failed = run.failed /\ run'.still = run.still /\ run'.sandbox = run.sandbox
    BY <1>4 DEF At, IInv, TypeOK
  <2>2. \A q : (Writable(DirOf[q])' <=> Writable(DirOf[q])) /\ (OwnError(q)' <=> OwnError(q))
    BY <2>1 DEF RunEnds, Writable, Refusal, OwnError, MayNotChown
  <2>3. DoneRight'
    BY <2>1, <2>2 DEF RunEnds, IInv, DoneRight, Delivering
  <2>4. Progress'
    BY <2>1 DEF Progress
  <2> QED BY <1>1, <1>2, <2>3, <2>4 DEF IInv
<1> QED BY <1>3, <1>4 DEF RunEnds

-----------------------------------------------------------------------------
LEMMA StopIInv == IInv /\ (RenewFails \/ Kill) => IInv'
<1> SUFFICES ASSUME IInv, RenewFails \/ Kill PROVE IInv'
  OBVIOUS
<1>0. faults' \in 0..MaxFaults
  BY DeliveryAssumption DEF RenewFails, Kill, Fault, IInv, TypeOK
<1>1. CASE RenewFails
  <2>1. TypeOK'
    BY <1>0, <1>1, IdleRuns DEF RenewFails, IInv, TypeOK, Runs
  <2> QED BY <1>1, <2>1, NoRunNext, GrantsKept DEF RenewFails, IInv
<1>2. CASE Kill /\ run' = Idle /\ UNCHANGED cmd
  <2>1. TypeOK'
    BY <1>0, <1>2, IdleRuns DEF Kill, IInv, TypeOK, Runs
  <2> QED BY <1>2, <2>1, NoRunNext, GrantsKept DEF Kill, IInv
<1>3. CASE Kill /\ cmd' = NoCmd /\ UNCHANGED run
  <2>1. TypeOK'
    BY <1>0, <1>3 DEF Kill, IInv, TypeOK, NoCmd
  <2>2. NarrowSandbox'
    BY <1>3 DEF Kill, IInv, NarrowSandbox, NoCmd
  <2> QED BY <1>3, <2>1, <2>2, RunUntouched DEF Kill, IInv
<1> QED BY <1>1, <1>2, <1>3 DEF Kill

\* systemd-paths --write: only StartWrite brings in new directories, and it has looked
\* at them.
LEMMA WriteIInv == IInv /\ (CmdStep \/ Regrant \/ DaemonReload) => IInv'
<1> SUFFICES ASSUME IInv, CmdStep \/ Regrant \/ DaemonReload PROVE IInv'
  OBVIOUS
<1>1. CASE StartWrite
  <2>1. OutputDirs(config) \subseteq Dirs
    BY DeliveryAssumption DEF IInv, TypeOK, OutputDirs
  <2>2. TypeOK'
    BY <1>1, <2>1 DEF StartWrite, IInv, TypeOK
  <2>3. NarrowSandbox'
    BY <1>1 DEF StartWrite, Refused, IInv, NarrowSandbox
  <2> QED BY <1>1, <2>2, <2>3, RunUntouched DEF StartWrite, IInv
<1>2. CASE Truncate
  <2>1. TypeOK' /\ NarrowSandbox'
    BY <1>2 DEF Truncate, IInv, TypeOK, NarrowSandbox
  <2> QED BY <1>2, <2>1, RunUntouched DEF Truncate, IInv
<1>3. CASE Fill
  <2>1. TypeOK' /\ NarrowSandbox'
    BY <1>3 DEF Fill, IInv, TypeOK, NarrowSandbox, NoCmd
  <2> QED BY <1>3, <2>1, RunUntouched DEF Fill, IInv
<1>4. CASE DaemonReload
  <2>1. TypeOK' /\ NarrowSandbox'
    BY <1>4 DEF DaemonReload, IInv, TypeOK, NarrowSandbox
  <2> QED BY <1>4, <2>1, RunUntouched DEF DaemonReload, IInv
<1> QED BY <1>1, <1>2, <1>3, <1>4 DEF CmdStep, Regrant

LEMMA WorldIInv == IInv /\ (EditConfig \/ BecomesDue) => IInv'
<1> SUFFICES ASSUME IInv, EditConfig \/ BecomesDue PROVE IInv'
  OBVIOUS
<1>1. TypeOK'
  <2>1. CASE EditConfig
    <3>1. config' \subseteq Outputs
      BY <2>1 DEF EditConfig, IInv, TypeOK
    <3>2. edits' \in 0..MaxEdits
      BY <2>1, DeliveryAssumption DEF EditConfig, IInv, TypeOK
    <3> QED BY <2>1, <3>1, <3>2 DEF EditConfig, IInv, TypeOK
  <2>2. CASE BecomesDue
    BY <2>2 DEF BecomesDue, IInv, TypeOK
  <2> QED BY <2>1, <2>2
<1> QED BY <1>1, RunUntouched, GrantsKept DEF EditConfig, BecomesDue, IInv

LEMMA TouchIInv ==
  ASSUME IInv, NEW d \in Dirs, RemoveDir(d) \/ ResetAcl(d) \/ MakeDir(d) \/ SetFacl(d)
  PROVE  IInv'
<1>1. \E gone \in BOOLEAN : Touch(d, gone)
  BY DEF RemoveDir, ResetAcl, MakeDir, SetFacl
<1>2. \A e \in Dirs \ {d} : (e \in exists' <=> e \in exists) /\ (e \in acl' <=> e \in acl)
  BY DEF RemoveDir, ResetAcl, MakeDir, SetFacl
<1>3. UNCHANGED <<block, config, dropIn, loaded, cmd, gen, due, at, report, edits>>
  BY DEF RemoveDir, ResetAcl, MakeDir, SetFacl
<1>4. (DoneRight /\ Progress)' /\ run' \in Runs
  BY <1>1, <1>2, <1>3, Touched
<1>5. exists' \subseteq Dirs /\ acl' \subseteq exists'
  BY DEF RemoveDir, ResetAcl, MakeDir, SetFacl, IInv, TypeOK
<1>6. faults' \in 0..MaxFaults
  <2>1. Fault \/ UNCHANGED faults
    BY DEF RemoveDir, ResetAcl, MakeDir, SetFacl
  <2> QED BY <2>1, DeliveryAssumption DEF Fault, IInv, TypeOK
<1>7. TypeOK'
  BY <1>3, <1>4, <1>5, <1>6 DEF IInv, TypeOK, Runs
<1> QED BY <1>3, <1>4, <1>7, GrantsKept DEF IInv

-----------------------------------------------------------------------------
LEMMA NextIInv == IInv /\ [Next]_vars => IInv'
<1> SUFFICES ASSUME IInv, [Next]_vars PROVE IInv'
  OBVIOUS
<1>1. CASE UNCHANGED vars
  <2>1. TypeOK'
    BY <1>1 DEF vars, IInv, TypeOK
  <2> QED BY <1>1, <2>1, RunUntouched, GrantsKept DEF vars, IInv
<1>2. CASE RunStep
  BY <1>2, ProbeIInv, RenewIInv, EndsIInv, DeliverIInv DEF RunStep
<1>3. CASE Operator \/ \E d \in Dirs : RemoveDir(d) \/ ResetAcl(d)
  BY <1>3, TouchIInv DEF Operator
<1> QED
  BY <1>1, <1>2, <1>3, ServiceIInv, InteractiveIInv, StopIInv, WriteIInv, WorldIInv DEF Next

LEMMA Invariance == Spec => []IInv
<1> QED BY InitIInv, NextIInv, PTL DEF Spec

-----------------------------------------------------------------------------
\* The type invariant.
THEOREM TypeCorrect == Spec => []TypeOK
<1>1. IInv => TypeOK
  BY DEF IInv
<1> QED BY <1>1, Invariance, PTL

\* The sandbox is never opened to a top-level directory (unsafeGrantDir, ADR-0048).
THEOREM GrantsStayNarrow == Spec => []NarrowSandbox
<1>1. IInv => NarrowSandbox
  BY DEF IInv
<1> QED BY <1>1, Invariance, PTL

\* When a run ends, every output it does not report as failed has the store's
\* certificate, and none is reported whose block is sound and whose directory was
\* left alone and can be written (distribute.Run, writeObservations).
THEOREM HealthyAreServed == Spec => []HealthyServed
<1>1. IInv => HealthyServed
  BY DEF IInv, HealthyServed, DoneRight, Progress, At
<1> QED BY <1>1, Invariance, PTL
=============================================================================
