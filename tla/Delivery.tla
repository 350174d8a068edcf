------------------------------ MODULE Delivery ------------------------------
(***************************************************************************)
(* Whether the service may write where its configuration sends the         *)
(* certificate.  Three things must agree: the outputs in syscert.toml, the *)
(* grants of the service's sandbox (a drop-in made by systemd-paths        *)
(* --write, read by systemd at a daemon-reload, applied when a run starts) *)
(* and the permissions of the directories.  Runs probe the directories and *)
(* warn, renew all the same, and serve each output they can; an operator   *)
(* does what the messages advise.                                          *)
(*                                                                         *)
(* One run and one systemd-paths at a time; the interleavings of two runs  *)
(* over one store are the subject of SysCert.  The store is always         *)
(* granted: the shipped unit names it.                                     *)
(***************************************************************************)
EXTENDS FiniteSets, Naturals

CONSTANTS
  Outputs,      \* [[distribute]] blocks and [observe] files an operator may configure
  Observers,    \* ... the [observe] files
  Dirs,         \* the directories they are in
  DirOf,        \* the directory of each output
  BlocksOf,     \* what the block of each output may ask for
  Broad,        \* directories systemd-paths refuses to grant (unsafeGrantDir)
  Removable,    \* directories another package may remove
  Kinds,        \* the runs that occur: a timer's, three interactive ones
  MaxRenewals,  \* bound: renewals
  MaxEdits,     \* bound: edits of the configuration
  MaxFaults     \* bound: kills, CA failures, directories removed or reset

\* A block asks for nothing but the file; names an artifact, a mode, an owner or a
\* group that does not exist; asks for an owner, which takes CAP_CHOWN; or asks for
\* an SELinux context chcon refuses.
Blocks == {"plain", "unknown", "owner", "label"}

ASSUME DeliveryAssumption ==
  /\ Observers \subseteq Outputs
  /\ DirOf \in [Outputs -> Dirs]
  /\ BlocksOf \in [Outputs -> SUBSET Blocks]
  /\ \A o \in Observers : BlocksOf[o] \subseteq {"plain"}
  /\ Broad \subseteq Dirs /\ Removable \subseteq Dirs
  /\ Kinds \subseteq {"service", "ensure", "distribute", "dry-run"}
  /\ MaxRenewals \in Nat /\ MaxEdits \in Nat /\ MaxFaults \in Nat

VARIABLES
  block,        \* what the block of each output asks for
  config,       \* the outputs in syscert.toml
  exists,       \* the directories that exist
  acl,          \* ... those the syscert user may create files in
  dropIn,       \* the grants in the drop-in file
  loaded,       \* the grants systemd read at the last daemon-reload
  cmd,          \* systemd-paths --write
  run,          \* the run of syscert
  gen,          \* generation in the store
  due,          \* its renewal window is open
  at,           \* generation at each output
  report,       \* what was last said of each directory
  edits, faults \* edits and faults so far

vars == <<block, config, exists, acl, dropIn, loaded, cmd, run, gen, due, at, report,
          edits, faults>>

Verdict == {"none", "ENOENT", "EROFS", "EACCES"}

Idle == [pc |-> "idle", kind |-> "service", cfg |-> {}, sandbox |-> {},
         todo |-> {}, failed |-> {}, still |-> {}]

NoCmd == [pc |-> "idle", dirs |-> {}]

TypeOK ==
  /\ block \in [Outputs -> Blocks] /\ config \subseteq Outputs
  /\ exists \subseteq Dirs /\ acl \subseteq exists
  /\ dropIn \subseteq Dirs /\ loaded \subseteq Dirs
  /\ cmd \in [pc : {"idle", "truncate", "fill"}, dirs : SUBSET Dirs]
  /\ run \in [pc : {"idle", "probe", "renew", "deliver", "done"},
              kind : {"service", "ensure", "distribute", "dry-run"},
              cfg : SUBSET Outputs,
              sandbox : SUBSET Dirs,   \* what this run may write at all
              todo : SUBSET (Dirs \cup Outputs),
              failed : SUBSET Outputs,
              still : SUBSET Dirs]     \* history: untouched since the run started
  /\ gen \in Nat /\ due \in BOOLEAN /\ at \in [Outputs -> Nat]
  /\ report \in [Dirs -> Verdict]
  /\ edits \in 0..MaxEdits /\ faults \in 0..MaxFaults

Init ==
  /\ block \in {b \in [Outputs -> Blocks] : \A o \in Outputs : b[o] \in BlocksOf[o]}
  /\ config \in SUBSET Outputs
  /\ exists = Dirs \ Removable
  /\ acl = {}
  /\ dropIn = {} /\ loaded = {}
  /\ cmd = NoCmd /\ run = Idle
  /\ gen = 1 /\ due = FALSE
  /\ at = [o \in Outputs |-> 0]
  /\ report = [d \in Dirs |-> "none"]
  /\ edits = 0 /\ faults = 0

-----------------------------------------------------------------------------
At(label) == run.pc = label

Fault == faults < MaxFaults /\ faults' = faults + 1

\* outputDirs: one list for the grant and for the probe.
OutputDirs(cfg) == {DirOf[o] : o \in cfg}

\* partitionGrantDirs.
Refused(cfg) == OutputDirs(cfg) \cap Broad

\* Mutant: a read-only directory is explained by its permissions.
Refusal_Permissions(d) ==
  IF d \notin exists                    THEN "ENOENT"
  ELSE IF d \notin run.sandbox \cap acl THEN "EACCES"
  ELSE "none"

\* What the kernel answers to creating a file in d, and both messages report.
Refusal(d) ==
  IF d \notin exists           THEN "ENOENT"
  ELSE IF d \notin run.sandbox THEN "EROFS"
  ELSE IF d \notin acl         THEN "EACCES"
  ELSE "none"

Told(d, verdict) == report' = [report EXCEPT ![d] = verdict]

\* The environment touches a directory; a bind mount does not outlive it.
Touch(d, gone) ==
  run' = [run EXCEPT !.still = @ \ {d},
                     !.sandbox = IF gone /\ run.kind = "service" THEN @ \ {d} ELSE @]

\* What a run of each kind still has to do after its probe.
Probing(kind) == kind # "distribute"
Delivering(kind, cfg) == IF kind = "distribute" THEN cfg \ Observers ELSE cfg

Begin(kind, sandbox) ==
  /\ run' = [pc |-> IF Probing(kind) THEN "probe" ELSE "deliver", kind |-> kind,
             cfg |-> config, sandbox |-> sandbox,
             todo |-> IF Probing(kind) THEN OutputDirs(config) ELSE Delivering(kind, config),
             failed |-> {}, still |-> Dirs]
  /\ UNCHANGED <<block, config, exists, acl, dropIn, loaded, cmd, gen, due, at, edits, faults>>

\* The timer: systemd sets up the mounts, and does not start the unit when a
\* directory it was told to grant is missing.
StartService ==
  /\ At("idle") /\ "service" \in Kinds
  /\ loaded \subseteq exists
  /\ Begin("service", loaded)
  /\ UNCHANGED report

ServiceBlocked ==
  /\ At("idle") /\ "service" \in Kinds
  /\ ~ (loaded \subseteq exists)
  /\ report' = [d \in Dirs |-> IF d \in loaded \ exists THEN "ENOENT" ELSE report[d]]
  /\ UNCHANGED <<block, config, exists, acl, dropIn, loaded, cmd, run, gen, due, at, edits, faults>>

\* sudo -u syscert: nothing is sandboxed.
StartInteractive(kind) ==
  /\ At("idle") /\ kind \in Kinds \ {"service"}
  /\ Begin(kind, Dirs)
  /\ UNCHANGED report

\* Mutant: a run that would fail somewhere does not go on.
Probe_Gates ==
  /\ At("probe")
  /\ report' = [d \in Dirs |-> IF d \in run.todo THEN Refusal(d) ELSE report[d]]
  /\ run' = IF run.kind = "dry-run" \/ \E d \in run.todo : Refusal(d) # "none"
              THEN Idle
              ELSE [run EXCEPT !.pc = "renew", !.todo = {}]
  /\ UNCHANGED <<block, config, exists, acl, dropIn, loaded, cmd, gen, due, at, edits, faults>>

\* checkDistributeTargets tries every directory.  The count of the problems is
\* not looked at: warnDistributeTargets informs and does not gate.
Probe ==
  /\ At("probe")
  /\ report' = [d \in Dirs |-> IF d \in run.todo THEN Refusal(d) ELSE report[d]]
  /\ run' = IF run.kind = "dry-run"
              THEN Idle
              ELSE [run EXCEPT !.pc = "renew", !.todo = {}]
  /\ UNCHANGED <<block, config, exists, acl, dropIn, loaded, cmd, gen, due, at, edits, faults>>

Renew ==
  /\ At("renew")
  /\ IF due THEN gen' = gen + 1 /\ due' = FALSE ELSE UNCHANGED <<gen, due>>
  /\ run' = [run EXCEPT !.pc = "deliver", !.todo = Delivering(run.kind, run.cfg)]
  /\ UNCHANGED <<block, config, exists, acl, dropIn, loaded, cmd, at, report, edits, faults>>

\* The CA does not answer: the cycle returns before it delivers.
RenewFails ==
  /\ At("renew") /\ due /\ Fault
  /\ run' = Idle
  /\ UNCHANGED <<block, config, exists, acl, dropIn, loaded, cmd, gen, due, at, report, edits>>

\* The targets come first, in the order of the file, then the observations.
Turn(o) == o \in run.todo /\ (o \in Observers => run.todo \subseteq Observers)

\* Only the service's unit has CAP_CHOWN.
MayNotChown(o) == block[o] = "owner" /\ run.kind # "service"

\* What creating the temporary file answers, then giving it away: explainWriteError
\* takes either for a matter of the directory.
Answer(o) ==
  IF Refusal(DirOf[o]) = "none" /\ MayNotChown(o) THEN "EACCES" ELSE Refusal(DirOf[o])

\* The relabelling comes after the file is in place.
Placed(o) == block[o] # "unknown" /\ Answer(o) = "none"
Fails(o)  == ~Placed(o) \/ block[o] = "label"

\* Nothing is said of the directory of a block that does not resolve.
Explained(o) == IF block[o] = "unknown" THEN UNCHANGED report ELSE Told(DirOf[o], Answer(o))

\* Mutant: the loop returns the first error.
Deliver_StopsAtError(o) ==
  /\ At("deliver") /\ Turn(o)
  /\ Explained(o)
  /\ at' = IF Placed(o) THEN [at EXCEPT ![o] = gen] ELSE at
  /\ run' = IF Fails(o) THEN [run EXCEPT !.todo = {}, !.failed = @ \cup {o}]
                        ELSE [run EXCEPT !.todo = @ \ {o}]
  /\ UNCHANGED <<block, config, exists, acl, dropIn, loaded, cmd, gen, due, edits, faults>>

\* distribute.Run and writeObservations, one output; a failure is kept and the
\* next output attempted.
Deliver(o) ==
  /\ At("deliver") /\ Turn(o)
  /\ Explained(o)
  /\ at' = IF Placed(o) THEN [at EXCEPT ![o] = gen] ELSE at
  /\ run' = [run EXCEPT !.todo = @ \ {o},
                        !.failed = IF Fails(o) THEN @ \cup {o} ELSE @]
  /\ UNCHANGED <<block, config, exists, acl, dropIn, loaded, cmd, gen, due, edits, faults>>

RunEnds ==
  /\ \/ At("deliver") /\ run.todo = {} /\ run' = [run EXCEPT !.pc = "done"]
     \/ At("done") /\ run' = Idle
  /\ UNCHANGED <<block, config, exists, acl, dropIn, loaded, cmd, gen, due, at, report, edits, faults>>

Kill ==
  /\ Fault
  /\ \/ ~At("idle") /\ run' = Idle /\ UNCHANGED cmd
     \/ cmd.pc # "idle" /\ cmd' = NoCmd /\ UNCHANGED run
  /\ UNCHANGED <<block, config, exists, acl, dropIn, loaded, gen, due, at, report, edits>>

-----------------------------------------------------------------------------
(* systemd-paths --write.                                                  *)

\* Mutant: what is refused is only complained of.
StartWrite_Anyway ==
  /\ cmd.pc = "idle"
  /\ cmd' = [pc |-> "truncate", dirs |-> OutputDirs(config)]
  /\ UNCHANGED <<block, config, exists, acl, dropIn, loaded, run, gen, due, at, report, edits, faults>>

\* One directory that is refused keeps the whole drop-in from being written.
StartWrite ==
  /\ cmd.pc = "idle"
  /\ Refused(config) = {}
  /\ cmd' = [pc |-> "truncate", dirs |-> OutputDirs(config)]
  /\ UNCHANGED <<block, config, exists, acl, dropIn, loaded, run, gen, due, at, report, edits, faults>>

\* os.WriteFile opens the file with O_TRUNC, then fills it.
Truncate ==
  /\ cmd.pc = "truncate"
  /\ dropIn' = {}
  /\ cmd' = [cmd EXCEPT !.pc = "fill"]
  /\ UNCHANGED <<block, config, exists, acl, loaded, run, gen, due, at, report, edits, faults>>

Fill ==
  /\ cmd.pc = "fill"
  /\ dropIn' = cmd.dirs
  /\ cmd' = NoCmd
  /\ UNCHANGED <<block, config, exists, acl, loaded, run, gen, due, at, report, edits, faults>>

\* By the operator, or by a package that was upgraded: the shipped unit is
\* replaced, the drop-in stays.
DaemonReload ==
  /\ loaded' = dropIn
  /\ UNCHANGED <<block, config, exists, acl, dropIn, cmd, run, gen, due, at, report, edits, faults>>

\* It is run when the drop-in is not that of the configuration: after an edit, or
\* because a message asks for it.
Regrant == dropIn # OutputDirs(config) /\ StartWrite

-----------------------------------------------------------------------------
(* The world.                                                              *)

\* One block or [observe] line is added or taken out.
EditConfig ==
  /\ edits < MaxEdits /\ edits' = edits + 1
  /\ \E o \in Outputs : config' = IF o \in config THEN config \ {o} ELSE config \cup {o}
  /\ UNCHANGED <<block, exists, acl, dropIn, loaded, cmd, run, gen, due, at, report, faults>>

BecomesDue ==
  /\ ~due /\ gen <= MaxRenewals
  /\ due' = TRUE
  /\ UNCHANGED <<block, config, exists, acl, dropIn, loaded, cmd, run, gen, at, report, edits, faults>>

\* A package removes its directory, or replaces it and its ACL is gone.
RemoveDir(d) ==
  /\ d \in exists \cap Removable /\ Fault
  /\ exists' = exists \ {d} /\ acl' = acl \ {d}
  /\ Touch(d, TRUE)
  /\ UNCHANGED <<block, config, dropIn, loaded, cmd, gen, due, at, report, edits>>

ResetAcl(d) ==
  /\ d \in acl /\ Fault
  /\ acl' = acl \ {d}
  /\ Touch(d, FALSE)
  /\ UNCHANGED <<block, config, exists, dropIn, loaded, cmd, gen, due, at, report, edits>>

-----------------------------------------------------------------------------
(* The operator does what the last message about a directory says.         *)

MakeDir(d) ==
  /\ report[d] = "ENOENT" /\ d \notin exists
  /\ exists' = exists \cup {d}
  /\ Touch(d, FALSE)
  /\ UNCHANGED <<block, config, acl, dropIn, loaded, cmd, gen, due, at, report, edits, faults>>

SetFacl(d) ==
  /\ report[d] = "EACCES" /\ d \in exists \ acl
  /\ acl' = acl \cup {d}
  /\ Touch(d, FALSE)
  /\ UNCHANGED <<block, config, exists, dropIn, loaded, cmd, gen, due, at, report, edits, faults>>

\* "grant it with 'sudo syscert systemd-paths --write' then ... daemon-reload"
GrantAdvised == (\E d \in Dirs : report[d] = "EROFS") /\ Regrant
ReloadAdvised == cmd.pc = "idle" /\ dropIn # loaded /\ DaemonReload

Service  == StartService \/ ServiceBlocked
RunStep  == Probe \/ Renew \/ RunEnds \/ (\E o \in Outputs : Deliver(o))
CmdStep  == Truncate \/ Fill
Operator == (\E d \in Dirs : MakeDir(d) \/ SetFacl(d))

Next ==
  \/ Service \/ RunStep \/ CmdStep \/ Operator
  \/ (\E kind \in Kinds : StartInteractive(kind))
  \/ RenewFails \/ Kill
  \/ Regrant \/ DaemonReload
  \/ EditConfig \/ BecomesDue
  \/ (\E d \in Dirs : RemoveDir(d) \/ ResetAcl(d))

Fairness ==
  /\ WF_vars(RunStep) /\ WF_vars(CmdStep)
  /\ SF_vars(Service)
  /\ SF_vars(Operator) /\ SF_vars(GrantAdvised) /\ SF_vars(ReloadAdvised)

Spec == Init /\ [][Next]_vars

FairSpec == Spec /\ Fairness

\* Nobody reads the journal.
UnattendedSpec == Spec /\ WF_vars(RunStep) /\ WF_vars(CmdStep) /\ SF_vars(Service)

-----------------------------------------------------------------------------
Writable(d) == Refusal(d) = "none"

\* The block itself is refused, whatever its directory.
OwnError(o) == block[o] \in {"unknown", "label"} \/ MayNotChown(o)

\* "One target the service cannot write ... must not deny every other consumer
\* its renewed certificate" (Run).  When a run is over, an output it does not report
\* as failed has the store's certificate; and an output is not reported, whatever
\* became of the others, if its own block is sound and its directory was left alone
\* and can be written.
HealthyServed ==
  At("done") =>
    \A o \in Delivering(run.kind, run.cfg) :
      /\ o \notin run.failed => at[o] = gen
      /\ DirOf[o] \in run.still /\ Writable(DirOf[o]) /\ ~OwnError(o) => o \notin run.failed

\* ADR-0048, unsafeGrantDir: whatever was configured when, and whenever systemd
\* read the file, the sandbox is never opened to a top-level directory.
NarrowSandbox == (dropIn \cup loaded \cup cmd.dirs) \cap Broad = {}

\* warnDistributeTargets: "Refusing would be worse than the problem: ensure would
\* stop before renewing" -- a certificate that is due is renewed, also while some
\* directory can never be written.
RenewedAnyway == due ~> ~due

\* The same comment: one directory would "let the certificate expire and break
\* every consumer, instead of breaking the one target that is misconfigured" --
\* so renewal needs no operator, whatever happens to the directory of a target.
RenewedUnattended == due ~> ~due

\* The messages lead somewhere: an operator who does what the last one says of
\* each directory ends with every output current, but for a block that names what
\* does not exist, and unless the configuration asks for a directory that
\* systemd-paths refuses.
Served ==
  \/ <>[](Refused(config) # {})
  \/ []<>(\A o \in config : block[o] # "unknown" => at[o] = gen)
=============================================================================
