------------------------------ MODULE SysCert ------------------------------
(***************************************************************************)
(* The syscert pipeline: obtain, archive, write, distribute, observe, run  *)
(* by any number of processes over one store.  A process is one invocation *)
(* at a time of a syscert command; nothing in the code locks the store, so *)
(* the steps of two processes interleave freely, and a process may be      *)
(* killed between any two steps.                                           *)
(*                                                                         *)
(* The configuration is valid and the store accessible (the checks that    *)
(* refuse to start are not steps of the pipeline).                         *)
(***************************************************************************)
EXTENDS Store

CONSTANTS
  Procs,        \* slots in which a syscert process may run
  May,          \* the commands each slot is used for
  NTargets,     \* number of [[distribute]] blocks
  Feeds,        \* the artifact each block copies, in the order of the file
  StagingFlags, \* values --staging may take
  MaxIssued,    \* bound: certificates the CA issues
  MaxDue,       \* bound: certificates that live to see their renewal window
  MaxFaults     \* bound: crashes and failed file operations

Commands == {"ensure", "issue", "renew", "renew --force", "void",
             "distribute", "destroy"}
Target   == 1..NTargets

ASSUME SysCertAssumption ==
  /\ May \in [Procs -> SUBSET Commands]
  /\ NTargets \in Nat
  /\ Feeds \in [Target -> Artifact]
  /\ StagingFlags \in SUBSET BOOLEAN
  /\ MaxIssued \in Nat /\ MaxDue \in Nat /\ MaxFaults \in Nat

VARIABLES
  issued,       \* the CA: generations 1..issued exist
  staged,       \* ... those of the staging directory
  revoked,      \* ... those revoked
  due,          \* generations whose renewal window has opened
  target,       \* generation of the file at each target's path
  observed,     \* what the [observe] files say: stored generation, is it due
  faults,       \* faults so far
  held,         \* history: generation last written completely, not destroyed
  proc          \* the processes

caVars == <<issued, staged, revoked>>
vars   == <<storeVars, caVars, due, target, observed, faults, held, proc>>

Labels == {"idle", "read", "confirm", "revoke", "obtain", "archive", "snapshot",
           "prune", "write", "deliver", "place", "wipe"}

Resting == [pc |-> "idle", cmd |-> "none", staging |-> FALSE, idx |-> 1,
            dest |-> 0, victims |-> {}, mat |-> 0, seen |-> 0, data |-> 0,
            failed |-> FALSE, warned |-> FALSE, exit |-> "none"]

ProcState ==
  [pc : Labels, cmd : Commands \cup {"none"}, staging : BOOLEAN,
   idx : Nat,                   \* position in a loop over artifacts or targets
   dest : Nat,                  \* the snapshot being filled; 0: none
   victims : SUBSET Nat,        \* snapshots pruneArchive is about to remove
   mat : Nat,                   \* the material obtained
   seen : Nat,                  \* void: the certificate read at the start
   data : Nat,                  \* distribute: the bytes read from the store
   failed : BOOLEAN,            \* distribute: some target failed
   warned : BOOLEAN,            \* void: revocation reported as failed
   exit : {"none", "ok", "declined", "fail"}]

TypeOK ==
  /\ StoreTypeOK
  /\ issued \in Nat
  /\ staged \in SUBSET Nat /\ revoked \in SUBSET Nat /\ due \in SUBSET Nat
  /\ target \in [Target -> Nat]
  /\ observed \in [cert : Nat, due : BOOLEAN]
  /\ faults \in Nat
  /\ held \in Nat
  /\ proc \in [Procs -> ProcState]

-----------------------------------------------------------------------------
At(p, label) == proc[p].pc = label

Become(p, state) == proc' = [proc EXCEPT ![p] = state]

Goto(p, label) == Become(p, [proc[p] EXCEPT !.pc = label])

\* Mutant: the loop skips its first element.
Loop_FromSecond(p, label) == Become(p, [proc[p] EXCEPT !.pc = label, !.idx = 2])

\* A loop over artifacts or targets starts at its first element.
Loop(p, label) == Become(p, [proc[p] EXCEPT !.pc = label, !.idx = 1])

\* Mutant: an error is swallowed.
Exit_AlwaysOk(p, code) ==
  Become(p, [Resting EXCEPT !.cmd = proc[p].cmd, !.staging = proc[p].staging,
                            !.exit = "ok"])

\* The command returns: its working state is gone, its exit status remains.
Exit(p, code) ==
  Become(p, [Resting EXCEPT !.cmd = proc[p].cmd, !.staging = proc[p].staging,
                            !.exit = code])

Fault == faults < MaxFaults /\ faults' = faults + 1

\* Mutant: every target is fed from cert.pem.
Source_CertOnly(t) == files[CertFile]

\* The content distribute reads for a target.
Source(t) == files[Feeds[t]]

Observation == [cert |-> files[CertFile], due |-> files[CertFile] \in due]

Init ==
  \E g \in {0, 1} :
    /\ StoreInit(g)
    /\ issued = g
    /\ staged = {} /\ revoked = {} /\ due = {}
    /\ target = [t \in Target |-> g]
    /\ observed = [cert |-> g, due |-> FALSE]
    /\ faults = 0
    /\ held = g
    /\ proc = [p \in Procs |-> Resting]

-----------------------------------------------------------------------------
(* Starting a command, reading the current certificate, asking the user.   *)

Entry(c) == CASE c = "issue"      -> "obtain"
              [] c = "distribute" -> "deliver"
              [] c = "destroy"    -> "confirm"
              [] OTHER            -> "read"

Start(p) ==
  /\ At(p, "idle")
  /\ \E c \in May[p], s \in StagingFlags :
       /\ s => c \notin {"distribute", "destroy"}
       /\ Become(p, [Resting EXCEPT !.pc = Entry(c), !.cmd = c, !.staging = s])
  /\ UNCHANGED <<storeVars, caVars, due, target, observed, faults, held>>

\* Mutant: a certificate that exists is never replaced.
NeedsCert_OnlyFirst == files[CertFile] = Absent

\* No certificate (any read error counts), or one that is due.
NeedsCert == files[CertFile] = Absent \/ files[CertFile] \in due

\* Mutant: nothing to obtain means nothing to do.
EnsureDecides_DoneWhenFresh(p) ==
  /\ At(p, "read") /\ proc[p].cmd = "ensure"
  /\ IF NeedsCert THEN Goto(p, "obtain") ELSE Exit(p, "ok")
  /\ UNCHANGED <<storeVars, caVars, due, target, observed, faults, held>>

\* ensureCycle: issue when there is no certificate, renew when it is due;
\* distribute in any case.
EnsureDecides(p) ==
  /\ At(p, "read") /\ proc[p].cmd = "ensure"
  /\ IF NeedsCert
     THEN Goto(p, "obtain")
     ELSE Loop(p, "deliver")
  /\ UNCHANGED <<storeVars, caVars, due, target, observed, faults, held>>

\* cmdRenew: needs a current certificate; --force skips the window check.
RenewDecides(p) ==
  /\ At(p, "read") /\ proc[p].cmd \in {"renew", "renew --force"}
  /\ \/ files[CertFile] = Absent /\ Exit(p, "fail")
     \/ /\ files[CertFile] # Absent
        /\ IF proc[p].cmd = "renew --force" \/ files[CertFile] \in due
           THEN Goto(p, "obtain")
           ELSE Exit(p, "ok")
  /\ UNCHANGED <<storeVars, caVars, due, target, observed, faults, held>>

\* cmdVoid reads the certificate it is going to revoke before it asks.
VoidReads(p) ==
  /\ At(p, "read") /\ proc[p].cmd = "void"
  /\ \/ files[CertFile] = Absent /\ Exit(p, "fail")
     \/ /\ files[CertFile] # Absent
        /\ Become(p, [proc[p] EXCEPT !.pc = "confirm", !.seen = files[CertFile]])
  /\ UNCHANGED <<storeVars, caVars, due, target, observed, faults, held>>

\* confirm: "no" ends the command, with exit code 0 but nothing done.
Confirm(p) ==
  /\ At(p, "confirm")
  /\ \/ Exit(p, "declined")
     \/ proc[p].cmd = "void" /\ Goto(p, "revoke")
     \/ proc[p].cmd = "destroy" /\ Loop(p, "wipe")
  /\ UNCHANGED <<storeVars, caVars, due, target, observed, faults, held>>

-----------------------------------------------------------------------------
(* The CA.                                                                 *)

\* The CA revokes a certificate it issued in the directory addressed, once.
Revocable(p) ==
  /\ proc[p].seen \notin revoked
  /\ proc[p].staging = (proc[p].seen \in staged)

Revoke(p) ==
  /\ At(p, "revoke")
  /\ Revocable(p)
  /\ revoked' = revoked \cup {proc[p].seen}
  /\ Goto(p, "obtain")
  /\ UNCHANGED <<storeVars, issued, staged, due, target, observed, faults, held>>

\* Any failure of the request is a warning, also when only the CA's answer was
\* lost; void goes on to reissue.
RevokeFails(p) ==
  /\ At(p, "revoke")
  /\ \/ UNCHANGED revoked
     \/ Revocable(p) /\ revoked' = revoked \cup {proc[p].seen}
  /\ Become(p, [proc[p] EXCEPT !.pc = "obtain", !.warned = TRUE])
  /\ UNCHANGED <<storeVars, issued, staged, due, target, observed, faults, held>>

Obtain(p) ==
  /\ At(p, "obtain")
  /\ issued < MaxIssued
  /\ issued' = issued + 1
  /\ staged' = IF proc[p].staging THEN staged \cup {issued + 1} ELSE staged
  /\ Become(p, [proc[p] EXCEPT !.pc = "archive", !.mat = issued + 1])
  /\ UNCHANGED <<storeVars, revoked, due, target, observed, faults, held>>

\* The order, its challenge or the CA's answer fails; nothing was written.
ObtainFails(p) ==
  /\ At(p, "obtain")
  /\ Exit(p, "fail")
  /\ UNCHANGED <<storeVars, caVars, due, target, observed, faults, held>>

-----------------------------------------------------------------------------
(* store.Archive.                                                          *)

BeginArchive(p) ==
  /\ At(p, "archive")
  /\ IF Keep = 0 \/ files[CertFile] = Absent
     THEN Loop(p, "write") /\ UNCHANGED storeVars
     ELSE \E s \in {now + d : d \in ClockSteps} :
            /\ OpenSnapshot(s)
            /\ Become(p, [proc[p] EXCEPT !.pc = "snapshot", !.idx = 1, !.dest = s])
  /\ UNCHANGED <<caVars, due, target, observed, faults, held>>

\* One artifact is copied; after the last one the archive is listed.
ArchiveArtifact(p) ==
  LET a == proc[p].idx IN
  /\ At(p, "snapshot") /\ a \in Artifact
  /\ CopyToSnapshot(proc[p].dest, a)
  /\ Become(p, [proc[p] EXCEPT !.idx = a + 1])
  /\ UNCHANGED <<caVars, due, target, observed, faults, held>>

ListArchive(p) ==
  /\ At(p, "snapshot") /\ proc[p].idx \notin Artifact
  /\ Become(p, [proc[p] EXCEPT !.pc = "prune", !.victims = Excess])
  /\ UNCHANGED <<storeVars, caVars, due, target, observed, faults, held>>

\* Oldest first; then the new set is written.
PruneArchive(p) ==
  /\ At(p, "prune")
  /\ \/ proc[p].victims = {} /\ Loop(p, "write") /\ UNCHANGED storeVars
     \/ \E s \in proc[p].victims :
          /\ \A x \in proc[p].victims : s <= x
          /\ RemoveSnapshots({s})
          /\ Become(p, [proc[p] EXCEPT !.victims = @ \ {s}])
  /\ UNCHANGED <<caVars, due, target, observed, faults, held>>

\* A read, copy or removal fails, or the snapshot was removed meanwhile:
\* provision returns before it writes anything.
ArchiveFails(p) ==
  /\ proc[p].pc \in {"archive", "snapshot", "prune"}
  /\ \/ Fault
     \/ /\ At(p, "snapshot") /\ proc[p].idx \in Artifact
        /\ files[proc[p].idx] # Absent /\ proc[p].dest \notin DOMAIN snaps
        /\ UNCHANGED faults
  /\ Exit(p, "fail")
  /\ UNCHANGED <<storeVars, caVars, due, target, observed, held>>

-----------------------------------------------------------------------------
(* store.Write.                                                            *)

WriteArtifact(p) ==
  LET a == proc[p].idx IN
  /\ At(p, "write") /\ a \in Artifact
  /\ PutArtifact(a, proc[p].mat)
  /\ Become(p, [proc[p] EXCEPT !.idx = a + 1])
  /\ UNCHANGED <<caVars, due, target, observed, faults, held>>

\* Mutant: void leaves the distribution to the next timer run.
Distributing_NotVoid == {"ensure"}

\* The commands that distribute what they provisioned.
Distributing == {"ensure", "void"}

\* The whole set is written: ensure and void distribute, the others are done.
FinishWrite(p) ==
  /\ At(p, "write") /\ proc[p].idx \notin Artifact
  /\ held' = proc[p].mat
  /\ IF proc[p].cmd \in Distributing THEN Loop(p, "deliver") ELSE Exit(p, "ok")
  /\ UNCHANGED <<storeVars, caVars, due, target, observed, faults>>

\* mkdir, chmod, write, rename or chgrp fails: what is written stays.  A chgrp
\* that fails after the last rename leaves a whole set and a failed command.
WriteFails(p) ==
  /\ At(p, "write")
  /\ Fault
  /\ Exit(p, "fail")
  /\ UNCHANGED <<storeVars, caVars, due, target, observed, held>>

-----------------------------------------------------------------------------
(* distribute.Run, and the end of ensure and void.                         *)


\* The artifact is read; one that is missing fails its target only.
ReadForTarget(p) ==
  LET t == proc[p].idx IN
  /\ At(p, "deliver") /\ t \in Target
  /\ IF Source(t) = Absent
     THEN Become(p, [proc[p] EXCEPT !.idx = t + 1, !.failed = TRUE])
     ELSE Become(p, [proc[p] EXCEPT !.pc = "place", !.data = Source(t)])
  /\ UNCHANGED <<storeVars, caVars, due, target, observed, faults, held>>

PlaceTarget(p) ==
  /\ At(p, "place")
  /\ target' = [target EXCEPT ![proc[p].idx] = proc[p].data]
  /\ Become(p, [proc[p] EXCEPT !.pc = "deliver", !.idx = @ + 1, !.data = 0])
  /\ UNCHANGED <<storeVars, caVars, due, observed, faults, held>>

\* The write or chown fails and leaves the old file, or the relabel fails
\* after the new one is in place; the next target is still attempted.
PlaceFails(p) ==
  /\ At(p, "place")
  /\ Fault
  /\ \/ UNCHANGED target
     \/ target' = [target EXCEPT ![proc[p].idx] = proc[p].data]
  /\ Become(p, [proc[p] EXCEPT !.pc = "deliver", !.idx = @ + 1, !.data = 0,
                             !.failed = TRUE])
  /\ UNCHANGED <<storeVars, caVars, due, observed, held>>

\* ensure writes the observation files whether or not a target failed, and
\* only warns when that fails; void's earlier warning makes it exit 1.
FinishDelivery(p) ==
  /\ At(p, "deliver") /\ proc[p].idx \notin Target
  /\ IF proc[p].cmd # "ensure"
     THEN UNCHANGED <<observed, faults>>
     ELSE \/ observed' = Observation /\ UNCHANGED faults
          \/ Fault /\ UNCHANGED observed
  /\ Exit(p, IF proc[p].failed \/ proc[p].warned THEN "fail" ELSE "ok")
  /\ UNCHANGED <<storeVars, caVars, due, target, held>>

-----------------------------------------------------------------------------
(* destroy.                                                                *)

WipeArtifact(p) ==
  LET a == proc[p].idx IN
  /\ At(p, "wipe") /\ a \in Artifact
  /\ RemoveArtifact(a)
  /\ held' = 0
  /\ Become(p, [proc[p] EXCEPT !.idx = a + 1])
  /\ UNCHANGED <<caVars, due, target, observed, faults>>

\* The archive goes snapshot by snapshot, in no order.
WipeArchive(p) ==
  /\ At(p, "wipe") /\ proc[p].idx \notin Artifact
  /\ \/ DOMAIN snaps = {} /\ Exit(p, "ok") /\ UNCHANGED storeVars
     \/ \E s \in DOMAIN snaps : RemoveSnapshots({s}) /\ UNCHANGED proc
  /\ UNCHANGED <<caVars, due, target, observed, faults, held>>

WipeFails(p) ==
  /\ At(p, "wipe")
  /\ Fault
  /\ Exit(p, "fail")
  /\ UNCHANGED <<storeVars, caVars, due, target, observed, held>>

-----------------------------------------------------------------------------
\* The process is killed between two steps.
Crash(p) ==
  /\ ~At(p, "idle")
  /\ Fault
  /\ Become(p, Resting)
  /\ UNCHANGED <<storeVars, caVars, due, target, observed, held>>

\* Time passes and the renewal window of the stored certificate opens.
BecomesDue ==
  /\ files[CertFile] \notin due \cup {Absent}
  /\ Cardinality(due) < MaxDue
  /\ due' = due \cup {files[CertFile]}
  /\ UNCHANGED <<storeVars, caVars, target, observed, faults, held, proc>>

Step(p) ==
  \/ EnsureDecides(p) \/ RenewDecides(p) \/ VoidReads(p) \/ Confirm(p)
  \/ Revoke(p) \/ RevokeFails(p) \/ Obtain(p) \/ ObtainFails(p)
  \/ BeginArchive(p) \/ ArchiveArtifact(p) \/ ListArchive(p)
  \/ PruneArchive(p) \/ ArchiveFails(p)
  \/ WriteArtifact(p) \/ FinishWrite(p) \/ WriteFails(p)
  \/ ReadForTarget(p) \/ PlaceTarget(p) \/ PlaceFails(p) \/ FinishDelivery(p)
  \/ WipeArtifact(p) \/ WipeArchive(p) \/ WipeFails(p)

Next ==
  \/ \E p \in Procs : Start(p) \/ Step(p) \/ Crash(p)
  \/ BecomesDue

Spec == Init /\ [][Next]_vars
=============================================================================
