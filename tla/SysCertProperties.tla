-------------------------- MODULE SysCertProperties --------------------------
(***************************************************************************)
(* What the pipeline of SysCert guarantees, and what its documentation     *)
(* says of it.                                                             *)
(***************************************************************************)
EXTENDS SysCert

\* One slot issues, renews, voids or destroys; the others only distribute.
\* The deployment the documentation describes (one timer, and for a cron job
\* concurrencyPolicy: Forbid), with `syscert distribute` run at any time.
SoleWriter ==
  \E w \in Procs : \A p \in Procs \ {w} : May[p] \subseteq {"distribute"}

\* A command returned with this status (and nothing was started in its slot).
Returned(p, c, code) ==
  At(p, "idle") /\ proc[p].cmd = c /\ proc[p].exit = code

-----------------------------------------------------------------------------
(* Safety with a sole writer.                                              *)

\* However the runs are cut short, no stored file is newer than cert.pem: the
\* file every renewal decision reads (ReadCurrentCert) carries the newest
\* issuance present, because store.Write puts cert.pem first and each set is
\* newer than the store it overwrites.
CertNewest ==
  \A a, b \in Artifact :
    (a < b /\ files[a] # Absent /\ files[b] # Absent) => files[a] >= files[b]

\* A consumer never has a file of a later issuance than the store file it is
\* copied from, even when `distribute` runs while a set is being written: what
\* distribute.one reads and later renames into place came from the store.
TargetsBehindStore ==
  \A t \in Target :
    files[Feeds[t]] # Absent => target[t] <= files[Feeds[t]]

\* Without a crash or a failed file operation the store holds one whole set or
\* nothing whenever no set is being written or wiped, whatever sequence of
\* commands, refused orders and "no" answers led there.
NoFaultNoTear ==
  (faults = 0 /\ \A p \in Procs : proc[p].pc \notin {"write", "wipe"})
    => files = NoFiles \/ Whole(files)

\* While Write replaces the set file by file, the snapshot Archive took still
\* holds every file, replaced or not: pruning never takes the fresh snapshot,
\* and at most Keep snapshots are left.  (An absent file may still be found in the
\* snapshot, if an attempt in the same second left it there.)
WriteHasBackup ==
  \A p \in Procs : (At(p, "write") /\ proc[p].dest # 0) =>
    /\ proc[p].dest \in DOMAIN snaps
    /\ Cardinality(DOMAIN snaps) <= Keep
    /\ \A a \in Artifact : (a >= proc[p].idx /\ files[a] # Absent) =>
         snaps[proc[p].dest][a] = files[a]
    /\ snaps[proc[p].dest][CertFile] # Absent

\* With archive_keep = k, a complete set survives, in the store or in archive/,
\* as long as fewer than k faults occurred since syscert first wrote one (and
\* nobody destroyed it): the retries' own snapshots do not push it out.
GoodCopySurvives ==
  (held # 0 /\ faults < Keep) =>
    Whole(files) \/ \E s \in DOMAIN snaps : Whole(snaps[s])

\* When ensure exits 0 every target holds the stored file, and no target was
\* left behind by an error that was only logged.
EnsureOkDelivered ==
  \A p \in Procs : Returned(p, "ensure", "ok") =>
    \A t \in Target : target[t] = files[Feeds[t]]

\* When void exits 0, neither the store nor any target holds a revoked
\* certificate or its key.
VoidOkLeavesNoRevoked ==
  \A p \in Procs : Returned(p, "void", "ok") =>
    /\ \A a \in Artifact : files[a] \notin revoked
    /\ \A t \in Target : target[t] \notin revoked

-----------------------------------------------------------------------------
(* Why the store and its consumers stay in order with a sole writer w: the *)
(* inductive invariant of the proofs.                                      *)

\* What the state r of process p says of the store.
Local(w, p, r) ==
  /\ p # w => r.pc \in {"idle", "deliver", "place"}
  /\ r.pc \in {"archive", "snapshot", "prune", "write"} => r.mat = issued /\ r.mat > 0
  /\ r.pc = "write" => /\ r.idx > 0
                       /\ \A a \in Artifact : a < r.idx => files[a] = r.mat
  /\ r.pc = "wipe"  => /\ r.idx > 0
                       /\ \A a \in Artifact : a < r.idx => files[a] = Absent
  /\ r.pc = "place" => /\ r.idx \in Target
                       /\ r.data <= issued
                       /\ files[Feeds[r.idx]] # Absent => r.data <= files[Feeds[r.idx]]

NothingFromTheFuture ==
  /\ \A a \in Artifact : files[a] <= issued
  /\ \A t \in Target : target[t] <= issued

\* Between two writes of w the store is untorn, if nothing ever failed.
Settled(w) ==
  (faults = 0 /\ proc[w].pc \notin {"write", "wipe"}) => files = NoFiles \/ Whole(files)

InOrder(w) ==
  /\ \A p \in Procs : Local(w, p, proc[p])
  /\ NothingFromTheFuture
  /\ CertNewest
  /\ TargetsBehindStore
  /\ Settled(w)

\* Some slot is the writer: what it is writing is newer than everything in the
\* store and at the targets, and it replaces the set in order; what a
\* distributor is about to place is no newer than the store.
StoreInOrder == \E w \in Procs : InOrder(w)

-----------------------------------------------------------------------------
(* Why an exit status can be believed, when one command runs at a time: the *)
(* inductive invariants of the proofs.                                     *)

\* One command runs at a time.
OneSlot == \A p, q \in Procs : p = q

\* Every target holds what the store holds.
Current == \A t \in Target : target[t] = files[Feeds[t]]

\* The targets p has passed without an error are current, and stay so until p
\* has returned; only destroy wipes.
Answered(p) ==
  LET r == proc[p] IN
  /\ r.pc \in {"deliver", "place"} =>
       /\ r.idx > 0
       /\ ~r.failed => \A t \in Target : t < r.idx => target[t] = files[Feeds[t]]
  /\ r.pc = "place" => r.idx \in Target /\ r.data = files[Feeds[r.idx]]
  /\ r.pc = "wipe" => r.cmd = "destroy"
  /\ r.pc = "idle" /\ r.exit = "ok" /\ r.cmd \in Distributing => Current

\* A void that went on has certificates nobody revoked: first the one it
\* obtained, then those of the whole store.
Unrevoked(p) ==
  LET r == proc[p] IN
  /\ \A g \in revoked : g <= issued
  /\ r.seen <= issued
  /\ r.pc \in {"archive", "snapshot", "prune", "write"} => r.mat \notin revoked
  /\ r.cmd = "void" /\ (r.pc \in {"deliver", "place"} \/ (r.pc = "idle" /\ r.exit = "ok"))
       => \A a \in Artifact : files[a] \notin revoked

Told(p) == Answered(p) /\ Unrevoked(p)

-----------------------------------------------------------------------------
(* Why a complete set survives failed writes, with a sole writer w: the     *)
(* inductive invariants of the proofs.                                     *)

\* Before the first snapshot.
Early == {"read", "confirm", "revoke", "obtain", "archive"}

\* The snapshot being filled holds artifact a, if the store does.
Copied(r, a) == files[a] # Absent => snaps[r.dest][a] = files[a]

\* The fresh snapshot is the newest name of the archive and no victim of the
\* pruning; what it holds by now is what the store holds.
Backed(w) ==
  LET r == proc[w] IN
  /\ \A s \in DOMAIN snaps : s <= now
  /\ r.pc \in Early => r.dest = 0
  /\ r.pc \in {"snapshot", "prune"} =>
       Keep > 0 /\ files[CertFile] # Absent /\ r.dest = now /\ r.dest \in DOMAIN snaps
  /\ r.pc = "snapshot" => r.idx > 0 /\ \A a \in Artifact : a < r.idx => Copied(r, a)
  /\ r.pc = "prune" =>
       /\ r.dest \notin r.victims
       /\ Cardinality(DOMAIN snaps \ r.victims) <= Keep
       /\ \A a \in Artifact : Copied(r, a)
  /\ r.pc = "write" /\ r.dest # 0 =>
       /\ r.dest \in DOMAIN snaps
       /\ Cardinality(DOMAIN snaps) <= Keep
       /\ \A a \in Artifact : a >= r.idx => Copied(r, a)
       /\ snaps[r.dest][CertFile] # Absent

Attempt == {"snapshot", "prune", "write"}

Later(s) == {x \in DOMAIN snaps : x > s}

\* A whole snapshot has no more later ones than faults occurred, the attempt
\* that is running not counted: each failed attempt leaves one.
Survives(r) ==
  \E s \in DOMAIN snaps :
    /\ Whole(snaps[s])
    /\ Cardinality(Later(s)) + (IF r.pc \in Attempt THEN 0 ELSE 1) <= faults
    /\ r.pc = "snapshot" => s # r.dest
    /\ r.pc = "prune" => s \notin r.victims

GoodCopy(w) ==
  LET r == proc[w] IN
  /\ held # 0 => \A a \in Artifact : files[a] # Absent
  /\ r.pc = "wipe" => r.idx > 0 /\ (r.idx > 1 => held = 0)
  /\ held # 0 /\ faults < Keep => (Whole(files) /\ r.pc # "write") \/ Survives(r)

-----------------------------------------------------------------------------
(* Liveness: the timer (or the --interval loop) starts ensure again and    *)
(* again, a started process runs unless it is killed, and a CA asked often *)
(* enough answers; a CA that keeps failing is not excluded from any safety *)
(* property, but nothing is renewed while it does.  An order that never    *)
(* answers at all ends when the client gives up, which it does unless a    *)
(* ca_bundle is set (Interval).  The bound on faults means they stop.      *)

Fairness ==
  /\ \A p \in Procs : WF_vars(Start(p)) /\ WF_vars(Step(p)) /\ SF_vars(Obtain(p))
  /\ WF_vars(BecomesDue)

FairSpec == Spec /\ Fairness

\* A certificate whose renewal window is open does not stay in the store.
DueIsReplaced == (files[CertFile] \in due) ~> (files[CertFile] \notin due)

\* Targets that fell behind catch up without a new issuance, because a delivery
\* failed, the process died after the store was written, or a `distribute` that
\* had read the old file renamed it over the newer one.
TargetsCatchUp ==
  []<>(\A t \in Target :
         files[Feeds[t]] # Absent => target[t] = files[Feeds[t]])

\* A store torn by a failed write does not stay torn once the renewal window of
\* the certificate in it is open (and not before: see FailedCycleIsRetried): if
\* nothing fails from then on, the next cycles replace the whole set.
TornIsRepaired ==
  \A k \in 0..MaxFaults :
    (faults = k /\ ~Whole(files) /\ files[CertFile] \in due)
      ~> (Whole(files) \/ faults > k)

-----------------------------------------------------------------------------
(* Statements of the documentation that the code does not keep.            *)

\* interval.go logs of a failed cycle that it "will retry on the next
\* interval": a later ensure that succeeds leaves the set it failed to write,
\* or another, whole in the store.
FailedCycleIsRetried ==
  \A p \in Procs : Returned(p, "ensure", "ok") => Whole(files)

\* docs/quick-start.md: the first run without --staging issues and distributes
\* "against production".
ProductionAfterStaging ==
  \A p \in Procs : Returned(p, "ensure", "ok") /\ ~proc[p].staging =>
    files[CertFile] \notin staged

\* cmdVoid "revokes the current certificate": the one revoked is the one the
\* store holds at that moment.
VoidRevokesCurrent ==
  [][\A g \in revoked' \ revoked : g = files[CertFile]]_vars

\* cmdVoid's warning: "the old certificate was NOT revoked".
WarningMeansNotRevoked ==
  \A p \in Procs : (At(p, "obtain") /\ proc[p].warned) =>
    proc[p].seen \notin revoked

\* docs/configuration.md: the [observe] files are "rewritten after every run",
\* so when an ensure returns they describe the stored certificate as it is.
ObservedAfterEveryRun ==
  [][\A p \in Procs :
       (proc[p].cmd = "ensure" /\ ~At(p, "idle") /\ Returned(p, "ensure", "fail")')
         => observed' = Observation']_vars
=============================================================================
