------------------------------- MODULE Access -------------------------------
(***************************************************************************)
(* Who owns the store and what is in it.  The commands that write look at  *)
(* the owner of the store's directory once, before anything else           *)
(* (checkStoreAccess); every later call is answered by the kernel from the *)
(* owners of what is there by then.  destroy does not look.                *)
(*                                                                         *)
(* Directories are 0700 and keys 0600, the defaults: a non-root user who   *)
(* owns neither cannot read, write or remove.  Certificates are 0644.      *)
(***************************************************************************)
EXTENDS Naturals, Sequences

CONSTANTS
  Procs,        \* processes
  UserOf,       \* the users a process may run as
  CmdOf,        \* the commands a process may run
  Root, Service,\* the superuser, the user of the installed service
  Creators,     \* users who may create the store's directory in its parent
  First,        \* owners the store may have in the initial state
  InstallsOver, \* owners of the store, or none, the installer may find
  Careful,      \* is a first run alone, and by a user who may create the store?
  Nobody,       \* the owner of what does not exist
  MaxFaults     \* bound: kills and removals

Items    == {"account", "archive", "cert", "key"}
Trees    == {"account", "archive"}
Commands == {"ensure", "issue", "distribute", "destroy"}
Users    == {Root, Service} \cup UNION {UserOf[p] : p \in Procs}

ASSUME AccessAssumption ==
  /\ Procs # {} /\ CmdOf \in [Procs -> SUBSET Commands]
  /\ DOMAIN UserOf = Procs
  /\ Nobody \notin Users
  /\ Root \in Creators
  /\ First \subseteq Users \cup {Nobody}
  /\ InstallsOver \subseteq Users \cup {Nobody}
  /\ Careful \in BOOLEAN /\ MaxFaults \in Nat

VARIABLES
  dir,          \* the owner of the store's directory
  own,          \* the owner of each item in it
  proc,         \* the processes
  faults

vars == <<dir, own, proc, faults>>

Resting == [pc |-> "idle", user |-> Nobody, cmd |-> "none", idx |-> 1, end |-> "none"]

TypeOK ==
  /\ dir \in Users \cup {Nobody}
  /\ own \in [Items -> Users \cup {Nobody}]
  /\ proc \in [Procs -> [pc : {"idle", "account", "archive", "cert", "key", "deliver", "wipe"},
                         user : Users \cup {Nobody},
                         cmd : Commands \cup {"none"}, idx : 1..5,
                         end : {"none", "ok", "refused", "denied", "failed"}]]
  /\ faults \in 0..MaxFaults

Init ==
  /\ dir \in First
  /\ \E there \in IF dir = Nobody THEN {{}} ELSE SUBSET Items :
       own = [i \in Items |-> IF i \in there THEN dir ELSE Nobody]
  /\ proc = [p \in Procs |-> Resting]
  /\ faults = 0

-----------------------------------------------------------------------------
At(p, label) == proc[p].pc = label

Goto(p, label) == proc' = [proc EXCEPT ![p].pc = label]

End(p, how) == proc' = [proc EXCEPT ![p].pc = "idle", ![p].end = how]

Fault == faults < MaxFaults /\ faults' = faults + 1

Exists(i) == own[i] # Nobody

\* What the kernel lets the process' user do in the directory and with an item.
MayEnter(p)  == proc[p].user \in {Root, dir}
MayOpen(p, i) == MayEnter(p) /\ proc[p].user \in {Root, own[i]}

\* Mutants: root may write anywhere; only root may.
Allowed_RootAlways(user) == dir = Nobody \/ user \in {Root, dir}
Allowed_RootOnly(user)   == dir = Nobody \/ user = Root

\* storeAccessProblem, for root and for the others; a store that does not exist is
\* everybody's.
Allowed(user) == dir = Nobody \/ user = dir

\* Mutant: the guard is left out of the commands that only read the store.
Guarded_Ensure == {"ensure"}

Guarded == Commands \ {"destroy"}

\* ensure goes straight to the delivery when the certificate is not due.
Entry(cmd) ==
  IF cmd = "destroy" THEN {"wipe"}
  ELSE (IF cmd = "distribute" THEN {} ELSE {"account"})
         \cup (IF cmd = "distribute" \/ (cmd = "ensure" /\ Exists("cert")) THEN {"deliver"} ELSE {})

\* Nobody else runs before there is a store, an assumption on how it is set up.
Alone == Careful /\ dir = Nobody => \A p \in Procs : At(p, "idle")

Start(p, user, cmd) ==
  /\ At(p, "idle")
  /\ Alone /\ (Careful /\ dir = Nobody => user \in Creators)
  /\ IF cmd = "destroy" THEN Fault ELSE UNCHANGED faults
  /\ IF cmd \in Guarded /\ ~Allowed(user)
       THEN proc' = [proc EXCEPT ![p] = [pc |-> "idle", user |-> user, cmd |-> cmd,
                                         idx |-> 1, end |-> "refused"]]
       ELSE \E label \in Entry(cmd) :
              proc' = [proc EXCEPT ![p] = [pc |-> label, user |-> user, cmd |-> cmd,
                                           idx |-> 1, end |-> "none"]]
  /\ UNCHANGED <<dir, own>>

\* The item is there and the user may open it, or may make it.
MayUse(p, i) == IF Exists(i) THEN MayOpen(p, i) ELSE MayEnter(p)

\* What destroy removes, in its order: the files, then the trees.
Order  == <<"cert", "key", "archive", "account">>
Doomed(p) == Order[proc[p].idx]

\* Does the kernel grant the calls of the process' next step?  A file is replaced
\* or removed by who may write its directory, whoever owns the file.
Granted(p) ==
  /\ At(p, "account") /\ dir = Nobody => proc[p].user \in Creators
  /\ At(p, "account") /\ dir # Nobody => MayUse(p, "account")
  /\ At(p, "archive") /\ Exists("cert") /\ MayEnter(p)
       => MayUse(p, "archive") /\ (Exists("key") => MayOpen(p, "key"))
  /\ At(p, "cert") \/ At(p, "key") => MayEnter(p)
  /\ At(p, "deliver") /\ Exists("key") => MayOpen(p, "key")
  /\ At(p, "wipe") /\ proc[p].idx <= Len(Order)
       => IF Doomed(p) \in Trees
            THEN Exists(Doomed(p)) /\ MayEnter(p) => MayOpen(p, Doomed(p))
            ELSE MayEnter(p)

\* Any other answer ends the command with the kernel's error.
Denied(p) ==
  /\ ~At(p, "idle") /\ ~Granted(p)
  /\ End(p, "denied")
  /\ UNCHANGED <<dir, own, faults>>

Gains(i, user) == own' = [own EXCEPT ![i] = user]

\* accountKey: os.MkdirAll makes the store's directory too, on a first run.
MakeStore(p) ==
  /\ At(p, "account") /\ Granted(p) /\ dir = Nobody
  /\ dir' = proc[p].user
  /\ UNCHANGED <<own, proc, faults>>

\* The account's directory and key, read or made.
Account(p) ==
  /\ At(p, "account") /\ Granted(p) /\ dir # Nobody
  /\ IF Exists("account") THEN UNCHANGED own ELSE Gains("account", proc[p].user)
  /\ Goto(p, "archive")
  /\ UNCHANGED <<dir, faults>>

\* store.Archive: without a certificate it can see there is nothing to do.
Archive(p) ==
  /\ At(p, "archive") /\ Granted(p)
  /\ IF Exists("cert") /\ MayEnter(p) /\ ~Exists("archive")
       THEN Gains("archive", proc[p].user) ELSE UNCHANGED own
  /\ Goto(p, "cert")
  /\ UNCHANGED <<dir, faults>>

\* store.Write.
Write(p, i) ==
  /\ i \in {"cert", "key"} /\ At(p, i) /\ Granted(p)
  /\ Gains(i, proc[p].user)
  /\ IF i = "cert" THEN Goto(p, "key")
     ELSE IF proc[p].cmd = "ensure" THEN Goto(p, "deliver") ELSE End(p, "ok")
  /\ UNCHANGED <<dir, faults>>

\* distribute.Run reads the key, or finds none.
Deliver(p) ==
  /\ At(p, "deliver") /\ Granted(p)
  /\ End(p, IF Exists("key") THEN "ok" ELSE "failed")
  /\ UNCHANGED <<dir, own, faults>>

\* A tree whose Stat fails is passed over (removeIfPresent).
Wipe(p) ==
  /\ At(p, "wipe") /\ Granted(p)
  /\ IF proc[p].idx > Len(Order)
       THEN End(p, "ok") /\ UNCHANGED own
       ELSE /\ IF MayEnter(p) THEN Gains(Doomed(p), Nobody) ELSE UNCHANGED own
            /\ proc' = [proc EXCEPT ![p].idx = @ + 1]
  /\ UNCHANGED <<dir, faults>>

Kill(p) ==
  /\ ~At(p, "idle") /\ Fault
  /\ proc' = [proc EXCEPT ![p] = Resting]
  /\ UNCHANGED <<dir, own>>

\* install -d -o syscert: the directory, and not what is in it.
Install ==
  /\ dir \in InstallsOver /\ Alone
  /\ dir' = Service
  /\ UNCHANGED <<own, proc, faults>>

Step(p) == MakeStore(p) \/ Account(p) \/ Archive(p) \/ (\E i \in Items : Write(p, i))
             \/ Deliver(p) \/ Wipe(p) \/ Denied(p)

Next ==
  \/ \E p \in Procs :
       \/ \E user \in UserOf[p], cmd \in CmdOf[p] : Start(p, user, cmd)
       \/ Step(p) \/ Kill(p)
  \/ Install

Spec == Init /\ [][Next]_vars

\* The processes a timer starts.  Each goes on: a CA that never answers is given up,
\* for want of a ca_bundle (see Interval).
Timers == {p \in Procs : CmdOf[p] = {"ensure"}}

FairSpec ==
  /\ Spec
  /\ \A p \in Procs : WF_vars(Step(p))
  /\ \A p \in Timers : WF_vars(\E user \in UserOf[p] : Start(p, user, "ensure"))

-----------------------------------------------------------------------------
\* docs/troubleshooting.md: syscert refuses "rather than creating files the
\* scheduled timer can't later renew or overwrite".  Whoever runs what, and is
\* killed where, all that is in the store belongs to the store's owner.
OneOwner == \A i \in Items : Exists(i) => own[i] = dir

\* checkStoreAccess promises "a clean message instead of a raw mkdir/permission-
\* denied later": a command it let through is never stopped by permissions, at
\* any later step and whatever the other processes do meanwhile.
NotStranded == \A p \in Procs : proc[p].end = "denied" => proc[p].cmd \notin Guarded

\* In a store of the service's user, what other users try does not keep its timer
\* from having a certificate there for good.
OwnerServed == <>[](dir = Service => Exists("cert"))

\* "run syscert as that user or root": the command is accepted from a user the
\* refusal names.
AdviceAccepted ==
  \A p \in Procs :
    proc[p].end = "refused" /\ proc[p].user # Root => Allowed(dir) /\ Allowed(Root)
=============================================================================
