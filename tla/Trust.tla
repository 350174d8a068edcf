------------------------------- MODULE Trust -------------------------------
(***************************************************************************)
(* The system trust store: the directory of anchors, the bundle that       *)
(* update-ca-certificates makes of it, and the commands that change them:  *)
(* trust install, trust remove and the last part of destroy.               *)
(***************************************************************************)
EXTENDS FiniteSets, Naturals

CONSTANTS
  CAs,          \* internal CAs an operator may trust
  Files,        \* anchor files
  NameOf,       \* the file of each CA, from the common name of its first certificate
  Foreign,      \* the anchors of other tools, by file
  MaxFaults,    \* bound: failed calls and killed commands
  Nothing, Torn \* no file, a truncated file

ASSUME TrustAssumption ==
  /\ NameOf \in [CAs -> Files]
  /\ DOMAIN Foreign \subseteq Files /\ DOMAIN Foreign \cap {NameOf[c] : c \in CAs} = {}
  /\ MaxFaults \in Nat
  /\ Nothing # Torn
  /\ {Nothing, Torn} \cap (CAs \cup {Foreign[f] : f \in DOMAIN Foreign}) = {}

VARIABLES
  anchors,      \* the content of each file
  trusted,      \* the CAs in the system's bundle
  cmd,          \* the command that is running
  ended,        \* how the last command ended, if it has
  faults

vars == <<anchors, trusted, cmd, ended, faults>>

Everyone == CAs \cup {Foreign[f] : f \in DOMAIN Foreign}

\* The names that begin with "syscert-".
Managed == Files \ DOMAIN Foreign

\* CAName: two common names that differ in case or punctuation give one file.
Anchor(ca) == NameOf[ca]

Pending == [name |-> "none", ca |-> Nothing, ok |-> FALSE]

Idle == [name |-> "none", pc |-> "idle", ca |-> Nothing, todo |-> {}]

Command == [name : {"none", "install", "remove", "destroy"},
            pc : {"idle", "truncate", "fill", "delete", "update"},
            ca : CAs \cup {Nothing}, todo : SUBSET Managed]

Outcome == [name : {"none", "install", "remove", "destroy"}, ca : CAs \cup {Nothing},
            ok : BOOLEAN]

TypeOK ==
  /\ anchors \in [Files -> Everyone \cup {Nothing, Torn}]
  /\ trusted \subseteq Everyone
  /\ cmd \in Command /\ ended \in Outcome
  /\ faults \in 0..MaxFaults

Bundle == {anchors[f] : f \in Files} \ {Nothing, Torn}

Init ==
  /\ anchors = [f \in Files |-> IF f \in DOMAIN Foreign THEN Foreign[f] ELSE Nothing]
  /\ trusted = Bundle
  /\ cmd = Idle
  /\ ended = Pending
  /\ faults = 0

-----------------------------------------------------------------------------
At(label) == cmd.pc = label

Goto(label) == cmd' = [cmd EXCEPT !.pc = label]

\* A command ends; destroy only notes that the anchors stay.
End(name, ok) ==
  /\ cmd' = Idle
  /\ ended' = [name |-> name, ca |-> cmd.ca, ok |-> ok \/ name = "destroy"]

Fault == faults < MaxFaults /\ faults' = faults + 1

\* cmdTrustInstall, after its checks: Install writes the file in place.
StartInstall(ca) ==
  /\ At("idle")
  /\ cmd' = [name |-> "install", pc |-> "truncate", ca |-> ca, todo |-> {}]
  /\ ended' = Pending
  /\ UNCHANGED <<anchors, trusted, faults>>

Truncate ==
  /\ At("truncate")
  /\ anchors' = [anchors EXCEPT ![Anchor(cmd.ca)] = Torn]
  /\ Goto("fill")
  /\ UNCHANGED <<trusted, ended, faults>>

Fill ==
  /\ At("fill")
  /\ anchors' = [anchors EXCEPT ![Anchor(cmd.ca)] = cmd.ca]
  /\ Goto("update")
  /\ UNCHANGED <<trusted, ended, faults>>

\* Mutant: the glob has no prefix.
Matches_All == {f \in Files : anchors[f] # Nothing}

Matches == {f \in Managed : anchors[f] # Nothing}

\* RemoveManaged: the glob; with no match it returns before the update.
StartRemove(name) ==
  /\ At("idle")
  /\ IF Matches = {}
       THEN cmd' = Idle /\ ended' = [name |-> name, ca |-> Nothing, ok |-> TRUE]
       ELSE /\ cmd' = [name |-> name, pc |-> "delete", ca |-> Nothing, todo |-> Matches]
            /\ ended' = Pending
  /\ UNCHANGED <<anchors, trusted, faults>>

\* A file that is gone already is no error.
Delete(f) ==
  /\ At("delete")
  /\ anchors' = [anchors EXCEPT ![f] = Nothing]
  /\ cmd' = [cmd EXCEPT !.todo = @ \ {f}, !.pc = IF cmd.todo = {f} THEN "update" ELSE @]
  /\ UNCHANGED <<trusted, ended, faults>>

\* Mutant: the command's exit status is not looked at.
UpdateFails_Unseen ==
  /\ At("update") /\ Fault
  /\ End(cmd.name, TRUE)
  /\ UNCHANGED <<anchors, trusted>>

\* RunUpdate.
Update ==
  /\ At("update")
  /\ trusted' = Bundle
  /\ End(cmd.name, TRUE)
  /\ UNCHANGED <<anchors, faults>>

UpdateFails ==
  /\ At("update") /\ Fault
  /\ End(cmd.name, FALSE)
  /\ UNCHANGED <<anchors, trusted>>

\* The file cannot be opened, written or removed.
CallFails ==
  /\ cmd.pc \in {"truncate", "fill", "delete"} /\ Fault
  /\ End(cmd.name, FALSE)
  /\ UNCHANGED <<anchors, trusted>>

Kill ==
  /\ ~At("idle") /\ Fault
  /\ cmd' = Idle
  /\ UNCHANGED <<anchors, trusted, ended>>

\* A package's trigger or an administrator runs the update, at any moment.
SystemUpdate ==
  /\ trusted' = Bundle
  /\ UNCHANGED <<anchors, cmd, ended, faults>>

Next ==
  \/ \E ca \in CAs : StartInstall(ca)
  \/ \E name \in {"remove", "destroy"} : StartRemove(name)
  \/ \E f \in cmd.todo : Delete(f)
  \/ Truncate \/ Fill \/ Update \/ UpdateFails \/ CallFails \/ Kill \/ SystemUpdate

Spec == Init /\ [][Next]_vars

-----------------------------------------------------------------------------
\* "OK: installed CA into the system trust store" (cmdTrustInstall): after an
\* install that succeeded its CA is trusted and the bundle is that of the anchors,
\* whatever had failed or been killed before it, and whoever else ran the update.
InstallOkTrusts ==
  ended.name = "install" /\ ended.ok
    => anchors[Anchor(ended.ca)] = ended.ca /\ ended.ca \in trusted /\ trusted = Bundle

\* docs/procedures/trust-internal-ca.md of remove: "It leaves anchors managed by
\* your OS or other tools alone" -- nor does anything that goes wrong reach them.
ForeignKept ==
  \A f \in DOMAIN Foreign : anchors[f] = Foreign[f] /\ Foreign[f] \in trusted

\* "deletes every SysCert-managed anchor and refreshes the trust store"
\* (RemoveManaged): after a remove that succeeded no internal CA is trusted,
\* also when the one before it had failed.
RemoveOkUntrusts ==
  ended.name = "remove" /\ ended.ok => trusted \cap CAs = {}

-----------------------------------------------------------------------------
(* Why install can be believed: the inductive invariant of the proofs.     *)

\* Every command is at one of its own steps; an install knows its CA.
Shape ==
  /\ cmd.pc \in {"truncate", "fill"} => cmd.name = "install"
  /\ cmd.pc = "delete" => cmd.name \in {"remove", "destroy"}
  /\ cmd.name = "install" => cmd.ca \in CAs

\* What an install has put in its file by now.
Written ==
  cmd.name = "install" =>
    /\ cmd.pc = "fill"   => anchors[Anchor(cmd.ca)] = Torn
    /\ cmd.pc = "update" => anchors[Anchor(cmd.ca)] = cmd.ca

\* A command that starts takes back what the last one said.
Told == ended.ok => At("idle")

InstallInOrder == Shape /\ Written /\ Told /\ InstallOkTrusts
=============================================================================
