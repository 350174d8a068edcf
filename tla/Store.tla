------------------------------- MODULE Store -------------------------------
(***************************************************************************)
(* The certificate store of internal/store: the live artifacts of one      *)
(* certificate set and the snapshots under archive/.  The actions are the  *)
(* file-system effects the commands are made of, one rename, mkdir or      *)
(* removal each; SysCert gives them their order and their guards.          *)
(*                                                                         *)
(* A file's content is abstracted to the GENERATION it belongs to: the     *)
(* number of the CA issuance that produced its certificate and key.        *)
(* Artifact a is the a-th name of store.artifactNames; cert.pem comes      *)
(* first.  Every write goes through atomicfile.Write, so a file holds one  *)
(* generation entirely or does not exist.                                  *)
(***************************************************************************)
EXTENDS Naturals, FiniteSets

CONSTANTS
  NArtifacts,   \* length of artifactNames (5 in the code)
  Keep,         \* [store] archive_keep
  ClockSteps    \* seconds the clock may gain between two snapshots

ASSUME StoreAssumption ==
  /\ NArtifacts \in Nat \ {0}
  /\ Keep \in Nat
  /\ ClockSteps \in SUBSET Nat

VARIABLES
  files,        \* the live artifacts: generation of each, or Absent
  snaps,        \* archive/: second in the directory's name -> its artifacts
  now           \* the wall clock in seconds, as far as archive/ has seen it

storeVars == <<files, snaps, now>>

Absent   == 0
CertFile == 1
Artifact == 1..NArtifacts

NoFiles == [a \in Artifact |-> Absent]

\* A set of files is whole when every artifact is there and all belong to the
\* same issuance: the key matches the certificate.
Whole(set) == \E g \in {set[CertFile]} \ {Absent} : \A a \in Artifact : set[a] = g

StoreTypeOK ==
  /\ files \in [Artifact -> Nat]
  /\ DOMAIN snaps \in SUBSET Nat
  /\ snaps \in [DOMAIN snaps -> [Artifact -> Nat]]
  /\ now \in Nat

-----------------------------------------------------------------------------
\* A host where syscert never ran, or one that holds the set of generation g.
StoreInit(g) ==
  /\ files = [a \in Artifact |-> g]
  /\ snaps = [s \in {} |-> NoFiles]
  /\ now = 1

\* Mutant: the last artifact is written first, cert.pem last.
PutArtifact_LastFirst(a, g) ==
  /\ files' = [files EXCEPT ![NArtifacts + 1 - a] = g]
  /\ UNCHANGED <<snaps, now>>

\* Mutant: a stored key is kept, under whatever certificate comes.
PutArtifact_KeepsKey(a, g) ==
  /\ files' = IF a = CertFile \/ files[a] = Absent THEN [files EXCEPT ![a] = g] ELSE files
  /\ UNCHANGED <<snaps, now>>

\* atomicfile.Write of one live artifact.
PutArtifact(a, g) ==
  /\ files' = [files EXCEPT ![a] = g]
  /\ UNCHANGED <<snaps, now>>

\* os.Remove of one live artifact; one that is already gone is not an error.
RemoveArtifact(a) ==
  /\ files' = [files EXCEPT ![a] = Absent]
  /\ UNCHANGED <<snaps, now>>

\* MkdirAll of archive/<now>: the directory of the current second, which an
\* earlier attempt may have left behind.
OpenSnapshot(s) ==
  /\ s \in {now + d : d \in ClockSteps}
  /\ now' = s
  /\ snaps' = [x \in DOMAIN snaps \cup {s} |->
                 IF x \in DOMAIN snaps THEN snaps[x] ELSE NoFiles]
  /\ UNCHANGED files

\* One round of Archive's loop: an absent artifact is skipped.
CopyToSnapshot(s, a) ==
  /\ \/ files[a] = Absent /\ UNCHANGED snaps
     \/ /\ files[a] # Absent /\ s \in DOMAIN snaps
        /\ snaps' = [snaps EXCEPT ![s] = [@ EXCEPT ![a] = files[a]]]
  /\ UNCHANGED <<files, now>>

\* Mutants: the list is cut one too late; the newest names are removed.
Excess_OneMore == {s \in DOMAIN snaps : Cardinality({x \in DOMAIN snaps : x > s}) + 1 >= Keep}
Excess_Newest  == {s \in DOMAIN snaps : Cardinality({x \in DOMAIN snaps : x < s}) >= Keep}

\* pruneArchive's choice: all but the Keep newest of the listed names.
Excess == {s \in DOMAIN snaps : Cardinality({x \in DOMAIN snaps : x > s}) >= Keep}

\* os.RemoveAll of snapshots, by pruneArchive and WipeCerts.
RemoveSnapshots(S) ==
  /\ snaps' = [x \in DOMAIN snaps \ S |-> snaps[x]]
  /\ UNCHANGED <<files, now>>
=============================================================================
