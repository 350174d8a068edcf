--------------------------- MODULE SysCert_proofs ---------------------------
(***************************************************************************)
(* Proofs about the pipeline for every store layout, archive depth, set of *)
(* processes and targets, and any number of certificates and faults.       *)
(***************************************************************************)
EXTENDS SysCertProperties, FiniteSetTheorems, WellFoundedInduction, TLAPS

-----------------------------------------------------------------------------
(* Type correctness.                                                       *)

LEMMA RestingType == Resting \in ProcState
  BY DEF Resting, ProcState, Labels, Commands

LEMMA LabelType ==
  /\ "idle" \in Labels /\ "read" \in Labels /\ "confirm" \in Labels
  /\ "revoke" \in Labels /\ "obtain" \in Labels /\ "archive" \in Labels
  /\ "snapshot" \in Labels /\ "prune" \in Labels /\ "write" \in Labels
  /\ "deliver" \in Labels /\ "place" \in Labels /\ "wipe" \in Labels
  BY DEF Labels

\* The updates the actions make to a process's state keep it well typed.
LEMMA UpdateType ==
  ASSUME NEW r \in ProcState
  PROVE  /\ \A l \in Labels :
              /\ [r EXCEPT !.pc = l] \in ProcState
              /\ [r EXCEPT !.pc = l, !.warned = TRUE] \in ProcState
         /\ \A l \in Labels, n \in Nat :
              /\ [r EXCEPT !.pc = l, !.idx = n] \in ProcState
              /\ [r EXCEPT !.pc = l, !.seen = n] \in ProcState
              /\ [r EXCEPT !.pc = l, !.mat = n] \in ProcState
              /\ [r EXCEPT !.pc = l, !.data = n] \in ProcState
         /\ \A l \in Labels, i, n \in Nat :
              /\ [r EXCEPT !.pc = l, !.idx = i, !.dest = n] \in ProcState
              /\ [r EXCEPT !.pc = l, !.idx = i, !.data = n] \in ProcState
              /\ [r EXCEPT !.pc = l, !.idx = i, !.data = n, !.failed = TRUE] \in ProcState
         /\ \A l \in Labels, S \in SUBSET Nat :
              [r EXCEPT !.pc = l, !.victims = S] \in ProcState
         /\ \A i \in Nat : /\ [r EXCEPT !.idx = i] \in ProcState
                          /\ [r EXCEPT !.idx = i, !.failed = TRUE] \in ProcState
         /\ \A S \in SUBSET Nat : [r EXCEPT !.victims = S] \in ProcState
  <1>1. ASSUME NEW l \in Labels
        PROVE  /\ [r EXCEPT !.pc = l] \in ProcState
               /\ [r EXCEPT !.pc = l, !.warned = TRUE] \in ProcState
    BY DEF ProcState
  <1>2. ASSUME NEW l \in Labels, NEW n \in Nat
        PROVE  /\ [r EXCEPT !.pc = l, !.idx = n] \in ProcState
               /\ [r EXCEPT !.pc = l, !.seen = n] \in ProcState
               /\ [r EXCEPT !.pc = l, !.mat = n] \in ProcState
               /\ [r EXCEPT !.pc = l, !.data = n] \in ProcState
    BY DEF ProcState
  <1>3. ASSUME NEW l \in Labels, NEW i \in Nat, NEW n \in Nat
        PROVE  /\ [r EXCEPT !.pc = l, !.idx = i, !.dest = n] \in ProcState
               /\ [r EXCEPT !.pc = l, !.idx = i, !.data = n] \in ProcState
               /\ [r EXCEPT !.pc = l, !.idx = i, !.data = n, !.failed = TRUE] \in ProcState
    BY DEF ProcState
  <1>4. ASSUME NEW l \in Labels, NEW S \in SUBSET Nat
        PROVE  [r EXCEPT !.pc = l, !.victims = S] \in ProcState
    BY DEF ProcState
  <1>5. ASSUME NEW i \in Nat
        PROVE  /\ [r EXCEPT !.idx = i] \in ProcState
               /\ [r EXCEPT !.idx = i, !.failed = TRUE] \in ProcState
    BY DEF ProcState
  <1>6. ASSUME NEW S \in SUBSET Nat
        PROVE  [r EXCEPT !.victims = S] \in ProcState
    BY DEF ProcState
  <1> QED
    BY <1>1, <1>2, <1>3, <1>4, <1>5, <1>6

\* The numbers a process keeps.
LEMMA FieldType ==
  ASSUME NEW r \in ProcState
  PROVE  /\ r.idx \in Nat /\ r.idx + 1 \in Nat /\ r.dest \in Nat
         /\ r.mat \in Nat /\ r.seen \in Nat /\ r.data \in Nat
         /\ r.victims \in SUBSET Nat
  BY DEF ProcState

LEMMA BecomeType ==
  ASSUME TypeOK, NEW p \in Procs, NEW r \in ProcState, Become(p, r)
  PROVE  proc' \in [Procs -> ProcState]
  BY DEF TypeOK, Become

LEMMA ExitType ==
  ASSUME TypeOK, NEW p \in Procs, NEW code \in {"none", "ok", "declined", "fail"},
         Exit(p, code)
  PROVE  proc' \in [Procs -> ProcState]
  <1> DEFINE r == [Resting EXCEPT !.cmd = proc[p].cmd, !.staging = proc[p].staging,
                                  !.exit = code]
  <1>1. r \in ProcState
    BY RestingType DEF TypeOK, ProcState
  <1> QED
    BY <1>1, BecomeType DEF Exit

LEMMA GotoType ==
  ASSUME TypeOK, NEW p \in Procs, NEW label \in Labels,
         Goto(p, label) \/ Loop(p, label)
  PROVE  proc' \in [Procs -> ProcState]
  <1>1. /\ [proc[p] EXCEPT !.pc = label] \in ProcState
        /\ [proc[p] EXCEPT !.pc = label, !.idx = 1] \in ProcState
    BY DEF TypeOK, ProcState
  <1> QED
    BY <1>1, BecomeType DEF Goto, Loop

LEMMA NextIdxType ==
  ASSUME TypeOK, NEW p \in Procs, Become(p, [proc[p] EXCEPT !.idx = proc[p].idx + 1])
  PROVE  proc' \in [Procs -> ProcState]
  <1>1. [proc[p] EXCEPT !.idx = proc[p].idx + 1] \in ProcState
    BY DEF TypeOK, ProcState
  <1> QED
    BY <1>1, BecomeType

LEMMA InitType == Init => TypeOK
  <1> SUFFICES ASSUME Init PROVE TypeOK
    OBVIOUS
  <1>1. StoreTypeOK
    BY DEF Init, StoreInit, StoreTypeOK, NoFiles
  <1>2. proc \in [Procs -> ProcState]
    BY RestingType DEF Init
  <1> QED
    BY <1>1, <1>2 DEF Init, TypeOK

LEMMA NextType == TypeOK /\ [Next]_vars => TypeOK'
  <1> SUFFICES ASSUME TypeOK, [Next]_vars PROVE TypeOK'
    OBVIOUS
  <1> USE SysCertAssumption, StoreAssumption
  <1>1. ASSUME NEW p \in Procs, Start(p) PROVE TypeOK'
    <2>1. PICK c \in May[p], s \in StagingFlags :
            Become(p, [Resting EXCEPT !.pc = Entry(c), !.cmd = c, !.staging = s])
      BY <1>1 DEF Start
    <2>2. c \in Commands /\ s \in BOOLEAN
      OBVIOUS
    <2>3. Entry(c) \in Labels
      BY DEF Entry, Labels
    <2>4. [Resting EXCEPT !.pc = Entry(c), !.cmd = c, !.staging = s] \in ProcState
      BY <2>2, <2>3, RestingType DEF ProcState
    <2>5. proc' \in [Procs -> ProcState]
      BY <2>1, <2>4, BecomeType
    <2> QED
      BY <1>1, <2>5 DEF Start, TypeOK, StoreTypeOK, storeVars, caVars
  <1>2. ASSUME NEW p \in Procs,
               EnsureDecides(p) \/ RenewDecides(p) \/ Confirm(p) \/ ObtainFails(p)
        PROVE  TypeOK'
    <2>1. proc' \in [Procs -> ProcState]
      BY <1>2, ExitType, GotoType
      DEF EnsureDecides, RenewDecides, Confirm, ObtainFails, Labels
    <2> QED
      BY <1>2, <2>1 DEF EnsureDecides, RenewDecides, Confirm, ObtainFails, TypeOK,
                        StoreTypeOK, storeVars, caVars
  <1>3. ASSUME NEW p \in Procs, VoidReads(p) PROVE TypeOK'
    <2>1. files[CertFile] \in Nat
      BY DEF TypeOK, StoreTypeOK, CertFile, Artifact
    <2>2. proc' \in [Procs -> ProcState]
      <3>1. CASE Exit(p, "fail")
        BY <3>1, ExitType
      <3>2. CASE Become(p, [proc[p] EXCEPT !.pc = "confirm", !.seen = files[CertFile]])
        <4>1. [proc[p] EXCEPT !.pc = "confirm", !.seen = files[CertFile]] \in ProcState
          BY <2>1, LabelType, UpdateType, FieldType DEF TypeOK
        <4> QED
          BY <4>1, <3>2, BecomeType
      <3> QED
        BY <1>3, <3>1, <3>2 DEF VoidReads
    <2> QED
      BY <1>3, <2>2 DEF VoidReads, TypeOK, StoreTypeOK, storeVars, caVars
  <1>4. ASSUME NEW p \in Procs, Revoke(p) \/ RevokeFails(p) \/ Obtain(p) PROVE TypeOK'
    <2>1. proc[p] \in ProcState /\ issued \in Nat
      BY DEF TypeOK
    <2>2. CASE Revoke(p)
      <3>1. proc' \in [Procs -> ProcState]
        BY <2>2, GotoType DEF Revoke, Labels
      <3>2. revoked' \in SUBSET Nat
        BY <2>2, <2>1 DEF Revoke, TypeOK, ProcState
      <3> QED
        BY <2>2, <3>1, <3>2 DEF Revoke, TypeOK, StoreTypeOK, storeVars
    <2>3. CASE RevokeFails(p)
      <3>1. [proc[p] EXCEPT !.pc = "obtain", !.warned = TRUE] \in ProcState
        BY <2>1, LabelType, UpdateType, FieldType DEF TypeOK
      <3>2. proc' \in [Procs -> ProcState]
        BY <2>3, <3>1, BecomeType DEF RevokeFails
      <3>3. revoked' \in SUBSET Nat
        BY <2>3, <2>1 DEF RevokeFails, TypeOK, ProcState
      <3> QED
        BY <2>3, <3>2, <3>3 DEF RevokeFails, TypeOK, StoreTypeOK, storeVars
    <2>4. CASE Obtain(p)
      <3>a. issued + 1 \in Nat
        BY <2>1
      <3>1. [proc[p] EXCEPT !.pc = "archive", !.mat = issued + 1] \in ProcState
        BY <2>1, <3>a, LabelType, UpdateType
      <3>2. proc' \in [Procs -> ProcState]
        BY <2>4, <3>1, BecomeType DEF Obtain
      <3> QED
        BY <2>4, <2>1, <3>2 DEF Obtain, TypeOK, StoreTypeOK, storeVars
    <2> QED
      BY <1>4, <2>2, <2>3, <2>4
  <1>5. ASSUME NEW p \in Procs,
               BeginArchive(p) \/ ArchiveArtifact(p) \/ ListArchive(p)
                 \/ PruneArchive(p) \/ ArchiveFails(p)
        PROVE  TypeOK'
    <2>1. CASE BeginArchive(p)
      <3>1. CASE Loop(p, "write") /\ UNCHANGED storeVars
        BY <2>1, <3>1, GotoType DEF BeginArchive, TypeOK, StoreTypeOK, storeVars, caVars, Labels
      <3>2. ASSUME NEW s \in {now + d : d \in ClockSteps}, OpenSnapshot(s),
                   Become(p, [proc[p] EXCEPT !.pc = "snapshot", !.idx = 1, !.dest = s])
            PROVE  TypeOK'
        <4>1. s \in Nat
          BY DEF TypeOK, StoreTypeOK
        <4>2. proc' \in [Procs -> ProcState]
          <5>1. [proc[p] EXCEPT !.pc = "snapshot", !.idx = 1, !.dest = s] \in ProcState
            BY <4>1, LabelType, UpdateType DEF TypeOK
          <5> QED
            BY <5>1, <3>2, BecomeType
        <4>3. StoreTypeOK'
          BY <4>1, <3>2 DEF OpenSnapshot, TypeOK, StoreTypeOK, NoFiles, Absent
        <4> QED
          BY <2>1, <4>2, <4>3 DEF BeginArchive, TypeOK, caVars
      <3> QED
        BY <2>1, <3>1, <3>2 DEF BeginArchive
    <2>2. CASE ArchiveArtifact(p)
      <3>1. proc' \in [Procs -> ProcState]
        BY <2>2, NextIdxType DEF ArchiveArtifact
      <3>2. StoreTypeOK'
        <4> DEFINE s == proc[p].dest
                   a == proc[p].idx
        <4>1. CASE UNCHANGED snaps
          BY <2>2, <4>1 DEF ArchiveArtifact, CopyToSnapshot, TypeOK, StoreTypeOK
        <4>2. CASE /\ s \in DOMAIN snaps
                   /\ snaps' = [snaps EXCEPT ![s] = [@ EXCEPT ![a] = files[a]]]
          <5>1. [snaps[s] EXCEPT ![a] = files[a]] \in [Artifact -> Nat]
            BY <2>2, <4>2 DEF ArchiveArtifact, TypeOK, StoreTypeOK
          <5>2. /\ snaps' \in [DOMAIN snaps -> [Artifact -> Nat]]
                /\ DOMAIN snaps' = DOMAIN snaps
            BY <5>1, <4>2 DEF TypeOK, StoreTypeOK
          <5> QED
            BY <2>2, <5>2 DEF ArchiveArtifact, CopyToSnapshot, TypeOK, StoreTypeOK
        <4> QED
          BY <2>2, <4>1, <4>2 DEF ArchiveArtifact, CopyToSnapshot
      <3> QED
        BY <2>2, <3>1, <3>2 DEF ArchiveArtifact, TypeOK, caVars
    <2>3. CASE ListArchive(p)
      <3>1. Excess \in SUBSET Nat
        BY DEF Excess, TypeOK, StoreTypeOK
      <3>2. [proc[p] EXCEPT !.pc = "prune", !.victims = Excess] \in ProcState
        BY <3>1, LabelType, UpdateType DEF TypeOK
      <3>3. proc' \in [Procs -> ProcState]
        BY <2>3, <3>2, BecomeType DEF ListArchive
      <3> QED
        BY <2>3, <3>3 DEF ListArchive, TypeOK, StoreTypeOK, storeVars, caVars
    <2>4. CASE PruneArchive(p)
      <3>1. CASE Loop(p, "write") /\ UNCHANGED storeVars
        BY <2>4, <3>1, GotoType DEF PruneArchive, TypeOK, StoreTypeOK, storeVars, caVars, Labels
      <3>2. ASSUME NEW s \in proc[p].victims, RemoveSnapshots({s}),
                   Become(p, [proc[p] EXCEPT !.victims = @ \ {s}])
            PROVE  TypeOK'
        <4>1. proc' \in [Procs -> ProcState]
          <5>1. [proc[p] EXCEPT !.victims = @ \ {s}] \in ProcState
            BY DEF TypeOK, ProcState
          <5> QED
            BY <5>1, <3>2, BecomeType
        <4>2. StoreTypeOK'
          BY <3>2 DEF RemoveSnapshots, TypeOK, StoreTypeOK
        <4> QED
          BY <2>4, <4>1, <4>2 DEF PruneArchive, TypeOK, caVars
      <3> QED
        BY <2>4, <3>1, <3>2 DEF PruneArchive
    <2>5. CASE ArchiveFails(p)
      <3>1. proc' \in [Procs -> ProcState]
        BY <2>5, ExitType DEF ArchiveFails
      <3>2. faults' \in Nat
        BY <2>5 DEF ArchiveFails, Fault, TypeOK
      <3> QED
        BY <2>5, <3>1, <3>2 DEF ArchiveFails, TypeOK, StoreTypeOK, storeVars, caVars
    <2> QED
      BY <1>5, <2>1, <2>2, <2>3, <2>4, <2>5
  <1>6. ASSUME NEW p \in Procs, WriteArtifact(p) \/ FinishWrite(p) \/ WriteFails(p)
        PROVE  TypeOK'
    <2>1. proc[p] \in ProcState
      BY DEF TypeOK
    <2>2. CASE WriteArtifact(p)
      <3>1. proc' \in [Procs -> ProcState]
        BY <2>2, NextIdxType DEF WriteArtifact
      <3>2. StoreTypeOK'
        BY <2>2, <2>1 DEF WriteArtifact, PutArtifact, TypeOK, StoreTypeOK, ProcState
      <3> QED
        BY <2>2, <3>1, <3>2 DEF WriteArtifact, TypeOK, caVars
    <2>3. CASE FinishWrite(p)
      <3>1. proc' \in [Procs -> ProcState]
        BY <2>3, ExitType, GotoType DEF FinishWrite, Labels
      <3>2. held' \in Nat
        BY <2>3, <2>1 DEF FinishWrite, ProcState
      <3> QED
        BY <2>3, <3>1, <3>2 DEF FinishWrite, TypeOK, StoreTypeOK, storeVars, caVars
    <2>4. CASE WriteFails(p)
      <3>1. proc' \in [Procs -> ProcState]
        BY <2>4, ExitType DEF WriteFails
      <3>2. faults' \in Nat
        BY <2>4 DEF WriteFails, Fault, TypeOK
      <3> QED
        BY <2>4, <3>1, <3>2 DEF WriteFails, TypeOK, StoreTypeOK, storeVars, caVars
    <2> QED
      BY <1>6, <2>2, <2>3, <2>4
  <1>7. ASSUME NEW p \in Procs,
               ReadForTarget(p) \/ PlaceTarget(p) \/ PlaceFails(p) \/ FinishDelivery(p)
        PROVE  TypeOK'
    <2>1. proc[p] \in ProcState
      BY DEF TypeOK
    <2>2. CASE ReadForTarget(p)
      <3>1. Source(proc[p].idx) \in Nat
        BY <2>2 DEF ReadForTarget, Source, TypeOK, StoreTypeOK
      <3>2. /\ [proc[p] EXCEPT !.idx = proc[p].idx + 1, !.failed = TRUE] \in ProcState
            /\ [proc[p] EXCEPT !.pc = "place", !.data = Source(proc[p].idx)] \in ProcState
        BY <3>1, <2>1, LabelType, UpdateType, FieldType DEF TypeOK
      <3>3. proc' \in [Procs -> ProcState]
        BY <2>2, <3>2, BecomeType DEF ReadForTarget
      <3> QED
        BY <2>2, <3>3 DEF ReadForTarget, TypeOK, StoreTypeOK, storeVars, caVars
    <2>3. CASE PlaceTarget(p) \/ PlaceFails(p)
      <3>1. proc' \in [Procs -> ProcState]
        <4>0. proc[p].idx + 1 \in Nat /\ 0 \in Nat
          BY <2>1, FieldType
        <4>1. /\ [proc[p] EXCEPT !.pc = "deliver", !.idx = proc[p].idx + 1,
                                 !.data = 0] \in ProcState
              /\ [proc[p] EXCEPT !.pc = "deliver", !.idx = proc[p].idx + 1,
                                 !.data = 0, !.failed = TRUE] \in ProcState
          BY <2>1, <4>0, LabelType, UpdateType
        <4> QED
          BY <2>3, <4>1, BecomeType DEF PlaceTarget, PlaceFails
      <3>2. target' \in [Target -> Nat] /\ faults' \in Nat
        BY <2>3, <2>1 DEF PlaceTarget, PlaceFails, Fault, TypeOK, ProcState
      <3> QED
        BY <2>3, <3>1, <3>2 DEF PlaceTarget, PlaceFails, TypeOK, StoreTypeOK, storeVars, caVars
    <2>4. CASE FinishDelivery(p)
      <3>1. proc' \in [Procs -> ProcState]
        BY <2>4, ExitType DEF FinishDelivery
      <3>2. Observation \in [cert : Nat, due : BOOLEAN]
        BY DEF Observation, TypeOK, StoreTypeOK, CertFile, Artifact
      <3>3. observed' \in [cert : Nat, due : BOOLEAN] /\ faults' \in Nat
        BY <2>4, <3>2 DEF FinishDelivery, Fault, TypeOK
      <3> QED
        BY <2>4, <3>1, <3>3 DEF FinishDelivery, TypeOK, StoreTypeOK, storeVars, caVars
    <2> QED
      BY <1>7, <2>2, <2>3, <2>4
  <1>8. ASSUME NEW p \in Procs, WipeArtifact(p) \/ WipeArchive(p) \/ WipeFails(p)
        PROVE  TypeOK'
    <2>1. CASE WipeArtifact(p)
      <3>1. proc' \in [Procs -> ProcState]
        BY <2>1, NextIdxType DEF WipeArtifact
      <3>2. StoreTypeOK'
        BY <2>1 DEF WipeArtifact, RemoveArtifact, Absent, TypeOK, StoreTypeOK
      <3> QED
        BY <2>1, <3>1, <3>2 DEF WipeArtifact, TypeOK, caVars
    <2>2. CASE WipeArchive(p)
      <3>1. proc' \in [Procs -> ProcState]
        BY <2>2, ExitType DEF WipeArchive, TypeOK
      <3>2. StoreTypeOK'
        BY <2>2 DEF WipeArchive, RemoveSnapshots, TypeOK, StoreTypeOK, storeVars
      <3> QED
        BY <2>2, <3>1, <3>2 DEF WipeArchive, TypeOK, caVars
    <2>3. CASE WipeFails(p)
      <3>1. proc' \in [Procs -> ProcState]
        BY <2>3, ExitType DEF WipeFails
      <3>2. faults' \in Nat
        BY <2>3 DEF WipeFails, Fault, TypeOK
      <3> QED
        BY <2>3, <3>1, <3>2 DEF WipeFails, TypeOK, StoreTypeOK, storeVars, caVars
    <2> QED
      BY <1>8, <2>1, <2>2, <2>3
  <1>9. ASSUME NEW p \in Procs, Crash(p) PROVE TypeOK'
    <2>1. proc' \in [Procs -> ProcState]
      BY <1>9, RestingType, BecomeType DEF Crash
    <2> QED
      BY <1>9, <2>1 DEF Crash, Fault, TypeOK, StoreTypeOK, storeVars, caVars
  <1>10. CASE BecomesDue
    <2>1. files[CertFile] \in Nat
      BY DEF TypeOK, StoreTypeOK, CertFile, Artifact
    <2>2. due' \in SUBSET Nat
      BY <1>10, <2>1 DEF BecomesDue, TypeOK
    <2> QED
      BY <1>10, <2>2 DEF BecomesDue, TypeOK, StoreTypeOK, storeVars, caVars
  <1>11. CASE UNCHANGED vars
    BY <1>11 DEF vars, TypeOK, StoreTypeOK, storeVars, caVars
  <1> QED
    BY <1>1, <1>2, <1>3, <1>4, <1>5, <1>6, <1>7, <1>8, <1>9, <1>10, <1>11 DEF Next, Step

\* Every variable keeps its type, whatever the processes do.
THEOREM TypeCorrect == Spec => []TypeOK
  BY InitType, NextType, PTL DEF Spec

-----------------------------------------------------------------------------
(* With one writing slot, and any number of others that distribute at any  *)
(* time, the store and its consumers stay in order however runs are cut    *)
(* short.  InOrder(w) is the inductive invariant.                          *)

\* Only the writing slot runs anything but `syscert distribute`.
OthersDistribute(w) == \A p \in Procs \ {w} : May[p] \subseteq {"distribute"}

\* A process that only decides, asks or delivers says nothing of the store.
LEMMA RestLocal ==
  ASSUME NEW w, NEW p, NEW r,
         \/ r.pc \in {"idle", "deliver"}
         \/ p = w /\ r.pc \in {"read", "confirm", "revoke", "obtain"}
  PROVE  Local(w, p, r)
  BY DEF Local

LEMMA BecomeValue ==
  ASSUME TypeOK, NEW p \in Procs, NEW r, Become(p, r)
  PROVE  /\ proc'[p] = r
         /\ \A q \in Procs \ {p} : proc'[q] = proc[q]
  BY DEF Become, TypeOK

\* A step of p that leaves the store, the targets and the CA alone.
LEMMA SteadyStep ==
  ASSUME TypeOK, NEW w \in Procs, InOrder(w),
         NEW p \in Procs, NEW r, Become(p, r), Local(w, p, r),
         UNCHANGED <<files, target, issued>>,
         (p = w /\ faults' = 0 /\ r.pc \notin {"write", "wipe"}) =>
            \/ faults = 0 /\ proc[w].pc \notin {"write", "wipe"}
            \/ files = NoFiles \/ Whole(files),
         faults' = faults \/ faults' = faults + 1
  PROVE  InOrder(w)'
  <1>1. proc'[p] = r /\ \A q \in Procs \ {p} : proc'[q] = proc[q]
    BY BecomeValue
  <1>2. \A q \in Procs : Local(w, q, proc'[q])
    BY <1>1 DEF InOrder
  <1>3. (\A q \in Procs : Local(w, q, proc[q]))'
    BY <1>2 DEF Local
  <1>4. (NothingFromTheFuture /\ CertNewest /\ TargetsBehindStore)'
    BY DEF InOrder, NothingFromTheFuture, CertNewest, TargetsBehindStore
  <1>5. faults' = 0 => faults = 0
    BY DEF TypeOK
  <1>6. (files = NoFiles \/ Whole(files)) => (files = NoFiles \/ Whole(files))'
    BY DEF NoFiles, Whole
  <1>7. Settled(w)'
    BY <1>1, <1>5, <1>6 DEF InOrder, Settled
  <1> QED
    BY <1>3, <1>4, <1>7 DEF InOrder

\* A process other than the writer is in none of the writer's steps.
LEMMA WriterOnly ==
  ASSUME NEW w \in Procs, InOrder(w), NEW p \in Procs,
         proc[p].pc \notin {"idle", "deliver", "place"}
  PROVE  p = w
  BY DEF InOrder, Local

\* What Exit, Goto and Loop make of a process.
LEMMA ExitPc ==
  ASSUME NEW p, NEW code
  PROVE  [Resting EXCEPT !.cmd = proc[p].cmd, !.staging = proc[p].staging,
                         !.exit = code].pc = "idle"
  BY DEF Resting

LEMMA ExitSteady ==
  ASSUME TypeOK, NEW w \in Procs, InOrder(w), NEW p \in Procs, NEW code,
         Exit(p, code), UNCHANGED <<files, target, issued>>,
         \/ faults' = faults /\ proc[p].pc \notin {"write", "wipe"}
         \/ faults' = faults + 1
         \/ faults' = faults /\ (files = NoFiles \/ Whole(files))
  PROVE  InOrder(w)'
  <1> DEFINE r == [Resting EXCEPT !.cmd = proc[p].cmd, !.staging = proc[p].staging,
                                  !.exit = code]
  <1>1. r.pc = "idle"
    BY ExitPc
  <1>2. Local(w, p, r)
    BY <1>1, RestLocal
  <1>3. Become(p, r)
    BY DEF Exit
  <1>4. faults' = faults + 1 => faults' # 0
    BY DEF TypeOK
  <1> HIDE DEF r
  <1> QED
    BY <1>2, <1>3, <1>4, SteadyStep

\* A step whose process state keeps its pc among the quiet ones.
LEMMA RestSteady ==
  ASSUME TypeOK, NEW w \in Procs, InOrder(w), NEW p \in Procs, NEW r,
         Become(p, r), UNCHANGED <<files, target, issued>>,
         \/ r.pc \in {"idle", "deliver"}
         \/ p = w /\ r.pc \in {"read", "confirm", "revoke", "obtain"},
         \/ faults' = faults /\ proc[p].pc \notin {"write", "wipe"}
         \/ faults' = faults + 1
         \/ faults' = faults /\ (files = NoFiles \/ Whole(files))
  PROVE  InOrder(w)'
  <1>1. Local(w, p, r)
    BY RestLocal
  <1>2. faults' = faults + 1 => faults' # 0
    BY DEF TypeOK
  <1> QED
    BY <1>1, <1>2, SteadyStep

LEMMA InitInOrder ==
  ASSUME NEW w \in Procs, Init
  PROVE  InOrder(w)
  <1>0. PICK g \in {0, 1} :
          /\ files = [a \in Artifact |-> g]
          /\ issued = g
          /\ target = [t \in Target |-> g]
          /\ proc = [p \in Procs |-> Resting]
    BY DEF Init, StoreInit
  <1>1. \A p \in Procs : Local(w, p, proc[p])
    BY <1>0, RestLocal DEF Resting
  <1>2. NothingFromTheFuture /\ CertNewest /\ TargetsBehindStore
    BY <1>0, SysCertAssumption DEF NothingFromTheFuture, CertNewest, TargetsBehindStore
  <1>3. Settled(w)
    <2>1. CASE g = 0
      BY <2>1, <1>0 DEF Settled, NoFiles, Absent
    <2>2. CASE g = 1
      <3>1. CertFile \in Artifact
        BY StoreAssumption DEF CertFile, Artifact
      <3> QED
        BY <2>2, <1>0, <3>1 DEF Settled, Whole, Absent
    <2> QED
      BY <2>1, <2>2
  <1> QED
    BY <1>1, <1>2, <1>3 DEF InOrder

LEMMA StartInOrder ==
  ASSUME TypeOK, NEW w \in Procs, OthersDistribute(w), InOrder(w),
         NEW p \in Procs, Start(p)
  PROVE  InOrder(w)'
  <1>1. PICK c \in May[p], s \in StagingFlags :
          Become(p, [Resting EXCEPT !.pc = Entry(c), !.cmd = c, !.staging = s])
    BY DEF Start
  <1> DEFINE r == [Resting EXCEPT !.pc = Entry(c), !.cmd = c, !.staging = s]
  <1>2. r.pc = Entry(c)
    BY DEF Resting
  <1>3. c \in Commands
    BY SysCertAssumption
  <1>4. Entry(c) \in {"read", "obtain", "confirm", "deliver"}
    BY <1>3 DEF Entry, Commands
  <1>5. p # w => Entry(c) = "deliver"
    BY DEF OthersDistribute, Entry
  <1>6. UNCHANGED <<files, target, issued, faults>> /\ proc[p].pc = "idle"
    BY DEF Start, At, storeVars, caVars
  <1> HIDE DEF r
  <1>7. Become(p, r)
    BY <1>1 DEF r
  <1> QED
    BY <1>2, <1>4, <1>5, <1>6, <1>7, RestSteady

\* The values of the fields of an updated process state.
LEMMA UpdateValue ==
  ASSUME NEW r \in ProcState
  PROVE  \A l, n, i, S :
    /\ [r EXCEPT !.pc = l].pc = l
    /\ [r EXCEPT !.pc = l, !.warned = TRUE].pc = l
    /\ [r EXCEPT !.pc = l, !.seen = n].pc = l
    /\ LET x == [r EXCEPT !.pc = l, !.mat = n]
       IN  x.pc = l /\ x.mat = n
    /\ LET x == [r EXCEPT !.pc = l, !.idx = i]
       IN  x.pc = l /\ x.idx = i /\ x.mat = r.mat
    /\ LET x == [r EXCEPT !.idx = i]
       IN  x.pc = r.pc /\ x.idx = i /\ x.mat = r.mat
    /\ LET x == [r EXCEPT !.idx = i, !.failed = TRUE]
       IN  x.pc = r.pc
    /\ LET x == [r EXCEPT !.pc = l, !.idx = i, !.dest = n]
       IN  x.pc = l /\ x.mat = r.mat
    /\ LET x == [r EXCEPT !.pc = l, !.victims = S]
       IN  x.pc = l /\ x.mat = r.mat
    /\ LET x == [r EXCEPT !.victims = S]
       IN  x.pc = r.pc /\ x.mat = r.mat
    /\ LET x == [r EXCEPT !.pc = l, !.data = n]
       IN  x.pc = l /\ x.idx = r.idx /\ x.data = n
    /\ [r EXCEPT !.pc = l, !.idx = i, !.data = n].pc = l
    /\ [r EXCEPT !.pc = l, !.idx = i, !.data = n, !.failed = TRUE].pc = l
  BY DEF ProcState

\* The steps that decide, ask or fail before anything is written.
LEMMA DecideInOrder ==
  ASSUME TypeOK, NEW w \in Procs, InOrder(w), NEW p \in Procs,
         EnsureDecides(p) \/ RenewDecides(p) \/ VoidReads(p) \/ Revoke(p)
           \/ RevokeFails(p) \/ ObtainFails(p)
  PROVE  InOrder(w)'
  <1>0. proc[p] \in ProcState
    BY DEF TypeOK
  <1>1. proc[p].pc \in {"read", "revoke", "obtain"}
    BY DEF EnsureDecides, RenewDecides, VoidReads, Revoke, RevokeFails, ObtainFails, At
  <1>2. p = w
    BY <1>1, WriterOnly
  <1>3. UNCHANGED <<files, target, issued, faults>>
    BY DEF EnsureDecides, RenewDecides, VoidReads, Revoke, RevokeFails, ObtainFails,
           storeVars, caVars
  <1>4. CASE \E code : Exit(p, code)
    BY <1>4, <1>1, <1>3, ExitSteady
  <1>5. CASE \E r : Become(p, r) /\ r.pc \in {"deliver", "confirm", "revoke", "obtain"}
    BY <1>5, <1>1, <1>2, <1>3, RestSteady
  <1>6. \A l : [proc[p] EXCEPT !.pc = l].pc = l /\ [proc[p] EXCEPT !.pc = l, !.idx = 1].pc = l
    BY <1>0, UpdateValue
  <1>7. ASSUME NEW l \in {"deliver", "revoke", "obtain"}, Goto(p, l) \/ Loop(p, l)
        PROVE  InOrder(w)'
    BY <1>5, <1>6, <1>7 DEF Goto, Loop
  <1>8. ASSUME VoidReads(p)
        PROVE  InOrder(w)'
    <2>1. [proc[p] EXCEPT !.pc = "confirm", !.seen = files[CertFile]].pc = "confirm"
      BY <1>0, UpdateValue
    <2> QED
      BY <1>4, <1>5, <1>8, <2>1 DEF VoidReads
  <1>9. ASSUME RevokeFails(p)
        PROVE  InOrder(w)'
    <2>1. [proc[p] EXCEPT !.pc = "obtain", !.warned = TRUE].pc = "obtain"
      BY <1>0, UpdateValue
    <2> QED
      BY <1>5, <1>9, <2>1 DEF RevokeFails
  <1>10. ASSUME EnsureDecides(p) \/ RenewDecides(p) \/ Revoke(p) \/ ObtainFails(p)
         PROVE  InOrder(w)'
    BY <1>4, <1>7, <1>10 DEF EnsureDecides, RenewDecides, Revoke, ObtainFails
  <1> QED
    BY <1>8, <1>9, <1>10

\* Declining, or starting to revoke or to wipe.
LEMMA ConfirmInOrder ==
  ASSUME TypeOK, NEW w \in Procs, InOrder(w), NEW p \in Procs, Confirm(p)
  PROVE  InOrder(w)'
  <1>0. proc[p] \in ProcState /\ proc[p].pc = "confirm"
    BY DEF TypeOK, Confirm, At
  <1>1. p = w
    BY <1>0, WriterOnly
  <1>2. UNCHANGED <<files, target, issued, faults>>
    BY DEF Confirm, storeVars, caVars
  <1>3. CASE Exit(p, "declined")
    BY <1>0, <1>2, <1>3, ExitSteady
  <1>4. CASE Goto(p, "revoke")
    <2>1. [proc[p] EXCEPT !.pc = "revoke"].pc = "revoke"
      BY <1>0, UpdateValue
    <2> QED
      BY <1>0, <1>1, <1>2, <1>4, <2>1, RestSteady DEF Goto
  <1>5. CASE Loop(p, "wipe")
    <2> DEFINE r == [proc[p] EXCEPT !.pc = "wipe", !.idx = 1]
    <2>1. r.pc = "wipe" /\ r.idx = 1
      BY <1>0, UpdateValue
    <2>2. Local(w, p, r)
      BY <1>1, <2>1 DEF Local, Artifact
    <2>3. Become(p, r)
      BY <1>5 DEF Loop
    <2> HIDE DEF r
    <2> QED
      BY <1>2, <2>1, <2>2, <2>3, SteadyStep
  <1> QED
    BY <1>3, <1>4, <1>5 DEF Confirm

\* The new certificate is the newest there is.
LEMMA ObtainInOrder ==
  ASSUME TypeOK, NEW w \in Procs, InOrder(w), NEW p \in Procs, Obtain(p)
  PROVE  InOrder(w)'
  <1>0. proc[p] \in ProcState /\ proc[p].pc = "obtain" /\ issued \in Nat
    BY DEF TypeOK, Obtain, At
  <1>1. p = w
    BY <1>0, WriterOnly
  <1> DEFINE r == [proc[p] EXCEPT !.pc = "archive", !.mat = issued + 1]
  <1>2. r.pc = "archive" /\ r.mat = issued + 1
    BY <1>0, UpdateValue
  <1>3. UNCHANGED <<files, target, faults>> /\ issued' = issued + 1 /\ Become(p, r)
    BY DEF Obtain, storeVars
  <1> HIDE DEF r
  <1>4. proc'[p] = r /\ \A q \in Procs \ {p} : proc'[q] = proc[q]
    BY <1>3, BecomeValue
  <1>5. Local(w, p, proc[p])'
    BY <1>0, <1>1, <1>2, <1>3, <1>4 DEF Local
  <1>6. ASSUME NEW q \in Procs \ {p}
        PROVE  Local(w, q, proc[q])'
    <2>1. Local(w, q, proc[q]) /\ proc[q].pc \in {"idle", "deliver", "place"}
      BY <1>1 DEF InOrder, Local
    <2>2. proc[q].data \in Nat
      BY DEF TypeOK, ProcState
    <2> QED
      BY <1>0, <1>3, <1>4, <2>1, <2>2 DEF Local
  <1>7. NothingFromTheFuture'
    BY <1>0, <1>3 DEF InOrder, NothingFromTheFuture, TypeOK, StoreTypeOK
  <1>8. (CertNewest /\ TargetsBehindStore)'
    BY <1>3 DEF InOrder, CertNewest, TargetsBehindStore
  <1>9. Settled(w)'
    BY <1>0, <1>1, <1>3 DEF InOrder, Settled, NoFiles, Whole
  <1> QED
    BY <1>5, <1>6, <1>7, <1>8, <1>9 DEF InOrder

\* Archive keeps the material and the live files; writing starts at cert.pem.
LEMMA ArchiveInOrder ==
  ASSUME TypeOK, NEW w \in Procs, InOrder(w), NEW p \in Procs,
         BeginArchive(p) \/ ArchiveArtifact(p) \/ ListArchive(p) \/ PruneArchive(p)
           \/ ArchiveFails(p)
  PROVE  InOrder(w)'
  <1>0. proc[p] \in ProcState /\ proc[p].pc \in {"archive", "snapshot", "prune"}
    BY DEF TypeOK, BeginArchive, ArchiveArtifact, ListArchive, PruneArchive,
           ArchiveFails, At
  <1>1. p = w
    BY <1>0, WriterOnly
  <1>2. proc[p].mat = issued /\ proc[p].mat > 0
    BY <1>0 DEF InOrder, Local
  <1>3. UNCHANGED <<files, target, issued>>
    BY DEF BeginArchive, OpenSnapshot, ArchiveArtifact, CopyToSnapshot, ListArchive,
           PruneArchive, RemoveSnapshots, ArchiveFails, storeVars, caVars
  <1>4. CASE ArchiveFails(p)
    <2>1. Exit(p, "fail") /\ (faults' = faults \/ faults' = faults + 1)
      BY <1>4 DEF ArchiveFails, Fault
    <2> QED
      BY <1>0, <1>3, <2>1, ExitSteady
  <1>5. CASE ~ArchiveFails(p)
    <2>1. UNCHANGED faults
      BY <1>5 DEF BeginArchive, ArchiveArtifact, ListArchive, PruneArchive
    <2>2. ASSUME NEW r, Become(p, r), r.mat = proc[p].mat,
                 r.pc \in {"snapshot", "prune"}
          PROVE  InOrder(w)'
      <3>1. Local(w, p, r)
        BY <1>1, <1>2, <2>2 DEF Local
      <3> QED
        BY <1>0, <1>1, <1>3, <2>1, <2>2, <3>1, SteadyStep
    <2>3. ASSUME Loop(p, "write")
          PROVE  InOrder(w)'
      <3> DEFINE r == [proc[p] EXCEPT !.pc = "write", !.idx = 1]
      <3>1. r.pc = "write" /\ r.idx = 1 /\ r.mat = proc[p].mat
        BY <1>0, UpdateValue
      <3>2. Local(w, p, r)
        BY <1>1, <1>2, <3>1 DEF Local, Artifact
      <3>3. Become(p, r)
        BY <2>3 DEF Loop
      <3> HIDE DEF r
      <3> QED
        BY <1>3, <2>1, <3>1, <3>2, <3>3, SteadyStep
    <2>4. CASE BeginArchive(p)
      <3>1. ASSUME NEW s, Become(p, [proc[p] EXCEPT !.pc = "snapshot", !.idx = 1, !.dest = s])
            PROVE  InOrder(w)'
        <4> DEFINE r == [proc[p] EXCEPT !.pc = "snapshot", !.idx = 1, !.dest = s]
        <4>1. r.pc = "snapshot" /\ r.mat = proc[p].mat
          BY <1>0, UpdateValue
        <4> HIDE DEF r
        <4>2. Become(p, r)
          BY <3>1 DEF r
        <4> QED
          BY <4>1, <4>2, <2>2
      <3> QED
        BY <2>3, <2>4, <3>1 DEF BeginArchive
    <2>5. CASE ArchiveArtifact(p)
      <3> DEFINE r == [proc[p] EXCEPT !.idx = proc[p].idx + 1]
      <3>1. r.pc = "snapshot" /\ r.mat = proc[p].mat
        BY <1>0, <2>5, UpdateValue DEF ArchiveArtifact, At
      <3>2. Become(p, r)
        BY <2>5 DEF ArchiveArtifact
      <3> HIDE DEF r
      <3> QED
        BY <3>1, <3>2, <2>2
    <2>6. CASE ListArchive(p)
      <3> DEFINE r == [proc[p] EXCEPT !.pc = "prune", !.victims = Excess]
      <3>1. r.pc = "prune" /\ r.mat = proc[p].mat
        BY <1>0, UpdateValue
      <3>2. Become(p, r)
        BY <2>6 DEF ListArchive
      <3> HIDE DEF r
      <3> QED
        BY <3>1, <3>2, <2>2
    <2>7. CASE PruneArchive(p)
      <3>1. ASSUME NEW S, Become(p, [proc[p] EXCEPT !.victims = S])
            PROVE  InOrder(w)'
        <4> DEFINE r == [proc[p] EXCEPT !.victims = S]
        <4>1. r.pc = "prune" /\ r.mat = proc[p].mat
          BY <1>0, <2>7, UpdateValue DEF PruneArchive, At
        <4> HIDE DEF r
        <4>2. Become(p, r)
          BY <3>1 DEF r
        <4> QED
          BY <4>1, <4>2, <2>2
      <3> QED
        BY <2>3, <2>7, <3>1 DEF PruneArchive
    <2> QED
      BY <1>5, <2>4, <2>5, <2>6, <2>7
  <1> QED
    BY <1>4, <1>5

\* Write replaces the set in order with the newest issuance.
LEMMA WriteInOrder ==
  ASSUME TypeOK, NEW w \in Procs, InOrder(w), NEW p \in Procs, WriteArtifact(p)
  PROVE  InOrder(w)'
  <1>0. /\ proc[p] \in ProcState /\ proc[p].pc = "write"
        /\ proc[p].idx \in Artifact /\ issued \in Nat
    BY DEF TypeOK, WriteArtifact, At
  <1>1. p = w
    BY <1>0, WriterOnly
  <1>2. /\ proc[p].mat = issued /\ issued > 0
        /\ \A a \in Artifact : a < proc[p].idx => files[a] = issued
    BY <1>0 DEF InOrder, Local
  <1> DEFINE r == [proc[p] EXCEPT !.idx = proc[p].idx + 1]
  <1>3. r.pc = "write" /\ r.idx = proc[p].idx + 1 /\ r.mat = issued
    BY <1>0, <1>2, UpdateValue
  <1>4. /\ UNCHANGED <<target, issued, faults>>
        /\ files' = [files EXCEPT ![proc[p].idx] = issued]
        /\ Become(p, r)
    BY <1>2 DEF WriteArtifact, PutArtifact, caVars
  <1> HIDE DEF r
  <1>5. proc'[p] = r /\ \A q \in Procs \ {p} : proc'[q] = proc[q]
    BY <1>4, BecomeValue
  <1>6. /\ files \in [Artifact -> Nat] /\ files' \in [Artifact -> Nat]
        /\ \A a \in Artifact : /\ files[a] <= files'[a]
                               /\ files'[a] = IF a = proc[p].idx THEN issued ELSE files[a]
    BY <1>0, <1>4 DEF TypeOK, StoreTypeOK, InOrder, NothingFromTheFuture
  <1>7. Local(w, p, proc[p])'
    BY <1>0, <1>1, <1>2, <1>3, <1>4, <1>5, <1>6 DEF Local, Artifact
  <1>8. ASSUME NEW q \in Procs \ {p}
        PROVE  Local(w, q, proc[q])'
    <2>1. Local(w, q, proc[q]) /\ proc[q].pc \in {"idle", "deliver", "place"}
      BY <1>1 DEF InOrder, Local
    <2>2. CASE proc[q].pc = "place"
      <3>1. proc[q].data \in Nat /\ proc[q].idx \in Target
        BY <2>1, <2>2 DEF TypeOK, ProcState, Local
      <3>2. Feeds[proc[q].idx] \in Artifact
        BY <3>1, SysCertAssumption
      <3> QED
        BY <1>0, <1>1, <1>4, <1>5, <1>6, <2>1, <2>2, <3>1, <3>2 DEF Local
    <2> QED
      BY <1>1, <1>5, <2>1, <2>2 DEF Local
  <1>9. NothingFromTheFuture'
    BY <1>0, <1>4, <1>6 DEF InOrder, NothingFromTheFuture
  <1>10. CertNewest'
    <2> SUFFICES ASSUME NEW a \in Artifact, NEW b \in Artifact, a < b,
                        files'[a] # Absent, files'[b] # Absent
                 PROVE  files'[a] >= files'[b]
      BY DEF CertNewest
    <2>1. CASE a = proc[p].idx
      BY <2>1, <1>0, <1>6 DEF InOrder, NothingFromTheFuture
    <2>2. CASE a # proc[p].idx /\ b = proc[p].idx
      BY <2>2, <1>0, <1>2, <1>6
    <2>3. CASE a # proc[p].idx /\ b # proc[p].idx
      BY <2>3, <1>6 DEF InOrder, CertNewest
    <2> QED
      BY <2>1, <2>2, <2>3
  <1>11. TargetsBehindStore'
    <2> SUFFICES ASSUME NEW t \in Target, files'[Feeds[t]] # Absent
                 PROVE  target[t] <= files'[Feeds[t]]
      BY <1>4 DEF TargetsBehindStore
    <2>1. Feeds[t] \in Artifact
      BY SysCertAssumption
    <2>2. target[t] <= issued
      BY DEF InOrder, NothingFromTheFuture
    <2>3. files[Feeds[t]] # Absent => target[t] <= files[Feeds[t]]
      BY DEF InOrder, TargetsBehindStore
    <2> QED
      BY <1>6, <2>1, <2>2, <2>3
  <1>12. Settled(w)'
    BY <1>1, <1>3, <1>5 DEF Settled
  <1> QED
    BY <1>7, <1>8, <1>9, <1>10, <1>11, <1>12 DEF InOrder

\* A set written to its end is whole.
LEMMA EndWriteInOrder ==
  ASSUME TypeOK, NEW w \in Procs, InOrder(w), NEW p \in Procs,
         FinishWrite(p) \/ WriteFails(p)
  PROVE  InOrder(w)'
  <1>0. proc[p] \in ProcState /\ proc[p].pc = "write"
    BY DEF TypeOK, FinishWrite, WriteFails, At
  <1>1. p = w
    BY <1>0, WriterOnly
  <1>2. UNCHANGED <<files, target, issued>>
    BY DEF FinishWrite, WriteFails, storeVars, caVars
  <1>3. CASE FinishWrite(p)
    <2>1. proc[p].idx \notin Artifact /\ proc[p].idx \in Nat /\ faults' = faults
      BY <1>0, <1>3 DEF FinishWrite, ProcState
    <2>2. /\ proc[p].idx > 0 /\ proc[p].mat > 0
          /\ \A a \in Artifact : a < proc[p].idx => files[a] = proc[p].mat
      BY <1>0 DEF InOrder, Local
    <2>3. CertFile \in Artifact /\ \A a \in Artifact : a < proc[p].idx
      BY <2>1, <2>2, StoreAssumption DEF CertFile, Artifact
    <2>4. Whole(files)
      BY <2>2, <2>3 DEF Whole, Absent
    <2>5. CASE Exit(p, "ok")
      BY <1>2, <2>1, <2>4, <2>5, ExitSteady
    <2>6. CASE Loop(p, "deliver")
      <3>1. [proc[p] EXCEPT !.pc = "deliver", !.idx = 1].pc = "deliver"
        BY <1>0, UpdateValue
      <3> QED
        BY <1>2, <2>1, <2>4, <2>6, <3>1, RestSteady DEF Loop
    <2> QED
      BY <1>3, <2>5, <2>6 DEF FinishWrite
  <1>4. CASE WriteFails(p)
    BY <1>2, <1>4, ExitSteady DEF WriteFails, Fault
  <1> QED
    BY <1>3, <1>4

\* A distributor reads what the store holds.
LEMMA ReadInOrder ==
  ASSUME TypeOK, NEW w \in Procs, InOrder(w), NEW p \in Procs, ReadForTarget(p)
  PROVE  InOrder(w)'
  <1>0. proc[p] \in ProcState /\ proc[p].pc = "deliver" /\ proc[p].idx \in Target
    BY DEF TypeOK, ReadForTarget, At
  <1>1. UNCHANGED <<files, target, issued, faults>>
    BY DEF ReadForTarget, storeVars, caVars
  <1>2. CASE Become(p, [proc[p] EXCEPT !.idx = proc[p].idx + 1, !.failed = TRUE])
    <2>1. [proc[p] EXCEPT !.idx = proc[p].idx + 1, !.failed = TRUE].pc = "deliver"
      BY <1>0, UpdateValue
    <2> QED
      BY <1>0, <1>1, <1>2, <2>1, RestSteady
  <1>3. CASE Become(p, [proc[p] EXCEPT !.pc = "place", !.data = Source(proc[p].idx)])
    <2> DEFINE r == [proc[p] EXCEPT !.pc = "place", !.data = Source(proc[p].idx)]
    <2>1. /\ r.pc = "place" /\ r.idx = proc[p].idx
          /\ r.data = files[Feeds[proc[p].idx]]
      BY <1>0, UpdateValue DEF Source
    <2>2. Feeds[proc[p].idx] \in Artifact
      BY <1>0, SysCertAssumption
    <2>3. files[Feeds[proc[p].idx]] \in Nat
      BY <2>2 DEF TypeOK, StoreTypeOK
    <2> HIDE DEF r
    <2>4. Local(w, p, r)
      BY <1>0, <2>1, <2>2, <2>3 DEF Local, InOrder, NothingFromTheFuture
    <2>5. Become(p, r)
      BY <1>3 DEF r
    <2> QED
      BY <1>0, <1>1, <2>1, <2>4, <2>5, SteadyStep
  <1> QED
    BY <1>2, <1>3 DEF ReadForTarget

\* What it read is still no newer than the store when it is put in place.
LEMMA PlaceInOrder ==
  ASSUME TypeOK, NEW w \in Procs, InOrder(w), NEW p \in Procs,
         PlaceTarget(p) \/ PlaceFails(p)
  PROVE  InOrder(w)'
  <1>0. proc[p] \in ProcState /\ proc[p].pc = "place"
    BY DEF TypeOK, PlaceTarget, PlaceFails, At
  <1>1. Local(w, p, proc[p])
    BY DEF InOrder
  <1>2. PICK r : Become(p, r) /\ r.pc = "deliver"
    <2>1. /\ [proc[p] EXCEPT !.pc = "deliver", !.idx = proc[p].idx + 1,
                             !.data = 0].pc = "deliver"
          /\ [proc[p] EXCEPT !.pc = "deliver", !.idx = proc[p].idx + 1,
                             !.data = 0, !.failed = TRUE].pc = "deliver"
      BY <1>0, UpdateValue
    <2> QED
      BY <2>1 DEF PlaceTarget, PlaceFails
  <1>3. UNCHANGED <<files, issued>> /\ (faults' = faults \/ faults' = faults + 1)
    BY DEF PlaceTarget, PlaceFails, Fault, storeVars, caVars
  <1>4. \/ target' = target
        \/ target' = [target EXCEPT ![proc[p].idx] = proc[p].data]
    BY DEF PlaceTarget, PlaceFails
  <1>5. \A t \in Target : \/ target'[t] = target[t]
                          \/ t = proc[p].idx /\ target'[t] = proc[p].data
    BY <1>4 DEF TypeOK
  <1>6. proc'[p] = r /\ \A q \in Procs \ {p} : proc'[q] = proc[q]
    BY <1>2, BecomeValue
  <1>7. (\A q \in Procs : Local(w, q, proc[q]))'
    <2>1. \A q \in Procs : Local(w, q, proc'[q])
      BY <1>2, <1>6, RestLocal DEF InOrder
    <2> QED
      BY <2>1, <1>3 DEF Local
  <1>8. NothingFromTheFuture' /\ CertNewest'
    BY <1>0, <1>1, <1>3, <1>5 DEF InOrder, NothingFromTheFuture, CertNewest, Local
  <1>9. TargetsBehindStore'
    BY <1>0, <1>1, <1>3, <1>5 DEF InOrder, TargetsBehindStore, Local
  <1>10. Settled(w)'
    <2>1. faults' = 0 => faults = 0
      BY <1>3 DEF TypeOK
    <2>2. proc[w].pc \in {"write", "wipe"} => proc'[w].pc = proc[w].pc
      BY <1>0, <1>6
    <2>3. (files = NoFiles \/ Whole(files)) => (files = NoFiles \/ Whole(files))'
      BY <1>3 DEF NoFiles, Whole
    <2> QED
      BY <2>1, <2>2, <2>3 DEF InOrder, Settled
  <1> QED
    BY <1>7, <1>8, <1>9, <1>10 DEF InOrder

LEMMA DeliveredInOrder ==
  ASSUME TypeOK, NEW w \in Procs, InOrder(w), NEW p \in Procs, FinishDelivery(p)
  PROVE  InOrder(w)'
  <1>1. proc[p].pc = "deliver" /\ UNCHANGED <<files, target, issued>>
    BY DEF FinishDelivery, At, storeVars, caVars
  <1>2. faults' = faults \/ faults' = faults + 1
    BY DEF FinishDelivery, Fault
  <1>3. PICK code : Exit(p, code)
    BY DEF FinishDelivery
  <1> QED
    BY <1>1, <1>2, <1>3, ExitSteady

LEMMA QuietInOrder ==
  ASSUME NEW w \in Procs, InOrder(w), UNCHANGED <<files, target, issued, faults, proc>>
  PROVE  InOrder(w)'
  BY DEF InOrder, Local, NothingFromTheFuture, CertNewest, TargetsBehindStore, Settled,
         NoFiles, Whole

\* Wipe empties the set from its first file to its last.
LEMMA WipeInOrder ==
  ASSUME TypeOK, NEW w \in Procs, InOrder(w), NEW p \in Procs,
         WipeArtifact(p) \/ WipeArchive(p) \/ WipeFails(p)
  PROVE  InOrder(w)'
  <1>0. proc[p] \in ProcState /\ proc[p].pc = "wipe"
    BY DEF TypeOK, WipeArtifact, WipeArchive, WipeFails, At
  <1>1. p = w
    BY <1>0, WriterOnly
  <1>2. /\ proc[p].idx \in Nat /\ proc[p].idx > 0
        /\ \A a \in Artifact : a < proc[p].idx => files[a] = Absent
    BY <1>0 DEF InOrder, Local, ProcState
  <1>3. CASE WipeFails(p)
    <2>1. UNCHANGED <<files, target, issued>> /\ faults' = faults + 1 /\ Exit(p, "fail")
      BY <1>3 DEF WipeFails, Fault, storeVars, caVars
    <2> QED
      BY <2>1, ExitSteady
  <1>4. CASE WipeArchive(p)
    <2>1. UNCHANGED <<files, target, issued, faults>> /\ (Exit(p, "ok") \/ UNCHANGED proc)
      BY <1>4 DEF WipeArchive, RemoveSnapshots, caVars, storeVars
    <2>2. \A a \in Artifact : a < proc[p].idx
      BY <1>2, <1>4, StoreAssumption DEF WipeArchive, Artifact
    <2>3. files = NoFiles
      BY <1>2, <2>2 DEF NoFiles, TypeOK, StoreTypeOK
    <2> QED
      BY <2>1, <2>3, ExitSteady, QuietInOrder
  <1>5. CASE WipeArtifact(p)
    <2> DEFINE r == [proc[p] EXCEPT !.idx = proc[p].idx + 1]
    <2>1. r.pc = "wipe" /\ r.idx = proc[p].idx + 1
      BY <1>0, UpdateValue
    <2>2. /\ UNCHANGED <<target, issued, faults>> /\ proc[p].idx \in Artifact
          /\ files' = [files EXCEPT ![proc[p].idx] = Absent]
          /\ Become(p, r)
      BY <1>5 DEF WipeArtifact, RemoveArtifact, caVars
    <2> HIDE DEF r
    <2>3. proc'[p] = r /\ \A q \in Procs \ {p} : proc'[q] = proc[q]
      BY <2>2, BecomeValue
    <2>4. \A a \in Artifact : files'[a] = IF a = proc[p].idx THEN Absent ELSE files[a]
      BY <2>2 DEF TypeOK, StoreTypeOK
    <2>5. Local(w, p, proc[p])'
      BY <1>1, <1>2, <2>1, <2>2, <2>3, <2>4 DEF Local, Artifact
    <2>6. ASSUME NEW q \in Procs \ {p}
          PROVE  Local(w, q, proc[q])'
      <3>1. Local(w, q, proc[q]) /\ proc[q].pc \in {"idle", "deliver", "place"}
        BY <1>1 DEF InOrder, Local
      <3>2. proc[q].pc = "place" => Feeds[proc[q].idx] \in Artifact
        BY <3>1, SysCertAssumption DEF Local
      <3> QED
        BY <1>1, <2>2, <2>3, <2>4, <3>1, <3>2 DEF Local
    <2>7. NothingFromTheFuture'
      BY <2>2, <2>4 DEF InOrder, NothingFromTheFuture, TypeOK, Absent
    <2>8. CertNewest'
      BY <2>4 DEF InOrder, CertNewest
    <2>9. TargetsBehindStore'
      BY <2>2, <2>4, SysCertAssumption DEF InOrder, TargetsBehindStore
    <2>10. Settled(w)'
      BY <1>1, <2>1, <2>3 DEF Settled
    <2> QED
      BY <2>5, <2>6, <2>7, <2>8, <2>9, <2>10 DEF InOrder
  <1> QED
    BY <1>3, <1>4, <1>5

LEMMA CrashInOrder ==
  ASSUME TypeOK, NEW w \in Procs, InOrder(w), NEW p \in Procs, Crash(p)
  PROVE  InOrder(w)'
  <1>1. Resting.pc = "idle"
    BY DEF Resting
  <1>2. UNCHANGED <<files, target, issued>> /\ faults' = faults + 1 /\ Become(p, Resting)
    BY DEF Crash, Fault, storeVars, caVars
  <1> QED
    BY <1>1, <1>2, RestSteady

LEMMA NextInOrder ==
  ASSUME NEW w \in Procs, OthersDistribute(w)
  PROVE  TypeOK /\ InOrder(w) /\ [Next]_vars => InOrder(w)'
  <1> SUFFICES ASSUME TypeOK, InOrder(w), [Next]_vars PROVE InOrder(w)'
    OBVIOUS
  <1>1. ASSUME NEW p \in Procs, Step(p) PROVE InOrder(w)'
    BY <1>1, DecideInOrder, ConfirmInOrder, ObtainInOrder, ArchiveInOrder, WriteInOrder,
       EndWriteInOrder, ReadInOrder, PlaceInOrder, DeliveredInOrder, WipeInOrder
    DEF Step
  <1>2. ASSUME NEW p \in Procs, Start(p) \/ Crash(p) PROVE InOrder(w)'
    BY <1>2, StartInOrder, CrashInOrder
  <1>3. CASE BecomesDue \/ UNCHANGED vars
    BY <1>3, QuietInOrder DEF BecomesDue, vars, storeVars, caVars
  <1> QED
    BY <1>1, <1>2, <1>3 DEF Next

-----------------------------------------------------------------------------
\* With a sole writer the store and the targets stay in order: the inductive
\* invariant of store.Write's order and of distribute's read-then-rename.
THEOREM SoleWriterInOrder ==
  ASSUME NEW w \in Procs, OthersDistribute(w)
  PROVE  Spec => []InOrder(w)
  <1>1. Init => InOrder(w)
    BY InitInOrder
  <1>2. TypeOK /\ InOrder(w) /\ [Next]_vars => InOrder(w)'
    BY NextInOrder
  <1> QED
    BY <1>1, <1>2, TypeCorrect, PTL DEF Spec

\* Some slot is that writer.
THEOREM StoreStaysInOrder == ASSUME SoleWriter PROVE Spec => []StoreInOrder
  <1>1. PICK w \in Procs : OthersDistribute(w)
    BY DEF SoleWriter, OthersDistribute
  <1>2. InOrder(w) => StoreInOrder
    BY DEF StoreInOrder
  <1> QED
    BY <1>1, <1>2, SoleWriterInOrder, PTL

\* cert.pem, which every renewal decision reads, is never older than another
\* stored file, whatever was cut short.
THEOREM CertStaysNewest == ASSUME SoleWriter PROVE Spec => []CertNewest
  <1>1. StoreInOrder => CertNewest
    BY DEF StoreInOrder, InOrder
  <1> QED
    BY <1>1, StoreStaysInOrder, PTL

\* No target is ever ahead of the store file it is copied from.
THEOREM TargetsStayBehind == ASSUME SoleWriter PROVE Spec => []TargetsBehindStore
  <1>1. StoreInOrder => TargetsBehindStore
    BY DEF StoreInOrder, InOrder
  <1> QED
    BY <1>1, StoreStaysInOrder, PTL

\* Without faults the store is whole or empty between two writes.
THEOREM UntornWithoutFault == ASSUME SoleWriter PROVE Spec => []NoFaultNoTear
  <1>1. StoreInOrder => NoFaultNoTear
    BY DEF StoreInOrder, InOrder, Settled, NoFaultNoTear
  <1> QED
    BY <1>1, StoreStaysInOrder, PTL

-----------------------------------------------------------------------------
(* With one slot, an exit status can be believed.  Told(p), beside InOrder, *)
(* is the inductive invariant.                                             *)

LEMMA ArtifactFacts == CertFile \in Artifact /\ Feeds \in [Target -> Artifact]
  BY StoreAssumption, SysCertAssumption DEF CertFile, Artifact

\* A process state that says nothing of the targets.
Modest(r) ==
  \/ r.pc \in {"read", "confirm", "revoke", "obtain", "archive", "snapshot", "prune",
               "write"}
  \/ r.pc = "deliver" /\ r.idx = 1
  \/ r.pc = "wipe" /\ r.cmd = "destroy"
  \/ r.pc = "idle" /\ (r.exit # "ok" \/ r.cmd \notin Distributing)

LEMMA ModestTold ==
  ASSUME NEW p \in Procs, TypeOK, NEW r, Become(p, r), Modest(r),
         \A g \in revoked' : g <= issued',
         r.seen <= issued',
         r.pc \in {"archive", "snapshot", "prune", "write"} => r.mat \notin revoked',
         r.pc = "deliver" /\ r.cmd = "void" => \A a \in Artifact : files'[a] \notin revoked'
  PROVE  Told(p)'
  <1>1. proc'[p] = r
    BY BecomeValue
  <1>2. \A t \in Target : ~(t < 1)
    BY SysCertAssumption DEF Target
  <1>3. Answered(p)'
    BY <1>1, <1>2 DEF Answered, Modest
  <1>4. Unrevoked(p)'
    BY <1>1 DEF Unrevoked, Modest, Distributing
  <1> QED
    BY <1>3, <1>4 DEF Told

\* The command returns an error, or "ok" without having to distribute.
LEMMA ExitTold ==
  ASSUME NEW p \in Procs, TypeOK, Told(p), NEW code, Exit(p, code),
         code # "ok" \/ proc[p].cmd \notin Distributing,
         UNCHANGED caVars
  PROVE  Told(p)'
  <1> DEFINE r == [Resting EXCEPT !.cmd = proc[p].cmd, !.staging = proc[p].staging,
                                  !.exit = code]
  <1>1. r.pc = "idle" /\ r.exit = code /\ r.cmd = proc[p].cmd /\ r.seen = 0
    BY DEF Resting
  <1>2. Become(p, r)
    BY DEF Exit
  <1> HIDE DEF r
  <1>3. Modest(r)
    BY <1>1 DEF Modest
  <1>4. issued \in Nat
    BY DEF TypeOK
  <1> QED
    BY <1>1, <1>2, <1>3, <1>4, ModestTold DEF caVars, Told, Unrevoked

LEMMA InitTold ==
  ASSUME NEW p \in Procs, Init
  PROVE  Told(p)
  <1>1. issued \in Nat /\ revoked = {} /\ proc[p] = Resting
    BY DEF Init
  <1> QED
    BY <1>1 DEF Told, Answered, Unrevoked, Resting

LEMMA StartTold ==
  ASSUME NEW p \in Procs, TypeOK, Told(p), Start(p)
  PROVE  Told(p)'
  <1>1. PICK c \in May[p], s \in StagingFlags :
          Become(p, [Resting EXCEPT !.pc = Entry(c), !.cmd = c, !.staging = s])
    BY DEF Start
  <1> DEFINE r == [Resting EXCEPT !.pc = Entry(c), !.cmd = c, !.staging = s]
  <1>2. r.pc = Entry(c) /\ r.cmd = c /\ r.idx = 1 /\ r.seen = 0
    BY DEF Resting
  <1>3. c \in Commands
    BY SysCertAssumption
  <1>4. Entry(c) \in {"read", "obtain", "confirm", "deliver"}
    BY <1>3 DEF Entry, Commands
  <1>5. c = "void" => Entry(c) = "read"
    BY DEF Entry
  <1>6. UNCHANGED caVars /\ issued \in Nat
    BY DEF Start, TypeOK
  <1>7. Become(p, r)
    BY <1>1 DEF r
  <1> HIDE DEF r
  <1>8. Modest(r)
    BY <1>2, <1>4 DEF Modest
  <1> QED
    BY <1>2, <1>4, <1>5, <1>6, <1>7, <1>8, ModestTold DEF caVars, Told, Unrevoked

LEMMA DecideTold ==
  ASSUME NEW p \in Procs, TypeOK, InOrder(p), Told(p),
         EnsureDecides(p) \/ RenewDecides(p) \/ VoidReads(p) \/ Confirm(p) \/ ObtainFails(p)
  PROVE  Told(p)'
  <1>0. proc[p] \in ProcState /\ UNCHANGED caVars
    BY DEF TypeOK, EnsureDecides, RenewDecides, VoidReads, Confirm, ObtainFails
  <1>1. ASSUME NEW r, Become(p, r), Modest(r), r.seen <= issued,
               r.pc \notin {"archive", "snapshot", "prune", "write"},
               r.cmd # "void" \/ r.pc # "deliver"
        PROVE  Told(p)'
    BY <1>0, <1>1, ModestTold DEF caVars, Told, Unrevoked
  <1>2. proc[p].seen <= issued
    BY DEF Told, Unrevoked
  <1>3. ASSUME NEW l, Goto(p, l), l \in {"obtain", "revoke"}
        PROVE  Told(p)'
    <2> DEFINE r == [proc[p] EXCEPT !.pc = l]
    <2>1. r.pc = l /\ r.seen = proc[p].seen
      BY <1>0 DEF ProcState
    <2> HIDE DEF r
    <2>2. Modest(r)
      BY <1>3, <2>1 DEF Modest
    <2> QED
      BY <1>1, <1>2, <1>3, <2>1, <2>2 DEF Goto, r
  <1>4. ASSUME Loop(p, "deliver"), proc[p].cmd = "ensure"
        PROVE  Told(p)'
    <2> DEFINE r == [proc[p] EXCEPT !.pc = "deliver", !.idx = 1]
    <2>1. r.pc = "deliver" /\ r.idx = 1 /\ r.seen = proc[p].seen /\ r.cmd = "ensure"
      BY <1>0, <1>4 DEF ProcState
    <2>2. Become(p, r)
      BY <1>4 DEF Loop
    <2> HIDE DEF r
    <2>3. Modest(r)
      BY <2>1 DEF Modest
    <2> QED
      BY <1>1, <1>2, <2>1, <2>2, <2>3
  <1>5. ASSUME Loop(p, "wipe"), proc[p].cmd = "destroy"
        PROVE  Told(p)'
    <2> DEFINE r == [proc[p] EXCEPT !.pc = "wipe", !.idx = 1]
    <2>1. r.pc = "wipe" /\ r.seen = proc[p].seen /\ r.cmd = "destroy"
      BY <1>0, <1>5 DEF ProcState
    <2>2. Become(p, r)
      BY <1>5 DEF Loop
    <2> HIDE DEF r
    <2>3. Modest(r)
      BY <2>1 DEF Modest
    <2> QED
      BY <1>1, <1>2, <2>1, <2>2, <2>3
  <1>6. ASSUME NEW code, Exit(p, code), code # "ok" \/ proc[p].cmd \notin Distributing
        PROVE  Told(p)'
    BY <1>0, <1>6, ExitTold
  <1>7. CASE VoidReads(p)
    <2> DEFINE r == [proc[p] EXCEPT !.pc = "confirm", !.seen = files[CertFile]]
    <2>1. r.pc = "confirm" /\ r.seen = files[CertFile]
      BY <1>0 DEF ProcState
    <2>2. files[CertFile] <= issued
      BY ArtifactFacts DEF InOrder, NothingFromTheFuture
    <2> HIDE DEF r
    <2>3. Modest(r)
      BY <2>1 DEF Modest
    <2>4. Become(p, r) => Told(p)'
      BY <1>1, <2>1, <2>2, <2>3
    <2>5. Exit(p, "fail") \/ Become(p, r)
      BY <1>7 DEF VoidReads, r
    <2> QED
      BY <1>6, <2>4, <2>5
  <1>8. CASE EnsureDecides(p) \/ Confirm(p) \/ ObtainFails(p)
    <2>1. (Exit(p, "declined") => Told(p)') /\ (Exit(p, "fail") => Told(p)')
      BY <1>6
    <2>2. \/ Goto(p, "obtain")
          \/ proc[p].cmd = "ensure" /\ Loop(p, "deliver")
          \/ Exit(p, "declined") \/ Exit(p, "fail")
          \/ Goto(p, "revoke")
          \/ proc[p].cmd = "destroy" /\ Loop(p, "wipe")
      BY <1>8 DEF EnsureDecides, Confirm, ObtainFails
    <2>3. (Goto(p, "obtain") => Told(p)') /\ (Goto(p, "revoke") => Told(p)')
      BY <1>3
    <2> QED
      BY <1>4, <1>5, <2>1, <2>2, <2>3
  <1>9. CASE RenewDecides(p)
    <2>1. proc[p].cmd \notin Distributing
      BY <1>9 DEF RenewDecides, Distributing
    <2> QED
      BY <1>3, <1>6, <1>9, <2>1 DEF RenewDecides
  <1> QED
    BY <1>7, <1>8, <1>9

\* What is revoked was issued; what is obtained now was not there to revoke.
LEMMA IssueTold ==
  ASSUME NEW p \in Procs, TypeOK, InOrder(p), Told(p),
         Revoke(p) \/ RevokeFails(p) \/ Obtain(p)
  PROVE  Told(p)'
  <1>0. /\ proc[p] \in ProcState /\ issued \in Nat /\ revoked \in SUBSET Nat
        /\ proc[p].seen <= issued /\ \A g \in revoked : g <= issued
    BY DEF TypeOK, Told, Unrevoked
  <1>1. CASE Obtain(p)
    <2> DEFINE r == [proc[p] EXCEPT !.pc = "archive", !.mat = issued + 1]
    <2>1. /\ r.pc = "archive" /\ r.mat = issued + 1 /\ r.seen = proc[p].seen
          /\ proc[p].seen \in Nat
      BY <1>0 DEF ProcState
    <2>2. Become(p, r) /\ issued' = issued + 1 /\ revoked' = revoked
      BY <1>1 DEF Obtain
    <2> HIDE DEF r
    <2>3. issued + 1 \notin revoked /\ (\A g \in revoked : g <= issued + 1)
          /\ proc[p].seen <= issued + 1
      BY <1>0, <2>1
    <2>4. Modest(r)
      BY <2>1 DEF Modest
    <2> QED
      BY <2>1, <2>2, <2>3, <2>4, ModestTold
  <1>2. CASE Revoke(p) \/ RevokeFails(p)
    <2>1. PICK r : /\ Become(p, r) /\ r.pc = "obtain" /\ r.seen = proc[p].seen
      <3>1. LET x == [proc[p] EXCEPT !.pc = "obtain"]
            IN  x.pc = "obtain" /\ x.seen = proc[p].seen
        BY <1>0 DEF ProcState
      <3>2. LET x == [proc[p] EXCEPT !.pc = "obtain", !.warned = TRUE]
            IN  x.pc = "obtain" /\ x.seen = proc[p].seen
        BY <1>0 DEF ProcState
      <3> QED
        BY <1>2, <3>1, <3>2 DEF Revoke, RevokeFails, Goto
    <2>2. issued' = issued /\ (revoked' = revoked \/ revoked' = revoked \cup {proc[p].seen})
      BY <1>2 DEF Revoke, RevokeFails
    <2>3. Modest(r)
      BY <2>1 DEF Modest
    <2> QED
      BY <1>0, <2>1, <2>2, <2>3, ModestTold
  <1> QED
    BY <1>1, <1>2

LEMMA ArchiveTold ==
  ASSUME NEW p \in Procs, TypeOK, Told(p),
         BeginArchive(p) \/ ArchiveArtifact(p) \/ ListArchive(p) \/ PruneArchive(p)
           \/ ArchiveFails(p) \/ WriteArtifact(p) \/ WriteFails(p)
  PROVE  Told(p)'
  <1>0. /\ proc[p] \in ProcState /\ UNCHANGED caVars
        /\ proc[p].pc \in {"archive", "snapshot", "prune", "write"}
    BY DEF TypeOK, BeginArchive, ArchiveArtifact, ListArchive, PruneArchive, ArchiveFails,
           WriteArtifact, WriteFails, At
  <1>1. proc[p].seen <= issued /\ proc[p].mat \notin revoked
    BY <1>0 DEF Told, Unrevoked
  <1>2. CASE \E code : Exit(p, code) /\ code # "ok"
    BY <1>0, <1>2, ExitTold
  <1>3. ASSUME NEW r, Become(p, r), r.pc \in {"snapshot", "prune", "write"},
               r.seen = proc[p].seen, r.mat = proc[p].mat
        PROVE  Told(p)'
    <2>1. Modest(r)
      BY <1>3 DEF Modest
    <2> QED
      BY <1>0, <1>1, <1>3, <2>1, ModestTold DEF caVars, Told, Unrevoked
  <1>4. ASSUME NEW i, Become(p, [proc[p] EXCEPT !.idx = i]),
               proc[p].pc \in {"snapshot", "write"}
        PROVE  Told(p)'
    <2> DEFINE r == [proc[p] EXCEPT !.idx = i]
    <2>1. r.pc = proc[p].pc /\ r.seen = proc[p].seen /\ r.mat = proc[p].mat
      BY <1>0 DEF ProcState
    <2>2. Become(p, r)
      BY <1>4
    <2> HIDE DEF r
    <2> QED
      BY <1>3, <1>4, <2>1, <2>2
  <1>5. ASSUME Loop(p, "write")
        PROVE  Told(p)'
    <2> DEFINE r == [proc[p] EXCEPT !.pc = "write", !.idx = 1]
    <2>1. r.pc = "write" /\ r.seen = proc[p].seen /\ r.mat = proc[p].mat
      BY <1>0 DEF ProcState
    <2>2. Become(p, r)
      BY <1>5 DEF Loop
    <2> HIDE DEF r
    <2> QED
      BY <1>3, <2>1, <2>2
  <1>6. CASE ArchiveFails(p) \/ WriteFails(p)
    BY <1>2, <1>6 DEF ArchiveFails, WriteFails
  <1>7. CASE ArchiveArtifact(p) \/ WriteArtifact(p)
    BY <1>4, <1>7 DEF ArchiveArtifact, WriteArtifact, At
  <1>8. CASE BeginArchive(p)
    <2>1. ASSUME NEW s, Become(p, [proc[p] EXCEPT !.pc = "snapshot", !.idx = 1, !.dest = s])
          PROVE  Told(p)'
      <3> DEFINE r == [proc[p] EXCEPT !.pc = "snapshot", !.idx = 1, !.dest = s]
      <3>1. r.pc = "snapshot" /\ r.seen = proc[p].seen /\ r.mat = proc[p].mat
        BY <1>0 DEF ProcState
      <3>2. Become(p, r)
        BY <2>1
      <3> HIDE DEF r
      <3> QED
        BY <1>3, <3>1, <3>2
    <2> QED
      BY <1>5, <1>8, <2>1 DEF BeginArchive
  <1>9. CASE ListArchive(p)
    <2> DEFINE r == [proc[p] EXCEPT !.pc = "prune", !.victims = Excess]
    <2>1. r.pc = "prune" /\ r.seen = proc[p].seen /\ r.mat = proc[p].mat
      BY <1>0 DEF ProcState
    <2>2. Become(p, r)
      BY <1>9 DEF ListArchive
    <2> HIDE DEF r
    <2> QED
      BY <1>3, <2>1, <2>2
  <1>10. CASE PruneArchive(p)
    <2>1. ASSUME NEW S, Become(p, [proc[p] EXCEPT !.victims = S])
          PROVE  Told(p)'
      <3> DEFINE r == [proc[p] EXCEPT !.victims = S]
      <3>1. r.pc = "prune" /\ r.seen = proc[p].seen /\ r.mat = proc[p].mat
        BY <1>0, <1>10 DEF ProcState, PruneArchive, At
      <3>2. Become(p, r)
        BY <2>1
      <3> HIDE DEF r
      <3> QED
        BY <1>3, <3>1, <3>2
    <2> QED
      BY <1>5, <1>10, <2>1 DEF PruneArchive
  <1> QED
    BY <1>6, <1>7, <1>8, <1>9, <1>10

\* The set that void wrote is the one it obtained.
LEMMA FinishTold ==
  ASSUME NEW p \in Procs, TypeOK, InOrder(p), Told(p), FinishWrite(p)
  PROVE  Told(p)'
  <1>0. proc[p] \in ProcState /\ proc[p].pc = "write" /\ proc[p].idx \notin Artifact
    BY DEF TypeOK, FinishWrite, At
  <1>1. UNCHANGED <<files, caVars>>
    BY DEF FinishWrite, storeVars
  <1>2. CASE proc[p].cmd \notin Distributing
    BY <1>1, <1>2, ExitTold DEF FinishWrite
  <1>3. CASE proc[p].cmd \in Distributing
    <2> DEFINE r == [proc[p] EXCEPT !.pc = "deliver", !.idx = 1]
    <2>1. r.pc = "deliver" /\ r.idx = 1 /\ r.seen = proc[p].seen /\ proc[p].idx \in Nat
      BY <1>0 DEF ProcState
    <2>2. Become(p, r)
      BY <1>3 DEF FinishWrite, Loop
    <2> HIDE DEF r
    <2>3. \A a \in Artifact : a < proc[p].idx
      BY <1>0, <2>1, StoreAssumption DEF Artifact, InOrder, Local
    <2>4. \A a \in Artifact : files[a] \notin revoked
      BY <1>0, <2>3 DEF InOrder, Local, Told, Unrevoked
    <2>5. Modest(r)
      BY <2>1 DEF Modest
    <2> QED
      BY <1>1, <2>1, <2>2, <2>4, <2>5, ModestTold DEF caVars, Told, Unrevoked
  <1> QED
    BY <1>2, <1>3

LEMMA ReadTold ==
  ASSUME NEW p \in Procs, TypeOK, Told(p), ReadForTarget(p)
  PROVE  Told(p)'
  <1>0. /\ proc[p] \in ProcState /\ proc[p].pc = "deliver" /\ proc[p].idx \in Target
        /\ UNCHANGED <<files, target, caVars>>
    BY DEF TypeOK, ReadForTarget, At, storeVars
  <1>1. Answered(p) /\ Unrevoked(p)
    BY DEF Told
  <1>2. CASE Become(p, [proc[p] EXCEPT !.idx = proc[p].idx + 1, !.failed = TRUE])
    <2> DEFINE r == [proc[p] EXCEPT !.idx = proc[p].idx + 1, !.failed = TRUE]
    <2>1. /\ r.pc = "deliver" /\ r.idx = proc[p].idx + 1 /\ r.failed /\ r.cmd = proc[p].cmd
          /\ r.seen = proc[p].seen /\ proc[p].idx \in Nat
      BY <1>0 DEF ProcState
    <2> HIDE DEF r
    <2>2. proc'[p] = r
      BY <1>2, BecomeValue DEF r
    <2>3. Answered(p)'
      BY <2>1, <2>2 DEF Answered
    <2>4. Unrevoked(p)'
      BY <1>0, <1>1, <2>1, <2>2 DEF Unrevoked, caVars
    <2> QED
      BY <2>3, <2>4 DEF Told
  <1>3. CASE Become(p, [proc[p] EXCEPT !.pc = "place", !.data = Source(proc[p].idx)])
    <2> DEFINE r == [proc[p] EXCEPT !.pc = "place", !.data = Source(proc[p].idx)]
    <2>1. /\ r.pc = "place" /\ r.idx = proc[p].idx /\ r.failed = proc[p].failed
          /\ r.cmd = proc[p].cmd /\ r.seen = proc[p].seen
          /\ r.data = files[Feeds[proc[p].idx]]
      BY <1>0 DEF ProcState, Source
    <2> HIDE DEF r
    <2>2. proc'[p] = r
      BY <1>3, BecomeValue DEF r
    <2>3. Answered(p)'
      BY <1>0, <1>1, <2>1, <2>2 DEF Answered
    <2>4. Unrevoked(p)'
      BY <1>0, <1>1, <2>1, <2>2 DEF Unrevoked, caVars
    <2> QED
      BY <2>3, <2>4 DEF Told
  <1> QED
    BY <1>2, <1>3 DEF ReadForTarget

\* One more target is current, or the run is marked as failed.
LEMMA PlaceTold ==
  ASSUME NEW p \in Procs, TypeOK, Told(p), PlaceTarget(p) \/ PlaceFails(p)
  PROVE  Told(p)'
  <1>0. /\ proc[p] \in ProcState /\ proc[p].pc = "place" /\ proc[p].idx \in Nat
        /\ UNCHANGED <<files, caVars>>
    BY DEF TypeOK, ProcState, PlaceTarget, PlaceFails, At, storeVars
  <1>1. Answered(p) /\ Unrevoked(p)
    BY DEF Told
  <1>2. PICK r : /\ Become(p, r) /\ r.pc = "deliver" /\ r.idx = proc[p].idx + 1
                 /\ r.cmd = proc[p].cmd /\ r.seen = proc[p].seen
                 /\ \/ r.failed
                    \/ /\ r.failed = proc[p].failed
                       /\ target' = [target EXCEPT ![proc[p].idx] = proc[p].data]
    <2>1. CASE PlaceTarget(p)
      <3> DEFINE r == [proc[p] EXCEPT !.pc = "deliver", !.idx = proc[p].idx + 1, !.data = 0]
      <3>1. /\ r.pc = "deliver" /\ r.idx = proc[p].idx + 1 /\ r.failed = proc[p].failed
            /\ r.cmd = proc[p].cmd /\ r.seen = proc[p].seen
        BY <1>0 DEF ProcState
      <3>2. Become(p, r) /\ target' = [target EXCEPT ![proc[p].idx] = proc[p].data]
        BY <2>1 DEF PlaceTarget
      <3> HIDE DEF r
      <3> QED
        BY <3>1, <3>2
    <2>2. CASE PlaceFails(p)
      <3> DEFINE r == [proc[p] EXCEPT !.pc = "deliver", !.idx = proc[p].idx + 1, !.data = 0,
                                      !.failed = TRUE]
      <3>1. /\ r.pc = "deliver" /\ r.idx = proc[p].idx + 1 /\ r.failed
            /\ r.cmd = proc[p].cmd /\ r.seen = proc[p].seen
        BY <1>0 DEF ProcState
      <3>2. Become(p, r)
        BY <2>2 DEF PlaceFails
      <3> HIDE DEF r
      <3> QED
        BY <3>1, <3>2
    <2> QED
      BY <2>1, <2>2
  <1>3. proc'[p] = r
    BY <1>2, BecomeValue
  <1>4. Answered(p)'
    <2>1. r.idx > 0
      BY <1>0, <1>2
    <2>2. ASSUME ~r.failed, NEW t \in Target, t < r.idx
          PROVE  target'[t] = files'[Feeds[t]]
      <3>1. /\ target' = [target EXCEPT ![proc[p].idx] = proc[p].data]
            /\ r.failed = proc[p].failed
        BY <1>2, <2>2
      <3>2. target'[t] = IF t = proc[p].idx THEN proc[p].data ELSE target[t]
        BY <3>1 DEF TypeOK
      <3>3. t \in Nat /\ (t < proc[p].idx \/ t = proc[p].idx)
        BY <1>0, <1>2, <2>2, SysCertAssumption DEF Target
      <3>4. ~proc[p].failed
        BY <2>2, <3>1
      <3> QED
        BY <1>0, <1>1, <3>2, <3>3, <3>4 DEF Answered
    <2> QED
      BY <1>2, <1>3, <2>1, <2>2 DEF Answered
  <1>5. Unrevoked(p)'
    BY <1>0, <1>1, <1>2, <1>3 DEF Unrevoked, caVars
  <1> QED
    BY <1>4, <1>5 DEF Told

\* All targets were passed, and none failed if the command says so.
LEMMA ReturnTold ==
  ASSUME NEW p \in Procs, TypeOK, Told(p), FinishDelivery(p)
  PROVE  Told(p)'
  <1>0. /\ proc[p] \in ProcState /\ proc[p].pc = "deliver" /\ proc[p].idx \notin Target
        /\ UNCHANGED <<files, target, caVars>>
    BY DEF TypeOK, FinishDelivery, At, storeVars
  <1>1. Answered(p) /\ Unrevoked(p)
    BY DEF Told
  <1> DEFINE code == IF proc[p].failed \/ proc[p].warned THEN "fail" ELSE "ok"
             r == [Resting EXCEPT !.cmd = proc[p].cmd, !.staging = proc[p].staging,
                                  !.exit = code]
  <1>2. Become(p, r)
    BY DEF FinishDelivery, Exit
  <1>3. CASE proc[p].failed
    <2>1. Exit(p, "fail")
      BY <1>3 DEF FinishDelivery
    <2> QED
      BY <1>0, <2>1, ExitTold
  <1>4. CASE ~proc[p].failed
    <2>1. r.pc = "idle" /\ r.exit = code /\ r.cmd = proc[p].cmd /\ r.seen = 0
      BY DEF Resting
    <2> HIDE DEF r
    <2>2. proc'[p] = r
      BY <1>2, BecomeValue
    <2>3. proc[p].idx \in Nat /\ \A t \in Target : t < proc[p].idx
      BY <1>0, <1>1, SysCertAssumption DEF Answered, ProcState, Target
    <2>4. Current
      BY <1>0, <1>1, <1>4, <2>3 DEF Answered, Current
    <2>5. Answered(p)'
      BY <1>0, <2>1, <2>2, <2>4 DEF Answered, Current
    <2>6. issued \in Nat
      BY DEF TypeOK
    <2>7. Unrevoked(p)'
      BY <1>0, <1>1, <2>1, <2>2, <2>6 DEF Unrevoked, caVars
    <2> QED
      BY <2>5, <2>7 DEF Told
  <1> QED
    BY <1>3, <1>4

\* destroy says nothing of the targets.
LEMMA WipeTold ==
  ASSUME NEW p \in Procs, TypeOK, Told(p), WipeArtifact(p) \/ WipeArchive(p) \/ WipeFails(p)
  PROVE  Told(p)'
  <1>0. /\ proc[p] \in ProcState /\ proc[p].pc = "wipe" /\ UNCHANGED caVars
    BY DEF TypeOK, WipeArtifact, WipeArchive, WipeFails, At
  <1>1. proc[p].cmd = "destroy" /\ proc[p].cmd \notin Distributing /\ proc[p].seen <= issued
    BY <1>0 DEF Told, Answered, Unrevoked, Distributing
  <1>2. ASSUME NEW code, Exit(p, code) PROVE Told(p)'
    BY <1>0, <1>1, <1>2, ExitTold
  <1>3. ASSUME NEW r, Become(p, r), r.pc = "wipe", r.cmd = "destroy", r.seen = proc[p].seen
        PROVE  Told(p)'
    <2>1. Modest(r)
      BY <1>3 DEF Modest
    <2> QED
      BY <1>0, <1>1, <1>3, <2>1, ModestTold DEF caVars, Told, Unrevoked
  <1>4. CASE WipeArtifact(p)
    <2> DEFINE r == [proc[p] EXCEPT !.idx = proc[p].idx + 1]
    <2>1. r.pc = "wipe" /\ r.cmd = proc[p].cmd /\ r.seen = proc[p].seen
      BY <1>0 DEF ProcState
    <2>2. Become(p, r)
      BY <1>4 DEF WipeArtifact
    <2> HIDE DEF r
    <2> QED
      BY <1>1, <1>3, <2>1, <2>2
  <1>5. CASE WipeArchive(p)
    <2>1. CASE UNCHANGED proc
      <3>1. Become(p, proc[p])
        BY <2>1 DEF Become, TypeOK
      <3> QED
        BY <1>0, <1>1, <1>3, <3>1
    <2> QED
      BY <1>2, <1>5, <2>1 DEF WipeArchive
  <1>6. CASE WipeFails(p)
    BY <1>2, <1>6 DEF WipeFails
  <1> QED
    BY <1>4, <1>5, <1>6

LEMMA CrashTold ==
  ASSUME NEW p \in Procs, TypeOK, Told(p), Crash(p)
  PROVE  Told(p)'
  <1>1. Resting.pc = "idle" /\ Resting.exit = "none" /\ Resting.seen = 0
    BY DEF Resting
  <1>2. UNCHANGED caVars /\ Become(p, Resting) /\ issued \in Nat
    BY DEF Crash, TypeOK
  <1>3. Modest(Resting)
    BY <1>1 DEF Modest
  <1> QED
    BY <1>1, <1>2, <1>3, ModestTold DEF caVars, Told, Unrevoked

LEMMA NextTold ==
  ASSUME OneSlot, NEW p \in Procs
  PROVE  TypeOK /\ InOrder(p) /\ Told(p) /\ [Next]_vars => Told(p)'
  <1> SUFFICES ASSUME TypeOK, InOrder(p), Told(p), [Next]_vars PROVE Told(p)'
    OBVIOUS
  <1>1. ASSUME NEW q \in Procs, Step(q) PROVE Told(p)'
    <2>1. q = p
      BY DEF OneSlot
    <2> QED
      BY <1>1, <2>1, DecideTold, IssueTold, ArchiveTold, FinishTold, ReadTold, PlaceTold,
         ReturnTold, WipeTold DEF Step
  <1>2. ASSUME NEW q \in Procs, Start(q) \/ Crash(q) PROVE Told(p)'
    <2>1. q = p
      BY DEF OneSlot
    <2> QED
      BY <1>2, <2>1, StartTold, CrashTold
  <1>3. CASE BecomesDue \/ UNCHANGED vars
    BY <1>3 DEF BecomesDue, vars, storeVars, caVars, Told, Answered, Unrevoked, Current
  <1> QED
    BY <1>1, <1>2, <1>3 DEF Next

\* With one slot an "ok" is earned: the inductive invariant of what ensure and
\* void report.
THEOREM ExitsAreTold ==
  ASSUME OneSlot, NEW p \in Procs
  PROVE  Spec => []Told(p)
  <1>1. OthersDistribute(p)
    BY DEF OneSlot, OthersDistribute
  <1>2. Init => Told(p)
    BY InitTold
  <1>3. TypeOK /\ InOrder(p) /\ Told(p) /\ [Next]_vars => Told(p)'
    BY NextTold
  <1>4. Init => InOrder(p)
    BY InitInOrder
  <1>5. TypeOK /\ InOrder(p) /\ [Next]_vars => InOrder(p)'
    BY <1>1, NextInOrder
  <1> QED
    BY <1>2, <1>3, <1>4, <1>5, TypeCorrect, PTL DEF Spec

\* When ensure exits 0, every target holds the stored file.
THEOREM EnsureDelivers == ASSUME OneSlot PROVE Spec => []EnsureOkDelivered
  <1>1. CASE Procs = {}
    <2>1. EnsureOkDelivered
      BY <1>1 DEF EnsureOkDelivered
    <2> QED
      BY <2>1, PTL
  <1>2. ASSUME NEW p \in Procs PROVE Spec => []EnsureOkDelivered
    <2>1. Told(p) => EnsureOkDelivered
      BY OneSlot DEF OneSlot, Told, Answered, EnsureOkDelivered, Returned, At, Current,
                     Distributing
    <2> QED
      BY <2>1, ExitsAreTold, PTL
  <1> QED
    BY <1>1, <1>2

\* When void exits 0, nothing revoked is left in the store or at a target.
THEOREM VoidReplaces == ASSUME OneSlot PROVE Spec => []VoidOkLeavesNoRevoked
  <1>1. CASE Procs = {}
    <2>1. VoidOkLeavesNoRevoked
      BY <1>1 DEF VoidOkLeavesNoRevoked
    <2> QED
      BY <2>1, PTL
  <1>2. ASSUME NEW p \in Procs PROVE Spec => []VoidOkLeavesNoRevoked
    <2>1. Told(p) => VoidOkLeavesNoRevoked
      BY OneSlot, ArtifactFacts
      DEF OneSlot, Told, Answered, Unrevoked, VoidOkLeavesNoRevoked, Returned, At, Current,
          Distributing
    <2> QED
      BY <2>1, ExitsAreTold, PTL
  <1> QED
    BY <1>1, <1>2

-----------------------------------------------------------------------------
(* Of a list of numbers.                                                   *)

\* A set of numbers that is not empty has a least one.
LEMMA LeastNumber ==
  ASSUME NEW T \in SUBSET Nat, T # {}
  PROVE  \E m \in T : \A s \in T : m <= s
  <1>1. IsWellFoundedOn(OpToRel(<, Nat), Nat)
    BY NatLessThanWellFounded
  <1>2. PICK m \in T : \A s \in T : ~(<<s, m>> \in OpToRel(<, Nat))
    BY <1>1, WFMin, Zenon
  <1>3. \A s \in T : ~(s < m)
    BY <1>2 DEF OpToRel
  <1> QED
    BY <1>3

\* At most K numbers of a finite set have fewer than K later ones.
LEMMA KeptFew ==
  ASSUME NEW D \in SUBSET Nat, IsFiniteSet(D), NEW K \in Nat
  PROVE  Cardinality({s \in D : Cardinality({x \in D : x > s}) < K}) <= K
  <1> DEFINE T == {s \in D : Cardinality({x \in D : x > s}) < K}
  <1>1. IsFiniteSet(T) /\ Cardinality(T) \in Nat
    BY FS_Subset, FS_CardinalityType
  <1>2. CASE T = {}
    <2>1. Cardinality(T) = 0
      BY <1>2, FS_EmptySet
    <2> HIDE DEF T
    <2>2. Cardinality(T) <= K
      BY <2>1
    <2> QED
      BY <2>2 DEF T
  <1>3. CASE T # {}
    <2>1. PICK m \in T : \A s \in T : m <= s
      BY <1>3, LeastNumber
    <2> DEFINE L == {x \in D : x > m}
    <2>2. IsFiniteSet(L) /\ Cardinality(L) \in Nat /\ Cardinality(L) < K
      BY <2>1, FS_Subset, FS_CardinalityType
    <2>3. T \ {m} \subseteq L
      <3> SUFFICES ASSUME NEW s \in T, s # m PROVE s \in L
        OBVIOUS
      <3>1. s \in D /\ s \in Nat /\ m \in Nat /\ m <= s
        BY <2>1
      <3>2. s > m
        BY <3>1
      <3> QED
        BY <3>1, <3>2
    <2>4. Cardinality(T \ {m}) <= Cardinality(L)
      BY <2>2, <2>3, FS_Subset
    <2>5. Cardinality(T \ {m}) = Cardinality(T) - 1
      BY <1>1, <2>1, FS_RemoveElement
    <2> QED
      BY <1>1, <2>2, <2>4, <2>5
  <1> QED
    BY <1>2, <1>3

-----------------------------------------------------------------------------
(* With one writing slot a complete set survives.  Backed(w), beside       *)
(* InOrder, is the inductive invariant of the snapshot.                    *)

LEMMA FiniteArchive ==
  ASSUME TypeOK, \A s \in DOMAIN snaps : s <= now
  PROVE  IsFiniteSet(DOMAIN snaps) /\ DOMAIN snaps \in SUBSET Nat
  BY FS_BoundedSetOfNaturals DEF TypeOK, StoreTypeOK

\* What a step that leaves the store and the history alone makes of its process.
Aside(p, r) ==
  /\ Become(p, r)
  /\ \/ r.pc \in {"idle", "deliver", "place"}
     \/ r.pc = "wipe" /\ r.idx = 1
     \/ r.pc \in Early /\ r.dest = 0

LEMMA ExitAside ==
  ASSUME NEW p, NEW code, Exit(p, code)
  PROVE  \E r : Aside(p, r)
  <1> DEFINE r == [Resting EXCEPT !.cmd = proc[p].cmd, !.staging = proc[p].staging,
                                  !.exit = code]
  <1>1. r.pc = "idle"
    BY ExitPc
  <1>2. Become(p, r)
    BY DEF Exit
  <1> HIDE DEF r
  <1> QED
    BY <1>1, <1>2 DEF Aside

LEMMA DecideAside ==
  ASSUME TypeOK, NEW p \in Procs, proc[p].pc \in Early => proc[p].dest = 0,
         EnsureDecides(p) \/ RenewDecides(p) \/ VoidReads(p) \/ Confirm(p)
           \/ Revoke(p) \/ RevokeFails(p) \/ Obtain(p) \/ ObtainFails(p)
  PROVE  /\ UNCHANGED <<files, snaps, now, held, faults>>
         /\ proc[p].pc \in Early
         /\ \E r : Aside(p, r)
  <1>0. proc[p] \in ProcState
    BY DEF TypeOK
  <1>1. /\ UNCHANGED <<files, snaps, now, held, faults>>
        /\ proc[p].pc \in {"read", "confirm", "revoke", "obtain"}
    BY DEF EnsureDecides, RenewDecides, VoidReads, Confirm, Revoke, RevokeFails, Obtain,
           ObtainFails, At, storeVars
  <1>2. proc[p].pc \in Early /\ proc[p].dest = 0
    BY <1>1 DEF Early
  <1>3. ASSUME NEW r, Become(p, r), r.pc \in Early, r.dest = 0
        PROVE  \E x : Aside(p, x)
    BY <1>3 DEF Aside
  <1>4. ASSUME NEW l, Goto(p, l), l \in Early
        PROVE  \E x : Aside(p, x)
    <2> DEFINE r == [proc[p] EXCEPT !.pc = l]
    <2>1. r.pc = l /\ r.dest = 0
      BY <1>0, <1>2 DEF ProcState
    <2>2. Become(p, r)
      BY <1>4 DEF Goto
    <2> HIDE DEF r
    <2> QED
      BY <1>3, <1>4, <2>1, <2>2
  <1>5. ASSUME NEW l, Loop(p, l), l \in {"deliver", "wipe"}
        PROVE  \E x : Aside(p, x)
    <2> DEFINE r == [proc[p] EXCEPT !.pc = l, !.idx = 1]
    <2>1. r.pc = l /\ r.idx = 1
      BY <1>0 DEF ProcState
    <2>2. Become(p, r)
      BY <1>5 DEF Loop
    <2> HIDE DEF r
    <2> QED
      BY <1>5, <2>1, <2>2 DEF Aside
  <1>6. \E x : Aside(p, x)
    <2>1. CASE \E code : Exit(p, code)
      BY <2>1, ExitAside
    <2>2. CASE VoidReads(p)
      <3> DEFINE r == [proc[p] EXCEPT !.pc = "confirm", !.seen = files[CertFile]]
      <3>1. r.pc \in Early /\ r.dest = 0
        BY <1>0, <1>2 DEF ProcState, Early
      <3>2. (\E code : Exit(p, code)) \/ Become(p, r)
        BY <2>2 DEF VoidReads
      <3> HIDE DEF r
      <3> QED
        BY <1>3, <2>1, <3>1, <3>2
    <2>3. CASE RevokeFails(p)
      <3> DEFINE r == [proc[p] EXCEPT !.pc = "obtain", !.warned = TRUE]
      <3>1. r.pc \in Early /\ r.dest = 0
        BY <1>0, <1>2 DEF ProcState, Early
      <3>2. Become(p, r)
        BY <2>3 DEF RevokeFails
      <3> HIDE DEF r
      <3> QED
        BY <1>3, <3>1, <3>2
    <2>4. CASE Obtain(p)
      <3> DEFINE r == [proc[p] EXCEPT !.pc = "archive", !.mat = issued + 1]
      <3>1. r.pc \in Early /\ r.dest = 0
        BY <1>0, <1>2 DEF ProcState, Early
      <3>2. Become(p, r)
        BY <2>4 DEF Obtain
      <3> HIDE DEF r
      <3> QED
        BY <1>3, <3>1, <3>2
    <2>5. CASE EnsureDecides(p) \/ RenewDecides(p) \/ Confirm(p) \/ Revoke(p) \/ ObtainFails(p)
      <3>1. \/ \E code : Exit(p, code)
            \/ Goto(p, "obtain") \/ Goto(p, "revoke")
            \/ Loop(p, "deliver") \/ Loop(p, "wipe")
        BY <2>5 DEF EnsureDecides, RenewDecides, Confirm, Revoke, ObtainFails
      <3>2. "obtain" \in Early /\ "revoke" \in Early
        BY DEF Early
      <3> QED
        BY <1>4, <1>5, <2>1, <3>1, <3>2
    <2> QED
      BY <2>2, <2>3, <2>4, <2>5
  <1> QED
    BY <1>1, <1>2, <1>6

\* The steps that deliver, and those that end a command by a fault.
LEMMA RestAside ==
  ASSUME TypeOK, NEW p \in Procs,
         Start(p) \/ WriteFails(p) \/ WipeFails(p) \/ Crash(p)
           \/ ReadForTarget(p) \/ PlaceTarget(p) \/ PlaceFails(p) \/ FinishDelivery(p)
  PROVE  /\ UNCHANGED <<files, snaps, now, held>>
         /\ \/ faults' = faults + 1
            \/ faults' = faults /\ proc[p].pc \in {"idle", "deliver", "place"}
         /\ \E r : Aside(p, r)
  <1>0. proc[p] \in ProcState
    BY DEF TypeOK
  <1>1. /\ UNCHANGED <<files, snaps, now, held>>
        /\ \/ faults' = faults + 1
           \/ faults' = faults /\ proc[p].pc \in {"idle", "deliver", "place"}
    BY DEF Start, WriteFails, WipeFails, Crash, ReadForTarget, PlaceTarget, PlaceFails,
           FinishDelivery, Fault, At, storeVars
  <1>2. CASE WriteFails(p) \/ WipeFails(p) \/ FinishDelivery(p)
    BY <1>1, <1>2, ExitAside DEF WriteFails, WipeFails, FinishDelivery
  <1>3. CASE Start(p)
    <2>1. PICK c \in May[p], s \in StagingFlags :
            Become(p, [Resting EXCEPT !.pc = Entry(c), !.cmd = c, !.staging = s])
      BY <1>3 DEF Start
    <2> DEFINE r == [Resting EXCEPT !.pc = Entry(c), !.cmd = c, !.staging = s]
    <2>2. r.pc = Entry(c) /\ r.dest = 0
      BY DEF Resting
    <2>3. c \in Commands
      BY SysCertAssumption
    <2>4. Entry(c) \in {"read", "obtain", "confirm", "deliver"}
      BY <2>3 DEF Entry, Commands
    <2>5. Become(p, r)
      BY <2>1
    <2> HIDE DEF r
    <2>6. Aside(p, r)
      BY <2>2, <2>4, <2>5 DEF Aside, Early
    <2> QED
      BY <1>1, <2>6
  <1>4. CASE Crash(p)
    <2>1. Resting.pc = "idle" /\ Become(p, Resting)
      BY <1>4 DEF Resting, Crash
    <2> QED
      BY <1>1, <2>1 DEF Aside
  <1>5. ASSUME NEW r, Become(p, r), r.pc \in {"deliver", "place"}
        PROVE  \E x : Aside(p, x)
    BY <1>5 DEF Aside
  <1>6. CASE ReadForTarget(p)
    <2> DEFINE r == [proc[p] EXCEPT !.idx = proc[p].idx + 1, !.failed = TRUE]
               x == [proc[p] EXCEPT !.pc = "place", !.data = Source(proc[p].idx)]
    <2>1. r.pc = "deliver" /\ x.pc = "place"
      BY <1>0, <1>6 DEF ProcState, ReadForTarget, At
    <2>2. Become(p, r) \/ Become(p, x)
      BY <1>6 DEF ReadForTarget
    <2> HIDE DEF r, x
    <2> QED
      BY <1>1, <1>5, <2>1, <2>2
  <1>7. CASE PlaceTarget(p) \/ PlaceFails(p)
    <2> DEFINE r == [proc[p] EXCEPT !.pc = "deliver", !.idx = proc[p].idx + 1, !.data = 0]
               x == [proc[p] EXCEPT !.pc = "deliver", !.idx = proc[p].idx + 1, !.data = 0,
                                    !.failed = TRUE]
    <2>1. r.pc = "deliver" /\ x.pc = "deliver"
      BY <1>0 DEF ProcState
    <2>2. Become(p, r) \/ Become(p, x)
      BY <1>7 DEF PlaceTarget, PlaceFails
    <2> HIDE DEF r, x
    <2> QED
      BY <1>1, <1>5, <2>1, <2>2
  <1> QED
    BY <1>2, <1>3, <1>4, <1>6, <1>7

\* ... and nothing is lost by them.
LEMMA AsideBacked ==
  ASSUME TypeOK, NEW w \in Procs, Backed(w), NEW p \in Procs, NEW r, Aside(p, r),
         UNCHANGED <<files, snaps, now>>
  PROVE  Backed(w)'
  <1>1. proc'[p] = r /\ \A q \in Procs \ {p} : proc'[q] = proc[q]
    BY BecomeValue DEF Aside
  <1>2. CASE p = w
    BY <1>1, <1>2 DEF Backed, Aside, Early
  <1>3. CASE p # w
    BY <1>1, <1>3 DEF Backed, Copied
  <1> QED
    BY <1>2, <1>3

LEMMA InitBacked ==
  ASSUME NEW w \in Procs, Init
  PROVE  Backed(w)
  <1>1. DOMAIN snaps = {} /\ proc[w].pc = "idle"
    BY DEF Init, StoreInit, Resting
  <1> QED
    BY <1>1 DEF Backed, Early

\* A new snapshot has the newest name and holds nothing yet.
LEMMA OpenBacked ==
  ASSUME TypeOK, NEW w \in Procs, Backed(w), BeginArchive(w)
  PROVE  Backed(w)'
  <1>0. /\ proc[w] \in ProcState /\ proc[w].pc = "archive" /\ proc[w].dest = 0
        /\ now \in Nat /\ Keep \in Nat /\ DOMAIN snaps \in SUBSET Nat
        /\ \A s \in DOMAIN snaps : s <= now
    BY StoreAssumption DEF TypeOK, StoreTypeOK, BeginArchive, At, Backed, Early
  <1>1. CASE Loop(w, "write") /\ UNCHANGED storeVars
    <2> DEFINE r == [proc[w] EXCEPT !.pc = "write", !.idx = 1]
    <2>1. r.pc = "write" /\ r.dest = 0
      BY <1>0 DEF ProcState
    <2>2. Become(w, r)
      BY <1>1 DEF Loop
    <2> HIDE DEF r
    <2>3. proc'[w] = r
      BY <2>2, BecomeValue
    <2> QED
      BY <1>0, <1>1, <2>1, <2>3 DEF Backed, Early, storeVars
  <1>2. ASSUME NEW s \in {now + d : d \in ClockSteps}, OpenSnapshot(s),
               Become(w, [proc[w] EXCEPT !.pc = "snapshot", !.idx = 1, !.dest = s]),
               ~(Keep = 0 \/ files[CertFile] = Absent)
        PROVE  Backed(w)'
    <2> DEFINE r == [proc[w] EXCEPT !.pc = "snapshot", !.idx = 1, !.dest = s]
    <2>1. r.pc = "snapshot" /\ r.idx = 1 /\ r.dest = s
      BY <1>0 DEF ProcState
    <2>2. Become(w, r)
      BY <1>2
    <2> HIDE DEF r
    <2>3. proc'[w] = r
      BY <2>2, BecomeValue
    <2>4. s \in Nat /\ now <= s
      BY <1>0, StoreAssumption
    <2>5. now' = s /\ files' = files /\ DOMAIN snaps' = DOMAIN snaps \cup {s}
      BY <1>2 DEF OpenSnapshot
    <2>6. \A x \in DOMAIN snaps' : x <= now'
      BY <1>0, <2>4, <2>5
    <2>7. \A a \in Artifact : ~(a < 1)
      BY DEF Artifact
    <2> QED
      BY <1>0, <1>2, <2>1, <2>3, <2>5, <2>6, <2>7 DEF Backed, Early
  <1> QED
    BY <1>1, <1>2 DEF BeginArchive

\* Each round copies one more file.
LEMMA CopyBacked ==
  ASSUME TypeOK, NEW w \in Procs, Backed(w), ArchiveArtifact(w)
  PROVE  Backed(w)'
  <1>0. /\ proc[w] \in ProcState /\ proc[w].pc = "snapshot" /\ proc[w].idx \in Artifact
        /\ proc[w].idx \in Nat
    BY DEF TypeOK, ProcState, ArchiveArtifact, At
  <1>1. /\ Keep > 0 /\ files[CertFile] # Absent /\ proc[w].dest = now
        /\ proc[w].dest \in DOMAIN snaps /\ \A s \in DOMAIN snaps : s <= now
        /\ \A a \in Artifact : a < proc[w].idx => Copied(proc[w], a)
    BY <1>0 DEF Backed
  <1> DEFINE d == proc[w].dest
             i == proc[w].idx
             r == [proc[w] EXCEPT !.idx = i + 1]
  <1>2. r.pc = "snapshot" /\ r.idx = i + 1 /\ r.dest = d
    BY <1>0 DEF ProcState
  <1>3. proc'[w] = r
    BY BecomeValue DEF ArchiveArtifact
  <1>4. files' = files /\ now' = now /\ CopyToSnapshot(d, i)
    BY DEF ArchiveArtifact, CopyToSnapshot
  <1>5. DOMAIN snaps' = DOMAIN snaps
    BY <1>4 DEF CopyToSnapshot
  <1>6. \A a \in Artifact : a < i + 1 => (files[a] # Absent => snaps'[d][a] = files[a])
    <2> SUFFICES ASSUME NEW a \in Artifact, a < i + 1, files[a] # Absent
                 PROVE  snaps'[d][a] = files[a]
      OBVIOUS
    <2>1. a = i \/ a < i
      BY <1>0 DEF Artifact
    <2>2. snaps[d] \in [Artifact -> Nat]
      BY <1>1 DEF TypeOK, StoreTypeOK
    <2>3. a < i => snaps[d][a] = files[a]
      BY <1>1 DEF Copied
    <2>4. CASE files[i] = Absent /\ UNCHANGED snaps
      BY <2>1, <2>3, <2>4
    <2>5. CASE snaps' = [snaps EXCEPT ![d] = [@ EXCEPT ![i] = files[i]]]
      <3>1. snaps'[d] = [snaps[d] EXCEPT ![i] = files[i]]
        BY <1>1, <2>5
      <3>2. snaps'[d][a] = IF a = i THEN files[i] ELSE snaps[d][a]
        BY <2>2, <3>1
      <3> QED
        BY <2>1, <2>3, <3>2
    <2> QED
      BY <1>4, <2>4, <2>5 DEF CopyToSnapshot
  <1> HIDE DEF r
  <1> QED
    BY <1>0, <1>1, <1>2, <1>3, <1>4, <1>5, <1>6 DEF Backed, Copied, Early

\* The list leaves the Keep newest names, the new one among them.
LEMMA ListBacked ==
  ASSUME TypeOK, NEW w \in Procs, InOrder(w), Backed(w), ListArchive(w)
  PROVE  Backed(w)'
  <1>0. /\ proc[w] \in ProcState /\ proc[w].pc = "snapshot" /\ proc[w].idx \notin Artifact
        /\ UNCHANGED <<files, snaps, now>> /\ Keep \in Nat /\ now \in Nat
    BY StoreAssumption DEF TypeOK, StoreTypeOK, ListArchive, At, storeVars
  <1>1. /\ Keep > 0 /\ files[CertFile] # Absent /\ proc[w].dest = now
        /\ proc[w].dest \in DOMAIN snaps /\ \A s \in DOMAIN snaps : s <= now
        /\ proc[w].idx > 0 /\ \A a \in Artifact : a < proc[w].idx => Copied(proc[w], a)
    BY <1>0 DEF Backed
  <1> DEFINE r == [proc[w] EXCEPT !.pc = "prune", !.victims = Excess]
  <1>2. r.pc = "prune" /\ r.dest = proc[w].dest /\ r.victims = Excess
    BY <1>0 DEF ProcState
  <1>3. proc'[w] = r
    BY BecomeValue DEF ListArchive
  <1>4. IsFiniteSet(DOMAIN snaps) /\ DOMAIN snaps \in SUBSET Nat
    BY <1>1, FiniteArchive
  <1>5. proc[w].dest \notin Excess
    <2>1. {x \in DOMAIN snaps : x > proc[w].dest} = {}
      BY <1>0, <1>1, <1>4
    <2>2. Cardinality({x \in DOMAIN snaps : x > proc[w].dest}) = 0
      BY <2>1, FS_EmptySet
    <2> QED
      BY <1>0, <1>1, <2>2 DEF Excess
  <1>6. Cardinality(DOMAIN snaps \ Excess) <= Keep
    <2>1. \A s \in DOMAIN snaps : Cardinality({x \in DOMAIN snaps : x > s}) \in Nat
      BY <1>4, FS_Subset, FS_CardinalityType
    <2>2. DOMAIN snaps \ Excess
            = {s \in DOMAIN snaps : Cardinality({x \in DOMAIN snaps : x > s}) < Keep}
      BY <1>0, <2>1 DEF Excess
    <2> QED
      BY <1>0, <1>4, <2>2, KeptFew
  <1>7. \A a \in Artifact : Copied(proc[w], a)
    BY <1>0, <1>1, StoreAssumption DEF Artifact, ProcState
  <1> HIDE DEF r
  <1> QED
    BY <1>0, <1>1, <1>2, <1>3, <1>5, <1>6, <1>7 DEF Backed, Copied, Early

\* Pruning removes victims only; then the store is written with its copy at hand.
LEMMA PruneBacked ==
  ASSUME TypeOK, NEW w \in Procs, Backed(w), PruneArchive(w)
  PROVE  Backed(w)'
  <1>0. proc[w] \in ProcState /\ proc[w].pc = "prune"
    BY DEF TypeOK, PruneArchive, At
  <1>1. /\ Keep > 0 /\ files[CertFile] # Absent /\ proc[w].dest = now
        /\ proc[w].dest \in DOMAIN snaps /\ \A s \in DOMAIN snaps : s <= now
        /\ proc[w].dest \notin proc[w].victims
        /\ Cardinality(DOMAIN snaps \ proc[w].victims) <= Keep
        /\ \A a \in Artifact : Copied(proc[w], a)
    BY <1>0 DEF Backed
  <1>2. CASE proc[w].victims = {} /\ Loop(w, "write") /\ UNCHANGED storeVars
    <2> DEFINE r == [proc[w] EXCEPT !.pc = "write", !.idx = 1]
    <2>1. r.pc = "write" /\ r.dest = proc[w].dest
      BY <1>0 DEF ProcState
    <2>2. Become(w, r)
      BY <1>2 DEF Loop
    <2> HIDE DEF r
    <2>3. proc'[w] = r
      BY <2>2, BecomeValue
    <2>4. DOMAIN snaps \ proc[w].victims = DOMAIN snaps
      BY <1>2
    <2>5. snaps[proc[w].dest][CertFile] # Absent
      BY <1>1, ArtifactFacts DEF Copied
    <2> QED
      BY <1>1, <1>2, <2>1, <2>3, <2>4, <2>5 DEF Backed, Copied, Early, storeVars
  <1>3. ASSUME NEW s \in proc[w].victims, RemoveSnapshots({s}),
               Become(w, [proc[w] EXCEPT !.victims = @ \ {s}])
        PROVE  Backed(w)'
    <2> DEFINE r == [proc[w] EXCEPT !.victims = @ \ {s}]
    <2>1. r.pc = "prune" /\ r.dest = proc[w].dest /\ r.victims = proc[w].victims \ {s}
      BY <1>0 DEF ProcState
    <2>2. Become(w, r)
      BY <1>3
    <2> HIDE DEF r
    <2>3. proc'[w] = r
      BY <2>2, BecomeValue
    <2>4. /\ files' = files /\ now' = now /\ DOMAIN snaps' = DOMAIN snaps \ {s}
          /\ snaps'[proc[w].dest] = snaps[proc[w].dest]
      BY <1>1, <1>3 DEF RemoveSnapshots
    <2>5. DOMAIN snaps' \ r.victims = DOMAIN snaps \ proc[w].victims
      BY <2>1, <2>4
    <2>6. proc[w].dest \in DOMAIN snaps' /\ proc[w].dest \notin r.victims
      BY <1>1, <2>1, <2>4
    <2> QED
      BY <1>1, <2>1, <2>3, <2>4, <2>5, <2>6 DEF Backed, Copied, Early
  <1> QED
    BY <1>2, <1>3 DEF PruneArchive

\* A file that is replaced is one the snapshot need not hold any more.
LEMMA WriteBacked ==
  ASSUME TypeOK, NEW w \in Procs, Backed(w), WriteArtifact(w)
  PROVE  Backed(w)'
  <1>0. /\ proc[w] \in ProcState /\ proc[w].pc = "write" /\ proc[w].idx \in Nat
    BY DEF TypeOK, ProcState, WriteArtifact, At
  <1> DEFINE r == [proc[w] EXCEPT !.idx = proc[w].idx + 1]
  <1>1. r.pc = "write" /\ r.dest = proc[w].dest /\ r.idx = proc[w].idx + 1
    BY <1>0 DEF ProcState
  <1>2. proc'[w] = r
    BY BecomeValue DEF WriteArtifact
  <1>3. /\ UNCHANGED <<snaps, now>>
        /\ files' = [files EXCEPT ![proc[w].idx] = proc[w].mat]
    BY DEF WriteArtifact, PutArtifact
  <1>4. \A a \in Artifact : a >= proc[w].idx + 1 => a >= proc[w].idx /\ files'[a] = files[a]
    BY <1>0, <1>3 DEF Artifact, TypeOK, StoreTypeOK
  <1> HIDE DEF r
  <1> QED
    BY <1>0, <1>1, <1>2, <1>3, <1>4 DEF Backed, Copied, Early

\* Nothing is being kept while destroy wipes.
LEMMA WipeBacked ==
  ASSUME TypeOK, NEW w \in Procs, Backed(w), WipeArtifact(w) \/ WipeArchive(w)
  PROVE  Backed(w)'
  <1>0. proc[w] \in ProcState /\ proc[w].pc = "wipe"
    BY DEF TypeOK, WipeArtifact, WipeArchive, At
  <1>1. now' = now /\ DOMAIN snaps' \subseteq DOMAIN snaps
    BY DEF WipeArtifact, WipeArchive, RemoveArtifact, RemoveSnapshots, storeVars
  <1>2. proc'[w].pc \in {"idle", "wipe"}
    <2>1. CASE WipeArtifact(w)
      <3>1. [proc[w] EXCEPT !.idx = proc[w].idx + 1].pc = "wipe"
        BY <1>0 DEF ProcState
      <3> QED
        BY <2>1, <3>1, BecomeValue DEF WipeArtifact
    <2>2. CASE Exit(w, "ok")
      <3> DEFINE r == [Resting EXCEPT !.cmd = proc[w].cmd, !.staging = proc[w].staging,
                                      !.exit = "ok"]
      <3>1. r.pc = "idle"
        BY DEF Resting
      <3>2. Become(w, r)
        BY <2>2 DEF Exit
      <3> HIDE DEF r
      <3> QED
        BY <3>1, <3>2, BecomeValue
    <2>3. CASE UNCHANGED proc
      BY <1>0, <2>3
    <2> QED
      BY <2>1, <2>2, <2>3 DEF WipeArchive
  <1> QED
    BY <1>1, <1>2 DEF Backed, Early

LEMMA FailAside ==
  ASSUME TypeOK, NEW w \in Procs, Backed(w), ArchiveFails(w)
  PROVE  /\ UNCHANGED <<files, snaps, now, held>>
         /\ faults' = faults + 1
         /\ \E r : Aside(w, r)
  <1>1. proc[w].pc = "snapshot" => proc[w].dest \in DOMAIN snaps
    BY DEF Backed
  <1> QED
    BY <1>1, ExitAside DEF ArchiveFails, Fault, At, storeVars

LEMMA FinishAside ==
  ASSUME TypeOK, NEW p \in Procs, FinishWrite(p)
  PROVE  /\ UNCHANGED <<files, snaps, now, faults>>
         /\ \E r : Aside(p, r) /\ r.pc \in {"idle", "deliver"}
  <1>0. proc[p] \in ProcState /\ UNCHANGED <<files, snaps, now, faults>>
    BY DEF TypeOK, FinishWrite, storeVars
  <1> DEFINE r == [proc[p] EXCEPT !.pc = "deliver", !.idx = 1]
             x == [Resting EXCEPT !.cmd = proc[p].cmd, !.staging = proc[p].staging,
                                  !.exit = "ok"]
  <1>1. r.pc = "deliver" /\ x.pc = "idle"
    BY <1>0, ExitPc DEF ProcState
  <1>2. Become(p, r) \/ Become(p, x)
    BY DEF FinishWrite, Loop, Exit
  <1> HIDE DEF r, x
  <1> QED
    BY <1>0, <1>1, <1>2 DEF Aside

\* A process before its first snapshot has none: the writer's say so, the others
\* are never there.
LEMMA NoSnapshotYet ==
  ASSUME NEW w \in Procs, InOrder(w), Backed(w), NEW p \in Procs
  PROVE  proc[p].pc \in Early => proc[p].dest = 0
  <1>1. CASE p = w
    BY <1>1 DEF Backed
  <1>2. CASE p # w
    BY <1>2 DEF InOrder, Local, Early
  <1> QED
    BY <1>1, <1>2

LEMMA NextBacked ==
  ASSUME NEW w \in Procs
  PROVE  TypeOK /\ InOrder(w) /\ Backed(w) /\ [Next]_vars => Backed(w)'
  <1> SUFFICES ASSUME TypeOK, InOrder(w), Backed(w), [Next]_vars PROVE Backed(w)'
    OBVIOUS
  <1>1. ASSUME NEW p \in Procs, NEW r, Aside(p, r), UNCHANGED <<files, snaps, now>>
        PROVE  Backed(w)'
    BY <1>1, AsideBacked
  <1>2. ASSUME NEW p \in Procs,
               EnsureDecides(p) \/ RenewDecides(p) \/ VoidReads(p) \/ Confirm(p)
                 \/ Revoke(p) \/ RevokeFails(p) \/ Obtain(p) \/ ObtainFails(p)
        PROVE  Backed(w)'
    BY <1>1, <1>2, DecideAside, NoSnapshotYet
  <1>3. ASSUME NEW p \in Procs,
               Start(p) \/ WriteFails(p) \/ WipeFails(p) \/ Crash(p)
                 \/ ReadForTarget(p) \/ PlaceTarget(p) \/ PlaceFails(p) \/ FinishDelivery(p)
        PROVE  Backed(w)'
    BY <1>1, <1>3, RestAside
  <1>4. ASSUME NEW p \in Procs, FinishWrite(p) PROVE Backed(w)'
    BY <1>1, <1>4, FinishAside
  <1>5. ASSUME NEW p \in Procs,
               BeginArchive(p) \/ ArchiveArtifact(p) \/ ListArchive(p) \/ PruneArchive(p)
                 \/ ArchiveFails(p) \/ WriteArtifact(p) \/ WipeArtifact(p) \/ WipeArchive(p)
        PROVE  Backed(w)'
    <2>1. proc[p].pc \notin {"idle", "deliver", "place"}
      BY <1>5 DEF BeginArchive, ArchiveArtifact, ListArchive, PruneArchive, ArchiveFails,
                  WriteArtifact, WipeArtifact, WipeArchive, At
    <2>2. p = w
      BY <2>1, WriterOnly
    <2>3. ArchiveFails(w) => Backed(w)'
      BY <1>1, FailAside
    <2> QED
      BY <1>5, <2>2, <2>3, OpenBacked, CopyBacked, ListBacked, PruneBacked, WriteBacked,
         WipeBacked
  <1>6. CASE BecomesDue \/ UNCHANGED vars
    BY <1>6 DEF BecomesDue, vars, storeVars, Backed, Copied
  <1> QED
    BY <1>2, <1>3, <1>4, <1>5, <1>6 DEF Next, Step

\* The snapshot of the set being replaced is safe: the inductive invariant.
THEOREM SnapshotIsSafe ==
  ASSUME NEW w \in Procs, OthersDistribute(w)
  PROVE  Spec => [](TypeOK /\ InOrder(w) /\ Backed(w))
  <1>1. Init => InOrder(w) /\ Backed(w)
    BY InitInOrder, InitBacked
  <1>2. TypeOK /\ InOrder(w) /\ [Next]_vars => InOrder(w)'
    BY NextInOrder
  <1>3. TypeOK /\ InOrder(w) /\ Backed(w) /\ [Next]_vars => Backed(w)'
    BY NextBacked
  <1> QED
    BY <1>1, <1>2, <1>3, TypeCorrect, PTL DEF Spec

\* While Write replaces the set, every file of it is there twice or was replaced.
THEOREM WritesAreBacked == ASSUME SoleWriter PROVE Spec => []WriteHasBackup
  <1>1. PICK w \in Procs : OthersDistribute(w)
    BY DEF SoleWriter, OthersDistribute
  <1>2. InOrder(w) /\ Backed(w) => WriteHasBackup
    <2> SUFFICES ASSUME InOrder(w), Backed(w), NEW p \in Procs, At(p, "write"),
                        proc[p].dest # 0
                 PROVE  /\ proc[p].dest \in DOMAIN snaps
                        /\ Cardinality(DOMAIN snaps) <= Keep
                        /\ \A a \in Artifact : (a >= proc[p].idx /\ files[a] # Absent) =>
                             snaps[proc[p].dest][a] = files[a]
                        /\ snaps[proc[p].dest][CertFile] # Absent
      BY DEF WriteHasBackup
    <2>1. p = w
      BY WriterOnly DEF At
    <2> QED
      BY <2>1 DEF Backed, Copied, At
  <1> QED
    BY <1>1, <1>2, SnapshotIsSafe, PTL

-----------------------------------------------------------------------------
(* With one writing slot a complete set survives as many failures as the   *)
(* archive is deep.  GoodCopy(w), beside InOrder and Backed, is the        *)
(* inductive invariant.                                                    *)

LEMMA LaterFacts ==
  ASSUME TypeOK, NEW w \in Procs, Backed(w), NEW s \in DOMAIN snaps
  PROVE  /\ IsFiniteSet(Later(s)) /\ Cardinality(Later(s)) \in Nat
         /\ IsFiniteSet(DOMAIN snaps) /\ s \in Nat
         /\ faults \in Nat /\ Keep \in Nat
  <1>1. \A x \in DOMAIN snaps : x <= now
    BY DEF Backed
  <1>2. IsFiniteSet(DOMAIN snaps) /\ DOMAIN snaps \in SUBSET Nat
    BY <1>1, FiniteArchive
  <1>3. IsFiniteSet(Later(s)) /\ Cardinality(Later(s)) \in Nat
    BY <1>2, FS_Subset, FS_CardinalityType DEF Later
  <1> QED
    BY <1>2, <1>3, StoreAssumption DEF TypeOK

\* A snapshot that is a good copy after a step.
LEMMA CopySurvives ==
  ASSUME NEW w \in Procs, NEW s \in DOMAIN snaps', Whole(snaps'[s]),
         Cardinality({x \in DOMAIN snaps' : x > s})
           + (IF proc'[w].pc \in Attempt THEN 0 ELSE 1) <= faults',
         proc'[w].pc = "snapshot" => s # proc'[w].dest,
         proc'[w].pc = "prune" => s \notin proc'[w].victims
  PROVE  Survives(proc[w])'
  BY DEF Survives, Later, Whole

\* A failure adds at most one snapshot that is no good; delivering adds none.
LEMMA AsideGood ==
  ASSUME TypeOK, NEW w \in Procs, Backed(w), GoodCopy(w),
         NEW p \in Procs, NEW r, Aside(p, r), UNCHANGED <<files, snaps, held>>,
         \/ faults' = faults + 1
         \/ faults' = faults /\ proc[p].pc \notin Attempt
  PROVE  GoodCopy(w)'
  <1>1. proc'[p] = r /\ \A q \in Procs \ {p} : proc'[q] = proc[q]
    BY BecomeValue DEF Aside
  <1>2. /\ held # 0 => \A a \in Artifact : files'[a] # Absent
        /\ proc'[w].pc = "wipe" => proc'[w].idx > 0 /\ (proc'[w].idx > 1 => held = 0)
    <2>1. CASE p = w
      BY <1>1, <2>1 DEF GoodCopy, Aside, Early
    <2>2. CASE p # w
      BY <1>1, <2>2 DEF GoodCopy
    <2> QED
      BY <2>1, <2>2
  <1>3. ASSUME held # 0, faults' < Keep
        PROVE  (Whole(files)' /\ proc'[w].pc # "write") \/ Survives(proc[w])'
    <2>0. faults \in Nat /\ Keep \in Nat /\ faults < Keep
      BY <1>3, StoreAssumption DEF TypeOK
    <2>1. p = w => proc'[w].pc \notin Attempt
      BY <1>1 DEF Aside, Early, Attempt
    <2>2. CASE Whole(files) /\ proc[w].pc # "write"
      BY <1>1, <2>1, <2>2 DEF Whole, Attempt
    <2>3. CASE Survives(proc[w])
      <3>1. PICK s \in DOMAIN snaps :
              /\ Whole(snaps[s])
              /\ Cardinality(Later(s)) + (IF proc[w].pc \in Attempt THEN 0 ELSE 1) <= faults
              /\ proc[w].pc = "snapshot" => s # proc[w].dest
              /\ proc[w].pc = "prune" => s \notin proc[w].victims
        BY <2>3 DEF Survives
      <3> DEFINE n == Cardinality(Later(s))
      <3>2. n \in Nat
        BY LaterFacts
      <3>3. Cardinality({x \in DOMAIN snaps' : x > s}) = n
        BY DEF Later
      <3> HIDE DEF n
      <3>4. /\ n + (IF proc'[w].pc \in Attempt THEN 0 ELSE 1) <= faults'
            /\ proc'[w].pc = "snapshot" => s # proc'[w].dest
            /\ proc'[w].pc = "prune" => s \notin proc'[w].victims
        <4>0. n + (IF proc[w].pc \in Attempt THEN 0 ELSE 1) <= faults
          BY <3>1 DEF n
        <4>1. CASE p = w
          BY <2>0, <2>1, <3>2, <4>0, <4>1 DEF Attempt
        <4>2. CASE p # w
          BY <1>1, <2>0, <3>1, <3>2, <4>0, <4>2
        <4> QED
          BY <4>1, <4>2
      <3> QED
        BY <3>1, <3>3, <3>4, CopySurvives
    <2> QED
      BY <1>3, <2>0, <2>2, <2>3 DEF GoodCopy
  <1> QED
    BY <1>2, <1>3 DEF GoodCopy

LEMMA InitGood ==
  ASSUME NEW w \in Procs, Init
  PROVE  GoodCopy(w)
  <1>1. PICK g \in {0, 1} : StoreInit(g) /\ held = g /\ proc = [p \in Procs |-> Resting]
    BY DEF Init
  <1>2. files = [a \in Artifact |-> g] /\ CertFile \in Artifact
    BY <1>1, ArtifactFacts DEF StoreInit
  <1>3. held # 0 => (\A a \in Artifact : files[a] # Absent) /\ Whole(files)
    BY <1>1, <1>2 DEF Whole, Absent
  <1>4. proc[w].pc = "idle"
    BY <1>1 DEF Resting
  <1> QED
    BY <1>3, <1>4 DEF GoodCopy

\* What provision keeps when the store holds a whole set or an old snapshot does.
LEMMA BeginGood ==
  ASSUME TypeOK, NEW w \in Procs, Backed(w), GoodCopy(w), BeginArchive(w),
         0 \notin ClockSteps
  PROVE  GoodCopy(w)'
  <1>0. /\ proc[w] \in ProcState /\ proc[w].pc = "archive"
        /\ UNCHANGED <<files, faults, held>> /\ now \in Nat /\ faults \in Nat /\ Keep \in Nat
        /\ DOMAIN snaps \in SUBSET Nat /\ \A x \in DOMAIN snaps : x <= now
    BY StoreAssumption
    DEF TypeOK, StoreTypeOK, BeginArchive, At, Backed, OpenSnapshot, storeVars
  <1>1. held # 0 => \A a \in Artifact : files'[a] # Absent
    BY <1>0 DEF GoodCopy
  <1>2. CASE (Keep = 0 \/ files[CertFile] = Absent) /\ Loop(w, "write") /\ UNCHANGED storeVars
    <2> DEFINE r == [proc[w] EXCEPT !.pc = "write", !.idx = 1]
    <2>1. r.pc = "write"
      BY <1>0 DEF ProcState
    <2>2. Become(w, r)
      BY <1>2 DEF Loop
    <2> HIDE DEF r
    <2>3. proc'[w] = r
      BY <2>2, BecomeValue
    <2>4. ~(held # 0 /\ faults < Keep)
      BY <1>0, <1>2, ArtifactFacts DEF GoodCopy
    <2> QED
      BY <1>0, <1>1, <2>1, <2>3, <2>4 DEF GoodCopy
  <1>3. ASSUME NEW d \in {now + e : e \in ClockSteps}, OpenSnapshot(d),
               Become(w, [proc[w] EXCEPT !.pc = "snapshot", !.idx = 1, !.dest = d])
        PROVE  GoodCopy(w)'
    <2> DEFINE r == [proc[w] EXCEPT !.pc = "snapshot", !.idx = 1, !.dest = d]
    <2>1. r.pc = "snapshot" /\ r.dest = d
      BY <1>0 DEF ProcState
    <2>2. Become(w, r)
      BY <1>3
    <2> HIDE DEF r
    <2>3. proc'[w] = r
      BY <2>2, BecomeValue
    <2>4. d \in Nat /\ now < d /\ d \notin DOMAIN snaps
      BY <1>0, StoreAssumption
    <2>5. /\ DOMAIN snaps' = DOMAIN snaps \cup {d}
          /\ \A s \in DOMAIN snaps : snaps'[s] = snaps[s]
      BY <1>3 DEF OpenSnapshot
    <2>6. ASSUME held # 0, faults < Keep
          PROVE  (Whole(files)' /\ proc'[w].pc # "write") \/ Survives(proc[w])'
      <3>1. CASE Whole(files)
        BY <1>0, <2>1, <2>3, <3>1 DEF Whole
      <3>2. CASE Survives(proc[w])
        <4>1. PICK s \in DOMAIN snaps :
                /\ Whole(snaps[s])
                /\ Cardinality(Later(s)) + (IF proc[w].pc \in Attempt THEN 0 ELSE 1) <= faults
          BY <3>2 DEF Survives
        <4>2. Cardinality(Later(s)) \in Nat /\ IsFiniteSet(Later(s)) /\ s \in Nat
          BY LaterFacts
        <4>3. Cardinality(Later(s)) + 1 <= faults
          BY <1>0, <4>1 DEF Attempt
        <4>4. {x \in DOMAIN snaps' : x > s} = Later(s) \cup {d} /\ d \notin Later(s)
          BY <1>0, <2>4, <2>5, <4>2 DEF Later
        <4>5. Cardinality({x \in DOMAIN snaps' : x > s}) = Cardinality(Later(s)) + 1
          BY <4>2, <4>4, FS_AddElement
        <4>6. proc'[w].pc \in Attempt /\ proc'[w].pc # "prune" /\ s # proc'[w].dest
          BY <2>1, <2>3, <2>4 DEF Attempt
        <4>7. Cardinality({x \in DOMAIN snaps' : x > s})
                + (IF proc'[w].pc \in Attempt THEN 0 ELSE 1) <= faults'
          BY <1>0, <4>2, <4>3, <4>5, <4>6
        <4>8. s \in DOMAIN snaps' /\ Whole(snaps'[s])
          BY <2>5, <4>1
        <4> QED
          BY <4>6, <4>7, <4>8, CopySurvives
      <3> QED
        BY <1>0, <2>6, <3>1, <3>2 DEF GoodCopy
    <2> QED
      BY <1>0, <1>1, <2>1, <2>3, <2>6 DEF GoodCopy
  <1> QED
    BY <1>2, <1>3 DEF BeginArchive

\* Filling the new snapshot touches no older one.
LEMMA CopyGood ==
  ASSUME TypeOK, NEW w \in Procs, GoodCopy(w), ArchiveArtifact(w)
  PROVE  GoodCopy(w)'
  <1>0. /\ proc[w] \in ProcState /\ proc[w].pc = "snapshot"
        /\ UNCHANGED <<files, faults, held>>
        /\ CopyToSnapshot(proc[w].dest, proc[w].idx)
    BY DEF TypeOK, ArchiveArtifact, At, CopyToSnapshot
  <1> DEFINE r == [proc[w] EXCEPT !.idx = proc[w].idx + 1]
  <1>1. r.pc = "snapshot" /\ r.dest = proc[w].dest
    BY <1>0 DEF ProcState
  <1>2. proc'[w] = r
    BY BecomeValue DEF ArchiveArtifact
  <1> HIDE DEF r
  <1>3. /\ DOMAIN snaps' = DOMAIN snaps
        /\ \A s \in DOMAIN snaps : s # proc[w].dest => snaps'[s] = snaps[s]
    BY <1>0 DEF CopyToSnapshot
  <1>4. CASE Whole(files) /\ held # 0
    BY <1>0, <1>1, <1>2, <1>4 DEF GoodCopy, Whole
  <1>5. CASE Survives(proc[w])
    <2>1. PICK s \in DOMAIN snaps :
            /\ Whole(snaps[s])
            /\ Cardinality(Later(s)) + (IF proc[w].pc \in Attempt THEN 0 ELSE 1) <= faults
            /\ s # proc[w].dest
      BY <1>0, <1>5 DEF Survives
    <2>2. {x \in DOMAIN snaps' : x > s} = Later(s)
      BY <1>3 DEF Later
    <2>3. s \in DOMAIN snaps' /\ Whole(snaps'[s])
      BY <1>3, <2>1
    <2>4. Survives(proc[w])'
      BY <1>0, <1>1, <1>2, <2>1, <2>2, <2>3, CopySurvives
    <2> QED
      BY <1>0, <1>1, <1>2, <2>4 DEF GoodCopy
  <1>6. CASE ~(held # 0 /\ faults < Keep)
    BY <1>0, <1>1, <1>2, <1>6 DEF GoodCopy
  <1> QED
    BY <1>4, <1>5, <1>6 DEF GoodCopy

\* A good copy with fewer than Keep later snapshots is no victim.
LEMMA ListGood ==
  ASSUME TypeOK, NEW w \in Procs, Backed(w), GoodCopy(w), ListArchive(w)
  PROVE  GoodCopy(w)'
  <1>0. /\ proc[w] \in ProcState /\ proc[w].pc = "snapshot"
        /\ UNCHANGED <<files, snaps, faults, held>> /\ faults \in Nat /\ Keep \in Nat
    BY StoreAssumption DEF TypeOK, ListArchive, At, storeVars
  <1> DEFINE r == [proc[w] EXCEPT !.pc = "prune", !.victims = Excess]
  <1>1. r.pc = "prune" /\ r.victims = Excess
    BY <1>0 DEF ProcState
  <1>2. proc'[w] = r
    BY BecomeValue DEF ListArchive
  <1> HIDE DEF r
  <1>3. CASE Whole(files) /\ held # 0
    BY <1>0, <1>1, <1>2, <1>3 DEF GoodCopy, Whole
  <1>4. CASE Survives(proc[w]) /\ faults < Keep
    <2>1. PICK s \in DOMAIN snaps :
            /\ Whole(snaps[s])
            /\ Cardinality(Later(s)) + (IF proc[w].pc \in Attempt THEN 0 ELSE 1) <= faults
      BY <1>4 DEF Survives
    <2>2. Cardinality(Later(s)) \in Nat
      BY LaterFacts
    <2>3. Cardinality(Later(s)) <= faults
      BY <1>0, <2>1, <2>2 DEF Attempt
    <2>4. s \notin Excess
      BY <1>0, <1>4, <2>2, <2>3 DEF Excess, Later
    <2>5. Cardinality({x \in DOMAIN snaps' : x > s})
            + (IF proc'[w].pc \in Attempt THEN 0 ELSE 1) <= faults'
      BY <1>0, <1>1, <1>2, <2>2, <2>3 DEF Attempt, Later
    <2>6. s \in DOMAIN snaps' /\ Whole(snaps'[s])
      BY <1>0, <2>1
    <2>7. Survives(proc[w])'
      BY <1>1, <1>2, <2>4, <2>5, <2>6, CopySurvives
    <2> QED
      BY <1>0, <1>1, <1>2, <2>7 DEF GoodCopy
  <1>5. CASE ~(held # 0 /\ faults < Keep)
    BY <1>0, <1>1, <1>2, <1>5 DEF GoodCopy
  <1> QED
    BY <1>3, <1>4, <1>5 DEF GoodCopy

\* Pruning takes the victims; when it is done the set about to be replaced, if it
\* is whole, is in the newest snapshot.
LEMMA PruneGood ==
  ASSUME TypeOK, NEW w \in Procs, Backed(w), GoodCopy(w), PruneArchive(w)
  PROVE  GoodCopy(w)'
  <1>0. /\ proc[w] \in ProcState /\ proc[w].pc = "prune"
        /\ UNCHANGED <<files, faults, held>> /\ faults \in Nat /\ Keep \in Nat
    BY StoreAssumption DEF TypeOK, PruneArchive, At, RemoveSnapshots, storeVars
  <1>1. held # 0 => \A a \in Artifact : files'[a] # Absent
    BY <1>0 DEF GoodCopy
  <1>2. /\ proc[w].dest = now /\ proc[w].dest \in DOMAIN snaps
        /\ \A s \in DOMAIN snaps : s <= now
        /\ \A a \in Artifact : Copied(proc[w], a)
    BY <1>0 DEF Backed
  <1>3. CASE Loop(w, "write") /\ UNCHANGED storeVars
    <2> DEFINE r == [proc[w] EXCEPT !.pc = "write", !.idx = 1]
    <2>1. r.pc = "write"
      BY <1>0 DEF ProcState
    <2>2. Become(w, r)
      BY <1>3 DEF Loop
    <2> HIDE DEF r
    <2>3. proc'[w] = r
      BY <2>2, BecomeValue
    <2>4. ASSUME held # 0, faults < Keep
          PROVE  Survives(proc[w])'
      <3>1. PICK s \in DOMAIN snaps : Whole(snaps[s]) /\ Cardinality(Later(s)) <= faults
        <4>1. CASE Whole(files)
          <5>1. \A a \in Artifact : snaps[proc[w].dest][a] = files[a]
            BY <1>2, <2>4 DEF GoodCopy, Copied
          <5>2. Whole(snaps[proc[w].dest])
            BY <4>1, <5>1, ArtifactFacts DEF Whole
          <5>3. Later(proc[w].dest) = {}
            BY <1>2 DEF Later, TypeOK, StoreTypeOK
          <5>4. Cardinality(Later(proc[w].dest)) = 0
            BY <5>3, FS_EmptySet
          <5> QED
            BY <1>0, <1>2, <5>2, <5>4
        <4>2. CASE Survives(proc[w])
          <5>1. PICK s \in DOMAIN snaps :
                  /\ Whole(snaps[s])
                  /\ Cardinality(Later(s)) + (IF proc[w].pc \in Attempt THEN 0 ELSE 1) <= faults
            BY <4>2 DEF Survives
          <5>2. Cardinality(Later(s)) \in Nat
            BY LaterFacts
          <5> QED
            BY <1>0, <5>1, <5>2 DEF Attempt
        <4> QED
          BY <1>0, <2>4, <4>1, <4>2 DEF GoodCopy
      <3>2. Cardinality(Later(s)) \in Nat
        BY LaterFacts
      <3>3. Cardinality({x \in DOMAIN snaps' : x > s})
              + (IF proc'[w].pc \in Attempt THEN 0 ELSE 1) <= faults'
        BY <1>0, <1>3, <2>1, <2>3, <3>1, <3>2 DEF Attempt, Later, storeVars
      <3>4. s \in DOMAIN snaps' /\ Whole(snaps'[s])
        BY <1>3, <3>1 DEF storeVars
      <3> QED
        BY <2>1, <2>3, <3>3, <3>4, CopySurvives
    <2> QED
      BY <1>0, <1>1, <2>1, <2>3, <2>4 DEF GoodCopy
  <1>4. ASSUME NEW d \in proc[w].victims, RemoveSnapshots({d}),
               Become(w, [proc[w] EXCEPT !.victims = @ \ {d}])
        PROVE  GoodCopy(w)'
    <2> DEFINE r == [proc[w] EXCEPT !.victims = @ \ {d}]
    <2>1. r.pc = "prune" /\ r.victims = proc[w].victims \ {d}
      BY <1>0 DEF ProcState
    <2>2. Become(w, r)
      BY <1>4
    <2> HIDE DEF r
    <2>3. proc'[w] = r
      BY <2>2, BecomeValue
    <2>4. /\ DOMAIN snaps' = DOMAIN snaps \ {d}
          /\ \A s \in DOMAIN snaps \ {d} : snaps'[s] = snaps[s]
      BY <1>4 DEF RemoveSnapshots
    <2>5. CASE Whole(files) /\ held # 0
      BY <1>0, <1>1, <2>1, <2>3, <2>5 DEF GoodCopy, Whole
    <2>6. CASE Survives(proc[w])
      <3>1. PICK s \in DOMAIN snaps :
              /\ Whole(snaps[s])
              /\ Cardinality(Later(s)) + (IF proc[w].pc \in Attempt THEN 0 ELSE 1) <= faults
              /\ s \notin proc[w].victims
        BY <1>0, <2>6 DEF Survives
      <3> DEFINE L == {x \in DOMAIN snaps' : x > s}
      <3>2. IsFiniteSet(Later(s)) /\ Cardinality(Later(s)) \in Nat
        BY LaterFacts
      <3>3. L \subseteq Later(s)
        BY <2>4 DEF Later
      <3>4. Cardinality(L) \in Nat /\ Cardinality(L) <= Cardinality(Later(s))
        BY <3>2, <3>3, FS_Subset, FS_CardinalityType
      <3> HIDE DEF L
      <3>5. Cardinality(L) + (IF proc'[w].pc \in Attempt THEN 0 ELSE 1) <= faults'
        BY <1>0, <2>1, <2>3, <3>1, <3>2, <3>4 DEF Attempt
      <3>6. s \in DOMAIN snaps' /\ Whole(snaps'[s])
        BY <2>4, <3>1
      <3>7. Survives(proc[w])'
        BY <2>1, <2>3, <3>1, <3>5, <3>6, CopySurvives DEF L
      <3> QED
        BY <1>0, <1>1, <2>1, <2>3, <3>7 DEF GoodCopy
    <2>7. CASE ~(held # 0 /\ faults < Keep)
      BY <1>0, <1>1, <2>1, <2>3, <2>7 DEF GoodCopy
    <2> QED
      BY <2>5, <2>6, <2>7 DEF GoodCopy
  <1> QED
    BY <1>3, <1>4 DEF PruneArchive

\* While the set is replaced the good copy is a snapshot.
LEMMA WriteGood ==
  ASSUME TypeOK, NEW w \in Procs, InOrder(w), GoodCopy(w), WriteArtifact(w)
  PROVE  GoodCopy(w)'
  <1>0. /\ proc[w] \in ProcState /\ proc[w].pc = "write"
        /\ UNCHANGED <<snaps, faults, held>> /\ proc[w].mat > 0 /\ proc[w].mat \in Nat
        /\ files' = [files EXCEPT ![proc[w].idx] = proc[w].mat]
    BY DEF TypeOK, WriteArtifact, PutArtifact, At, InOrder, Local, ProcState
  <1> DEFINE r == [proc[w] EXCEPT !.idx = proc[w].idx + 1]
  <1>1. r.pc = "write"
    BY <1>0 DEF ProcState
  <1>2. proc'[w] = r
    BY BecomeValue DEF WriteArtifact
  <1> HIDE DEF r
  <1>3. held # 0 => \A a \in Artifact : files'[a] # Absent
    BY <1>0 DEF GoodCopy, TypeOK, StoreTypeOK, Absent
  <1>4. Survives(proc[w]) => Survives(proc[w])'
    BY <1>0, <1>1, <1>2 DEF Survives, Later, Whole
  <1> QED
    BY <1>0, <1>1, <1>2, <1>3, <1>4 DEF GoodCopy

\* The set that was written is whole.
LEMMA FinishGood ==
  ASSUME TypeOK, NEW w \in Procs, InOrder(w), FinishWrite(w)
  PROVE  GoodCopy(w)'
  <1>0. /\ proc[w] \in ProcState /\ proc[w].pc = "write" /\ proc[w].idx \notin Artifact
        /\ UNCHANGED <<files, faults>>
    BY DEF TypeOK, FinishWrite, At, storeVars
  <1>1. /\ proc[w].idx > 0 /\ proc[w].mat > 0
        /\ \A a \in Artifact : a < proc[w].idx => files[a] = proc[w].mat
    BY <1>0 DEF InOrder, Local
  <1>2. \A a \in Artifact : a < proc[w].idx
    BY <1>0, <1>1, StoreAssumption DEF Artifact, ProcState
  <1>3. Whole(files') /\ \A a \in Artifact : files'[a] # Absent
    BY <1>0, <1>1, <1>2, ArtifactFacts DEF Whole, Absent
  <1>4. PICK r : Aside(w, r) /\ r.pc \in {"idle", "deliver"}
    BY FinishAside
  <1>5. proc'[w] = r
    BY <1>4, BecomeValue DEF Aside
  <1> QED
    BY <1>3, <1>4, <1>5 DEF GoodCopy, Whole

\* destroy ends the promise before it touches the archive.
LEMMA WipeGood ==
  ASSUME TypeOK, NEW w \in Procs, GoodCopy(w), WipeArtifact(w) \/ WipeArchive(w)
  PROVE  GoodCopy(w)'
  <1>0. /\ proc[w] \in ProcState /\ proc[w].pc = "wipe" /\ proc[w].idx \in Nat
        /\ proc[w].idx > 0
    BY DEF TypeOK, WipeArtifact, WipeArchive, At, ProcState, GoodCopy
  <1>1. CASE WipeArtifact(w)
    <2> DEFINE r == [proc[w] EXCEPT !.idx = proc[w].idx + 1]
    <2>1. r.idx = proc[w].idx + 1
      BY <1>0 DEF ProcState
    <2>2. proc'[w] = r
      BY <1>1, BecomeValue DEF WipeArtifact
    <2> HIDE DEF r
    <2> QED
      BY <1>0, <1>1, <2>1, <2>2 DEF WipeArtifact, GoodCopy
  <1>2. CASE WipeArchive(w)
    <2>1. held = 0 /\ held' = 0
      BY <1>0, <1>2, StoreAssumption DEF WipeArchive, GoodCopy, Artifact
    <2>2. CASE UNCHANGED proc
      BY <1>0, <2>1, <2>2 DEF GoodCopy
    <2>3. CASE Exit(w, "ok")
      <3>1. PICK r : Aside(w, r) /\ r.pc = "idle"
        <4> DEFINE x == [Resting EXCEPT !.cmd = proc[w].cmd, !.staging = proc[w].staging,
                                        !.exit = "ok"]
        <4>1. x.pc = "idle" /\ Become(w, x)
          BY <2>3, ExitPc DEF Exit
        <4> HIDE DEF x
        <4> QED
          BY <4>1 DEF Aside
      <3>2. proc'[w].pc = "idle"
        BY <3>1, BecomeValue DEF Aside
      <3> QED
        BY <2>1, <3>2 DEF GoodCopy
    <2> QED
      BY <1>2, <2>2, <2>3 DEF WipeArchive
  <1> QED
    BY <1>1, <1>2

LEMMA NextGood ==
  ASSUME NEW w \in Procs, 0 \notin ClockSteps
  PROVE  TypeOK /\ InOrder(w) /\ Backed(w) /\ GoodCopy(w) /\ [Next]_vars => GoodCopy(w)'
  <1> SUFFICES ASSUME TypeOK, InOrder(w), Backed(w), GoodCopy(w), [Next]_vars
               PROVE  GoodCopy(w)'
    OBVIOUS
  <1>1. ASSUME NEW p \in Procs,
               EnsureDecides(p) \/ RenewDecides(p) \/ VoidReads(p) \/ Confirm(p)
                 \/ Revoke(p) \/ RevokeFails(p) \/ Obtain(p) \/ ObtainFails(p)
        PROVE  GoodCopy(w)'
    <2>1. /\ UNCHANGED <<files, snaps, held, faults>> /\ proc[p].pc \in Early
          /\ \E r : Aside(p, r)
      BY <1>1, DecideAside, NoSnapshotYet
    <2>2. proc[p].pc \notin Attempt
      BY <2>1 DEF Early, Attempt
    <2> QED
      BY <2>1, <2>2, AsideGood
  <1>2. ASSUME NEW p \in Procs,
               Start(p) \/ WriteFails(p) \/ WipeFails(p) \/ Crash(p)
                 \/ ReadForTarget(p) \/ PlaceTarget(p) \/ PlaceFails(p) \/ FinishDelivery(p)
        PROVE  GoodCopy(w)'
    <2>1. /\ UNCHANGED <<files, snaps, held>>
          /\ \/ faults' = faults + 1
             \/ faults' = faults /\ proc[p].pc \in {"idle", "deliver", "place"}
          /\ \E r : Aside(p, r)
      BY <1>2, RestAside
    <2>2. proc[p].pc \in {"idle", "deliver", "place"} => proc[p].pc \notin Attempt
      BY DEF Attempt
    <2> QED
      BY <2>1, <2>2, AsideGood
  <1>3. ASSUME NEW p \in Procs,
               BeginArchive(p) \/ ArchiveArtifact(p) \/ ListArchive(p) \/ PruneArchive(p)
                 \/ ArchiveFails(p) \/ WriteArtifact(p) \/ FinishWrite(p)
                 \/ WipeArtifact(p) \/ WipeArchive(p)
        PROVE  GoodCopy(w)'
    <2>1. proc[p].pc \notin {"idle", "deliver", "place"}
      BY <1>3 DEF BeginArchive, ArchiveArtifact, ListArchive, PruneArchive, ArchiveFails,
                  WriteArtifact, FinishWrite, WipeArtifact, WipeArchive, At
    <2>2. p = w
      BY <2>1, WriterOnly
    <2>3. ArchiveFails(w) => GoodCopy(w)'
      BY FailAside, AsideGood
    <2> QED
      BY <1>3, <2>2, <2>3, BeginGood, CopyGood, ListGood, PruneGood, WriteGood, FinishGood,
         WipeGood
  <1>4. CASE BecomesDue \/ UNCHANGED vars
    <2>1. UNCHANGED <<files, snaps, faults, held, proc>>
      BY <1>4 DEF BecomesDue, vars, storeVars
    <2> QED
      BY <2>1 DEF GoodCopy, Survives, Later, Whole
  <1> QED
    BY <1>1, <1>2, <1>3, <1>4 DEF Next, Step

\* With one writing slot, and snapshots taken in different seconds, a complete set
\* survives in the store or in archive/ while fewer faults than archive_keep
\* occurred: the order copy, prune, write of provision, and what pruneArchive
\* chooses, are enough.  (Two attempts in one second share a directory: the second
\* may overwrite the whole set of the first with a torn one.)
THEOREM GoodCopyIsKept ==
  ASSUME SoleWriter, 0 \notin ClockSteps
  PROVE  Spec => []GoodCopySurvives
  <1>1. PICK w \in Procs : OthersDistribute(w)
    BY DEF SoleWriter, OthersDistribute
  <1>2. Init => InOrder(w) /\ Backed(w) /\ GoodCopy(w)
    BY InitInOrder, InitBacked, InitGood
  <1>3. TypeOK /\ InOrder(w) /\ [Next]_vars => InOrder(w)'
    BY <1>1, NextInOrder
  <1>4. TypeOK /\ InOrder(w) /\ Backed(w) /\ [Next]_vars => Backed(w)'
    BY NextBacked
  <1>5. TypeOK /\ InOrder(w) /\ Backed(w) /\ GoodCopy(w) /\ [Next]_vars => GoodCopy(w)'
    BY NextGood
  <1>6. GoodCopy(w) => GoodCopySurvives
    BY DEF GoodCopy, GoodCopySurvives, Survives
  <1> QED
    BY <1>2, <1>3, <1>4, <1>5, <1>6, TypeCorrect, PTL DEF Spec
=============================================================================
