---------------------------- MODULE Access_proofs ----------------------------
(***************************************************************************)
(* When the store is set up with care, by one process or by the installer, *)
(* it keeps one owner and the guard's word holds: no command it let        *)
(* through is stopped by permissions later, for any number of processes,   *)
(* users and faults.                                                       *)
(***************************************************************************)
EXTENDS Access, TLAPS

\* How the store is set up: the first run is alone, and the installer is not run over
\* the store of another user.
SetUp == Careful /\ InstallsOver \subseteq {Nobody, Service}

Processes ==
  [pc : {"idle", "account", "archive", "cert", "key", "deliver", "wipe"},
   user : Users \cup {Nobody},
   cmd : Commands \cup {"none"}, idx : 1..5,
   end : {"none", "ok", "refused", "denied", "failed"}]

\* Every process the guard let through is the owner's, or the one that makes the store,
\* and none of them was denied anything.
Fits(r, d) ==
  /\ r.pc \in {"account", "archive", "cert", "key", "deliver"} => r.cmd \in Guarded
  /\ r.pc = "wipe" => r.cmd = "destroy"
  /\ r.pc # "idle" /\ r.cmd \in Guarded /\ d # Nobody => r.user = d
  /\ r.pc # "idle" /\ d = Nobody => r.user \in Creators
  /\ r.pc # "idle" => r.user \in Users
  /\ r.pc \in {"archive", "cert", "key"} => d # Nobody
  /\ r.end = "denied" => r.cmd \notin Guarded

\* Nothing runs beside the process that makes the store.
FirstIsAlone ==
  dir = Nobody => \A p, q \in Procs : p = q \/ At(p, "idle") \/ At(q, "idle")

IInv == TypeOK /\ OneOwner /\ FirstIsAlone /\ \A p \in Procs : Fits(proc[p], dir)

\* A process takes a step in the store as it is.
LEMMA Advance ==
  ASSUME IInv, NEW p \in Procs, NEW r \in Processes,
         proc' = [proc EXCEPT ![p] = r], dir' = dir, Fits(r, dir),
         dir = Nobody => ~At(p, "idle") \/ r.pc = "idle" \/ \A q \in Procs : At(q, "idle"),
         own' \in [Items -> Users \cup {Nobody}],
         \A i \in Items : own'[i] # Nobody => own'[i] = dir,
         faults' \in 0..MaxFaults
  PROVE  IInv'
<1>1. proc'[p] = r /\ \A q \in Procs \ {p} : proc'[q] = proc[q]
  BY DEF IInv, TypeOK
<1>2. TypeOK'
  BY DEF IInv, TypeOK, Processes
<1>3. OneOwner'
  BY DEF OneOwner, Exists
<1>4. FirstIsAlone'
  BY <1>1 DEF IInv, FirstIsAlone, At
<1>5. \A q \in Procs : Fits(proc'[q], dir')
  BY <1>1 DEF IInv
<1>6. (\A q \in Procs : Fits(proc[q], dir))'
  BY <1>5 DEF Fits
<1> QED BY <1>2, <1>3, <1>4, <1>6 DEF IInv

\* The step leaves the owners as they are, or changes one item's to none or to the
\* store's.
LEMMA OwnKept ==
  ASSUME IInv, UNCHANGED own
  PROVE  /\ own' \in [Items -> Users \cup {Nobody}]
         /\ \A i \in Items : own'[i] # Nobody => own'[i] = dir
  BY DEF IInv, TypeOK, OneOwner, Exists

LEMMA OwnGained ==
  ASSUME IInv, NEW i \in Items, NEW u \in Users \cup {Nobody}, Gains(i, u),
         u # Nobody => u = dir
  PROVE  /\ own' \in [Items -> Users \cup {Nobody}]
         /\ \A j \in Items : own'[j] # Nobody => own'[j] = dir
  BY DEF IInv, TypeOK, OneOwner, Exists, Gains

\* Going on, or ending otherwise than by being denied.
LEMMA GotoFits ==
  ASSUME IInv, NEW p \in Procs, ~At(p, "idle"), proc[p].cmd \in Guarded,
         NEW label \in {"archive", "cert", "key", "deliver"}, Goto(p, label), dir # Nobody
  PROVE  \E r \in Processes :
           /\ proc' = [proc EXCEPT ![p] = r] /\ Fits(r, dir)
           /\ dir = Nobody => ~At(p, "idle") \/ r.pc = "idle" \/ \A q \in Procs : At(q, "idle")
<1> DEFINE r == [proc[p] EXCEPT !.pc = label]
<1>1. proc' = [proc EXCEPT ![p] = r] /\ r \in Processes
  BY DEF Goto, IInv, TypeOK, Processes
<1>2. /\ r.pc = label /\ r.cmd = proc[p].cmd /\ r.user = proc[p].user /\ r.end = proc[p].end
  BY DEF IInv, TypeOK
<1>3. Fits(proc[p], dir) /\ proc[p].pc # "idle"
  BY DEF IInv, At
<1>4. Fits(r, dir)
  BY <1>2, <1>3 DEF Fits
<1> QED BY <1>1, <1>4

LEMMA EndFits ==
  ASSUME IInv, NEW p \in Procs, NEW how \in {"ok", "denied", "failed"}, End(p, how),
         how = "denied" => proc[p].cmd \notin Guarded
  PROVE  \E r \in Processes :
           /\ proc' = [proc EXCEPT ![p] = r] /\ Fits(r, dir)
           /\ dir = Nobody => ~At(p, "idle") \/ r.pc = "idle" \/ \A q \in Procs : At(q, "idle")
<1> DEFINE r == [proc[p] EXCEPT !.pc = "idle", !.end = how]
<1>1. proc' = [proc EXCEPT ![p] = r] /\ r \in Processes
  BY DEF End, IInv, TypeOK, Processes
<1>2. r.pc = "idle" /\ r.cmd = proc[p].cmd /\ r.end = how
  BY DEF IInv, TypeOK
<1>3. Fits(r, dir)
  BY <1>2 DEF Fits
<1> QED BY <1>1, <1>2, <1>3

-----------------------------------------------------------------------------
LEMMA InitIInv == Init => IInv
<1> SUFFICES ASSUME Init PROVE IInv
  OBVIOUS
<1>1. dir \in Users \cup {Nobody}
  BY AccessAssumption DEF Init
<1>2. /\ own \in [Items -> Users \cup {Nobody}]
      /\ \A i \in Items : own[i] # Nobody => own[i] = dir
  BY <1>1 DEF Init
<1>3. proc \in [Procs -> Processes] /\ \A p \in Procs : proc[p] = Resting
  BY DEF Init, Resting, Processes
<1>4. TypeOK
  BY <1>1, <1>2, <1>3, AccessAssumption DEF TypeOK, Init, Processes
<1>5. OneOwner /\ FirstIsAlone
  BY <1>2, <1>3 DEF OneOwner, Exists, FirstIsAlone, At, Resting
<1>6. Fits(Resting, dir)
  BY DEF Fits, Resting
<1>7. \A p \in Procs : Fits(proc[p], dir)
  BY <1>3, <1>6
<1> QED BY <1>4, <1>5, <1>7 DEF IInv

LEMMA StartIInv ==
  ASSUME SetUp, IInv, NEW p \in Procs, NEW user \in UserOf[p], NEW cmd \in CmdOf[p],
         Start(p, user, cmd)
  PROVE  IInv'
<1>1. user \in Users /\ user # Nobody /\ cmd \in Commands
  BY AccessAssumption DEF Users
<1>2. /\ dir' = dir /\ own' = own /\ faults' \in 0..MaxFaults
  <2>1. faults' = faults \/ (faults < MaxFaults /\ faults' = faults + 1)
    BY DEF Start, Fault
  <2> QED BY <2>1, AccessAssumption DEF Start, IInv, TypeOK
<1>3. dir = Nobody => user \in Creators /\ \A q \in Procs : At(q, "idle")
  BY DEF Start, Alone, SetUp
<1>4. CASE /\ cmd \in Guarded /\ ~Allowed(user)
           /\ proc' = [proc EXCEPT ![p] = [pc |-> "idle", user |-> user, cmd |-> cmd,
                                           idx |-> 1, end |-> "refused"]]
  <2> DEFINE r == [pc |-> "idle", user |-> user, cmd |-> cmd, idx |-> 1, end |-> "refused"]
  <2>1. r \in Processes /\ Fits(r, dir)
    BY <1>1 DEF Processes, Fits
  <2> QED BY <1>2, <1>3, <1>4, <2>1, OwnKept, Advance
<1>5. ASSUME NEW label \in Entry(cmd), ~(cmd \in Guarded /\ ~Allowed(user)),
             proc' = [proc EXCEPT ![p] = [pc |-> label, user |-> user, cmd |-> cmd,
                                          idx |-> 1, end |-> "none"]]
      PROVE  IInv'
  <2> DEFINE r == [pc |-> label, user |-> user, cmd |-> cmd, idx |-> 1, end |-> "none"]
  <2>1. /\ label \in {"account", "deliver", "wipe"}
        /\ label = "wipe" <=> cmd = "destroy"
    BY <1>5 DEF Entry
  <2>2. cmd \in Guarded /\ dir # Nobody => user = dir
    BY <1>5 DEF Allowed
  <2>3. r \in Processes
    BY <1>1, <2>1 DEF Processes
  <2>4. Fits(r, dir)
    BY <1>1, <1>3, <2>1, <2>2 DEF Fits, Guarded
  <2> QED BY <1>2, <1>3, <1>5, <2>3, <2>4, OwnKept, Advance
<1> QED BY <1>4, <1>5 DEF Start

\* What the kernel grants: everything to a command the guard let through.
LEMMA AlwaysGranted ==
  ASSUME IInv, NEW p \in Procs, ~At(p, "idle"), proc[p].cmd \in Guarded
  PROVE  Granted(p)
<1>1. Fits(proc[p], dir) /\ proc[p].pc # "idle"
  BY DEF IInv, At
<1>2. /\ ~At(p, "wipe")
      /\ dir = Nobody => proc[p].user \in Creators
      /\ dir # Nobody => proc[p].user = dir
      /\ At(p, "archive") \/ At(p, "cert") \/ At(p, "key") => dir # Nobody
  BY <1>1 DEF Fits, At, Guarded
<1>3. \A i \in Items : Exists(i) => own[i] = dir /\ dir # Nobody
  BY DEF IInv, OneOwner, Exists
<1>4. dir # Nobody => MayEnter(p)
  BY <1>2 DEF MayEnter
<1>5. \A i \in Items : dir # Nobody => MayUse(p, i)
  BY <1>2, <1>3, <1>4 DEF MayUse, MayOpen
<1>6. \A i \in Items : Exists(i) => MayOpen(p, i)
  BY <1>2, <1>3, <1>4 DEF MayOpen
<1>7. {"account", "archive", "cert", "key"} \subseteq Items
  BY DEF Items
<1> QED BY <1>2, <1>4, <1>5, <1>6, <1>7 DEF Granted

\* Where the process is says which command it runs and as whom.
LEMMA Whose ==
  ASSUME IInv, NEW p \in Procs, ~At(p, "idle"), ~At(p, "wipe")
  PROVE  /\ proc[p].cmd \in Guarded /\ proc[p].user \in Users
         /\ dir # Nobody => proc[p].user = dir
<1>1. Fits(proc[p], dir) /\ proc[p].pc # "idle" /\ proc[p].pc # "wipe"
  BY DEF IInv, At
<1>2. proc[p].pc \in {"idle", "account", "archive", "cert", "key", "deliver", "wipe"}
  BY DEF IInv, TypeOK
<1> QED BY <1>1, <1>2 DEF Fits

LEMMA StepIInv ==
  ASSUME IInv, NEW p \in Procs, Step(p)
  PROVE  IInv'
<1>0. faults \in 0..MaxFaults
  BY DEF IInv, TypeOK
<1>1. CASE MakeStore(p)
  <2>1. /\ At(p, "account") /\ dir = Nobody /\ dir' = proc[p].user /\ proc' = proc
        /\ own' = own /\ faults' = faults
    BY <1>1 DEF MakeStore
  <2>2. proc[p].user \in Users /\ proc[p].cmd \in Guarded /\ dir' # Nobody
    BY <2>1, Whose, AccessAssumption DEF At
  <2>3. \A i \in Items : own[i] = Nobody
    BY <2>1 DEF IInv, OneOwner, Exists
  <2>4. TypeOK'
    BY <2>1, <2>2 DEF IInv, TypeOK
  <2>5. OneOwner' /\ FirstIsAlone'
    BY <2>1, <2>2, <2>3 DEF OneOwner, Exists, FirstIsAlone
  <2>6. \A q \in Procs \ {p} : proc[q].pc = "idle"
    BY <2>1 DEF IInv, FirstIsAlone, At
  <2>7. \A q \in Procs : Fits(proc[q], dir')
    <3>1. Fits(proc[p], dir')
      BY <2>1, <2>2 DEF IInv, Fits, At
    <3>2. ASSUME NEW q \in Procs \ {p} PROVE Fits(proc[q], dir')
      BY <2>6, <3>2 DEF IInv, Fits
    <3> QED BY <3>1, <3>2
  <2>8. (\A q \in Procs : Fits(proc[q], dir))'
    BY <2>1, <2>7 DEF Fits
  <2> QED BY <2>4, <2>5, <2>8 DEF IInv
<1>2. CASE Account(p)
  <2>1. /\ At(p, "account") /\ ~At(p, "idle") /\ dir # Nobody /\ Goto(p, "archive")
        /\ dir' = dir /\ faults' = faults
    BY <1>2 DEF Account, At
  <2>2. proc[p].cmd \in Guarded /\ proc[p].user = dir /\ proc[p].user \in Users
    BY <2>1, Whose DEF At
  <2>3. /\ own' \in [Items -> Users \cup {Nobody}]
        /\ \A i \in Items : own'[i] # Nobody => own'[i] = dir
    BY <1>2, <2>2, OwnKept, OwnGained DEF Account, Items
  <2> QED BY <1>0, <2>1, <2>2, <2>3, GotoFits, Advance
<1>3. CASE Archive(p)
  <2>1. /\ At(p, "archive") /\ ~At(p, "idle") /\ Goto(p, "cert") /\ dir' = dir /\ faults' = faults
    BY <1>3 DEF Archive, At
  <2>2. proc[p].cmd \in Guarded /\ proc[p].user \in Users /\ dir # Nobody
    BY <2>1, Whose DEF At, IInv, Fits
  <2>3. proc[p].user = dir
    BY <2>1, <2>2, Whose DEF At
  <2>4. /\ own' \in [Items -> Users \cup {Nobody}]
        /\ \A i \in Items : own'[i] # Nobody => own'[i] = dir
    BY <1>3, <2>2, <2>3, OwnKept, OwnGained DEF Archive, Items
  <2> QED BY <1>0, <2>1, <2>2, <2>4, GotoFits, Advance
<1>4. ASSUME NEW i \in Items, Write(p, i)
      PROVE  IInv'
  <2>1. /\ At(p, "cert") \/ At(p, "key")
        /\ ~At(p, "idle") /\ ~At(p, "wipe")
        /\ dir' = dir /\ faults' = faults /\ Gains(i, proc[p].user)
        /\ Goto(p, "key") \/ Goto(p, "deliver") \/ End(p, "ok")
    BY <1>4 DEF Write, At
  <2>2. proc[p].cmd \in Guarded /\ proc[p].user \in Users /\ dir # Nobody
    BY <2>1, Whose DEF At, IInv, Fits
  <2>3. proc[p].user = dir
    BY <2>1, <2>2, Whose
  <2>4. /\ own' \in [Items -> Users \cup {Nobody}]
        /\ \A j \in Items : own'[j] # Nobody => own'[j] = dir
    BY <2>1, <2>2, <2>3, OwnGained
  <2> QED BY <1>0, <2>1, <2>2, <2>4, GotoFits, EndFits, Advance
<1>5. CASE Deliver(p)
  <2>1. UNCHANGED <<dir, own, faults>> /\ (End(p, "ok") \/ End(p, "failed"))
    BY <1>5 DEF Deliver
  <2> QED BY <1>0, <2>1, OwnKept, EndFits, Advance
<1>6. CASE Wipe(p)
  <2>1. At(p, "wipe") /\ ~At(p, "idle") /\ dir' = dir /\ faults' = faults
    BY <1>6 DEF Wipe, At
  <2>2. CASE proc[p].idx > Len(Order)
    BY <1>0, <1>6, <2>1, <2>2, OwnKept, EndFits, Advance DEF Wipe
  <2>3. CASE ~(proc[p].idx > Len(Order))
    <3> DEFINE r == [proc[p] EXCEPT !.idx = @ + 1]
    <3>1. proc[p].idx \in 1..4 /\ Len(Order) = 4 /\ Doomed(p) \in Items
      BY <2>3 DEF Order, Doomed, IInv, TypeOK, Items
    <3>2. proc' = [proc EXCEPT ![p] = r] /\ r \in Processes
      BY <1>6, <2>3, <3>1 DEF Wipe, IInv, TypeOK, Processes
    <3>3. /\ r.pc = proc[p].pc /\ r.cmd = proc[p].cmd /\ r.user = proc[p].user
          /\ r.end = proc[p].end
      BY DEF IInv, TypeOK
    <3>4. Fits(r, dir)
      BY <3>3 DEF IInv, Fits
    <3>5. /\ own' \in [Items -> Users \cup {Nobody}]
          /\ \A i \in Items : own'[i] # Nobody => own'[i] = dir
      BY <1>6, <2>3, <3>1, OwnKept, OwnGained DEF Wipe
    <3> QED BY <1>0, <2>1, <3>2, <3>4, <3>5, Advance
  <2> QED BY <2>2, <2>3
<1>7. CASE Denied(p)
  <2>1. ~At(p, "idle") /\ ~Granted(p) /\ End(p, "denied") /\ UNCHANGED <<dir, own, faults>>
    BY <1>7 DEF Denied
  <2>2. proc[p].cmd \notin Guarded
    BY <2>1, AlwaysGranted
  <2> QED BY <1>0, <2>1, <2>2, OwnKept, EndFits, Advance
<1> QED BY <1>1, <1>2, <1>3, <1>4, <1>5, <1>6, <1>7 DEF Step

LEMMA KillIInv ==
  ASSUME IInv, NEW p \in Procs, Kill(p)
  PROVE  IInv'
<1>1. /\ proc' = [proc EXCEPT ![p] = Resting] /\ UNCHANGED <<dir, own>>
      /\ faults < MaxFaults /\ faults' = faults + 1
  BY DEF Kill, Fault
<1>2. faults' \in 0..MaxFaults
  BY <1>1, AccessAssumption DEF IInv, TypeOK
<1>3. Resting \in Processes /\ Fits(Resting, dir) /\ Resting.pc = "idle"
  BY DEF Resting, Processes, Fits
<1> QED BY <1>1, <1>2, <1>3, OwnKept, Advance

LEMMA InstallIInv ==
  ASSUME SetUp, IInv, Install
  PROVE  IInv'
<1>1. dir \in {Nobody, Service} /\ dir' = Service /\ UNCHANGED <<own, proc, faults>>
  BY DEF SetUp, Install
<1>2. Service \in Users /\ Service # Nobody
  <2>1. Service \in Users
    BY DEF Users
  <2> QED BY <2>1, AccessAssumption
<1>3. CASE dir = Service
  <2>1. UNCHANGED vars
    BY <1>1, <1>3 DEF vars
  <2> QED BY <2>1 DEF IInv, TypeOK, OneOwner, Exists, FirstIsAlone, At, Fits, vars
<1>4. CASE dir = Nobody
  <2>1. \A p \in Procs : proc[p].pc = "idle"
    BY <1>4 DEF Install, Alone, SetUp, At
  <2>2. \A i \in Items : own[i] = Nobody
    BY <1>4 DEF IInv, OneOwner, Exists
  <2>3. TypeOK'
    BY <1>1, <1>2 DEF IInv, TypeOK
  <2>4. OneOwner' /\ FirstIsAlone'
    BY <1>1, <1>2, <2>2 DEF OneOwner, Exists, FirstIsAlone
  <2>5. \A p \in Procs : Fits(proc[p], dir')
    BY <2>1 DEF IInv, Fits
  <2>6. (\A p \in Procs : Fits(proc[p], dir))'
    BY <1>1, <2>5 DEF Fits
  <2> QED BY <2>3, <2>4, <2>6 DEF IInv
<1> QED BY <1>1, <1>3, <1>4

LEMMA NextIInv ==
  ASSUME SetUp
  PROVE  IInv /\ [Next]_vars => IInv'
<1> SUFFICES ASSUME IInv, [Next]_vars PROVE IInv'
  OBVIOUS
<1>1. CASE Next
  BY <1>1, StartIInv, StepIInv, KillIInv, InstallIInv DEF Next
<1>2. CASE UNCHANGED vars
  BY <1>2 DEF IInv, TypeOK, OneOwner, Exists, FirstIsAlone, At, Fits, vars
<1> QED BY <1>1, <1>2

LEMMA Invariance ==
  ASSUME SetUp
  PROVE  Spec => []IInv
<1>1. Init => IInv
  BY InitIInv
<1>2. IInv /\ [Next]_vars => IInv'
  BY NextIInv
<1> QED BY <1>1, <1>2, PTL DEF Spec

-----------------------------------------------------------------------------
\* The type invariant.
THEOREM TypeCorrect ==
  ASSUME SetUp
  PROVE  Spec => []TypeOK
<1>1. IInv => TypeOK
  BY DEF IInv
<1> QED BY <1>1, Invariance, PTL

\* All that is in the store belongs to the owner of its directory, whoever runs what
\* and is killed where (storeAccessProblem, issue #2).
THEOREM StoreHasOneOwner ==
  ASSUME SetUp
  PROVE  Spec => []OneOwner
<1>1. IInv => OneOwner
  BY DEF IInv
<1> QED BY <1>1, Invariance, PTL

\* No command the guard let through is stopped by permissions at a later step
\* (storeAccessProblem, issue #3).
THEOREM NeverStranded ==
  ASSUME SetUp
  PROVE  Spec => []NotStranded
<1>1. IInv => NotStranded
  BY DEF IInv, NotStranded, Fits
<1> QED BY <1>1, Invariance, PTL
=============================================================================
