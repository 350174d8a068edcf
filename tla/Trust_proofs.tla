---------------------------- MODULE Trust_proofs ----------------------------
(***************************************************************************)
(* Proofs about the trust store for every set of CAs, naming, foreign      *)
(* anchors and number of faults.                                           *)
(***************************************************************************)
EXTENDS Trust, TLAPS

-----------------------------------------------------------------------------
(* Type correctness.                                                       *)

LEMMA AnchorFacts ==
  /\ \A ca \in CAs : Anchor(ca) \in Files /\ Anchor(ca) \in Managed
  /\ \A f \in DOMAIN Foreign : f \in Files /\ f \notin Managed
  BY TrustAssumption DEF Anchor, Managed

LEMMA InitType == Init => TypeOK
  BY TrustAssumption DEF Init, TypeOK, Command, Outcome, Bundle, Everyone, Idle, Pending

LEMMA BundleType == TypeOK => Bundle \subseteq Everyone
  BY DEF TypeOK, Bundle

\* Install is only ever given a CA.
LEMMA NextType == TypeOK /\ Shape /\ [Next]_vars => TypeOK'
  <1> SUFFICES ASSUME TypeOK, Shape, [Next]_vars PROVE TypeOK'
    OBVIOUS
  <1>0. /\ cmd \in Command /\ ended \in Outcome /\ trusted \subseteq Everyone
        /\ faults \in 0..MaxFaults
        /\ anchors \in [Files -> Everyone \cup {Nothing, Torn}]
    BY DEF TypeOK
  <1>1. ASSUME cmd' \in Command, ended' \in Outcome, trusted' \subseteq Everyone,
               faults' \in 0..MaxFaults,
               anchors' \in [Files -> Everyone \cup {Nothing, Torn}]
        PROVE  TypeOK'
    BY <1>1 DEF TypeOK
  <1>2. Idle \in Command
    BY DEF Idle, Command
  <1>3. ASSUME NEW name, NEW ok \in BOOLEAN, End(name, ok), name = cmd.name
        PROVE  cmd' \in Command /\ ended' \in Outcome
    BY <1>0, <1>2, <1>3 DEF End, Command, Outcome
  <1>4. Fault => faults' \in 0..MaxFaults
    BY <1>0, TrustAssumption DEF Fault
  <1>5. ASSUME NEW ca \in CAs, StartInstall(ca) PROVE TypeOK'
    BY <1>0, <1>1, <1>5 DEF StartInstall, Pending, Command, Outcome
  <1>6. ASSUME NEW name \in {"remove", "destroy"}, StartRemove(name) PROVE TypeOK'
    <2>1. Matches \subseteq Managed
      BY DEF Matches
    <2>2. /\ [name |-> name, ca |-> Nothing, ok |-> TRUE] \in Outcome /\ Pending \in Outcome
          /\ [name |-> name, pc |-> "delete", ca |-> Nothing, todo |-> Matches] \in Command
      BY <2>1 DEF Pending, Command, Outcome
    <2>3. cmd' \in Command /\ ended' \in Outcome
      BY <1>2, <1>6, <2>2 DEF StartRemove
    <2> QED
      BY <1>0, <1>1, <1>6, <2>3 DEF StartRemove
  <1>7. CASE Truncate \/ Fill
    <2>1. cmd' \in Command
      BY <1>0, <1>7 DEF Truncate, Fill, Goto, Command
    <2>2. cmd.ca \in CAs
      BY <1>7 DEF Truncate, Fill, At, Shape
    <2>3. anchors' \in [Files -> Everyone \cup {Nothing, Torn}]
      BY <1>0, <1>7, <2>2 DEF Truncate, Fill, Everyone
    <2> QED
      BY <1>0, <1>1, <1>7, <2>1, <2>3 DEF Truncate, Fill
  <1>8. ASSUME NEW f \in cmd.todo, Delete(f) PROVE TypeOK'
    <2>1. cmd' \in Command
      BY <1>0, <1>8 DEF Delete, Command
    <2>2. anchors' \in [Files -> Everyone \cup {Nothing, Torn}]
      BY <1>0, <1>8 DEF Delete
    <2> QED
      BY <1>0, <1>1, <1>8, <2>1, <2>2 DEF Delete
  <1>9. CASE Update \/ UpdateFails \/ CallFails
    <2>1. trusted' \subseteq Everyone
      BY <1>0, <1>9, BundleType DEF Update, UpdateFails, CallFails
    <2>2. cmd' \in Command /\ ended' \in Outcome
      BY <1>3, <1>9 DEF Update, UpdateFails, CallFails
    <2> QED
      BY <1>0, <1>1, <1>4, <1>9, <2>1, <2>2 DEF Update, UpdateFails, CallFails
  <1>10. CASE Kill \/ SystemUpdate
    BY <1>0, <1>1, <1>2, <1>4, <1>10, BundleType DEF Kill, SystemUpdate
  <1>11. CASE UNCHANGED vars
    BY <1>0, <1>1, <1>11 DEF vars
  <1> QED
    BY <1>5, <1>6, <1>7, <1>8, <1>9, <1>10, <1>11 DEF Next

-----------------------------------------------------------------------------
(* The anchors of other tools, and an install that succeeded.              *)

\* No step touches a foreign anchor, and no bundle lacks one.
LEMMA NextForeign == TypeOK /\ Shape /\ ForeignKept /\ [Next]_vars => ForeignKept'
  <1> SUFFICES ASSUME TypeOK, Shape, ForeignKept, [Next]_vars,
                      NEW f \in DOMAIN Foreign
               PROVE  anchors'[f] = Foreign[f] /\ Foreign[f] \in trusted'
    BY DEF ForeignKept
  <1>0. /\ anchors \in [Files -> Everyone \cup {Nothing, Torn}]
        /\ f \in Files /\ f \notin Managed /\ cmd.todo \subseteq Managed
        /\ anchors[f] = Foreign[f] /\ Foreign[f] \in trusted
    BY AnchorFacts DEF TypeOK, ForeignKept, Command
  <1>1. Foreign[f] \in Bundle
    BY <1>0, TrustAssumption DEF Bundle
  <1>2. CASE Truncate \/ Fill
    <2>1. Anchor(cmd.ca) # f
      BY <1>0, <1>2, AnchorFacts DEF Truncate, Fill, At, Shape
    <2> QED
      BY <1>0, <1>2, <2>1 DEF Truncate, Fill
  <1>3. ASSUME NEW g \in cmd.todo, Delete(g)
        PROVE  anchors'[f] = Foreign[f] /\ Foreign[f] \in trusted'
    BY <1>0, <1>3 DEF Delete
  <1>4. CASE Update \/ SystemUpdate
    BY <1>0, <1>1, <1>4 DEF Update, SystemUpdate
  <1>5. CASE UpdateFails \/ CallFails \/ Kill \/ UNCHANGED vars
    BY <1>0, <1>5 DEF UpdateFails, CallFails, Kill, vars
  <1>6. ASSUME NEW ca \in CAs, StartInstall(ca)
        PROVE  anchors'[f] = Foreign[f] /\ Foreign[f] \in trusted'
    BY <1>0, <1>6 DEF StartInstall
  <1>7. ASSUME NEW name, StartRemove(name)
        PROVE  anchors'[f] = Foreign[f] /\ Foreign[f] \in trusted'
    BY <1>0, <1>7 DEF StartRemove
  <1> QED
    BY <1>2, <1>3, <1>4, <1>5, <1>6, <1>7 DEF Next

\* What the end of a command says and leaves.
LEMMA EndFacts ==
  ASSUME TypeOK, NEW ok, End(cmd.name, ok)
  PROVE  /\ cmd' = Idle
         /\ ended'.name = cmd.name /\ ended'.ca = cmd.ca
         /\ ended'.ok <=> ok \/ cmd.name = "destroy"
  BY DEF End

LEMMA IdleInOrder ==
  ASSUME cmd' = Idle, InstallOkTrusts'
  PROVE  InstallInOrder'
  BY DEF Idle, InstallInOrder, Shape, Written, Told, At

LEMMA InitInOrder == Init => InstallInOrder /\ ForeignKept
  <1> SUFFICES ASSUME Init PROVE InstallInOrder /\ ForeignKept
    OBVIOUS
  <1>1. InstallInOrder
    BY DEF Init, Idle, Pending, InstallInOrder, Shape, Written, Told, InstallOkTrusts, At
  <1>2. ForeignKept
    BY TrustAssumption DEF Init, ForeignKept, Bundle
  <1> QED
    BY <1>1, <1>2

LEMMA NextInOrder == TypeOK /\ InstallInOrder /\ [Next]_vars => InstallInOrder'
  <1> SUFFICES ASSUME TypeOK, InstallInOrder, [Next]_vars PROVE InstallInOrder'
    OBVIOUS
  <1>0. /\ anchors \in [Files -> Everyone \cup {Nothing, Torn}]
        /\ cmd \in Command /\ ended \in Outcome
        /\ Shape /\ Written /\ Told /\ InstallOkTrusts
    BY DEF TypeOK, InstallInOrder
  <1>1. ASSUME NEW ca \in CAs, StartInstall(ca) PROVE InstallInOrder'
    BY <1>1 DEF StartInstall, Pending, InstallInOrder, Shape, Written, Told,
                InstallOkTrusts, At
  <1>2. ASSUME NEW name \in {"remove", "destroy"}, StartRemove(name) PROVE InstallInOrder'
    <2>1. ASSUME ended' = [name |-> name, ca |-> Nothing, ok |-> TRUE] \/ ended' = Pending
          PROVE  InstallOkTrusts'
      BY <2>1 DEF Pending, InstallOkTrusts
    <2>2. CASE cmd' = Idle /\ ended' = [name |-> name, ca |-> Nothing, ok |-> TRUE]
      BY <2>1, <2>2, IdleInOrder
    <2>3. CASE /\ cmd' = [name |-> name, pc |-> "delete", ca |-> Nothing, todo |-> Matches]
               /\ ended' = Pending
      BY <2>1, <2>3 DEF Pending, InstallInOrder, Shape, Written, Told, At
    <2> QED
      BY <1>2, <2>2, <2>3 DEF StartRemove
  <1>3. CASE Truncate \/ Fill
    <2>1. /\ cmd.name = "install" /\ cmd.ca \in CAs /\ Anchor(cmd.ca) \in Files
          /\ ~ended.ok /\ ended' = ended
      BY <1>0, <1>3, AnchorFacts DEF Truncate, Fill, At, Shape, Told
    <2>2. /\ cmd'.name = "install" /\ cmd'.ca = cmd.ca
          /\ \/ cmd'.pc = "fill" /\ anchors'[Anchor(cmd.ca)] = Torn
             \/ cmd'.pc = "update" /\ anchors'[Anchor(cmd.ca)] = cmd.ca
      BY <1>0, <1>3, <2>1 DEF Truncate, Fill, Goto, Command
    <2> QED
      BY <2>1, <2>2 DEF InstallInOrder, Shape, Written, Told, InstallOkTrusts, At
  <1>4. ASSUME NEW f \in cmd.todo, Delete(f) PROVE InstallInOrder'
    <2>1. cmd.name \in {"remove", "destroy"} /\ ~ended.ok /\ ended' = ended
      BY <1>0, <1>4 DEF Delete, At, Shape, Told
    <2>2. cmd'.name = cmd.name /\ cmd'.pc \in {"delete", "update"}
      BY <1>0, <1>4 DEF Delete, At, Command
    <2> QED
      BY <2>1, <2>2 DEF InstallInOrder, Shape, Written, Told, InstallOkTrusts, At
  <1>5. CASE Update
    <2>1. /\ cmd.pc = "update" /\ trusted' = Bundle /\ anchors' = anchors
          /\ End(cmd.name, TRUE)
      BY <1>5 DEF Update, At
    <2>2. cmd' = Idle /\ ended'.name = cmd.name /\ ended'.ca = cmd.ca
      BY <2>1, EndFacts
    <2>3. Bundle' = Bundle
      BY <2>1 DEF Bundle
    <2>4. cmd.name = "install" => anchors[Anchor(cmd.ca)] = cmd.ca /\ cmd.ca \in Bundle
      <3> SUFFICES ASSUME cmd.name = "install"
                   PROVE  anchors[Anchor(cmd.ca)] = cmd.ca /\ cmd.ca \in Bundle
        OBVIOUS
      <3>1. cmd.ca \in CAs /\ anchors[Anchor(cmd.ca)] = cmd.ca
        BY <1>0, <2>1 DEF Shape, Written
      <3> QED
        BY <3>1, AnchorFacts, TrustAssumption DEF Bundle
    <2>5. InstallOkTrusts'
      BY <2>1, <2>2, <2>3, <2>4 DEF InstallOkTrusts, Anchor
    <2> QED
      BY <2>2, <2>5, IdleInOrder
  <1>6. CASE UpdateFails \/ CallFails
    <2>1. End(cmd.name, FALSE)
      BY <1>6 DEF UpdateFails, CallFails
    <2>2. cmd' = Idle /\ (ended'.ok => ended'.name = "destroy")
      BY <2>1, EndFacts
    <2> QED
      BY <2>2, IdleInOrder DEF InstallOkTrusts
  <1>7. CASE Kill
    BY <1>0, <1>7, IdleInOrder DEF Kill, InstallOkTrusts, Told, At
  <1>8. CASE SystemUpdate
    <2>1. UNCHANGED <<anchors, cmd, ended>> /\ trusted' = Bundle
      BY <1>8 DEF SystemUpdate
    <2>2. Bundle' = Bundle
      BY <2>1 DEF Bundle
    <2> QED
      BY <1>0, <2>1, <2>2 DEF InstallInOrder, Shape, Written, Told, InstallOkTrusts, At
  <1>9. CASE UNCHANGED vars
    BY <1>0, <1>9 DEF vars, InstallInOrder, Shape, Written, Told, InstallOkTrusts, At, Bundle
  <1> QED
    BY <1>1, <1>2, <1>3, <1>4, <1>5, <1>6, <1>7, <1>8, <1>9 DEF Next

-----------------------------------------------------------------------------
\* Every variable keeps its type.
THEOREM TypeCorrect == Spec => []TypeOK
  <1>1. Init => TypeOK /\ InstallInOrder
    BY InitType, InitInOrder
  <1>2. TypeOK /\ InstallInOrder /\ [Next]_vars => TypeOK' /\ InstallInOrder'
    BY NextType, NextInOrder DEF InstallInOrder
  <1> QED
    BY <1>1, <1>2, PTL DEF Spec

\* An install that reports success has its CA in the file and in the bundle,
\* whatever failed or was killed before: Install writes the whole file before it
\* runs the update, and its error is the command's.
THEOREM InstallTrusts == Spec => []InstallOkTrusts
  <1>1. TypeOK /\ InstallInOrder /\ [Next]_vars => InstallInOrder'
    BY NextInOrder
  <1>2. Init => InstallInOrder
    BY InitInOrder
  <1>3. InstallInOrder => InstallOkTrusts
    BY DEF InstallInOrder
  <1> QED
    BY <1>1, <1>2, <1>3, TypeCorrect, PTL DEF Spec

\* Neither install nor remove reaches an anchor without the prefix "syscert-",
\* and every bundle has them all.
THEOREM ForeignAnchorsKept == Spec => []ForeignKept
  <1>1. TypeOK /\ InstallInOrder /\ [Next]_vars => InstallInOrder'
    BY NextInOrder
  <1>2. TypeOK /\ InstallInOrder /\ ForeignKept /\ [Next]_vars => ForeignKept'
    BY NextForeign DEF InstallInOrder
  <1>3. Init => InstallInOrder /\ ForeignKept
    BY InitInOrder
  <1> QED
    BY <1>1, <1>2, <1>3, TypeCorrect, PTL DEF Spec
=============================================================================
