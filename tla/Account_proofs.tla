--------------------------- MODULE Account_proofs ---------------------------
(***************************************************************************)
(* Proofs about the ACME account for any number of keys, tokens, faults    *)
(* and runs.                                                               *)
(***************************************************************************)
EXTENDS Account, TLAPS

-----------------------------------------------------------------------------
(* What the steps make of their process, and type correctness.             *)

LEMMA RestingType ==
  /\ Resting \in ProcState
  /\ Resting.pc = "idle" /\ Resting.use = "none" /\ Resting.key = NoKey
  BY DEF Resting, ProcState, Labels, NoKey

LEMMA SetState ==
  ASSUME TypeOK, NEW p \in Procs, NEW r \in ProcState, proc' = [proc EXCEPT ![p] = r]
  PROVE  proc' \in [Procs -> ProcState] /\ proc'[p] = r
  BY DEF TypeOK

LEMMA GotoState ==
  ASSUME TypeOK, NEW p \in Procs, NEW l \in Labels, Goto(p, l)
  PROVE  /\ proc' \in [Procs -> ProcState]
         /\ proc'[p].pc = l /\ proc'[p].use = proc[p].use /\ proc'[p].key = proc[p].key
  <1> DEFINE r == [proc[p] EXCEPT !.pc = l]
  <1>0. proc[p] \in ProcState
    BY DEF TypeOK
  <1>1. r \in ProcState /\ r.pc = l /\ r.use = proc[p].use /\ r.key = proc[p].key
    BY <1>0 DEF ProcState
  <1>2. proc' = [proc EXCEPT ![p] = r]
    BY DEF Goto
  <1> HIDE DEF r
  <1> QED
    BY <1>1, <1>2, SetState

LEMMA KeyState ==
  ASSUME TypeOK, NEW p \in Procs, NEW l \in Labels, NEW k \in Nat,
         proc' = [proc EXCEPT ![p].pc = l, ![p].key = k]
  PROVE  /\ proc' \in [Procs -> ProcState]
         /\ proc'[p].pc = l /\ proc'[p].use = proc[p].use /\ proc'[p].key = k
  <1> DEFINE r == [proc[p] EXCEPT !.pc = l, !.key = k]
  <1>0. proc[p] \in ProcState
    BY DEF TypeOK
  <1>1. r \in ProcState /\ r.pc = l /\ r.use = proc[p].use /\ r.key = k
    BY <1>0 DEF ProcState
  <1>2. proc' = [proc EXCEPT ![p] = r]
    BY <1>0 DEF TypeOK, ProcState
  <1> HIDE DEF r
  <1> QED
    BY <1>1, <1>2, SetState

\* A process that is done or failed holds no key.
LEMMA RestState ==
  ASSUME TypeOK, NEW p \in Procs, Done(p) \/ Fail(p)
  PROVE  /\ proc' \in [Procs -> ProcState]
         /\ proc'[p].pc \in {"idle", "load"} /\ proc'[p].use \in {"none", "obtain"}
  <1> DEFINE x == [pc |-> "load", use |-> "obtain", key |-> NoKey]
  <1>1. x \in ProcState /\ x.pc = "load" /\ x.use = "obtain"
    BY DEF ProcState, Labels, Uses, NoKey
  <1>2. proc' = [proc EXCEPT ![p] = x] \/ proc' = [proc EXCEPT ![p] = Resting]
    BY DEF Done, Fail
  <1> HIDE DEF x
  <1> QED
    BY <1>1, <1>2, RestingType, SetState

LEMMA FaultType == TypeOK /\ (Fault \/ UNCHANGED faults) => faults' \in Nat
  BY DEF TypeOK, Fault

LEMMA InitType == Init => TypeOK
  BY RestingType DEF Init, TypeOK, NoKey

LEMMA StartType ==
  ASSUME TypeOK, NEW p \in Procs, Start(p)
  PROVE  TypeOK'
  <1>1. CASE StartClient(p) \/ StartDestroy(p)
    <2>1. PICK l \in {"load", "certs"}, use \in Uses :
            proc' = [proc EXCEPT ![p] = [pc |-> l, use |-> use, key |-> NoKey]]
      <3>1. CASE StartClient(p)
        BY <3>1, AccountAssumption DEF StartClient
      <3>2. CASE StartDestroy(p)
        BY <3>2, AccountAssumption DEF StartDestroy
      <3> QED
        BY <1>1, <3>1, <3>2
    <2>2. [pc |-> l, use |-> use, key |-> NoKey] \in ProcState
      BY DEF ProcState, Labels, NoKey
    <2>3. proc' \in [Procs -> ProcState]
      BY <2>1, <2>2, SetState
    <2> QED
      BY <1>1, <2>3 DEF StartClient, StartDestroy, TypeOK
  <1>2. CASE StartDryRun(p)
    <2>1. generated' \in Nat
      BY <1>2 DEF StartDryRun, TypeOK
    <2>2. [pc |-> "register", use |-> "dry-run", key |-> generated'] \in ProcState
      BY <2>1 DEF ProcState, Labels, Uses
    <2>3. proc' \in [Procs -> ProcState]
      BY <1>2, <2>2, SetState DEF StartDryRun
    <2> QED
      BY <1>2, <2>1, <2>3 DEF StartDryRun, TypeOK
  <1> QED
    BY <1>1, <1>2 DEF Start

LEMMA KeyFileType ==
  ASSUME TypeOK, NEW p \in Procs,
         LoadKey(p) \/ CreateKey(p) \/ FillKey(p) \/ WriteKeyFails(p)
  PROVE  TypeOK'
  <1>0. proc[p].key \in Nat /\ generated \in Nat
    BY DEF TypeOK, ProcState
  <1>1. CASE LoadKey(p)
    <2>1. proc' \in [Procs -> ProcState] /\ generated' \in Nat
      <3>1. CASE Fail(p) /\ UNCHANGED generated
        BY <1>0, <3>1, RestState
      <3>2. CASE /\ keyFile \in Nat \ {NoKey} /\ UNCHANGED generated
                 /\ proc' = [proc EXCEPT ![p].pc = "resolve", ![p].key = keyFile]
        BY <1>0, <3>2, KeyState DEF Labels
      <3>3. CASE /\ generated' = generated + 1
                 /\ proc' = [proc EXCEPT ![p].pc = "create", ![p].key = generated']
        <4>1. generated' \in Nat
          BY <1>0, <3>3
        <4> QED
          BY <4>1, <3>3, KeyState DEF Labels
      <3> QED
        BY <1>1, <3>1, <3>2, <3>3 DEF LoadKey
    <2> QED
      BY <1>1, <2>1 DEF LoadKey, TypeOK
  <1>2. CASE CreateKey(p)
    <2>1. proc' \in [Procs -> ProcState]
      BY <1>2, GotoState DEF CreateKey, Labels
    <2> QED
      BY <1>2, <2>1 DEF CreateKey, TypeOK
  <1>3. CASE FillKey(p)
    <2>1. proc' \in [Procs -> ProcState]
      BY <1>3, GotoState DEF FillKey, Labels
    <2> QED
      BY <1>0, <1>3, <2>1 DEF FillKey, TypeOK
  <1>4. CASE WriteKeyFails(p)
    <2>1. proc' \in [Procs -> ProcState]
      BY <1>4, RestState DEF WriteKeyFails
    <2> QED
      BY <1>4, <2>1 DEF WriteKeyFails, Fault, TypeOK
  <1> QED
    BY <1>1, <1>2, <1>3, <1>4

LEMMA ClientType ==
  ASSUME TypeOK, NEW p \in Procs,
         Resolve(p) \/ Register(p) \/ RegisterRefused(p) \/ Unreachable(p)
           \/ Use(p) \/ OrderFails(p)
  PROVE  TypeOK'
  <1>0. proc[p].key \in Nat
    BY DEF TypeOK, ProcState
  <1>1. proc' \in [Procs -> ProcState]
    <2>1. Goto(p, "ready") \/ Goto(p, "register") \/ Done(p) \/ Fail(p)
      BY DEF Resolve, Register, RegisterRefused, Unreachable, Use, OrderFails
    <2> QED
      BY <2>1, GotoState, RestState DEF Labels
  <1>2. CASE Resolve(p)
    BY <1>1, <1>2 DEF Resolve, TypeOK
  <1>3. CASE Register(p)
    <2>1. faults' \in Nat /\ tokenBy' \in Nat /\ registered' \in SUBSET Nat
      BY <1>0, <1>3, FaultType DEF Register, TypeOK
    <2> QED
      BY <1>1, <1>3, <2>1 DEF Register, TypeOK
  <1>4. CASE RegisterRefused(p)
    BY <1>0, <1>1, <1>4 DEF RegisterRefused, TypeOK
  <1>5. CASE Unreachable(p) \/ OrderFails(p)
    BY <1>1, <1>5, FaultType DEF Unreachable, OrderFails, TypeOK
  <1>6. CASE Use(p)
    BY <1>0, <1>1, <1>6 DEF Use, TypeOK
  <1> QED
    BY <1>2, <1>3, <1>4, <1>5, <1>6

LEMMA WipeType ==
  ASSUME TypeOK, NEW p \in Procs, WipeCerts(p) \/ WipeAccounts(p) \/ Stop(p)
  PROVE  TypeOK'
  <1>1. proc' \in [Procs -> ProcState]
    BY GotoState, RestState DEF WipeCerts, WipeAccounts, Stop, Labels
  <1>2. NoKey \in Nat
    BY DEF NoKey
  <1>3. CASE WipeCerts(p)
    BY <1>1, <1>2, <1>3 DEF WipeCerts, TypeOK
  <1>4. CASE WipeAccounts(p)
    BY <1>1, <1>2, <1>4 DEF WipeAccounts, TypeOK
  <1>5. CASE Stop(p)
    BY <1>1, <1>5, FaultType DEF Stop, TypeOK
  <1> QED
    BY <1>3, <1>4, <1>5

LEMMA NextType == TypeOK /\ [Next]_vars => TypeOK'
  <1> SUFFICES ASSUME TypeOK, [Next]_vars PROVE TypeOK'
    OBVIOUS
  <1>1. ASSUME NEW p \in Procs, Start(p) \/ Step(p) \/ Stop(p) PROVE TypeOK'
    BY <1>1, StartType, KeyFileType, ClientType, WipeType DEF Step
  <1>2. CASE NewToken
    BY <1>2 DEF NewToken, TypeOK, NoKey
  <1>3. CASE UNCHANGED vars
    BY <1>3 DEF vars, TypeOK
  <1> QED
    BY <1>1, <1>2, <1>3 DEF Next

\* Every variable keeps its type, also when several processes run.
THEOREM TypeCorrect == Spec => []TypeOK
  BY InitType, NextType, PTL DEF Spec

-----------------------------------------------------------------------------
(* With one command at a time no account is lost, whatever is killed.      *)
(* KeysInOrder is the inductive invariant.                                 *)

LEMMA Alone ==
  ASSUME OneSlot, NEW p \in Procs, OwnKey(p)', TokensBuyAccounts', RevocationPossible',
         AccountsAreKept', ReplayHasACause'
  PROVE  KeysInOrder'
  <1>1. ASSUME NEW q \in Procs PROVE OwnKey(q)'
    <2>1. q = p
      BY DEF OneSlot
    <2> QED
      BY <2>1
  <1> QED
    BY <1>1 DEF KeysInOrder

\* A step that leaves the key file, the CA and the store alone.
LEMMA QuietKeys ==
  ASSUME OneSlot, KeysInOrder, NEW p \in Procs, OwnKey(p)',
         UNCHANGED <<keyFile, registered, ephemeral, wiped, tokenBy, replayed, holder>>
  PROVE  KeysInOrder'
  <1>1. (TokensBuyAccounts /\ RevocationPossible /\ AccountsAreKept /\ ReplayHasACause)'
    BY DEF KeysInOrder, TokensBuyAccounts, RevocationPossible, AccountsAreKept,
           ReplayHasACause
  <1> QED
    BY <1>1, Alone

\* A process without a client claims nothing.
LEMMA RestOwn ==
  ASSUME TypeOK, NEW p \in Procs, Done(p) \/ Fail(p)
  PROVE  OwnKey(p)'
  <1>1. proc'[p].pc \in {"idle", "load"} /\ proc'[p].use \in {"none", "obtain"}
    BY RestState
  <1> QED
    BY <1>1 DEF OwnKey

LEMMA InitKeys == Init => KeysInOrder
  <1> SUFFICES ASSUME Init PROVE KeysInOrder
    OBVIOUS
  <1>1. ASSUME NEW p \in Procs PROVE OwnKey(p)
    BY RestingType DEF Init, OwnKey
  <1> QED
    BY <1>1 DEF Init, KeysInOrder, TokensBuyAccounts, RevocationPossible, AccountsAreKept,
                ReplayHasACause

LEMMA StartKeys ==
  ASSUME TypeOK, OneSlot, KeysInOrder, NEW p \in Procs, Start(p)
  PROVE  KeysInOrder'
  <1>1. CASE StartClient(p) \/ StartDestroy(p)
    <2>1. PICK l \in {"load", "certs"}, use \in Uses \ {"dry-run"} :
            proc' = [proc EXCEPT ![p] = [pc |-> l, use |-> use, key |-> NoKey]]
      <3>1. CASE StartClient(p)
        BY <3>1, AccountAssumption DEF StartClient, Uses
      <3>2. CASE StartDestroy(p)
        BY <3>2, AccountAssumption DEF StartDestroy, Uses
      <3> QED
        BY <1>1, <3>1, <3>2
    <2>2. [pc |-> l, use |-> use, key |-> NoKey] \in ProcState
      BY DEF ProcState, Labels, NoKey
    <2>3. proc'[p].pc = l /\ proc'[p].use = use
      BY <2>1, <2>2, SetState
    <2>4. OwnKey(p)'
      BY <2>3 DEF OwnKey
    <2> QED
      BY <1>1, <2>4, QuietKeys DEF StartClient, StartDestroy
  <1>2. CASE StartDryRun(p)
    <2>1. generated' \in Nat /\ generated' # NoKey
      BY <1>2 DEF StartDryRun, TypeOK, NoKey
    <2>2. [pc |-> "register", use |-> "dry-run", key |-> generated'] \in ProcState
      BY <2>1 DEF ProcState, Labels, Uses
    <2>3. /\ proc'[p].pc = "register" /\ proc'[p].use = "dry-run"
          /\ proc'[p].key = generated' /\ ephemeral' = ephemeral \cup {generated'}
      BY <1>2, <2>2, SetState DEF StartDryRun
    <2>4. OwnKey(p)'
      BY <2>1, <2>3 DEF OwnKey
    <2>5. UNCHANGED <<keyFile, registered, wiped, tokenBy, replayed, holder>>
      BY <1>2 DEF StartDryRun
    <2>6. (TokensBuyAccounts /\ RevocationPossible /\ AccountsAreKept /\ ReplayHasACause)'
      BY <2>3, <2>5 DEF KeysInOrder, TokensBuyAccounts, RevocationPossible, AccountsAreKept,
                        ReplayHasACause
    <2> QED
      BY <2>4, <2>6, Alone
  <1> QED
    BY <1>1, <1>2 DEF Start

\* The key is written before anything is known by it.
LEMMA KeyFileKeys ==
  ASSUME TypeOK, OneSlot, KeysInOrder, NEW p \in Procs,
         LoadKey(p) \/ CreateKey(p) \/ FillKey(p) \/ WriteKeyFails(p)
  PROVE  KeysInOrder'
  <1>0. /\ proc[p].key \in Nat /\ generated \in Nat /\ holder \in Nat
        /\ registered \in SUBSET Nat /\ OwnKey(p) /\ NoKey \notin registered
        /\ RevocationPossible /\ AccountsAreKept /\ ReplayHasACause /\ TokensBuyAccounts
    BY DEF TypeOK, ProcState, KeysInOrder, TokensBuyAccounts
  <1>1. CASE LoadKey(p)
    <2>1. /\ proc[p].pc = "load" /\ proc[p].use # "dry-run"
          /\ UNCHANGED <<keyFile, registered, ephemeral, wiped, tokenBy, replayed, holder>>
      BY <1>0, <1>1 DEF LoadKey, At, OwnKey
    <2>2. OwnKey(p)'
      <3>1. CASE Fail(p)
        BY <3>1, RestOwn
      <3>2. CASE /\ keyFile \in Nat \ {NoKey}
                 /\ proc' = [proc EXCEPT ![p].pc = "resolve", ![p].key = keyFile]
        <4>1. /\ proc'[p].pc = "resolve" /\ proc'[p].use = proc[p].use
              /\ proc'[p].key = keyFile
          BY <3>2, KeyState DEF Labels
        <4> QED
          BY <2>1, <3>2, <4>1 DEF OwnKey
      <3>3. CASE /\ keyFile = NoKey /\ generated' = generated + 1
                 /\ proc' = [proc EXCEPT ![p].pc = "create", ![p].key = generated']
        <4>1. generated' \in Nat /\ generated' # NoKey
          BY <1>0, <3>3 DEF NoKey
        <4>2. /\ proc'[p].pc = "create" /\ proc'[p].use = proc[p].use
              /\ proc'[p].key = generated'
          BY <3>3, <4>1, KeyState DEF Labels
        <4> QED
          BY <2>1, <3>3, <4>1, <4>2 DEF OwnKey
      <3> QED
        BY <1>1, <3>1, <3>2, <3>3 DEF LoadKey
    <2> QED
      BY <2>1, <2>2, QuietKeys
  <1>2. CASE CreateKey(p) \/ FillKey(p)
    <2>1. /\ UNCHANGED <<registered, ephemeral, wiped, tokenBy, replayed, holder>>
          /\ keyFile \in {NoKey, Torn} /\ proc[p].use # "dry-run" /\ proc[p].key # NoKey
      BY <1>0, <1>2 DEF CreateKey, FillKey, At, OwnKey
    <2>2. holder = NoKey /\ registered \ (wiped \cup ephemeral) = {}
      BY <1>0, <2>1 DEF RevocationPossible, AccountsAreKept, Torn, NoKey
    <2>3. (TokensBuyAccounts /\ RevocationPossible /\ AccountsAreKept /\ ReplayHasACause)'
      BY <1>0, <2>1, <2>2 DEF TokensBuyAccounts, RevocationPossible, AccountsAreKept,
                              ReplayHasACause
    <2>4. CASE CreateKey(p)
      <3>1. /\ proc'[p].pc = "fill" /\ proc'[p].use = proc[p].use
            /\ proc'[p].key = proc[p].key /\ keyFile' = Torn
        BY <2>4, GotoState DEF CreateKey, Labels
      <3>2. OwnKey(p)'
        BY <2>1, <3>1 DEF OwnKey
      <3> QED
        BY <2>3, <3>2, Alone
    <2>5. CASE FillKey(p)
      <3>1. /\ proc'[p].pc = "register" /\ proc'[p].use = proc[p].use
            /\ proc'[p].key = proc[p].key /\ keyFile' = proc[p].key
        BY <2>5, GotoState DEF FillKey, Labels
      <3>2. OwnKey(p)'
        BY <2>1, <3>1 DEF OwnKey
      <3> QED
        BY <2>3, <3>2, Alone
    <2> QED
      BY <1>2, <2>4, <2>5
  <1>3. CASE WriteKeyFails(p)
    BY <1>3, RestOwn, QuietKeys DEF WriteKeyFails
  <1> QED
    BY <1>1, <1>2, <1>3

\* A client's key is the one on disk, or a dry-run's.
LEMMA ClientKeys ==
  ASSUME TypeOK, OneSlot, KeysInOrder, NEW p \in Procs,
         Resolve(p) \/ Register(p) \/ RegisterRefused(p) \/ Unreachable(p)
           \/ Use(p) \/ OrderFails(p)
  PROVE  KeysInOrder'
  <1> DEFINE key == proc[p].key
  <1>0. /\ key \in Nat /\ OwnKey(p)
        /\ RevocationPossible /\ AccountsAreKept /\ ReplayHasACause /\ TokensBuyAccounts
    BY DEF TypeOK, ProcState, KeysInOrder
  <1>1. CASE Resolve(p)
    <2>1. PICK l \in {"ready", "register"} : Goto(p, l)
      BY <1>1 DEF Resolve
    <2>2. proc'[p].pc = l /\ proc'[p].use = proc[p].use /\ proc'[p].key = key
      BY <2>1, GotoState DEF Labels
    <2>3. OwnKey(p)'
      BY <1>0, <1>1, <2>2 DEF OwnKey, Resolve, At
    <2> QED
      BY <1>1, <2>3, QuietKeys DEF Resolve
  <1>2. CASE Register(p)
    <2>1. /\ UNCHANGED <<keyFile, ephemeral, wiped, replayed, holder>>
          /\ registered' = registered \cup {key}
          /\ tokenBy' \in {key, tokenBy}
          /\ proc[p].pc = "register"
      BY <1>2 DEF Register, At
    <2>2. key # NoKey /\ (key \in ephemeral \/ key = keyFile)
      BY <1>0, <2>1 DEF OwnKey
    <2>3. (TokensBuyAccounts /\ RevocationPossible /\ AccountsAreKept /\ ReplayHasACause)'
      BY <1>0, <2>1, <2>2 DEF TokensBuyAccounts, RevocationPossible, AccountsAreKept,
                              ReplayHasACause
    <2>4. CASE Goto(p, "ready")
      <3>1. proc'[p].pc = "ready" /\ proc'[p].use = proc[p].use /\ proc'[p].key = key
        BY <2>4, GotoState DEF Labels
      <3>2. OwnKey(p)'
        BY <1>0, <2>1, <3>1 DEF OwnKey
      <3> QED
        BY <2>3, <3>2, Alone
    <2>5. CASE Fail(p)
      BY <2>3, <2>5, RestOwn, Alone
    <2> QED
      BY <1>2, <2>4, <2>5 DEF Register
  <1>3. CASE RegisterRefused(p)
    <2>1. /\ UNCHANGED <<keyFile, registered, ephemeral, wiped, tokenBy, holder>>
          /\ replayed' = replayed \cup {[by |-> key, spent |-> tokenBy]}
          /\ proc[p].pc = "register" /\ tokenBy # NoKey /\ key \notin registered
          /\ Fail(p)
      BY <1>3 DEF RegisterRefused, At
    <2>2. key \in ephemeral \/ key = keyFile
      BY <1>0, <2>1 DEF OwnKey
    <2>3. key \in ephemeral \/ tokenBy \in ephemeral \cup wiped
      BY <1>0, <2>1, <2>2 DEF TokensBuyAccounts, AccountsAreKept
    <2>4. ReplayHasACause'
      BY <1>0, <2>1, <2>3 DEF ReplayHasACause
    <2>5. (TokensBuyAccounts /\ RevocationPossible /\ AccountsAreKept)'
      BY <1>0, <2>1 DEF TokensBuyAccounts, RevocationPossible, AccountsAreKept
    <2> QED
      BY <2>1, <2>4, <2>5, RestOwn, Alone
  <1>4. CASE Unreachable(p) \/ OrderFails(p)
    BY <1>4, RestOwn, QuietKeys DEF Unreachable, OrderFails
  <1>5. CASE Use(p)
    <2>1. /\ UNCHANGED <<keyFile, registered, ephemeral, wiped, tokenBy, replayed>>
          /\ proc[p].pc = "ready"
          /\ holder' = holder \/ (holder' = key /\ proc[p].use = "obtain")
      BY <1>5 DEF Use, At
    <2>2. RevocationPossible'
      BY <1>0, <1>5, <2>1 DEF RevocationPossible, OwnKey, Use, At
    <2>3. (TokensBuyAccounts /\ AccountsAreKept /\ ReplayHasACause)'
      BY <1>0, <1>5 DEF TokensBuyAccounts, AccountsAreKept, ReplayHasACause, Use
    <2>4. OwnKey(p)'
      BY <1>5, RestOwn DEF Use
    <2> QED
      BY <2>2, <2>3, <2>4, Alone
  <1> QED
    BY <1>1, <1>2, <1>3, <1>4, <1>5

\* The certificates go before the account that can revoke them.
LEMMA WipeKeys ==
  ASSUME TypeOK, OneSlot, KeysInOrder, NEW p \in Procs,
         WipeCerts(p) \/ WipeAccounts(p) \/ Stop(p)
  PROVE  KeysInOrder'
  <1>0. /\ OwnKey(p) /\ registered \in SUBSET Nat
        /\ RevocationPossible /\ AccountsAreKept /\ ReplayHasACause /\ TokensBuyAccounts
    BY DEF TypeOK, KeysInOrder
  <1>1. CASE WipeCerts(p)
    <2>1. /\ UNCHANGED <<keyFile, registered, ephemeral, wiped, tokenBy, replayed>>
          /\ holder' = NoKey
      BY <1>1 DEF WipeCerts
    <2>2. (TokensBuyAccounts /\ RevocationPossible /\ AccountsAreKept /\ ReplayHasACause)'
      BY <1>0, <2>1 DEF TokensBuyAccounts, RevocationPossible, AccountsAreKept,
                        ReplayHasACause
    <2>3. OwnKey(p)'
      <3>1. CASE proc[p].use = "destroy" /\ Goto(p, "accounts")
        <4>1. proc'[p].pc = "accounts" /\ proc'[p].use = "destroy"
          BY <3>1, GotoState DEF Labels
        <4> QED
          BY <2>1, <4>1 DEF OwnKey
      <3> QED
        BY <1>1, <3>1, RestOwn DEF WipeCerts
    <2> QED
      BY <2>2, <2>3, Alone
  <1>2. CASE WipeAccounts(p)
    <2>1. /\ UNCHANGED <<registered, ephemeral, tokenBy, replayed, holder>>
          /\ keyFile' = NoKey /\ wiped' = wiped \cup ({keyFile} \cap Nat)
          /\ proc[p].pc = "accounts" /\ Done(p)
      BY <1>2 DEF WipeAccounts, At
    <2>2. holder = NoKey
      BY <1>0, <2>1 DEF OwnKey
    <2>3. AccountsAreKept'
      BY <1>0, <2>1 DEF AccountsAreKept
    <2>4. (TokensBuyAccounts /\ RevocationPossible /\ ReplayHasACause)'
      BY <1>0, <2>1, <2>2 DEF TokensBuyAccounts, RevocationPossible, ReplayHasACause
    <2> QED
      BY <2>1, <2>3, <2>4, RestOwn, Alone
  <1>3. CASE Stop(p)
    BY <1>3, RestOwn, QuietKeys DEF Stop
  <1> QED
    BY <1>1, <1>2, <1>3

LEMMA NextKeys ==
  ASSUME OneSlot
  PROVE  TypeOK /\ KeysInOrder /\ [Next]_vars => KeysInOrder'
  <1> SUFFICES ASSUME TypeOK, KeysInOrder, [Next]_vars PROVE KeysInOrder'
    OBVIOUS
  <1>1. ASSUME NEW p \in Procs, Start(p) \/ Step(p) \/ Stop(p) PROVE KeysInOrder'
    BY <1>1, StartKeys, KeyFileKeys, ClientKeys, WipeKeys DEF Step
  <1>2. CASE NewToken \/ UNCHANGED vars
    <2>1. /\ UNCHANGED <<keyFile, registered, ephemeral, wiped, replayed, holder, proc>>
          /\ tokenBy' \in {tokenBy, NoKey}
      BY <1>2 DEF NewToken, vars
    <2> QED
      BY <2>1 DEF KeysInOrder, OwnKey, TokensBuyAccounts, RevocationPossible,
                  AccountsAreKept, ReplayHasACause
  <1> QED
    BY <1>1, <1>2 DEF Next

-----------------------------------------------------------------------------
\* Whatever is killed, refused or torn, a key is on disk before the CA knows it
\* and stays there: the inductive invariant.
THEOREM KeysStayInOrder == ASSUME OneSlot PROVE Spec => []KeysInOrder
  <1>1. TypeOK /\ KeysInOrder /\ [Next]_vars => KeysInOrder'
    BY NextKeys
  <1> QED
    BY <1>1, InitKeys, TypeCorrect, PTL DEF Spec

\* The key of the stored certificate's account is on disk: void can revoke it.
THEOREM CertStaysRevocable == ASSUME OneSlot PROVE Spec => []RevocationPossible
  <1>1. KeysInOrder => RevocationPossible
    BY DEF KeysInOrder
  <1> QED
    BY <1>1, KeysStayInOrder, PTL

\* No account but a dry-run's or a destroyed one is without its key.
THEOREM NoAccountLost == ASSUME OneSlot PROVE Spec => []AccountsAreKept
  <1>1. KeysInOrder => AccountsAreKept
    BY DEF KeysInOrder
  <1> QED
    BY <1>1, KeysStayInOrder, PTL

\* A spent EAB token is presented again only for a dry-run or after a destroy.
THEOREM ReplaysAreCaused == ASSUME OneSlot PROVE Spec => []ReplayHasACause
  <1>1. KeysInOrder => ReplayHasACause
    BY DEF KeysInOrder
  <1> QED
    BY <1>1, KeysStayInOrder, PTL
=============================================================================
