------------------------------ MODULE Account ------------------------------
(***************************************************************************)
(* The ACME account of one CA directory: account.go keeps its key under    *)
(* accounts/<hash of the directory URL>/, lego.go registers the key once   *)
(* and resolves it from then on.  Every command that talks to the CA       *)
(* builds a client first (newClientAndAccount), so the account's steps are *)
(* those of its processes; what happens between a ready client and the     *)
(* stored certificate is SysCert's matter and one step here.               *)
(*                                                                         *)
(* A key is a number, counted as keys are generated.                       *)
(***************************************************************************)
EXTENDS Integers, FiniteSets

CONSTANTS
  Procs,        \* slots in which a syscert process may run
  May,          \* the uses each slot is put to
  EAB,          \* acme.eab.kid is set
  MaxKeys,      \* bound: no command that may need a key starts after this many
  MaxTokens,    \* bound: EAB tokens the operator asks for
  MaxFaults     \* bound: crashes, failed writes and lost answers

Uses == {"obtain", "void", "dry-run", "destroy", "destroy --keep-account"}

ASSUME AccountAssumption ==
  /\ May \in [Procs -> SUBSET Uses]
  /\ EAB \in BOOLEAN
  /\ MaxKeys \in Nat /\ MaxTokens \in Nat /\ MaxFaults \in Nat

NoKey == 0     \* no account.key; no account
Torn  == -1    \* an account.key that is not PEM

VARIABLES
  keyFile,      \* what account.key holds
  generated,    \* keys 1..generated were generated
  registered,   \* the CA: keys with an account
  ephemeral,    \* keys of dry-runs
  wiped,        \* keys destroy removed
  tokenBy,      \* the key that spent the configured EAB token, or NoKey
  tokens,       \* EAB tokens handed out so far
  replayed,     \* [by, spent]: key `by` presented the token key `spent` had spent
  holder,       \* the account that ordered the stored certificate, or NoKey
  faults,
  proc

vars == <<keyFile, generated, registered, ephemeral, wiped, tokenBy, tokens,
          replayed, holder, faults, proc>>

Labels == {"idle", "load", "create", "fill", "resolve", "register", "ready", "certs",
           "accounts"}

ProcState == [pc : Labels, use : Uses \cup {"none"}, key : Nat]

Resting == [pc |-> "idle", use |-> "none", key |-> NoKey]

TypeOK ==
  /\ keyFile \in Nat \cup {Torn}
  /\ generated \in Nat
  /\ registered \in SUBSET Nat /\ ephemeral \in SUBSET Nat /\ wiped \in SUBSET Nat
  /\ tokenBy \in Nat /\ tokens \in Nat /\ replayed \in SUBSET [by : Nat, spent : Nat]
  /\ holder \in Nat
  /\ faults \in Nat
  /\ proc \in [Procs -> ProcState]

-----------------------------------------------------------------------------
At(p, label) == proc[p].pc = label

Goto(p, label) == proc' = [proc EXCEPT ![p].pc = label]

Done(p) == proc' = [proc EXCEPT ![p] = Resting]

\* The client could not be built or used.  A void goes on to reissue, with a
\* client of its own; the other commands return.
Fail(p) ==
  proc' = [proc EXCEPT ![p] =
             IF proc[p].use = "void"
             THEN [pc |-> "load", use |-> "obtain", key |-> NoKey]
             ELSE Resting]

Fault == faults < MaxFaults /\ faults' = faults + 1

Init ==
  /\ keyFile = NoKey /\ generated = 0
  /\ registered = {} /\ ephemeral = {} /\ wiped = {}
  /\ tokenBy = NoKey /\ tokens = 1 /\ replayed = {}
  /\ holder = NoKey
  /\ faults = 0
  /\ proc = [p \in Procs |-> Resting]

\* issue, renew, ensure and void build a client on the account directory; void
\* has a certificate to revoke.
StartClient(p) ==
  /\ At(p, "idle") /\ generated < MaxKeys
  /\ \E use \in May[p] \cap {"obtain", "void"} :
       /\ use = "void" => holder # NoKey
       /\ proc' = [proc EXCEPT ![p] = [pc |-> "load", use |-> use, key |-> NoKey]]
  /\ UNCHANGED <<keyFile, generated, registered, ephemeral, wiped, tokenBy, tokens,
                 replayed, holder, faults>>

\* A dry-run has no account directory: accountSigner generates a key for it.
StartDryRun(p) ==
  /\ At(p, "idle") /\ generated < MaxKeys /\ "dry-run" \in May[p]
  /\ generated' = generated + 1
  /\ ephemeral' = ephemeral \cup {generated'}
  /\ proc' = [proc EXCEPT ![p] = [pc |-> "register", use |-> "dry-run", key |-> generated']]
  /\ UNCHANGED <<keyFile, registered, wiped, tokenBy, tokens, replayed, holder, faults>>

\* destroy, once it is confirmed: --keep-account selects what is removed.
StartDestroy(p) ==
  /\ At(p, "idle")
  /\ \E use \in May[p] \cap {"destroy", "destroy --keep-account"} :
       proc' = [proc EXCEPT ![p] = [pc |-> "certs", use |-> use, key |-> NoKey]]
  /\ UNCHANGED <<keyFile, generated, registered, ephemeral, wiped, tokenBy, tokens,
                 replayed, holder, faults>>

Start(p) == StartClient(p) \/ StartDryRun(p) \/ StartDestroy(p)

-----------------------------------------------------------------------------
(* accountKey.                                                             *)

\* Mutant: the new key is registered before it is written.
LoadKey_RegisterFirst(p) ==
  /\ At(p, "load")
  /\ \/ keyFile = Torn /\ Fail(p) /\ UNCHANGED generated
     \/ /\ keyFile \in Nat \ {NoKey}
        /\ proc' = [proc EXCEPT ![p].pc = "resolve", ![p].key = keyFile]
        /\ UNCHANGED generated
     \/ /\ keyFile = NoKey
        /\ generated' = generated + 1
        /\ proc' = [proc EXCEPT ![p].pc = "register", ![p].key = generated']
  /\ UNCHANGED <<keyFile, registered, ephemeral, wiped, tokenBy, tokens, replayed,
                 holder, faults>>

LoadKey(p) ==
  /\ At(p, "load")
  /\ \/ keyFile = Torn /\ Fail(p) /\ UNCHANGED generated
     \/ /\ keyFile \in Nat \ {NoKey}
        /\ proc' = [proc EXCEPT ![p].pc = "resolve", ![p].key = keyFile]
        /\ UNCHANGED generated
     \/ /\ keyFile = NoKey
        /\ generated' = generated + 1
        /\ proc' = [proc EXCEPT ![p].pc = "create", ![p].key = generated']
  /\ UNCHANGED <<keyFile, registered, ephemeral, wiped, tokenBy, tokens, replayed,
                 holder, faults>>

\* os.WriteFile: the file is created, or cut to nothing, and then filled.
CreateKey(p) ==
  /\ At(p, "create")
  /\ keyFile' = Torn
  /\ Goto(p, "fill")
  /\ UNCHANGED <<generated, registered, ephemeral, wiped, tokenBy, tokens, replayed,
                 holder, faults>>

FillKey(p) ==
  /\ At(p, "fill")
  /\ keyFile' = proc[p].key
  /\ Goto(p, "register")
  /\ UNCHANGED <<generated, registered, ephemeral, wiped, tokenBy, tokens, replayed,
                 holder, faults>>

\* The file cannot be created, or cannot be filled and stays as it is.
WriteKeyFails(p) ==
  /\ proc[p].pc \in {"create", "fill"}
  /\ Fault
  /\ Fail(p)
  /\ UNCHANGED <<keyFile, generated, registered, ephemeral, wiped, tokenBy, tokens,
                 replayed, holder>>

-----------------------------------------------------------------------------
(* newClientAndAccount.                                                    *)

\* Mutant: a key found on disk is taken to be registered.
Resolve_NoFallback(p) ==
  /\ At(p, "resolve")
  /\ IF proc[p].key \in registered THEN Goto(p, "ready") ELSE Fail(p)
  /\ UNCHANGED <<keyFile, generated, registered, ephemeral, wiped, tokenBy, tokens,
                 replayed, holder, faults>>

\* Mutant: the account is registered again on every run.
Resolve_AlwaysRegister(p) ==
  /\ At(p, "resolve")
  /\ proc' = [proc EXCEPT ![p].pc = "register", ![p].key = generated + 1]
  /\ generated' = generated + 1
  /\ UNCHANGED <<keyFile, registered, ephemeral, wiped, tokenBy, tokens, replayed,
                 holder, faults>>

\* A key on disk is resolved; the CA's accountDoesNotExist leads to registration.
Resolve(p) ==
  /\ At(p, "resolve")
  /\ Goto(p, IF proc[p].key \in registered THEN "ready" ELSE "register")
  /\ UNCHANGED <<keyFile, generated, registered, ephemeral, wiped, tokenBy, tokens,
                 replayed, holder, faults>>

\* The CA's newAccount: a key it knows gets its account back; with EAB a new
\* one spends the token.
Register(p) ==
  LET key == proc[p].key IN
  /\ At(p, "register")
  /\ key \in registered \/ ~EAB \/ tokenBy = NoKey
  /\ registered' = registered \cup {key}
  /\ tokenBy' = IF EAB /\ key \notin registered THEN key ELSE tokenBy
  /\ \/ Goto(p, "ready") /\ UNCHANGED faults
     \/ Fail(p) /\ Fault               \* the answer is lost
  /\ UNCHANGED <<keyFile, generated, ephemeral, wiped, tokens, replayed, holder>>

\* A spent token is refused.
RegisterRefused(p) ==
  /\ At(p, "register")
  /\ EAB /\ tokenBy # NoKey /\ proc[p].key \notin registered
  /\ replayed' = replayed \cup {[by |-> proc[p].key, spent |-> tokenBy]}
  /\ Fail(p)
  /\ UNCHANGED <<keyFile, generated, registered, ephemeral, wiped, tokenBy, tokens,
                 holder, faults>>

\* The CA cannot be reached, or answers with another error.
Unreachable(p) ==
  /\ proc[p].pc \in {"resolve", "register"}
  /\ Fault
  /\ Fail(p)
  /\ UNCHANGED <<keyFile, generated, registered, ephemeral, wiped, tokenBy, tokens,
                 replayed, holder>>

\* With a client: an order that succeeds stores a certificate of the account
\* (a dry-run's is thrown away); a void's revocation is followed by a reissue.
Use(p) ==
  /\ At(p, "ready")
  /\ \/ proc[p].use = "obtain" /\ holder' = proc[p].key /\ Done(p)
     \/ proc[p].use # "obtain" /\ Fail(p) /\ UNCHANGED holder
  /\ UNCHANGED <<keyFile, generated, registered, ephemeral, wiped, tokenBy, tokens,
                 replayed, faults>>

OrderFails(p) ==
  /\ At(p, "ready")
  /\ Fault
  /\ Fail(p)
  /\ UNCHANGED <<keyFile, generated, registered, ephemeral, wiped, tokenBy, tokens,
                 replayed, holder>>

-----------------------------------------------------------------------------
(* destroy.                                                                *)

\* Mutant: Wipe removes accounts/ before the certificates.
WipeCerts_AccountsFirst(p) ==
  /\ At(p, "certs")
  /\ keyFile' = IF proc[p].use = "destroy" THEN NoKey ELSE keyFile
  /\ wiped' = IF proc[p].use = "destroy" THEN wiped \cup ({keyFile} \cap Nat) ELSE wiped
  /\ Goto(p, "accounts")
  /\ UNCHANGED <<generated, registered, ephemeral, tokenBy, tokens, replayed, holder, faults>>

\* Certificates first; with --keep-account nothing else.
WipeCerts(p) ==
  /\ At(p, "certs")
  /\ holder' = NoKey
  /\ IF proc[p].use = "destroy" THEN Goto(p, "accounts") ELSE Done(p)
  /\ UNCHANGED <<keyFile, generated, registered, ephemeral, wiped, tokenBy, tokens,
                 replayed, faults>>

WipeAccounts(p) ==
  /\ At(p, "accounts")
  /\ keyFile' = NoKey
  /\ wiped' = wiped \cup ({keyFile} \cap Nat)
  /\ Done(p)
  /\ UNCHANGED <<generated, registered, ephemeral, tokenBy, tokens, replayed, holder,
                 faults>>

-----------------------------------------------------------------------------
\* The process is killed, or its removal of files fails.
Stop(p) ==
  /\ ~At(p, "idle")
  /\ Fault
  /\ Done(p)
  /\ UNCHANGED <<keyFile, generated, registered, ephemeral, wiped, tokenBy, tokens,
                 replayed, holder>>

\* The operator puts a fresh EAB token into the secrets file.
NewToken ==
  /\ EAB /\ tokenBy # NoKey /\ tokens < MaxTokens
  /\ tokenBy' = NoKey /\ tokens' = tokens + 1
  /\ UNCHANGED <<keyFile, generated, registered, ephemeral, wiped, replayed, holder,
                 faults, proc>>

Step(p) ==
  \/ LoadKey(p) \/ CreateKey(p) \/ FillKey(p) \/ WriteKeyFails(p)
  \/ Resolve(p) \/ Register(p) \/ RegisterRefused(p) \/ Unreachable(p)
  \/ Use(p) \/ OrderFails(p)
  \/ WipeCerts(p) \/ WipeAccounts(p)

Next ==
  \/ \E p \in Procs : Start(p) \/ Step(p) \/ Stop(p)
  \/ NewToken

Spec == Init /\ [][Next]_vars

-----------------------------------------------------------------------------
(* What the account is for.                                                *)

\* The stored certificate belongs to the account whose key is on disk: "which
\* is what makes revocation possible" (account.go).  Wipe's order matters when
\* it is cut short.
RevocationPossible == holder # NoKey => keyFile = holder

\* No account is lost: the key of every account ever registered is the one on
\* disk, unless destroy removed it or a dry-run threw it away.  The key is
\* written before it is registered, so a crash or a lost answer costs no token.
AccountsAreKept == registered \ (wiped \cup ephemeral) \subseteq {keyFile}

\* A single-use token is presented again only by a dry-run, after a dry-run
\* spent it, or after destroy removed the account it paid for.
ReplayHasACause ==
  \A r \in replayed : r.by \in ephemeral \/ r.spent \in ephemeral \cup wiped

-----------------------------------------------------------------------------
(* Why no account is lost, when one command runs at a time: the inductive  *)
(* invariant of the proofs.                                                *)

\* One command runs at a time.
OneSlot == \A p, q \in Procs : p = q

\* What a process that builds or uses a client knows of its key.
OwnKey(p) ==
  LET r == proc[p] IN
  /\ r.pc \in {"create", "fill", "resolve", "register", "ready"} => r.key # NoKey
  /\ r.pc = "create" => keyFile = NoKey
  /\ r.pc = "fill" => keyFile = Torn
  /\ r.use = "dry-run" => r.pc \in {"register", "ready"} /\ r.key \in ephemeral
  /\ r.pc \in {"resolve", "register", "ready"} /\ r.use # "dry-run" => r.key = keyFile
  /\ r.pc = "accounts" => holder = NoKey

\* A token was spent by an account that exists, and NoKey is none.
TokensBuyAccounts == NoKey \notin registered /\ tokenBy \in registered \cup {NoKey}

KeysInOrder ==
  /\ \A p \in Procs : OwnKey(p)
  /\ TokensBuyAccounts
  /\ RevocationPossible /\ AccountsAreKept /\ ReplayHasACause

-----------------------------------------------------------------------------
\* The timer starts one run after another, and a run that is not killed goes on: a
\* CA that never answers is given up, for want of a ca_bundle (see Interval).
Fairness == \A p \in Procs : WF_vars(Start(p)) /\ WF_vars(Step(p))

FairSpec == Spec /\ Fairness

\* A host that only obtains gets its certificate with the one token it has,
\* whatever its runs are killed or refused at, unless its key file was torn: then
\* every later command fails.
EventuallyServed ==
  [](\A p \in Procs : proc[p].use \in {"none", "obtain"})
    => <>(holder # NoKey) \/ <>[](keyFile = Torn)

\* "a single-use EAB token is validated only on first registration and never
\* replayed" (lego.go).  Two first runs at once have a first registration each.
TokenNeverReplayed == replayed = {}
=============================================================================
