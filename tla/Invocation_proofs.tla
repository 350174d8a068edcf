-------------------------- MODULE Invocation_proofs --------------------------
(***************************************************************************)
(* What was checked is what is worked with: for all configurations, edits, *)
(* environments and env files, the addresses of an order are legal, a      *)
(* cycle is not refused for what the rules of validation look at, and the  *)
(* key is not left readable.                                               *)
(***************************************************************************)
EXTENDS Invocation, WellFoundedInduction, TLAPS

\* No problem, part by part.
LEMMA NoProblem ==
  ASSUME NEW c, Vetted(c)
  PROVE  /\ CAProblems(c) = {} /\ StoreProblems(c) = {} /\ ChallengeProblems(c) = {}
         /\ IPProblems(c) = {} /\ TargetProblems(c) = {}
  BY DEF Vetted, Problems

\* A checked configuration names a CA, a directory, a key type and a challenge.
LEMMA VettedChoices ==
  ASSUME NEW c, Vetted(c)
  PROVE  /\ \A staging \in BOOLEAN : DirectoryURL(c, staging) # Unset
         /\ c.keyType \in ValidKeyTypes
         /\ EffectiveChallenge(c) \in ValidChallenges
         /\ c.ca \in ValidCAs
<1>1. /\ c.ca \in ValidCAs
      /\ IsInternalCA(c.ca) => c.url # Unset
  BY NoProblem DEF CAProblems, If
<1>2. \A staging \in BOOLEAN : DirectoryURL(c, staging) # Unset
  BY <1>1 DEF DirectoryURL, Default, IsInternalCA, IsPublicCA, ValidCAs, Unset
<1>3. c.keyType \in ValidKeyTypes /\ c.challenge \in ValidChallenges
  BY NoProblem DEF ChallengeProblems, If
<1>4. EffectiveChallenge(c) \in ValidChallenges
  BY <1>3 DEF EffectiveChallenge, ValidChallenges
<1> QED BY <1>1, <1>2, <1>3, <1>4

\* What a checked configuration has in ip_sans may be ordered the way it is ordered.
LEMMA VettedAddresses ==
  ASSUME NEW c, Vetted(c)
  PROVE  /\ EffectiveChallenge(c) = "dns-01" => c.ips = {}
         /\ c.ips \subseteq Addresses
         /\ IsPublicCA(c.ca) => c.ips \subseteq {"public"}
<1>1. EffectiveChallenge(c) = "dns-01" => c.ips = {}
  BY DEF EffectiveChallenge
<1>2. \A ip \in c.ips : ip \in Addresses /\ (IsPublicCA(c.ca) => ip # "private")
  BY NoProblem DEF IPProblems, If
<1>3. c.ips \subseteq Addresses /\ (IsPublicCA(c.ca) => c.ips \subseteq {"public"})
  BY <1>2 DEF Addresses
<1> QED BY <1>1, <1>3

\* No target of a checked configuration makes a key readable, with the mode it gives or
\* with the default.
LEMMA VettedTargets ==
  ASSUME NEW c, Vetted(c), NEW t \in c.target
  PROVE  /\ t.artifact \in ValidArtifacts
         /\ t.artifact \in KeyBearing => ~WorldReadable(TargetMode(t))
<1>1. /\ t.artifact \in ValidArtifacts
      /\ ~(t.artifact \in KeyBearing /\ WorldReadable(t.mode))
  BY NoProblem DEF TargetProblems, If
<1>2. t.artifact \in KeyBearing => DefaultMode(t.artifact) = "0600"
  BY DEF DefaultMode
<1>3. t.artifact \in KeyBearing => ~WorldReadable(TargetMode(t))
  BY <1>1, <1>2 DEF TargetMode, Default, WorldReadable
<1> QED BY <1>1, <1>3

-----------------------------------------------------------------------------
\* Where each command may be, and that what comes after the check was checked.
Checked ==
  /\ Looping => cmd = "ensure"
  /\ At("check") => cmd # "distribute"
  /\ pc \in {"decide", "obtain", "persist", "asleep"} => cmd # "distribute" /\ Vetted(cfg)
  /\ At("deliver") /\ cmd # "distribute" => Vetted(cfg)

IInv == Checked /\ CheckedChoicesHold /\ OrderLegal /\ KeyHidden

\* The reasons a checked command may end with without any of the three properties
\* being in question.
Harmless(why) == why \notin {"directory", "key type", "challenge", "artifact"}

\* A step that places no order, or touches no target, leaves that part as it is.
LEMMA UntouchedParts ==
  ASSUME IInv
  PROVE  /\ order' = NoOrder => OrderLegal'
         /\ placed' = placed => KeyHidden'
  BY DEF IInv, OrderLegal, KeyHidden

\* To end a command, or a cycle, for a harmless reason keeps all of the invariant that
\* does not look at the order and the files.
LEMMA ExitKeeps ==
  ASSUME NEW why, Exit(why), cmd # "distribute" => Harmless(why)
  PROVE  Checked' /\ CheckedChoicesHold'
<1>1. pc' = "idle" /\ every' = Unset
  BY DEF Exit
<1>2. Checked'
  BY <1>1 DEF Checked, Looping, At
<1>3. CheckedChoicesHold'
  BY DEF CheckedChoicesHold, Exit, Harmless
<1> QED BY <1>2, <1>3

LEMMA FinishKeeps ==
  ASSUME IInv, NEW why, Finish(why), cmd # "distribute" => Harmless(why),
         cmd # "distribute" => Vetted(cfg)
  PROVE  Checked' /\ CheckedChoicesHold'
<1>1. CASE ~Looping
  BY <1>1, ExitKeeps DEF Finish
<1>2. CASE Looping
  <2>1. cmd = "ensure" /\ Vetted(cfg)
    BY <1>2 DEF IInv, Checked
  <2>2. /\ pc' = "asleep" /\ cmd' = cmd /\ cfg' = cfg /\ hostname' = hostname /\ every' = every
        /\ outcome' = [cmd |-> cmd, why |-> why]
    BY <1>2 DEF Finish, world, args
  <2>3. Vetted(cfg)'
    BY <2>1, <2>2 DEF Vetted
  <2>4. Checked'
    BY <2>1, <2>2, <2>3 DEF Checked, Looping, At
  <2>5. CheckedChoicesHold'
    BY <2>1, <2>2 DEF CheckedChoicesHold, Harmless
  <2> QED BY <2>4, <2>5
<1> QED BY <1>1, <1>2

\* A step that ends nothing has no outcome to answer for.
LEMMA QuietChoices == outcome' = Quiet => CheckedChoicesHold'
<1>1. ASSUME outcome' = Quiet PROVE outcome'.why = Unset
  BY <1>1 DEF Quiet
<1>2. ASSUME outcome'.why = Unset PROVE CheckedChoicesHold'
  BY <1>2 DEF CheckedChoicesHold, Unset
<1> QED BY <1>1, <1>2

\* To go on within a command keeps it too, if where it goes may be gone to.
LEMMA GotoKeeps ==
  ASSUME IInv, NEW label, Goto(label), Vetted(cfg), cmd # "distribute",
         label \in {"decide", "obtain", "persist", "deliver"}
  PROVE  Checked' /\ CheckedChoicesHold'
<1>1. /\ pc' = label /\ cmd' = cmd /\ cfg' = cfg /\ hostname' = hostname /\ every' = every
      /\ outcome' = Quiet
  BY DEF Goto, world, args
<1>2. Vetted(cfg)'
  BY <1>1 DEF Vetted
<1>3. Checked'
  BY <1>1, <1>2 DEF IInv, Checked, Looping, At
<1> QED BY <1>1, <1>3, QuietChoices

-----------------------------------------------------------------------------
LEMMA InitIInv == Init => IInv
<1> SUFFICES ASSUME Init PROVE IInv
  OBVIOUS
<1>1. pc = "idle" /\ every = Unset /\ order = NoOrder /\ placed = {} /\ outcome = Quiet
  BY DEF Init
<1>2. CheckedChoicesHold
  BY <1>1 DEF CheckedChoicesHold, Quiet, Unset
<1>3. Checked
  BY <1>1 DEF Checked, Looping, At
<1>4. OrderLegal /\ KeyHidden
  BY <1>1 DEF OrderLegal, KeyHidden
<1> QED BY <1>2, <1>3, <1>4 DEF IInv

LEMMA StartIInv == IInv /\ StartAny => IInv'
<1> SUFFICES ASSUME IInv, NEW c \in Commands, NEW e, NEW fs, NEW cf, NEW fl,
                    Start(c, e, fs, cf, fl)
             PROVE  IInv'
  BY DEF StartAny
<1>1. /\ pc' = "env" /\ cmd' = c /\ order' = NoOrder
      /\ outcome' = Quiet /\ placed' = placed
      /\ every' = IntervalOf(c, e, fl)
  BY DEF Start, state
<1>2. Checked'
  BY <1>1 DEF Checked, Looping, At, IntervalOf
<1> QED BY <1>1, <1>2, QuietChoices, UntouchedParts DEF IInv

LEMMA LoadEnvIInv == IInv /\ LoadEnv => IInv'
<1> SUFFICES ASSUME IInv, LoadEnv PROVE IInv'
  OBVIOUS
<1>1. order' = NoOrder /\ placed' = placed
  BY DEF LoadEnv, End, state
<1>2. CASE End("env file")
  BY <1>1, <1>2, ExitKeeps, UntouchedParts DEF End, Harmless, IInv
<1>3. CASE pc' = "config" /\ outcome' = Quiet /\ UNCHANGED <<world, state, args, cfg>>
  <2>1. Checked'
    BY <1>3 DEF IInv, Checked, Looping, At, args
  <2> QED BY <1>1, <1>3, <2>1, QuietChoices, UntouchedParts DEF IInv
<1> QED BY <1>2, <1>3 DEF LoadEnv

LEMMA LoadConfigIInv == IInv /\ LoadConfig => IInv'
<1> SUFFICES ASSUME IInv, LoadConfig PROVE IInv'
  OBVIOUS
<1>1. order' = NoOrder /\ placed' = placed
  BY DEF LoadConfig, End, state
<1>2. ASSUME NEW why \in {"no configuration", "interval"}, End(why)
      PROVE  IInv'
  BY <1>1, <1>2, ExitKeeps, UntouchedParts DEF End, Harmless, IInv
<1>3. CASE /\ pc' = IF cmd = "distribute" THEN "deliver" ELSE "check"
           /\ outcome' = Quiet /\ UNCHANGED <<world, state, cmd, env, path, every>>
  <2>1. Checked'
    BY <1>3 DEF IInv, Checked, Looping, At
  <2> QED BY <1>1, <1>3, <2>1, QuietChoices, UntouchedParts DEF IInv
<1>4. CASE End(IF IntervalAccepted THEN "no configuration" ELSE "interval")
  BY <1>2, <1>4
<1> QED BY <1>3, <1>4 DEF LoadConfig

LEMMA CheckIInv == IInv /\ Check => IInv'
<1> SUFFICES ASSUME IInv, Check PROVE IInv'
  OBVIOUS
<1>1. order' = NoOrder /\ placed' = placed
  BY DEF Check, End, Goto, state
<1>2. cmd # "distribute"
  BY DEF IInv, Checked, Check
<1>3. ASSUME NEW why \in {"problems", "ok", "store access"}, End(why)
      PROVE  IInv'
  BY <1>1, <1>3, ExitKeeps, UntouchedParts DEF End, Harmless, IInv
<1>4. CASE Vetted(cfg) /\ Goto(IF cmd \in {"ensure", "renew", "void"} THEN "decide" ELSE "obtain")
  BY <1>1, <1>2, <1>4, GotoKeeps, UntouchedParts DEF IInv
<1> QED BY <1>3, <1>4 DEF Check

LEMMA DecideIInv == IInv /\ Decide => IInv'
<1> SUFFICES ASSUME IInv, Decide PROVE IInv'
  OBVIOUS
<1>1. order' = NoOrder /\ placed' = placed
  BY DEF Decide, state
<1>2. cmd # "distribute" /\ Vetted(cfg)
  BY DEF IInv, Checked, Decide, At
<1>3. ASSUME NEW why \in {"no certificate", "window", "ok"}, Finish(why)
      PROVE  IInv'
  BY <1>1, <1>2, <1>3, FinishKeeps, UntouchedParts DEF Harmless, IInv
<1>4. ASSUME NEW label \in {"obtain", "deliver"}, Goto(label)
      PROVE  IInv'
  BY <1>1, <1>2, <1>4, GotoKeeps, UntouchedParts DEF IInv
<1> QED BY <1>3, <1>4 DEF Decide

\* Of its own reasons, Obtain has none left that a checked configuration answers for.
LEMMA VettedRefusal ==
  ASSUME Vetted(cfg), NEW staging \in BOOLEAN, NEW registers, NEW credentials
  PROVE  Refusal(DirectoryURL(cfg, staging), registers, credentials) \in
           {"ca bundle", "account", "provider", "credentials", Unset}
  BY VettedChoices DEF Refusal

LEMMA ObtainIInv == IInv /\ Obtain => IInv'
<1> SUFFICES ASSUME IInv, Obtain PROVE IInv'
  OBVIOUS
<1>1. placed' = placed /\ cmd # "distribute" /\ Vetted(cfg)
  BY DEF Obtain, state, IInv, Checked, At
<1>2. PICK staging \in BOOLEAN, registers \in BOOLEAN, credentials \in BOOLEAN :
        LET directory == DirectoryURL(cfg, staging)
            why       == Refusal(directory, registers, credentials)
        IN \/ why # Unset /\ Finish(why) /\ order' = NoOrder
           \/ why \notin {"directory", "key type"} /\ Finish("the CA") /\ order' = NoOrder
           \/ /\ why = Unset
              /\ order' = [directory |-> directory, challenge |-> EffectiveChallenge(cfg),
                           ca |-> cfg.ca, ips |-> cfg.ips,
                           identifiers |-> Identifiers(cfg, hostname)]
              /\ \/ Finish("the CA")
                 \/ cmd = "dry-run" /\ Finish("ok")
                 \/ cmd # "dry-run" /\ Goto("persist")
  BY DEF Obtain
<1>3. ASSUME NEW why, Finish(why), Harmless(why)
      PROVE  Checked' /\ CheckedChoicesHold'
  BY <1>1, <1>3, FinishKeeps
<1>4. Checked' /\ CheckedChoicesHold'
  <2>1. CASE Finish(Refusal(DirectoryURL(cfg, staging), registers, credentials))
    BY <1>1, <1>3, <2>1, VettedRefusal DEF Harmless, Unset
  <2>2. CASE Finish("the CA") \/ Finish("ok")
    BY <1>3, <2>2 DEF Harmless
  <2>3. CASE Goto("persist")
    BY <1>1, <2>3, GotoKeeps
  <2> QED BY <1>2, <2>1, <2>2, <2>3
<1>5. OrderLegal'
  <2>1. CASE order' = NoOrder
    BY <2>1, UntouchedParts
  <2>2. CASE order' = [directory |-> DirectoryURL(cfg, staging),
                       challenge |-> EffectiveChallenge(cfg),
                       ca |-> cfg.ca, ips |-> cfg.ips,
                       identifiers |-> Identifiers(cfg, hostname)]
    <3>1. /\ order'.challenge = EffectiveChallenge(cfg) /\ order'.ips = cfg.ips
          /\ order'.ca = cfg.ca
      BY <2>2
    <3> QED BY <1>1, <3>1, VettedAddresses DEF OrderLegal
  <2> QED BY <1>2, <2>1, <2>2
<1> QED BY <1>1, <1>4, <1>5, UntouchedParts DEF IInv

LEMMA PersistIInv == IInv /\ Persist => IInv'
<1> SUFFICES ASSUME IInv, Persist PROVE IInv'
  OBVIOUS
<1>1. /\ placed' = placed /\ order' = NoOrder /\ cmd # "distribute" /\ Vetted(cfg)
  BY DEF Persist, IInv, Checked, At
<1>2. CASE Goto("deliver")
  BY <1>1, <1>2, GotoKeeps, UntouchedParts DEF IInv
<1>3. ASSUME NEW why \in {"ok", "group", "the store"}, Finish(why)
      PROVE  IInv'
  BY <1>1, <1>3, FinishKeeps, UntouchedParts DEF Harmless, IInv
<1> QED BY <1>2, <1>3 DEF Persist

LEMMA DeliverIInv == IInv /\ Deliver => IInv'
<1> SUFFICES ASSUME IInv, Deliver PROVE IInv'
  OBVIOUS
<1>1. PICK done \in SUBSET {t \in cfg.target : TargetError(t) = Unset} :
        /\ placed' = {p \in placed : \A t \in done : t.artifact # p.artifact}
                       \cup {Delivery(t) : t \in done}
        /\ \/ done = cfg.target /\ Finish("ok")
           \/ done = cfg.target /\ cmd = "void" /\ Finish("not revoked")
           \/ \E t \in cfg.target :
                Finish(IF TargetError(t) = Unset THEN "a target" ELSE TargetError(t))
  BY DEF Deliver
<1>2. order' = NoOrder /\ (cmd # "distribute" => Vetted(cfg))
  BY DEF IInv, Checked, Deliver
<1>3. ASSUME NEW t \in cfg.target, cmd # "distribute"
      PROVE  /\ Harmless(TargetError(t))
             /\ ~(Delivery(t).key /\ Delivery(t).world)
  <2>1. /\ t.artifact \in ValidArtifacts
        /\ t.artifact \in KeyBearing => ~WorldReadable(TargetMode(t))
    BY <1>2, <1>3, VettedTargets
  <2>2. Harmless(TargetError(t))
    BY <2>1 DEF TargetError, Harmless, Unset
  <2>3. ~(Delivery(t).key /\ Delivery(t).world)
    BY <2>1 DEF Delivery, KeyBearing
  <2> QED BY <2>2, <2>3
<1>4. Checked' /\ CheckedChoicesHold'
  <2>1. CASE Finish("ok") \/ Finish("not revoked")
    BY <1>2, <2>1, FinishKeeps DEF Harmless
  <2>2. CASE \E t \in cfg.target :
               Finish(IF TargetError(t) = Unset THEN "a target" ELSE TargetError(t))
    <3>1. PICK t \in cfg.target :
                 Finish(IF TargetError(t) = Unset THEN "a target" ELSE TargetError(t))
      BY <2>2
    <3>2. cmd # "distribute" =>
            Harmless(IF TargetError(t) = Unset THEN "a target" ELSE TargetError(t))
      BY <1>3 DEF Harmless
    <3> QED BY <1>2, <3>1, <3>2, FinishKeeps
  <2> QED BY <1>1, <2>1, <2>2
<1>5. KeyHidden'
  <2> SUFFICES ASSUME NEW p \in placed', p.key, p.world PROVE ~p.checked
    BY DEF KeyHidden
  <2>1. CASE p \in placed
    BY <2>1 DEF IInv, KeyHidden
  <2>2. CASE \E t \in done : p = Delivery(t)
    <3>1. PICK t \in done : p = Delivery(t)
      BY <2>2
    <3>2. ~(cmd # "distribute")
      BY <1>3, <3>1
    <3> QED BY <3>1, <3>2 DEF Delivery
  <2> QED BY <1>1, <2>1, <2>2
<1> QED BY <1>2, <1>4, <1>5, UntouchedParts DEF IInv

\* The rest: a loop wakes or is stopped, the file is edited, another issue ends, the
\* certificate ages.
LEMMA OtherIInv ==
  ASSUME IInv, Wake \/ Stop \/ EditConfig \/ IssueElsewhere \/ BecomesDue \/ UNCHANGED vars
  PROVE  IInv'
<1>1. CASE Wake
  <2>1. /\ pc' = "decide" /\ cmd' = cmd /\ cfg' = cfg /\ hostname' = hostname
        /\ every' = every /\ outcome' = Quiet /\ placed' = placed /\ order' = NoOrder
    BY <1>1 DEF Wake, world, state, args
  <2>2. cmd # "distribute" /\ Vetted(cfg)
    BY <1>1 DEF IInv, Checked, Wake, At
  <2>3. Vetted(cfg)'
    BY <2>1, <2>2 DEF Vetted
  <2>4. Checked'
    BY <2>1, <2>2, <2>3 DEF IInv, Checked, Looping, At
  <2> QED BY <2>1, <2>4, QuietChoices, UntouchedParts DEF IInv
<1>2. CASE Stop
  BY <1>2, ExitKeeps, UntouchedParts DEF Stop, End, state, Harmless, IInv
<1>3. CASE EditConfig \/ IssueElsewhere \/ BecomesDue
  <2>1. /\ UNCHANGED <<pc, cmd, cfg, hostname, every, placed>>
        /\ order' = NoOrder /\ outcome' = Quiet
    BY <1>3 DEF EditConfig, IssueElsewhere, BecomesDue, world, state, args
  <2>2. Vetted(cfg)' <=> Vetted(cfg)
    BY <2>1 DEF Vetted
  <2>3. Checked'
    BY <2>1, <2>2 DEF IInv, Checked, Looping, At
  <2> QED BY <2>1, <2>3, QuietChoices, UntouchedParts DEF IInv
<1>4. CASE UNCHANGED vars
  <2>1. UNCHANGED <<pc, cmd, cfg, hostname, every, outcome, placed, order>>
    BY <1>4 DEF vars, world, state, args
  <2>2. Vetted(cfg)' <=> Vetted(cfg)
    BY <2>1 DEF Vetted
  <2> QED
    BY <2>1, <2>2
    DEF IInv, Checked, CheckedChoicesHold, OrderLegal, KeyHidden, Looping, At
<1> QED BY <1>1, <1>2, <1>3, <1>4

LEMMA NextIInv == IInv /\ [Next]_vars => IInv'
  BY StartIInv, LoadEnvIInv, LoadConfigIInv, CheckIInv, DecideIInv, ObtainIInv,
     PersistIInv, DeliverIInv, OtherIInv
  DEF Next

LEMMA Invariance == Spec => []IInv
<1>1. Init => IInv
  BY InitIInv
<1>2. IInv /\ [Next]_vars => IInv'
  BY NextIInv
<1> QED BY <1>1, <1>2, PTL DEF Spec

-----------------------------------------------------------------------------
\* No cycle of a command that checks its configuration is refused for want of a
\* directory, for its key type, its challenge or an artifact, however long ago it was
\* checked (validate.Config, loadAndCheck).
THEOREM CheckedChoicesAreHeld == Spec => []CheckedChoicesHold
<1>1. IInv => CheckedChoicesHold
  BY DEF IInv
<1> QED BY <1>1, Invariance, PTL

\* What an order holds of ip_sans is addresses that its challenge can validate, and its
\* CA if it is a public one (config.EffectiveChallenge, the IP rule of validate.Config).
THEOREM OrdersAreLegal == Spec => []OrderLegal
<1>1. IInv => OrderLegal
  BY DEF IInv
<1> QED BY <1>1, Invariance, PTL

\* Only distribute leaves the key in a file that all can read, however the order of the
\* bundle, the targets and their modes are edited (validate.keyBearing).
THEOREM KeyStaysHidden == Spec => []KeyHidden
<1>1. IInv => KeyHidden
  BY DEF IInv
<1> QED BY <1>1, Invariance, PTL

-----------------------------------------------------------------------------
(* The env files.  A loop is a recursive function; that it has a value     *)
(* after every round is shown with the least number that has none.         *)

LEMMA LeastNumber ==
  ASSUME NEW T \in SUBSET Nat, T # {}
  PROVE  \E m \in T : \A s \in T : m <= s
<1>1. IsWellFoundedOn(OpToRel(<, Nat), Nat)
  BY NatLessThanWellFounded
<1>2. PICK m \in T : \A s \in T : ~(<<s, m>> \in OpToRel(<, Nat))
  BY <1>1, WFMin, Zenon
<1>3. \A s \in T : ~(s < m)
  BY <1>2 DEF OpToRel
<1> QED BY <1>3

LEMMA UpTo ==
  ASSUME NEW n \in Nat, NEW S, 0 \in S, \A k \in 1..n : k - 1 \in S => k \in S
  PROVE  \A k \in 0..n : k \in S
<1> DEFINE T == {k \in 0..n : k \notin S}
<1>1. CASE T = {}
  BY <1>1
<1>2. CASE T # {}
  <2>1. T \in SUBSET Nat
    OBVIOUS
  <2>2. PICK m \in T : \A s \in T : m <= s
    <3> HIDE DEF T
    <3> QED BY <1>2, <2>1, LeastNumber
  <2>3. m \in 1..n
    BY <2>2
  <2>4. m - 1 \in S
    BY <2>2, <2>3
  <2> QED BY <2>2, <2>3, <2>4
<1> QED BY <1>1, <1>2

LEMMA LastNumber ==
  ASSUME NEW n \in Nat, NEW T \in SUBSET (1..n), T # {}
  PROVE  Max(T) \in T /\ \A s \in T : s <= Max(T)
<1> DEFINE R == {n - s : s \in T}
<1>1. R \in SUBSET Nat /\ R # {}
  <2>1. \A s \in T : n - s \in Nat
    OBVIOUS
  <2> QED BY <2>1
<1>2. PICK r \in R : \A s \in R : r <= s
  BY <1>1, LeastNumber
<1>3. PICK t \in T : r = n - t
  OBVIOUS
<1>4. \A s \in T : s <= t
  BY <1>2, <1>3
<1>5. \E x \in T : \A y \in T : x >= y
  BY <1>4
<1>6. Max(T) \in T /\ \A y \in T : Max(T) >= y
  BY <1>5 DEF Max
<1> QED BY <1>6

\* A loop of n rounds that keeps to a set X has a result after every round.
LEMMA Rounds ==
  ASSUME NEW X, NEW x0 \in X, NEW n \in Nat, NEW step \in [1..n -> [X -> X]]
  PROVE  \E g \in [0..n -> X] : g[0] = x0 /\ \A k \in 1..n : g[k] = step[k][g[k - 1]]
<1> DEFINE Run(g, m) ==
             g \in [0..m -> X] /\ g[0] = x0 /\ \A k \in 1..m : g[k] = step[k][g[k - 1]]
           S == {m \in 0..n : \E g : Run(g, m)}
<1>1. 0 \in S
  <2>1. Run([k \in 0..0 |-> x0], 0)
    OBVIOUS
  <2> HIDE DEF Run
  <2> QED BY <2>1
<1>2. ASSUME NEW m \in 1..n, m - 1 \in S
      PROVE  m \in S
  <2>1. PICK g : Run(g, m - 1)
    BY <1>2
  <2> DEFINE h == [k \in 0..m |-> IF k = m THEN step[m][g[m - 1]] ELSE g[k]]
  <2>2. g[m - 1] \in X
    BY <2>1
  <2>3. step[m][g[m - 1]] \in X
    BY <2>2
  <2>4. h \in [0..m -> X] /\ h[0] = x0
    BY <2>1, <2>3
  <2>5. \A k \in 1..m : h[k] = step[k][h[k - 1]]
    BY <2>1
  <2>6. Run(h, m)
    BY <2>4, <2>5
  <2> HIDE DEF h, Run
  <2> QED BY <2>6
<1>3. n \in S
  <2> HIDE DEF S
  <2>1. \A m \in 1..n : m - 1 \in S => m \in S
    BY <1>2
  <2>2. \A m \in 0..n : m \in S
    BY <1>1, <2>1, UpTo
  <2> QED BY <2>2
<1> QED BY <1>3

Pairs == STRING \X STRING

\* The list merge builds: its entries, one for each name, none of a preset name.
Entries(out) == {out[i] : i \in DOMAIN out}

Clean(preset, out) ==
  /\ out \in Seq(Pairs)
  /\ \A i, j \in DOMAIN out : out[i][1] = out[j][1] => i = j
  /\ \A i \in DOMAIN out : out[i][1] \notin preset

\* A line of a name that is not preset takes the place of the entry with its name.
LEMMA PutReplaces ==
  ASSUME NEW preset, NEW out, Clean(preset, out), NEW kv \in Pairs
  PROVE  /\ Clean(preset, Put(preset, out, kv))
         /\ kv[1] \in preset => Put(preset, out, kv) = out
         /\ kv[1] \notin preset =>
              Entries(Put(preset, out, kv)) = {p \in Entries(out) : p[1] # kv[1]} \cup {kv}
<1>1. CASE kv[1] \in preset
  <2>1. Entry(out, kv[1]) = {}
    BY <1>1 DEF Entry, Clean
  <2> QED BY <1>1, <2>1 DEF Put
<1>2. CASE kv[1] \notin preset /\ Entry(out, kv[1]) # {}
  <2>1. PICK i \in DOMAIN out : out[i][1] = kv[1] /\ Put(preset, out, kv) = [out EXCEPT ![i] = kv]
    <3> DEFINE c == CHOOSE i \in Entry(out, kv[1]) : TRUE
    <3>1. Put(preset, out, kv) = [out EXCEPT ![c] = kv]
      BY <1>2 DEF Put
    <3>2. c \in Entry(out, kv[1])
      BY <1>2
    <3> QED BY <3>1, <3>2 DEF Entry
  <2> DEFINE r == [out EXCEPT ![i] = kv]
  <2>2. out \in Seq(Pairs) /\ r \in Seq(Pairs) /\ DOMAIN r = DOMAIN out
    BY DEF Clean
  <2>3. \A j \in DOMAIN out : r[j] = (IF j = i THEN kv ELSE out[j])
    BY <2>2
  <2>4. \A j \in DOMAIN out : j # i => out[j][1] # kv[1]
    BY <2>1 DEF Clean
  <2> HIDE DEF r
  <2>5. Clean(preset, r)
    BY <1>2, <2>1, <2>2, <2>3, <2>4 DEF Clean
  <2>6. Entries(r) = {p \in Entries(out) : p[1] # kv[1]} \cup {kv}
    BY <2>1, <2>2, <2>3, <2>4 DEF Entries
  <2> QED BY <1>2, <2>1, <2>5, <2>6 DEF r
<1>3. CASE kv[1] \notin preset /\ Entry(out, kv[1]) = {}
  <2> DEFINE r == Append(out, kv)
  <2>1. Put(preset, out, kv) = r
    BY <1>3 DEF Put
  <2>2. out \in Seq(Pairs) /\ r \in Seq(Pairs) /\ DOMAIN out = 1..Len(out)
        /\ DOMAIN r = 1..(Len(out) + 1) /\ Len(out) \in Nat
    BY DEF Clean
  <2>3. \A j \in DOMAIN r : r[j] = (IF j = Len(out) + 1 THEN kv ELSE out[j])
    BY <2>2
  <2>4. \A j \in DOMAIN out : out[j][1] # kv[1] /\ j \in DOMAIN r /\ j # Len(out) + 1
    BY <1>3, <2>2 DEF Entry
  <2>5. \A j \in DOMAIN r : j = Len(out) + 1 \/ j \in DOMAIN out
    BY <2>2
  <2>6. Len(out) + 1 \in DOMAIN r
    BY <2>2
  <2> HIDE DEF r
  <2>7. Clean(preset, r)
    BY <1>3, <2>2, <2>3, <2>4, <2>5 DEF Clean
  <2>8. Entries(r) = {p \in Entries(out) : p[1] # kv[1]} \cup {kv}
    BY <2>3, <2>4, <2>5, <2>6 DEF Entries
  <2> QED BY <1>3, <2>1, <2>7, <2>8
<1> QED BY <1>1, <1>2, <1>3

Lacks(text, m, n) == \A l \in 1..m : text[l][1] # n

\* The last line of each name among the first m of a file.
Latest(preset, text, m) ==
  {p \in Pairs : p[1] \notin preset /\ \E j \in 1..m :
                   text[j] = p /\ \A l \in 1..m : l > j => text[l][1] # p[1]}

LEMMA FileIsMerged ==
  ASSUME NEW preset, NEW out, Clean(preset, out), NEW text \in Seq(Pairs)
  PROVE  /\ Clean(preset, MergeFile(preset, out, text))
         /\ Entries(MergeFile(preset, out, text)) =
              {p \in Entries(out) : Lacks(text, Len(text), p[1])} \cup Latest(preset, text, Len(text))
<1> DEFINE n == Len(text)
           X == {o \in Seq(Pairs) : Clean(preset, o)}
           step == [k \in 1..n |-> [o \in X |-> Put(preset, o, text[k])]]
           Round(g) == g = [k \in 0..n |-> IF k = 0 THEN out ELSE Put(preset, g[k - 1], text[k])]
           merged == CHOOSE g : Round(g)
<1>1. n \in Nat /\ \A k \in 1..n : text[k] \in Pairs
  OBVIOUS
<1>2. out \in X
  BY DEF Clean
<1>3. step \in [1..n -> [X -> X]]
  <2>1. ASSUME NEW o \in X, NEW k \in 1..n PROVE Put(preset, o, text[k]) \in X
    <3>1. Clean(preset, Put(preset, o, text[k]))
      BY <1>1, PutReplaces
    <3> QED BY <3>1 DEF Clean
  <2> HIDE DEF X
  <2> QED BY <2>1
<1>4. PICK g \in [0..n -> X] :
        g[0] = out /\ \A k \in 1..n : g[k] = step[k][g[k - 1]]
  <2>1. n \in Nat
    OBVIOUS
  <2> HIDE DEF X, n, step
  <2> QED BY <1>2, <1>3, <2>1, Rounds
<1>5. \A k \in 1..n : g[k - 1] \in X /\ g[k] = Put(preset, g[k - 1], text[k])
  <2> SUFFICES ASSUME NEW k \in 1..n
               PROVE  g[k - 1] \in X /\ g[k] = Put(preset, g[k - 1], text[k])
    OBVIOUS
  <2> HIDE DEF X
  <2>1. g[k - 1] \in X
    BY <1>1, <1>4
  <2>2. step[k] = [o \in X |-> Put(preset, o, text[k])]
    OBVIOUS
  <2> HIDE DEF step
  <2> QED BY <1>4, <2>1, <2>2
<1>6. Round(g)
  <2> HIDE DEF X, step
  <2> QED BY <1>1, <1>4, <1>5
<1>7. Round(merged)
  <2> HIDE DEF Round
  <2> QED BY <1>6
<1>8. MergeFile(preset, out, text) = merged[n]
  BY DEF MergeFile
<1> HIDE DEF step, merged, X, n
<1>9. merged[0] = out /\ \A k \in 1..n : merged[k] = Put(preset, merged[k - 1], text[k])
  BY <1>1, <1>7
<1> HIDE DEF Round
<1> DEFINE Merged(k) ==
             /\ Clean(preset, merged[k])
             /\ Entries(merged[k]) =
                  {p \in Entries(out) : Lacks(text, k, p[1])} \cup Latest(preset, text, k)
           S == {k \in 0..n : Merged(k)}
<1>10. Merged(0)
  BY <1>9 DEF Lacks, Latest
<1>11. ASSUME NEW k \in 1..n, Merged(k - 1)
       PROVE  Merged(k)
  <2> DEFINE kv == text[k]
  <2>1. /\ k - 1 \in Nat /\ \A l \in 1..k : l \in 1..(k - 1) \/ l = k
        /\ \A l \in 1..(k - 1) : l \in 1..k /\ l < k
        /\ k \in 1..k /\ k \in Nat
    BY <1>1
  <2>2. merged[k] = Put(preset, merged[k - 1], kv) /\ kv \in Pairs
    BY <1>1, <1>9
  <2>3. Clean(preset, merged[k])
    BY <1>11, <2>2, PutReplaces
  <2>4. \A p : Lacks(text, k, p[1]) <=> Lacks(text, k - 1, p[1]) /\ kv[1] # p[1]
    BY <2>1 DEF Lacks
  <2>5. CASE kv[1] \in preset
    <3>1. merged[k] = merged[k - 1]
      BY <1>11, <2>2, <2>5, PutReplaces
    <3>2. Latest(preset, text, k) = Latest(preset, text, k - 1)
      BY <2>1, <2>5 DEF Latest
    <3>3. \A p \in Entries(out) : kv[1] # p[1]
      BY <2>5 DEF Entries, Clean
    <3> QED BY <1>11, <2>3, <2>4, <3>1, <3>2, <3>3
  <2>6. CASE kv[1] \notin preset
    <3>1. Entries(merged[k]) = {p \in Entries(merged[k - 1]) : p[1] # kv[1]} \cup {kv}
      BY <1>11, <2>2, <2>6, PutReplaces
    <3>2. Latest(preset, text, k) = {p \in Latest(preset, text, k - 1) : p[1] # kv[1]} \cup {kv}
      <4>1. ASSUME NEW p \in Latest(preset, text, k)
            PROVE  p = kv \/ (p \in Latest(preset, text, k - 1) /\ p[1] # kv[1])
        <5>1. PICK j \in 1..k : text[j] = p /\ \A l \in 1..k : l > j => text[l][1] # p[1]
          BY <4>1 DEF Latest
        <5>2. CASE j = k
          BY <5>1, <5>2
        <5>3. CASE j \in 1..(k - 1)
          BY <2>1, <4>1, <5>1, <5>3 DEF Latest
        <5> QED BY <2>1, <5>2, <5>3
      <4>2. ASSUME NEW p \in Latest(preset, text, k - 1), p[1] # kv[1]
            PROVE  p \in Latest(preset, text, k)
        <5>1. PICK j \in 1..(k - 1) :
                text[j] = p /\ \A l \in 1..(k - 1) : l > j => text[l][1] # p[1]
          BY <4>2 DEF Latest
        <5>2. \A l \in 1..k : l > j => text[l][1] # p[1]
          BY <2>1, <4>2, <5>1
        <5> QED BY <2>1, <4>2, <5>1, <5>2 DEF Latest
      <4>3. kv \in Latest(preset, text, k)
        <5>1. \A l \in 1..k : ~(l > k)
          BY <2>1
        <5> QED BY <2>1, <2>2, <2>6, <5>1 DEF Latest
      <4> QED BY <4>1, <4>2, <4>3
    <3> QED BY <1>11, <2>3, <2>4, <3>1, <3>2
  <2> QED BY <2>5, <2>6
<1>12. Merged(n)
  <2>1. 0 \in S
    BY <1>1, <1>10
  <2>2. \A k \in 1..n : k - 1 \in S => k \in S
    <3> HIDE DEF Merged
    <3> QED BY <1>1, <1>11
  <2>3. \A k \in 0..n : k \in S
    <3> HIDE DEF S
    <3> QED BY <1>1, <2>1, <2>2, UpTo
  <2> QED BY <1>1, <2>3
<1> QED BY <1>8, <1>12 DEF n

\* The last line of each name in the first m files.
Chosen(preset, texts, m) ==
  {p \in Pairs : \E a \in 1..m :
     /\ p \in Latest(preset, texts[a], Len(texts[a]))
     /\ \A b \in 1..m : b > a => Lacks(texts[b], Len(texts[b]), p[1])}

LEMMA Elements ==
  ASSUME NEW D, NEW s \in Seq(D)
  PROVE  Len(s) \in Nat /\ DOMAIN s = 1..Len(s) /\ \A j \in 1..Len(s) : s[j] \in D
  OBVIOUS

\* Files that parse.
AreFiles(texts) ==
  /\ Len(texts) \in Nat /\ DOMAIN texts = 1..Len(texts)
  /\ \A i \in 1..Len(texts) : texts[i] \in Seq(Pairs)

LEMMA FilesAreMerged ==
  ASSUME NEW preset, NEW texts, AreFiles(texts)
  PROVE  /\ Clean(preset, Merge(preset, texts))
         /\ Entries(Merge(preset, texts)) = Chosen(preset, texts, Len(texts))
<1> DEFINE n == Len(texts)
           none == <<>>
           X == {o \in Seq(Pairs) : Clean(preset, o)}
           step == [i \in 1..n |-> [o \in X |-> MergeFile(preset, o, texts[i])]]
           Round(g) == g = [i \in 0..n |-> IF i = 0 THEN none
                                            ELSE MergeFile(preset, g[i - 1], texts[i])]
           merged == CHOOSE g : Round(g)
<1>1. n \in Nat /\ \A i \in 1..n : texts[i] \in Seq(Pairs)
  BY DEF AreFiles
<1>2. none \in X
  BY DEF Clean
<1>3. step \in [1..n -> [X -> X]]
  <2>1. ASSUME NEW o \in X, NEW i \in 1..n PROVE MergeFile(preset, o, texts[i]) \in X
    <3>1. Clean(preset, MergeFile(preset, o, texts[i]))
      BY <1>1, FileIsMerged
    <3> QED BY <3>1 DEF Clean
  <2> HIDE DEF X
  <2> QED BY <2>1
<1>4. PICK g \in [0..n -> X] :
        g[0] = none /\ \A i \in 1..n : g[i] = step[i][g[i - 1]]
  <2>1. n \in Nat
    BY <1>1
  <2> HIDE DEF X, n, step, none
  <2> QED BY <1>2, <1>3, <2>1, Rounds
<1>5. \A i \in 1..n : g[i] = MergeFile(preset, g[i - 1], texts[i])
  <2> SUFFICES ASSUME NEW i \in 1..n
               PROVE  g[i] = MergeFile(preset, g[i - 1], texts[i])
    OBVIOUS
  <2> HIDE DEF X, none
  <2>1. g[i - 1] \in X
    BY <1>1, <1>4
  <2>2. step[i] = [o \in X |-> MergeFile(preset, o, texts[i])]
    OBVIOUS
  <2> HIDE DEF step
  <2> QED BY <1>4, <2>1, <2>2
<1>6. Round(g)
  <2> HIDE DEF X, step, none
  <2> QED BY <1>1, <1>4, <1>5
<1>7. Round(merged)
  <2> HIDE DEF Round
  <2> QED BY <1>6
<1>8. Merge(preset, texts) = merged[n]
  BY DEF Merge
<1> HIDE DEF step, merged, X, n, none
<1>9. merged[0] = none /\ \A i \in 1..n : merged[i] = MergeFile(preset, merged[i - 1], texts[i])
  BY <1>1, <1>7
<1> HIDE DEF Round
<1> DEFINE Merged(i) ==
             Clean(preset, merged[i]) /\ Entries(merged[i]) = Chosen(preset, texts, i)
           S == {i \in 0..n : Merged(i)}
<1>10. Merged(0)
  <2>1. Entries(none) = {} /\ Chosen(preset, texts, 0) = {}
    BY DEF Entries, Chosen, none
  <2>2. Clean(preset, none)
    BY DEF Clean, none
  <2> QED BY <1>9, <2>1, <2>2
<1>11. ASSUME NEW i \in 1..n, Merged(i - 1)
       PROVE  Merged(i)
  <2> DEFINE text == texts[i]
             lacks(b, p) == Lacks(texts[b], Len(texts[b]), p[1])
             latest(b) == Latest(preset, texts[b], Len(texts[b]))
  <2>1. /\ i - 1 \in Nat /\ \A b \in 1..i : b \in 1..(i - 1) \/ b = i
        /\ \A b \in 1..(i - 1) : b \in 1..i /\ b < i
        /\ i \in 1..i /\ i \in Nat /\ \A b \in 1..i : ~(b > i)
    BY <1>1
  <2>2. /\ Clean(preset, merged[i])
        /\ Entries(merged[i]) = {p \in Entries(merged[i - 1]) : lacks(i, p)} \cup latest(i)
    BY <1>1, <1>9, <1>11, FileIsMerged
  <2>3. latest(i) \in SUBSET Pairs
    BY DEF Latest
  <2>4. Chosen(preset, texts, i) =
          {p \in Chosen(preset, texts, i - 1) : lacks(i, p)} \cup latest(i)
    <3> HIDE DEF lacks, latest
    <3>1. \A m : Chosen(preset, texts, m) =
             {p \in Pairs : \E a \in 1..m : /\ p \in latest(a)
                                          /\ \A b \in 1..m : b > a => lacks(b, p)}
      BY DEF Chosen, lacks, latest
    <3>2. ASSUME NEW p \in Chosen(preset, texts, i)
          PROVE  p \in latest(i) \/ (p \in Chosen(preset, texts, i - 1) /\ lacks(i, p))
      <4>1. PICK a \in 1..i : p \in latest(a) /\ \A b \in 1..i : b > a => lacks(b, p)
        BY <3>1, <3>2
      <4>2. CASE a = i
        BY <4>1, <4>2
      <4>3. CASE a \in 1..(i - 1)
        <5>1. i > a /\ p \in Pairs
          BY <2>1, <3>1, <3>2, <4>3
        <5> QED BY <2>1, <3>1, <4>1, <4>3, <5>1
      <4> QED BY <2>1, <4>2, <4>3
    <3>3. ASSUME NEW p \in Chosen(preset, texts, i - 1), lacks(i, p)
          PROVE  p \in Chosen(preset, texts, i)
      <4>1. PICK a \in 1..(i - 1) :
              p \in latest(a) /\ \A b \in 1..(i - 1) : b > a => lacks(b, p)
        BY <3>1, <3>3
      <4>2. \A b \in 1..i : b > a => lacks(b, p)
        BY <2>1, <3>3, <4>1
      <4>3. p \in Pairs /\ a \in 1..i
        BY <2>1, <3>1, <3>3, <4>1
      <4> QED BY <3>1, <4>1, <4>2, <4>3
    <3>4. ASSUME NEW p \in latest(i)
          PROVE  p \in Chosen(preset, texts, i)
      BY <2>1, <2>3, <3>1, <3>4
    <3> QED BY <3>2, <3>3, <3>4
  <2> QED BY <1>11, <2>2, <2>4
<1>12. Merged(n)
  <2>1. 0 \in S
    BY <1>1, <1>10
  <2>2. \A i \in 1..n : i - 1 \in S => i \in S
    <3> HIDE DEF Merged
    <3> QED BY <1>1, <1>11
  <2>3. \A i \in 0..n : i \in S
    <3> HIDE DEF S
    <3> QED BY <1>1, <2>1, <2>2, UpTo
  <2> QED BY <1>1, <2>3
<1> QED BY <1>8, <1>12 DEF n

\* An environment is another one with these entries set: what is not in them stays.
Extends(e, base, entries) ==
  /\ DOMAIN e = DOMAIN base \cup {p[1] : p \in entries}
  /\ \A p \in entries : e[p[1]] = p[2]
  /\ \A x \in DOMAIN base : (\A p \in entries : p[1] # x) => e[x] = base[x]

LEMMA ListIsApplied ==
  ASSUME NEW base, NEW preset, NEW kvs, Clean(preset, kvs)
  PROVE  /\ Extends(Apply(base, kvs), base, Entries(kvs))
         /\ IsEnvironment(base) => IsEnvironment(Apply(base, kvs))
<1> DEFINE n == Len(kvs)
           N == DOMAIN base \cup STRING
           V == {base[x] : x \in DOMAIN base} \cup STRING
           X == {base} \cup UNION {[D -> V] : D \in SUBSET N}
           step == [k \in 1..n |-> [e \in X |-> Set(e, kvs[k])]]
           Round(g) == g = [k \in 0..n |-> IF k = 0 THEN base ELSE Set(g[k - 1], kvs[k])]
           applied == CHOOSE g : Round(g)
<1>1. n \in Nat /\ DOMAIN kvs = 1..n /\ \A k \in 1..n : kvs[k] \in Pairs
  BY DEF Clean
<1>2. base \in X
  OBVIOUS
<1>a. ASSUME NEW e \in X, NEW k \in 1..n PROVE Set(e, kvs[k]) \in X
  <2>1. DOMAIN e \in SUBSET N /\ \A x \in DOMAIN e : e[x] \in V
    OBVIOUS
  <2>2. kvs[k][1] \in STRING /\ kvs[k][2] \in STRING
    BY <1>1 DEF Pairs
  <2>3. Set(e, kvs[k]) \in [DOMAIN e \cup {kvs[k][1]} -> V]
    BY <2>1, <2>2 DEF Set
  <2>4. DOMAIN e \cup {kvs[k][1]} \in SUBSET N
    BY <2>1, <2>2
  <2> QED BY <2>3, <2>4
<1>b. ASSUME IsEnvironment(base), NEW e \in X PROVE IsEnvironment(e)
  <2>1. N = STRING /\ V = STRING
    BY <1>b DEF IsEnvironment
  <2>2. CASE e = base
    BY <1>b, <2>2
  <2>3. CASE \E D \in SUBSET N : e \in [D -> V]
    <3> HIDE DEF N, V
    <3> QED BY <2>1, <2>3 DEF IsEnvironment
  <2> QED BY <2>2, <2>3
<1>3. step \in [1..n -> [X -> X]]
  <2> HIDE DEF X
  <2> QED BY <1>a
<1>4. PICK g \in [0..n -> X] :
        g[0] = base /\ \A k \in 1..n : g[k] = step[k][g[k - 1]]
  <2>1. n \in Nat
    BY <1>1
  <2> HIDE DEF X, n, step
  <2> QED BY <1>2, <1>3, <2>1, Rounds
<1>5. \A k \in 1..n : g[k] = Set(g[k - 1], kvs[k])
  <2> SUFFICES ASSUME NEW k \in 1..n
               PROVE  g[k] = Set(g[k - 1], kvs[k])
    OBVIOUS
  <2> HIDE DEF X
  <2>1. g[k - 1] \in X
    BY <1>1, <1>4
  <2>2. step[k] = [e \in X |-> Set(e, kvs[k])]
    OBVIOUS
  <2> HIDE DEF step
  <2> QED BY <1>4, <2>1, <2>2
<1>6. Round(g)
  <2> HIDE DEF X, step
  <2> QED BY <1>1, <1>4, <1>5
<1>7. Round(applied)
  <2> HIDE DEF Round
  <2> QED BY <1>6
<1>8. Apply(base, kvs) = applied[n]
  BY DEF Apply
<1> HIDE DEF step, applied, X, n
<1>9. applied[0] = base /\ \A k \in 1..n : applied[k] = Set(applied[k - 1], kvs[k])
  BY <1>1, <1>7
<1> HIDE DEF Round
<1> DEFINE Applied(k) ==
             /\ DOMAIN applied[k] = DOMAIN base \cup {kvs[j][1] : j \in 1..k}
             /\ \A j \in 1..k : applied[k][kvs[j][1]] = kvs[j][2]
             /\ \A x \in DOMAIN base : (\A j \in 1..k : kvs[j][1] # x) => applied[k][x] = base[x]
             /\ applied[k] \in X
           S == {k \in 0..n : Applied(k)}
<1>10. Applied(0)
  <2>1. 1..0 = {} /\ applied[0] = base /\ base \in X
    BY <1>2, <1>9
  <2> QED BY <2>1
<1>11. ASSUME NEW k \in 1..n, Applied(k - 1)
       PROVE  Applied(k)
  <2>1. /\ k - 1 \in Nat /\ \A j \in 1..k : j \in 1..(k - 1) \/ j = k
        /\ \A j \in 1..(k - 1) : j \in 1..k /\ j # k /\ j \in 1..n
        /\ k \in 1..k
    BY <1>1
  <2>2. applied[k] = [x \in DOMAIN applied[k - 1] \cup {kvs[k][1]} |->
                        IF x = kvs[k][1] THEN kvs[k][2] ELSE applied[k - 1][x]]
    BY <1>9 DEF Set
  <2>3. \A j \in 1..(k - 1) : kvs[j][1] # kvs[k][1]
    BY <1>1, <2>1 DEF Clean
  <2>4. DOMAIN applied[k] = DOMAIN applied[k - 1] \cup {kvs[k][1]}
    BY <2>2
  <2>5. \A x \in DOMAIN applied[k] :
          applied[k][x] = (IF x = kvs[k][1] THEN kvs[k][2] ELSE applied[k - 1][x])
    BY <2>2
  <2>6. DOMAIN applied[k] = DOMAIN base \cup {kvs[j][1] : j \in 1..k}
    BY <1>11, <2>1, <2>4
  <2>7. \A j \in 1..k : applied[k][kvs[j][1]] = kvs[j][2]
    BY <1>11, <2>1, <2>3, <2>5, <2>6
  <2>8. ASSUME NEW x \in DOMAIN base, \A j \in 1..k : kvs[j][1] # x
        PROVE  applied[k][x] = base[x]
    BY <1>11, <2>1, <2>5, <2>6, <2>8
  <2>9. applied[k] \in X
    BY <1>9, <1>11, <1>a
  <2> QED BY <2>6, <2>7, <2>8, <2>9
<1>12. Applied(n)
  <2>1. 0 \in S
    BY <1>1, <1>10
  <2>2. \A k \in 1..n : k - 1 \in S => k \in S
    <3> HIDE DEF Applied
    <3> QED BY <1>1, <1>11
  <2>3. \A k \in 0..n : k \in S
    <3> HIDE DEF S
    <3> QED BY <1>1, <2>1, <2>2, UpTo
  <2> QED BY <1>1, <2>3
<1>13. Extends(Apply(base, kvs), base, Entries(kvs))
  BY <1>1, <1>8, <1>12 DEF Entries, Extends
<1>14. IsEnvironment(base) => IsEnvironment(Apply(base, kvs))
  BY <1>8, <1>12, <1>b
<1> QED BY <1>13, <1>14

\* The lines of a name in a file.
Of(text, x) == {k \in DOMAIN text : text[k][1] = x}

\* The files with such a line.
With(texts, x) == {i \in DOMAIN texts : Of(texts[i], x) # {}}

\* What is chosen of a name is its last line.
LEMMA LastLineIsChosen ==
  ASSUME NEW preset, NEW texts, AreFiles(texts), NEW x, x \notin preset,
         With(texts, x) # {}, NEW i, i = Max(With(texts, x))
  PROVE  /\ texts[i][Max(Of(texts[i], x))] \in Chosen(preset, texts, Len(texts))
         /\ texts[i][Max(Of(texts[i], x))][1] = x
<1> DEFINE k == Max(Of(texts[i], x))
           p == texts[i][k]
<1>1. With(texts, x) \in SUBSET (1..Len(texts)) /\ Len(texts) \in Nat
  BY DEF AreFiles, With
<1>2. i \in With(texts, x) /\ \A a \in With(texts, x) : a <= i
  BY <1>1, LastNumber
<1>3. texts[i] \in Seq(Pairs) /\ Of(texts[i], x) # {}
  BY <1>2 DEF AreFiles, With
<1>4. Len(texts[i]) \in Nat /\ DOMAIN texts[i] = 1..Len(texts[i])
      /\ \A j \in 1..Len(texts[i]) : texts[i][j] \in Pairs
  BY <1>3, Elements
<1>5. k \in Of(texts[i], x) /\ \A j \in Of(texts[i], x) : j <= k
  <2>1. Of(texts[i], x) \in SUBSET (1..Len(texts[i]))
    BY <1>4 DEF Of
  <2> QED BY <1>3, <1>4, <2>1, LastNumber
<1> HIDE DEF k
<1>6. k \in 1..Len(texts[i]) /\ p \in Pairs /\ p[1] = x /\ i \in 1..Len(texts)
  BY <1>1, <1>2, <1>4, <1>5 DEF Of
<1>7. \A l \in 1..Len(texts[i]) : l > k => texts[i][l][1] # x
  BY <1>4, <1>5, <1>6 DEF Of
<1>8. p \in Latest(preset, texts[i], Len(texts[i]))
  <2> QED BY <1>6, <1>7 DEF Latest
<1>9. ASSUME NEW a \in 1..Len(texts), a > i
      PROVE  Lacks(texts[a], Len(texts[a]), p[1])
  <2>1. ~(a <= i)
    BY <1>1, <1>6, <1>9
  <2>2. Of(texts[a], x) = {}
    BY <1>2, <2>1 DEF With, AreFiles
  <2>3. DOMAIN texts[a] = 1..Len(texts[a])
    <3>1. texts[a] \in Seq(Pairs)
      BY <1>9 DEF AreFiles
    <3> QED BY <3>1, Elements
  <2> QED BY <1>6, <2>2, <2>3 DEF Of, Lacks
<1> HIDE DEF p
<1> QED BY <1>6, <1>8, <1>9 DEF Chosen, p, k

LEMMA LoadedEnvironment ==
  ASSUME NEW start, NEW texts, AreFiles(texts), NEW e, e = Apply(start, Merge(DOMAIN start, texts))
  PROVE  /\ DOMAIN e = DOMAIN start \cup UNION {{texts[i][k][1] : k \in DOMAIN texts[i]} :
                                               i \in DOMAIN texts}
         /\ \A x \in DOMAIN start : e[x] = start[x]
         /\ \A x \in DOMAIN e \ DOMAIN start :
              LET last == Max(With(texts, x))
              IN e[x] = texts[last][Max(Of(texts[last], x))][2]
<1> DEFINE preset == DOMAIN start
           kvs == Merge(preset, texts)
           C == Chosen(preset, texts, Len(texts))
           Names == UNION {{texts[i][k][1] : k \in DOMAIN texts[i]} : i \in DOMAIN texts}
           last(x) == Max(With(texts, x))
           line(x) == texts[last(x)][Max(Of(texts[last(x)], x))]
<1>1. Clean(preset, kvs) /\ Entries(kvs) = C
  BY FilesAreMerged
<1>2. Extends(e, start, C)
  <2> HIDE DEF preset, kvs, C
  <2>1. e = Apply(start, kvs)
    BY DEF preset, kvs
  <2> QED BY <1>1, <2>1, ListIsApplied
<1>3. ASSUME NEW p \in C
      PROVE  p[1] \notin preset /\ p[1] \in Names
  <2>1. PICK a \in 1..Len(texts) : p \in Latest(preset, texts[a], Len(texts[a]))
    BY DEF Chosen
  <2>2. p[1] \notin preset /\ \E j \in 1..Len(texts[a]) : texts[a][j] = p
    BY <2>1 DEF Latest
  <2>3. DOMAIN texts[a] = 1..Len(texts[a]) /\ a \in DOMAIN texts
    <3>1. texts[a] \in Seq(Pairs)
      BY DEF AreFiles
    <3> QED BY <3>1 DEF AreFiles
  <2> QED BY <2>2, <2>3
<1>4. ASSUME NEW x \in Names, x \notin preset
      PROVE  line(x) \in C /\ line(x)[1] = x
  <2>1. With(texts, x) # {}
    BY <1>4 DEF With, Of
  <2> QED BY <1>4, <2>1, LastLineIsChosen
<1>5. DOMAIN e = preset \cup Names
  <2> HIDE DEF C, Names, line
  <2> QED BY <1>2, <1>3, <1>4 DEF Extends
<1>6. \A x \in preset : e[x] = start[x]
  <2> HIDE DEF C, Names
  <2> QED BY <1>2, <1>3 DEF Extends
<1>7. \A x \in DOMAIN e \ preset : e[x] = line(x)[2]
  <2> HIDE DEF C, Names, line
  <2> QED BY <1>2, <1>4, <1>5 DEF Extends
<1> QED BY <1>5, <1>6, <1>7

\* and it is an environment.
LEMMA LoadedIsEnvironment ==
  ASSUME NEW start, IsEnvironment(start), NEW texts, AreFiles(texts)
  PROVE  IsEnvironment(Apply(start, Merge(DOMAIN start, texts)))
<1>1. Clean(DOMAIN start, Merge(DOMAIN start, texts))
  BY FilesAreMerged
<1> QED BY <1>1, ListIsApplied

\* Files that parse have nothing but pairs.
LEMMA ParsedFiles ==
  ASSUME files \in EnvFiles \cup {<<>>}, \A i \in DOMAIN files : Parses(files[i])
  PROVE  AreFiles(files)
<1>1. CASE files = <<>>
  BY <1>1 DEF AreFiles
<1>2. CASE files \in EnvFiles
  <2> DEFINE Lines == Pairs \cup {Bad}
  <2>1. files \in Seq(Seq(Lines))
    BY <1>2, InvocationAssumption DEF Pairs
  <2>2. /\ Len(files) \in Nat /\ DOMAIN files = 1..Len(files)
        /\ \A i \in 1..Len(files) : files[i] \in Seq(Lines)
    <3> HIDE DEF Lines
    <3> QED BY <2>1, Elements
  <2>3. ASSUME NEW i \in 1..Len(files)
        PROVE  files[i] \in Seq(Pairs)
    <3> DEFINE text == files[i]
    <3>1. /\ Len(text) \in Nat /\ DOMAIN text = 1..Len(text)
          /\ \A j \in 1..Len(text) : text[j] \in Lines
          /\ text \in Seq(Lines)
      <4> HIDE DEF Lines
      <4> QED BY <2>2, Elements
    <3>2. \A j \in 1..Len(text) : text[j] # Bad
      BY <2>2, <3>1 DEF Parses
    <3>3. \A j \in 1..Len(text) : text[j] \in Pairs
      BY <3>1, <3>2
    <3> HIDE DEF text, Lines
    <3>4. text \in Seq(Pairs)
      BY <3>1, <3>3
    <3> QED BY <3>4 DEF text
  <2> QED BY <2>2, <2>3 DEF AreFiles
<1> QED BY <1>1, <1>2

Given == At("env") => files \in EnvFiles \cup {<<>>}

LEMMA FilesAreGiven ==
  ASSUME NEW c, NEW e, NEW cf, NEW fl,
         NEW fs \in EnvFiles \cup {<<>>}, Start(c, e, fs, cf, fl)
  PROVE  Given' /\ EnvPrecedence'
  BY DEF Start, Given, EnvPrecedence, At

\* The environment, once the files are loaded.
LEMMA LoadEnvPrecedence ==
  ASSUME Given, LoadEnv
  PROVE  EnvPrecedence'
<1>1. CASE pc' # "config"
  BY <1>1 DEF EnvPrecedence, At
<1>2. CASE pc' = "config"
  <2>1. /\ \A i \in DOMAIN files : Parses(files[i])
        /\ env' = Apply(given, Merge(DOMAIN given, files))
        /\ files' = files /\ given' = given
    BY <1>2 DEF LoadEnv, End, Exit, args
  <2>2. AreFiles(files)
    BY <2>1, ParsedFiles DEF Given, LoadEnv
  <2> DEFINE last(x) == Max(With(files, x))
  <2>3. /\ DOMAIN env' = DOMAIN given \cup UNION {{files[i][k][1] : k \in DOMAIN files[i]} :
                                                i \in DOMAIN files}
        /\ \A x \in DOMAIN given : env'[x] = given[x]
        /\ \A x \in DOMAIN env' \ DOMAIN given :
             env'[x] = files[last(x)][Max(Of(files[last(x)], x))][2]
    BY <2>1, <2>2, LoadedEnvironment
  <2>4. \A x : LastIn(x) = files[last(x)][Max(Of(files[last(x)], x))][2]
    BY DEF LastIn, With, Of
  <2>5. \A x : LastIn(x)' = LastIn(x)
    BY <2>1 DEF LastIn
  <2> HIDE DEF last
  <2> QED BY <2>1, <2>3, <2>4, <2>5 DEF EnvPrecedence
<1> QED BY <1>1, <1>2

\* No step but the loading of the files begins the loading of the configuration.
LEMMA ElsewherePrecedence ==
  ASSUME EnvPrecedence, Given, pc' \notin {"env", "config"} \/ UNCHANGED <<pc, args, env>>
  PROVE  EnvPrecedence' /\ Given'
<1>1. CASE pc' \notin {"env", "config"}
  BY <1>1 DEF EnvPrecedence, Given, At
<1>2. CASE UNCHANGED <<pc, args, env>>
  <2>1. UNCHANGED <<pc, given, files, env>>
    BY <1>2 DEF args
  <2>2. \A x : LastIn(x)' = LastIn(x)
    BY <2>1 DEF LastIn
  <2> QED BY <2>1, <2>2 DEF EnvPrecedence, Given, At
<1> QED BY <1>1, <1>2

\* The environment is the one the command was started in, completed by the files: an
\* exported name wins, and the last of the files (envfile.merge, envfile.Load).
THEOREM ExportedNameWins == Spec => []EnvPrecedence
<1>1. Init => EnvPrecedence /\ Given
  BY DEF Init, EnvPrecedence, Given, At
<1>2. ASSUME EnvPrecedence, Given, [Next]_vars PROVE EnvPrecedence' /\ Given'
  <2>1. CASE StartAny
    <3>1. \E c, e, cf, fl : \E fs \in EnvFiles \cup {<<>>} : Start(c, e, fs, cf, fl)
      BY <2>1 DEF StartAny
    <3> QED BY <3>1, FilesAreGiven
  <2>2. CASE LoadEnv
    <3>1. pc' # "env"
      BY <2>2 DEF LoadEnv, End, Exit
    <3> QED BY <1>2, <2>2, <3>1, LoadEnvPrecedence DEF Given, At
  <2>3. CASE LoadConfig \/ Check \/ Decide \/ Obtain \/ Persist \/ Deliver \/ Wake \/ Stop
    <3>1. /\ \A why : Finish(why) \/ End(why) => pc' \in {"asleep", "idle"}
          /\ \A label : Goto(label) => pc' = label
      BY DEF Finish, End, Exit, Goto
    <3>2. pc' \notin {"env", "config"}
      BY <2>3, <3>1 DEF LoadConfig, Check, Decide, Obtain, Persist, Deliver, Wake, Stop
    <3> QED BY <1>2, <3>2, ElsewherePrecedence
  <2>4. CASE EditConfig \/ IssueElsewhere \/ BecomesDue
    <3>1. EditConfig \/ BecomesDue => pc' \notin {"env", "config"}
      BY DEF EditConfig, BecomesDue, Idle
    <3>2. IssueElsewhere => UNCHANGED <<pc, args, env>>
      BY DEF IssueElsewhere
    <3> QED BY <1>2, <2>4, <3>1, <3>2, ElsewherePrecedence
  <2>5. CASE UNCHANGED vars
    BY <1>2, <2>5, ElsewherePrecedence DEF vars
  <2> QED BY <1>2, <2>1, <2>2, <2>3, <2>4, <2>5 DEF Next
<1> QED BY <1>1, <1>2, PTL DEF Spec

-----------------------------------------------------------------------------
(* The types.  Stations says which commands pass which step, and where a   *)
(* configuration has been loaded; IInv, that it was checked.               *)

WorldTyped ==
  /\ hostname \in Hostnames /\ edits \in 0..MaxEdits
  /\ file \in [Paths -> Configuration \cup {Missing}]
  /\ file[Default_] # Missing => Bases # {}

StateTyped ==
  /\ store \in [cert : BOOLEAN, key : BOOLEAN] /\ due \in BOOLEAN
  /\ store.key \/ due => store.cert
  /\ placed \subseteq [artifact : ValidArtifacts, checked : BOOLEAN, world : BOOLEAN, key : BOOLEAN]
  /\ \A p, q \in placed : p.artifact = q.artifact => p = q

Stations ==
  /\ pc \in Labels /\ cmd \in Commands /\ path \in Paths /\ every \in {Unset} \cup Intervals
  /\ Looping => cmd = "ensure"
  /\ cfg \in Configuration \cup {Missing}
  /\ At("idle") <=> cfg = Missing /\ pc \notin {"env", "config"}
  /\ pc \in {"env", "config"} => cfg = Missing
  /\ At("asleep") => Looping

EnvTyped == IsEnvironment(given) /\ IsEnvironment(env) /\ (files = <<>> \/ files \in EnvFiles)

\* What a step says of an order and of an end.
SaysTyped ==
  /\ order # NoOrder => order \in Order
  /\ outcome \in [cmd : Commands, why : Reasons \cup Otherwise]

Typed == WorldTyped /\ StateTyped /\ Stations /\ EnvTyped /\ SaysTyped

USE DEF Unset

\* What one edit of one base leaves a configuration leaves every other one a
\* configuration too.
LEMMA EditsAreConfigurations ==
  ASSUME NEW b \in Configuration, NEW c \in Configuration, NEW f, NEW v,
         [b EXCEPT ![f] = v] \in Configuration
  PROVE  [c EXCEPT ![f] = v] \in Configuration
  BY DEF Configuration

LEMMA DefaultsAreConfigurations ==
  ASSUME NEW c \in Configuration
  PROVE  WithDefaults(c) \in Configuration
<1> DEFINE filled == IF c.order = <<>> THEN DefaultOrder ELSE c.order
<1>1. DefaultOrder \in Seq(STRING)
  <2>1. "cert" \in STRING /\ "chain" \in STRING /\ "root" \in STRING /\ "key" \in STRING
    BY DefaultsAreStrings
  <2> QED BY <2>1 DEF DefaultOrder
<1>2. c.order \in Seq(STRING) /\ c.keyType \in STRING /\ c.challenge \in STRING
      /\ c.dirMode \in STRING
  BY DEF Configuration
<1>3. filled \in Seq(STRING)
  BY <1>1, <1>2
<1>4. /\ Default(c.keyType, "ec256") \in STRING
      /\ Default(c.challenge, "dns-01") \in STRING
      /\ Default(c.dirMode, "0700") \in STRING
  BY <1>2, DefaultsAreStrings DEF Default
<1>5. WithDefaults(c) = [[[[c EXCEPT !.keyType = Default(c.keyType, "ec256")]
                             EXCEPT !.challenge = Default(c.challenge, "dns-01")]
                             EXCEPT !.dirMode = Default(c.dirMode, "0700")]
                             EXCEPT !.order = filled]
  BY DEF WithDefaults, Configuration
<1> HIDE DEF filled
<1>6. \A d \in Configuration, m \in STRING :
        /\ [d EXCEPT !.keyType = m] \in Configuration
        /\ [d EXCEPT !.challenge = m] \in Configuration
        /\ [d EXCEPT !.dirMode = m] \in Configuration
  BY DEF Configuration
<1>7. \A d \in Configuration : [d EXCEPT !.order = filled] \in Configuration
  BY <1>3 DEF Configuration
<1> QED
  BY <1>4, <1>5, <1>6, <1>7

LEMMA NoneTyped == IsEnvironment(None)
  BY DEF IsEnvironment, None

LEMMA QuietTyped == outcome' = Quiet /\ order' = NoOrder => SaysTyped'
<1>1. Quiet \in [cmd : Commands, why : Reasons \cup Otherwise]
  BY DEF Quiet, Commands, Otherwise
<1> QED BY <1>1 DEF SaysTyped

\* A command that has loaded a configuration goes on to another step,
LEMMA GotoTyped ==
  ASSUME Stations, EnvTyped, NEW label, Goto(label), cfg # Missing,
         label \in {"decide", "obtain", "persist", "deliver"}
  PROVE  /\ Stations' /\ EnvTyped'
         /\ outcome' \in [cmd : Commands, why : Reasons \cup Otherwise]
<1>1. pc' = label /\ UNCHANGED <<cmd, path, every, cfg, given, files, env>> /\ outcome' = Quiet
  BY DEF Goto, args
<1>2. Stations'
  BY <1>1 DEF Stations, Looping, At, Labels
<1>3. EnvTyped'
  BY <1>1 DEF EnvTyped
<1>4. outcome' \in [cmd : Commands, why : Reasons \cup Otherwise]
  BY <1>1 DEF Quiet, Commands, Otherwise
<1> QED BY <1>2, <1>3, <1>4

\* or ends,
LEMMA ExitTyped ==
  ASSUME Stations, NEW why \in Reasons \cup Otherwise, Exit(why)
  PROVE  /\ Stations' /\ EnvTyped'
         /\ outcome' \in [cmd : Commands, why : Reasons \cup Otherwise]
<1>1. Stations'
  BY DEF Exit, Stations, Looping, At, Commands, Paths, Labels
<1>2. EnvTyped'
  BY NoneTyped DEF Exit, EnvTyped
<1>3. outcome' \in [cmd : Commands, why : Reasons \cup Otherwise]
  BY DEF Exit, Stations
<1> QED BY <1>1, <1>2, <1>3

\* or sleeps.
LEMMA FinishTyped ==
  ASSUME Stations, EnvTyped, NEW why \in Reasons \cup Otherwise, Finish(why), cfg # Missing
  PROVE  /\ Stations' /\ EnvTyped'
         /\ outcome' \in [cmd : Commands, why : Reasons \cup Otherwise]
<1>1. CASE Looping
  <2>1. /\ pc' = "asleep" /\ outcome' = [cmd |-> cmd, why |-> why]
        /\ UNCHANGED <<cmd, path, every, cfg, given, files, env>>
    BY <1>1 DEF Finish, args
  <2>2. Stations'
    BY <1>1, <2>1 DEF Stations, Looping, At, Labels
  <2>3. EnvTyped'
    BY <2>1 DEF EnvTyped
  <2>4. outcome' \in [cmd : Commands, why : Reasons \cup Otherwise]
    BY <2>1 DEF Stations
  <2> QED BY <2>2, <2>3, <2>4
<1>2. CASE ~Looping
  BY <1>2, ExitTyped DEF Finish
<1> QED BY <1>1, <1>2

\* Only the administrator touches the world, and only three steps the state.
LEMMA Kept ==
  /\ WorldTyped /\ UNCHANGED world => WorldTyped'
  /\ StateTyped /\ UNCHANGED state => StateTyped'
  BY DEF WorldTyped, StateTyped, world, state

LEMMA StepsKeepWorld ==
  /\ \A why : Exit(why) \/ Finish(why) => UNCHANGED world
  /\ \A label : Goto(label) => UNCHANGED world
  BY DEF Exit, Finish, Goto

LEMMA EditsBounded == MaxEdits \in Nat
  BY InvocationAssumption, Zenon

LEMMA InitTyped == Init => Typed
<1> SUFFICES ASSUME Init PROVE Typed
  OBVIOUS
<1>1. WorldTyped
  <2>1. edits \in 0..MaxEdits /\ hostname \in Hostnames
    <3>1. edits = 0 /\ hostname \in Hostnames
      BY DEF Init
    <3> QED BY <3>1, EditsBounded
  <2>2. CASE file \in [Paths -> {Missing}]
    BY <2>1, <2>2 DEF WorldTyped, Paths
  <2>3. CASE \E b \in Bases : file \in [Paths -> {b}]
    BY <2>1, <2>3, InvocationAssumption DEF WorldTyped, Paths
  <2> QED BY <2>2, <2>3 DEF Init
<1>2. StateTyped
  BY DEF Init, StateTyped
<1>3. Stations
  BY DEF Init, Stations, Looping, At, Commands, Paths, Labels
<1>4. EnvTyped
  BY NoneTyped DEF Init, EnvTyped
<1>5. SaysTyped
  BY DEF Init, SaysTyped, Quiet, Commands, Otherwise
<1> QED BY <1>1, <1>2, <1>3, <1>4, <1>5 DEF Typed

LEMMA StartTyped == Typed /\ StartAny => Typed'
<1> SUFFICES ASSUME Typed, StartAny PROVE Typed'
  OBVIOUS
<1>1. PICK c \in Commands, e \in Environments \cup {None}, fs \in EnvFiles \cup {<<>>},
           cf \in {Unset, "other.toml"}, fl \in {Unset} \cup Intervals :
        Start(c, e, fs, cf, fl)
  <2>1. PICK c \in Commands, e \in (IF edits = 0 THEN Environments ELSE {None}) :
          \E fs \in {<<>>} \cup (IF edits = 0 /\ c \in {"ensure", "dry-run"} THEN EnvFiles ELSE {}) :
          \E cf \in {Unset} \cup (IF edits = 0 /\ e = None /\ fs = <<>> THEN {"other.toml"} ELSE {}),
             fl \in {Unset} \cup (IF e # None \/ fs # <<>> \/ c # "ensure" THEN {}
                                  ELSE IF edits = 0 THEN Intervals ELSE {"12h"}) :
            Start(c, e, fs, cf, fl)
    BY DEF StartAny
  <2>2. e \in Environments \cup {None} /\ {"12h"} \subseteq Intervals
    BY DEF Intervals
  <2> QED BY <2>1, <2>2
<1>2. /\ IsEnvironment(e)
      /\ Value(e, "SYSCERT_CONFIG") \in {Unset} \cup Paths
      /\ Value(e, "SYSCERT_INTERVAL") \in {Unset} \cup Intervals
  <2>1. CASE e \in Environments
    BY <2>1, InvocationAssumption
  <2>2. CASE e = None
    BY <2>2, NoneTyped DEF None, Value
  <2> QED BY <2>1, <2>2
<1>3. path' \in Paths
  BY <1>1, <1>2 DEF Start, Default, Paths
<1>4. every' \in {Unset} \cup Intervals /\ (c # "ensure" => every' = Unset)
  BY <1>1, <1>2 DEF Start, IntervalOf, Default
<1>5. /\ pc' = "env" /\ cmd' = c /\ cfg' = cfg /\ UNCHANGED <<world, state>>
      /\ given' = e /\ env' = e /\ files' = fs /\ order' = NoOrder /\ outcome' = Quiet
  BY <1>1 DEF Start
<1>6. cfg = Missing
  BY DEF StartAny, Typed, Stations
<1>7. Stations'
  BY <1>3, <1>4, <1>5, <1>6 DEF Stations, Looping, At, Labels
<1>8. EnvTyped'
  BY <1>2, <1>5 DEF EnvTyped
<1> QED BY <1>5, <1>7, <1>8, Kept, QuietTyped DEF Typed

LEMMA LoadTyped ==
  ASSUME Typed, LoadEnv \/ LoadConfig
  PROVE  Typed'
<1>1. UNCHANGED <<world, state>> /\ order' = NoOrder
  BY StepsKeepWorld DEF LoadEnv, LoadConfig, End
<1>2. CASE \E why \in Reasons \cup Otherwise : End(why)
  BY <1>1, <1>2, ExitTyped, Kept DEF End, Typed, SaysTyped
<1>3. CASE LoadEnv /\ ~End("env file")
  <2>1. /\ \A i \in DOMAIN files : Parses(files[i])
        /\ env' = Apply(given, Merge(DOMAIN given, files))
        /\ pc' = "config" /\ outcome' = Quiet /\ UNCHANGED <<args, cfg>> /\ At("env")
    BY <1>3 DEF LoadEnv
  <2>2. AreFiles(files)
    BY <2>1, ParsedFiles DEF Typed, EnvTyped
  <2>3. IsEnvironment(env')
    BY <2>1, <2>2, LoadedIsEnvironment DEF Typed, EnvTyped
  <2>4. EnvTyped'
    BY <2>1, <2>3 DEF Typed, EnvTyped, args
  <2>5. Stations'
    BY <2>1 DEF Typed, Stations, Looping, At, args, Labels
  <2> QED BY <1>1, <2>1, <2>4, <2>5, Kept, QuietTyped DEF Typed
<1>4. CASE /\ LoadConfig
           /\ file[path] # Missing /\ cfg' = WithDefaults(file[path])
           /\ pc' = IF cmd = "distribute" THEN "deliver" ELSE "check"
           /\ given' = None /\ files' = <<>> /\ outcome' = Quiet
           /\ UNCHANGED <<cmd, env, path, every>>
  <2>1. file[path] \in Configuration
    BY <1>4 DEF Typed, WorldTyped, Stations
  <2>2. cfg' \in Configuration /\ cfg' # Missing
    BY <1>4, <2>1, DefaultsAreConfigurations, InvocationAssumption
  <2>3. Stations'
    BY <1>4, <2>2 DEF Typed, Stations, Looping, At, Labels
  <2>4. EnvTyped'
    BY <1>4, NoneTyped DEF Typed, EnvTyped
  <2> QED BY <1>1, <1>4, <2>3, <2>4, Kept, QuietTyped DEF Typed
<1>5. \A why \in {"env file", "no configuration", "interval"} : why \in Reasons \cup Otherwise
  BY DEF Reasons, Otherwise
<1> QED BY <1>2, <1>3, <1>4, <1>5 DEF LoadEnv, LoadConfig

\* Past the loading there is a configuration.
LEMMA Loaded ==
  ASSUME Typed, pc \notin {"idle", "env", "config"}
  PROVE  cfg # Missing
  BY DEF Typed, Stations, At

LEMMA CheckTyped == Typed /\ Check => Typed'
<1> SUFFICES ASSUME Typed, Check PROVE Typed'
  OBVIOUS
<1>1. UNCHANGED <<world, state>> /\ cfg # Missing /\ order' = NoOrder
  BY Loaded, StepsKeepWorld DEF Check, End, At
<1>2. \/ \E why \in Reasons \cup Otherwise : Exit(why)
      \/ \E label \in {"decide", "obtain"} : Goto(label)
  BY DEF Check, End, Reasons, Otherwise
<1>3. /\ Stations' /\ EnvTyped'
      /\ outcome' \in [cmd : Commands, why : Reasons \cup Otherwise]
  BY <1>1, <1>2, ExitTyped, GotoTyped DEF Typed
<1> QED BY <1>1, <1>3, Kept DEF Typed, SaysTyped

LEMMA DecideTyped == Typed /\ Decide => Typed'
<1> SUFFICES ASSUME Typed, Decide PROVE Typed'
  OBVIOUS
<1>1. UNCHANGED <<world, state>> /\ cfg # Missing /\ order' = NoOrder
  BY Loaded, StepsKeepWorld DEF Decide, At
<1>2. \/ \E why \in Reasons \cup Otherwise : Finish(why)
      \/ \E label \in {"obtain", "deliver"} : Goto(label)
  BY DEF Decide, Reasons, Otherwise
<1>3. /\ Stations' /\ EnvTyped'
      /\ outcome' \in [cmd : Commands, why : Reasons \cup Otherwise]
  BY <1>1, <1>2, FinishTyped, GotoTyped DEF Typed
<1> QED BY <1>1, <1>3, Kept DEF Typed, SaysTyped

\* The order of a checked configuration.
LEMMA OrderTyped ==
  ASSUME Typed, cfg # Missing, Vetted(cfg), NEW staging \in BOOLEAN
  PROVE  [directory |-> DirectoryURL(cfg, staging), challenge |-> EffectiveChallenge(cfg),
          ca |-> cfg.ca, ips |-> cfg.ips, identifiers |-> Identifiers(cfg, hostname)] \in Order
<1>1. cfg \in Configuration /\ hostname \in STRING
  BY InvocationAssumption DEF Typed, WorldTyped, Stations
<1>2. /\ cfg.url \in STRING /\ cfg.host \in STRING /\ cfg.ips \in SUBSET STRING
      /\ cfg.names \in SUBSET STRING
  BY <1>1 DEF Configuration
<1>3. DirectoryURL(cfg, staging) \in STRING \ {Unset}
  <2>1. DirectoryURL(cfg, staging) # Unset
    BY VettedChoices
  <2>2. DirectoryURL(cfg, staging) \in STRING
    BY <1>2, DefaultsAreStrings DEF DirectoryURL, Default
  <2> QED BY <2>1, <2>2
<1>4. Identifiers(cfg, hostname) \in SUBSET STRING
  <2>1. Subject(cfg, hostname) \in STRING
    BY <1>1, <1>2, DefaultsAreStrings DEF Subject, Default
  <2> QED BY <1>2, <2>1 DEF Identifiers
<1>5. EffectiveChallenge(cfg) \in ValidChallenges /\ cfg.ca \in ValidCAs
  BY VettedChoices
<1> QED BY <1>2, <1>3, <1>4, <1>5 DEF Order

LEMMA RefusalIsReason ==
  ASSUME NEW directory, NEW registers, NEW credentials
  PROVE  Refusal(directory, registers, credentials) \in Reasons \cup Otherwise
  BY DEF Refusal, Reasons, Otherwise

LEMMA ObtainTyped == Typed /\ IInv /\ Obtain => Typed'
<1> SUFFICES ASSUME Typed, IInv, Obtain PROVE Typed'
  OBVIOUS
<1>1. Vetted(cfg) /\ cfg # Missing
  BY Loaded DEF Obtain, At, IInv, Checked
<1>2. \/ \E why \in Reasons \cup Otherwise : Finish(why)
      \/ Goto("persist")
  BY RefusalIsReason DEF Obtain, Reasons, Otherwise
<1>3. UNCHANGED <<world, state>>
  BY <1>2, StepsKeepWorld DEF Obtain
<1>4. order' # NoOrder => order' \in Order
  <2>1. \/ order' = NoOrder
        \/ \E staging \in BOOLEAN :
             order' = [directory |-> DirectoryURL(cfg, staging),
                       challenge |-> EffectiveChallenge(cfg),
                       ca |-> cfg.ca, ips |-> cfg.ips,
                       identifiers |-> Identifiers(cfg, hostname)]
    BY DEF Obtain
  <2> QED BY <1>1, <2>1, OrderTyped
<1>5. /\ Stations' /\ EnvTyped'
      /\ outcome' \in [cmd : Commands, why : Reasons \cup Otherwise]
  BY <1>1, <1>2, FinishTyped, GotoTyped DEF Typed
<1> QED BY <1>3, <1>4, <1>5, Kept DEF Typed, SaysTyped, Order

LEMMA PersistTyped == Typed /\ Persist => Typed'
<1> SUFFICES ASSUME Typed, Persist PROVE Typed'
  OBVIOUS
<1>1. PICK cert \in BOOLEAN, bundle \in BOOLEAN :
        /\ bundle => cert
        /\ store' = [cert |-> store.cert \/ cert,
                     key  |-> IF bundle THEN BundleHoldsKey(cfg) ELSE store.key]
        /\ due' = (due /\ ~cert)
  BY DEF Persist
<1>2. \/ \E why \in Reasons \cup Otherwise : Finish(why)
      \/ Goto("deliver")
  BY DEF Persist, Reasons, Otherwise
<1>3. UNCHANGED <<world, placed>> /\ cfg # Missing /\ order' = NoOrder
  BY <1>2, Loaded, StepsKeepWorld DEF Persist, At
<1>4. /\ Stations' /\ EnvTyped'
      /\ outcome' \in [cmd : Commands, why : Reasons \cup Otherwise]
  BY <1>2, <1>3, FinishTyped, GotoTyped DEF Typed
<1>5. StateTyped'
  <2>1. BundleHoldsKey(cfg) \in BOOLEAN /\ store.cert \in BOOLEAN /\ store.key \in BOOLEAN
        /\ due \in BOOLEAN
    BY DEF BundleHoldsKey, Typed, StateTyped
  <2>2. store' \in [cert : BOOLEAN, key : BOOLEAN] /\ due' \in BOOLEAN
    BY <1>1, <2>1
  <2>3. store'.cert = (store.cert \/ cert)
        /\ store'.key = (IF bundle THEN BundleHoldsKey(cfg) ELSE store.key)
    BY <1>1
  <2>4. store'.key \/ due' => store'.cert
    BY <1>1, <2>1, <2>3 DEF Typed, StateTyped
  <2> QED BY <1>3, <2>2, <2>4 DEF Typed, StateTyped
<1> QED BY <1>3, <1>4, <1>5, Kept DEF Typed, SaysTyped

LEMMA DeliverTyped == Typed /\ Deliver => Typed'
<1> SUFFICES ASSUME Typed, Deliver PROVE Typed'
  OBVIOUS
<1> DEFINE good == {t \in cfg.target : TargetError(t) = Unset}
<1>1. PICK done \in SUBSET good :
        placed' = {p \in placed : \A t \in done : t.artifact # p.artifact}
                    \cup {Delivery(t) : t \in done}
  BY DEF Deliver
<1>2. \E why \in Reasons \cup Otherwise : Finish(why)
  <2>1. \A t : TargetError(t) \in Reasons \cup Otherwise
    BY DEF TargetError, Reasons, Otherwise
  <2>2. {"ok", "not revoked", "a target"} \subseteq Reasons \cup Otherwise
    BY DEF Otherwise
  <2> HIDE DEF good
  <2>3. \/ \E why \in {"ok", "not revoked"} : Finish(why)
        \/ \E t \in cfg.target :
             Finish(IF TargetError(t) = Unset THEN "a target" ELSE TargetError(t))
    BY DEF Deliver
  <2> QED BY <2>1, <2>2, <2>3
<1>3. UNCHANGED <<world, store, due>> /\ cfg \in Configuration /\ cfg # Missing
      /\ order' = NoOrder
  BY <1>2, Loaded, StepsKeepWorld DEF Deliver, At, Typed, Stations
<1>4. /\ Stations' /\ EnvTyped'
      /\ outcome' \in [cmd : Commands, why : Reasons \cup Otherwise]
  BY <1>2, <1>3, FinishTyped DEF Typed
<1>5. \A s, t \in done : s.artifact = t.artifact => s = t
  BY <1>3 DEF Configuration
<1>6. \A t \in done : t.artifact \in ValidArtifacts
  BY DEF TargetError
<1>7. \A t : Delivery(t).artifact = t.artifact
  BY DEF Delivery
<1>8. \A t \in done : Delivery(t) \in
        [artifact : ValidArtifacts, checked : BOOLEAN, world : BOOLEAN, key : BOOLEAN]
  <2>1. store.key \in BOOLEAN
    BY DEF Typed, StateTyped
  <2>2. \A t : WorldReadable(TargetMode(t)) \in BOOLEAN
    BY DEF WorldReadable
  <2> HIDE DEF good
  <2> QED BY <1>6, <2>1, <2>2 DEF Delivery
<1> HIDE DEF good
<1>9. placed' \subseteq
        [artifact : ValidArtifacts, checked : BOOLEAN, world : BOOLEAN, key : BOOLEAN]
  BY <1>1, <1>8 DEF Typed, StateTyped
<1>10. ASSUME NEW p \in placed', NEW q \in placed', p.artifact = q.artifact
       PROVE  p = q
  <2>1. CASE p \in placed /\ q \in placed
    BY <1>10, <2>1 DEF Typed, StateTyped
  <2>2. CASE \E s, t \in done : p = Delivery(s) /\ q = Delivery(t)
    BY <1>5, <1>7, <1>10, <2>2
  <2> QED BY <1>1, <1>7, <1>10, <2>1, <2>2
<1>11. StateTyped'
  BY <1>3, <1>9, <1>10 DEF Typed, StateTyped
<1> QED BY <1>3, <1>4, <1>11, Kept DEF Typed, SaysTyped

LEMMA OtherTyped ==
  ASSUME Typed, Wake \/ Stop \/ EditConfig \/ IssueElsewhere \/ BecomesDue \/ UNCHANGED vars
  PROVE  Typed'
<1>1. CASE Wake
  <2>1. /\ pc' = "decide" /\ order' = NoOrder /\ outcome' = Quiet
        /\ UNCHANGED <<world, state, cmd, path, every, cfg, given, files, env>>
    BY <1>1 DEF Wake, args
  <2>2. Looping /\ cmd = "ensure" /\ cfg # Missing
    BY <1>1, Loaded DEF Wake, At, Typed, Stations
  <2>3. Stations'
    BY <2>1, <2>2 DEF Typed, Stations, Looping, At, Labels
  <2>4. EnvTyped'
    BY <2>1 DEF Typed, EnvTyped
  <2> QED BY <2>1, <2>3, <2>4, Kept, QuietTyped DEF Typed
<1>2. CASE Stop
  <2>1. "ok" \in Reasons \cup Otherwise
    BY DEF Otherwise
  <2> QED BY <1>2, <2>1, ExitTyped, StepsKeepWorld, Kept DEF Stop, End, Typed, SaysTyped
<1>3. CASE EditConfig
  <2>1. /\ UNCHANGED <<state, cmd, path, every, cfg, pc, hostname, given, files, env>>
        /\ order' = NoOrder /\ outcome' = Quiet
    BY <1>3 DEF EditConfig, args
  <2>2. PICK f \in DOMAIN Variants : \E v \in Variants[f] :
          file' = [file EXCEPT ![Default_][f] = v]
    BY <1>3 DEF EditConfig
  <2>3. PICK v \in Variants[f] : file' = [file EXCEPT ![Default_][f] = v]
    BY <2>2
  <2>4. PICK b \in Bases : TRUE
    BY <1>3 DEF EditConfig, Typed, WorldTyped
  <2>5. [file[Default_] EXCEPT ![f] = v] \in Configuration
    BY <1>3, <2>4, InvocationAssumption, EditsAreConfigurations
    DEF EditConfig, Typed, WorldTyped, Paths
  <2>6. edits' \in 0..MaxEdits
    <3>1. edits \in 0..MaxEdits /\ edits < MaxEdits /\ edits' = edits + 1
      BY <1>3 DEF EditConfig, Typed, WorldTyped
    <3> QED BY <3>1, EditsBounded
  <2>7. WorldTyped'
    BY <2>1, <2>3, <2>5, <2>6, <2>4 DEF Typed, WorldTyped, Paths
  <2>8. Stations' /\ EnvTyped'
    BY <2>1 DEF Typed, Stations, EnvTyped, Looping, At
  <2> QED BY <2>1, <2>7, <2>8, Kept, QuietTyped DEF Typed
<1>4. CASE BecomesDue \/ IssueElsewhere
  <2>1. /\ UNCHANGED <<world, placed, cmd, path, every, cfg, pc, given, files, env>>
        /\ order' = NoOrder /\ outcome' = Quiet
    BY <1>4 DEF BecomesDue, IssueElsewhere, args
  <2>2. ASSUME BecomesDue PROVE StateTyped'
    <3>1. store.cert /\ due' = TRUE /\ store' = store /\ placed' = placed
      BY <2>2 DEF BecomesDue
    <3> QED BY <3>1 DEF Typed, StateTyped
  <2>3. ASSUME IssueElsewhere PROVE StateTyped'
    <3>1. PICK c : store' = [cert |-> TRUE, key |-> BundleHoldsKey(c)] /\ due' = FALSE
      BY <2>3 DEF IssueElsewhere
    <3>2. BundleHoldsKey(c) \in BOOLEAN
      BY DEF BundleHoldsKey
    <3>3. store' \in [cert : BOOLEAN, key : BOOLEAN] /\ store'.cert
      BY <3>1, <3>2
    <3> QED BY <2>1, <3>1, <3>3 DEF Typed, StateTyped
  <2>4. Stations' /\ EnvTyped'
    BY <2>1 DEF Typed, Stations, EnvTyped, Looping, At
  <2> QED BY <1>4, <2>1, <2>2, <2>3, <2>4, Kept, QuietTyped DEF Typed
<1>5. CASE UNCHANGED vars
  BY <1>5, Kept DEF vars, args, Typed, Stations, EnvTyped, SaysTyped, Looping, At
<1> QED BY <1>1, <1>2, <1>3, <1>4, <1>5

\* Every variable keeps its type: a configuration is loaded exactly between the loading and
\* the end of a command, what a loop works with is an environment, an order names a
\* directory, a CA and a challenge that there are, and every target has been left by its
\* last delivery.
THEOREM TypeCorrect == Spec => []TypeOK
<1>1. Typed /\ IInv /\ [Next]_vars => Typed'
  BY StartTyped, LoadTyped, CheckTyped, DecideTyped, ObtainTyped, PersistTyped,
     DeliverTyped, OtherTyped
  DEF Next
<1>2. Typed => TypeOK
  BY DEF Typed, WorldTyped, StateTyped, Stations, EnvTyped, SaysTyped, TypeOK
<1> QED BY InitTyped, Invariance, <1>1, <1>2, PTL DEF Spec
=============================================================================
