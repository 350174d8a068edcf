----------------------------- MODULE Invocation -----------------------------
(***************************************************************************)
(* One invocation after another of the commands that read the              *)
(* configuration: the flags and their defaults, the env files, the checks, *)
(* the cycle, and with --interval the loop that keeps what it started      *)
(* with, while the administrator edits the file.  What the commands do to  *)
(* the store and the targets is here as far as the configuration decides   *)
(* it, and may fail for other reasons: SysCert, Access, Account, Delivery  *)
(* and Interval have those.                                                *)
(***************************************************************************)
EXTENDS Config, EnvFile

CONSTANTS
  Hostnames,    \* what the system calls itself: "short" has no domain
  Bases,        \* the configurations an administrator begins with
  Variants,     \* for every field, the values it is edited to
  Environments, \* the environments a command is started in
  EnvFiles,     \* the sequences of files given with --env-file
  MaxEdits,     \* bound: edits of the file at the default path
  Missing,      \* no file, nothing loaded
  NoOrder

Default_   == "/etc/syscert/syscert.toml"
Paths      == {Default_, "other.toml"}
Intervals  == {"12h", "30s", "soon"}

Commands   == {"ensure", "issue", "renew", "void", "distribute", "dry-run"}

Labels     == {"idle", "env", "config", "check", "decide", "obtain", "persist", "deliver", "asleep"}

\* How a command or a cycle may end: by what the configuration says, or otherwise.
Reasons    == {"interval", "problems", "window", "directory", "key type", "ca bundle", "account",
               "provider", "challenge", "group", "artifact", "mode", "owner"}
Otherwise  == {Unset, "ok", "env file", "no configuration", "store access", "no certificate",
               "credentials", "the CA", "the store", "not in the store", "a target", "not revoked"}

Value(e, name) == IF name \in DOMAIN e THEN e[name] ELSE Unset

\* Names with values.
IsEnvironment(e) == DOMAIN e \subseteq STRING /\ e \in [DOMAIN e -> STRING]

ASSUME InvocationAssumption ==
  /\ Hostnames \subseteq STRING
  /\ Missing \notin Configuration /\ Bases \subseteq Configuration
  /\ \A c \in Bases, f \in DOMAIN Variants : \A v \in Variants[f] :
       [c EXCEPT ![f] = v] \in Configuration
  /\ \A e \in Environments : /\ IsEnvironment(e)
                            /\ Value(e, "SYSCERT_CONFIG") \in {Unset} \cup Paths
                            /\ Value(e, "SYSCERT_INTERVAL") \in {Unset} \cup Intervals
  /\ EnvFiles \subseteq Seq(Seq((STRING \X STRING) \cup {Bad})) /\ Bad \notin STRING \X STRING
  /\ MaxEdits \in Nat

VARIABLES
  hostname, file, edits,
  store,        \* is there a certificate, and does bundle.pem hold the key?
  due,          \* is it due for renewal?
  placed,       \* the files at the targets, each as its last delivery left it
  pc, cmd,
  given,        \* the environment the command was started in
  files,        \* its --env-file arguments
  env,          \* the environment it uses
  path, every,  \* --config and --interval, defaults applied
  cfg,          \* what it has loaded
  order,        \* the order that the last step placed
  outcome       \* how the command or cycle ended that the last step ended

world == <<hostname, file, edits>>
state == <<store, due, placed>>
args  == <<cmd, given, files, path, every>>
vars  == <<world, state, args, pc, env, cfg, order, outcome>>

None  == [f \in {} |-> Unset]
Quiet == [cmd |-> "ensure", why |-> Unset]

Init ==
  /\ hostname \in Hostnames
  /\ file \in [Paths -> {Missing}] \cup UNION {[Paths -> {b}] : b \in Bases}
  /\ edits = 0
  /\ store = [cert |-> FALSE, key |-> FALSE] /\ due = FALSE /\ placed = {}
  /\ pc = "idle" /\ cmd = "ensure" /\ given = None /\ files = <<>> /\ env = None
  /\ path = Default_ /\ every = Unset /\ cfg = Missing /\ order = NoOrder
  /\ outcome = Quiet

-----------------------------------------------------------------------------
(* The start of a command.                                                 *)

At(label) == pc = label

\* What is left of a command that ended is how it ended.
Exit(why) ==
  /\ pc' = "idle" /\ outcome' = [cmd |-> cmd, why |-> why]
  /\ cmd' = "ensure" /\ given' = None /\ files' = <<>> /\ env' = None
  /\ path' = Default_ /\ every' = Unset /\ cfg' = Missing
  /\ UNCHANGED world

End(why) == Exit(why) /\ UNCHANGED state /\ order' = NoOrder

\* Mutant: the flag, and its default, are every command's.
IntervalOf_Any(c, e, flag) == Default(flag, Value(e, "SYSCERT_INTERVAL"))

\* --interval belongs to the zero-argument command.
IntervalOf(c, e, flag) ==
  IF c = "ensure" THEN Default(flag, Value(e, "SYSCERT_INTERVAL")) ELSE Unset

\* The defaults of the flags are taken from the environment the command is started
\* in: a file of --env-file has not been read yet.
Start(c, e, fs, configFlag, intervalFlag) ==
  /\ pc' = "env" /\ cmd' = c /\ given' = e /\ files' = fs /\ env' = e
  /\ path' = Default(configFlag, Default(Value(e, "SYSCERT_CONFIG"), Default_))
  /\ every' = IntervalOf(c, e, intervalFlag)
  /\ order' = NoOrder /\ outcome' = Quiet
  /\ UNCHANGED <<world, state, cfg>>

\* envfile.Load: every file is parsed before the first name is set.
LoadEnv ==
  /\ At("env")
  /\ IF \A i \in DOMAIN files : Parses(files[i])
       THEN /\ env' = Apply(given, Merge(DOMAIN given, files))
            /\ pc' = "config" /\ order' = NoOrder /\ outcome' = Quiet
            /\ UNCHANGED <<world, state, args, cfg>>
       ELSE End("env file")

\* parseInterval, with the floor of a minute.
IntervalAccepted == every \in {Unset, "12h"}

LoadConfig ==
  /\ At("config")
  /\ IF IntervalAccepted /\ file[path] # Missing
       THEN /\ cfg' = WithDefaults(file[path])
            /\ pc' = IF cmd = "distribute" THEN "deliver" ELSE "check"
            /\ given' = None /\ files' = <<>> /\ order' = NoOrder /\ outcome' = Quiet
            /\ UNCHANGED <<world, state, cmd, env, path, every>>
       ELSE End(IF IntervalAccepted THEN "no configuration" ELSE "interval")

\* loadAndCheck's problems.
Vetted(c) == Problems(c) = {} /\ Subject(c, hostname) # Unset

Goto(label) ==
  /\ pc' = label /\ outcome' = Quiet
  /\ UNCHANGED <<world, args, env, cfg>>

Check ==
  /\ At("check")
  /\ \/ ~Vetted(cfg) /\ End("problems")
     \/ /\ Vetted(cfg) /\ UNCHANGED state /\ order' = NoOrder
        /\ Goto(IF cmd \in {"ensure", "renew", "void"} THEN "decide" ELSE "obtain")
     \/ Vetted(cfg) /\ cmd = "dry-run" /\ End("ok")             \* --config-only
     \/ Vetted(cfg) /\ cmd # "dry-run" /\ End("store access")   \* storeAccessGuard

-----------------------------------------------------------------------------
(* The cycle.                                                              *)

Looping == every # Unset

\* The loop logs an error and sleeps; a command ends with it.
Finish(why) ==
  IF Looping THEN /\ pc' = "asleep" /\ outcome' = [cmd |-> cmd, why |-> why]
                  /\ UNCHANGED <<world, args, env, cfg>>
             ELSE Exit(why)

\* renewal.Due reads the window of a certificate that is there.  renew --force does not
\* ask it, and neither does void, which asks the user and revokes before it reissues.
Decide ==
  /\ At("decide") /\ UNCHANGED state /\ order' = NoOrder
  /\ \/ ~store.cert /\ IF cmd = "ensure" THEN Goto("obtain") ELSE Finish("no certificate")
     \/ store.cert /\ cmd \in {"renew", "void"} /\ Goto("obtain")
     \/ store.cert /\ cmd = "void" /\ Finish("ok")     \* not confirmed
     \/ store.cert /\ cmd # "void" /\ ~WindowParses(cfg) /\ Finish("window")
     \/ store.cert /\ cmd # "void" /\ WindowParses(cfg) /\ due /\ Goto("obtain")
     \/ /\ store.cert /\ cmd # "void" /\ WindowParses(cfg) /\ ~due
        /\ IF cmd = "renew" THEN Finish("ok") ELSE Goto("deliver")

\* An account that is not registered yet needs the HMAC key when a key identifier is
\* configured.
NoSecret(registers) == cfg.kid /\ registers /\ Value(env, "SYSCERT_EAB_HMAC") = Unset

\* What Obtain refuses by itself, in its order.  setSolver makes a DNS provider by its name,
\* which takes its credentials from the environment.
Refusal(directory, registers, credentials) ==
  IF directory = Unset                                    THEN "directory"
  ELSE IF cfg.keyType \notin ValidKeyTypes                THEN "key type"
  ELSE IF cfg.caFile = "junk"                             THEN "ca bundle"
  ELSE IF NoSecret(registers)                             THEN "account"
  ELSE IF EffectiveChallenge(cfg) = "dns-01" /\ ~KnownProvider(cfg) THEN "provider"
  ELSE IF EffectiveChallenge(cfg) = "dns-01" /\ ~credentials        THEN "credentials"
  ELSE IF EffectiveChallenge(cfg) \notin ValidChallenges  THEN "challenge"
  ELSE Unset

\* A dry run asks for the staging directory, with an account of its own.  The account's
\* files and the CA may fail before the order as well as in it.  The flag of a loop is the
\* same in every cycle: that one cycle may differ from the next adds behaviours.
Obtain ==
  /\ At("obtain") /\ UNCHANGED state
  /\ \E staging, registers, credentials \in BOOLEAN :
       /\ cmd = "dry-run" => staging /\ registers
       /\ LET directory == DirectoryURL(cfg, staging)
              why       == Refusal(directory, registers, credentials)
          IN \/ why # Unset /\ Finish(why) /\ order' = NoOrder
             \/ why \notin {"directory", "key type"} /\ Finish("the CA") /\ order' = NoOrder
             \/ /\ why = Unset
                /\ order' = [directory |-> directory, challenge |-> EffectiveChallenge(cfg),
                              ca |-> cfg.ca, ips |-> cfg.ips,
                              identifiers |-> Identifiers(cfg, hostname)]
                /\ \/ Finish("the CA")
                   \/ cmd = "dry-run" /\ Finish("ok")
                   \/ cmd # "dry-run" /\ Goto("persist")

\* Archive and Write: the group is looked up before the first file is written, cert.pem is
\* the first and bundle.pem the last, and any of them may fail.  What bundle.pem holds is
\* settled by the order of that day.
Persist ==
  /\ At("persist") /\ UNCHANGED placed /\ order' = NoOrder
  /\ \E cert, bundle \in BOOLEAN :
       /\ bundle => cert
       /\ cert => Exists(cfg.group)
       /\ store' = [cert |-> store.cert \/ cert,
                    key  |-> IF bundle THEN BundleHoldsKey(cfg) ELSE store.key]
       /\ due' = (due /\ ~cert)
       /\ \/ ~Exists(cfg.group) /\ Finish("group")
          \/ Finish("the store")
          \/ bundle /\ IF cmd \in {"ensure", "void"} THEN Goto("deliver") ELSE Finish("ok")

\* one, as far as the configuration decides: the artifact, the file in the store, the
\* mode, the owner and the group.
TargetError(t) ==
  IF t.artifact \notin ValidArtifacts THEN "artifact"
  ELSE IF ~store.cert                 THEN "not in the store"
  ELSE IF ~Octal(TargetMode(t))       THEN "mode"
  ELSE IF ~Exists(t.owner)            THEN "owner"
  ELSE Unset

Delivery(t) ==
  [artifact |-> t.artifact, checked |-> cmd # "distribute", world |-> WorldReadable(TargetMode(t)),
   key |-> t.artifact = "privkey" \/ (t.artifact = "bundle" /\ store.key)]

\* Run: every target is tried, the errors are joined, of which one is noted.  What is
\* written may fail too, before the file is in its place or, its label, after.  Void ends
\* with an error when it could not revoke.
Deliver ==
  /\ At("deliver") /\ UNCHANGED <<store, due>> /\ order' = NoOrder
  /\ \E done \in SUBSET {t \in cfg.target : TargetError(t) = Unset} :
       /\ placed' = {p \in placed : \A t \in done : t.artifact # p.artifact}
                       \cup {Delivery(t) : t \in done}
       /\ \/ done = cfg.target /\ Finish("ok")
          \/ done = cfg.target /\ cmd = "void" /\ Finish("not revoked")
          \/ \E t \in cfg.target :
               Finish(IF TargetError(t) = Unset THEN "a target" ELSE TargetError(t))

\* The next cycle: nothing is read again, nothing is checked again.
Wake ==
  /\ At("asleep")
  /\ pc' = "decide" /\ order' = NoOrder /\ outcome' = Quiet
  /\ UNCHANGED <<world, state, args, env, cfg>>

\* SIGTERM: between two cycles, see Interval.
Stop == At("asleep") /\ End("ok")

-----------------------------------------------------------------------------
(* The administrator and the time.  The file is read in one step, and so is *)
(* the certificate: what changes while a command runs changes before that  *)
(* step or after the command, and Idle leaves the rest out.                *)

Idle == pc \in {"idle", "asleep"}

EditConfig ==
  /\ Idle /\ edits < MaxEdits /\ file[Default_] # Missing
  /\ \E f \in DOMAIN Variants : \E v \in Variants[f] :
       file' = [file EXCEPT ![Default_][f] = v]
  /\ edits' = edits + 1 /\ order' = NoOrder /\ outcome' = Quiet
  /\ UNCHANGED <<hostname, state, args, pc, env, cfg>>

\* While a command is at work, or its loop asleep, another issue runs with the file as it
\* is by now, and ends.
IssueElsewhere ==
  /\ cfg # Missing /\ file[Default_] # Missing
  /\ LET c == WithDefaults(file[Default_])
     IN Vetted(c) /\ Exists(c.group) /\ store' = [cert |-> TRUE, key |-> BundleHoldsKey(c)]
  /\ due' = FALSE /\ order' = NoOrder /\ outcome' = Quiet
  /\ UNCHANGED <<world, placed, args, pc, env, cfg>>

BecomesDue ==
  /\ Idle /\ store.cert /\ due' = TRUE /\ order' = NoOrder /\ outcome' = Quiet
  /\ UNCHANGED <<world, store, placed, args, pc, env, cfg>>

\* Bounds: env files, flags other than --interval 12h, and the environments are tried
\* before the first edit, env files with two commands and without other flags.
StartAny ==
  /\ At("idle")
  /\ \E c \in Commands, e \in (IF edits = 0 THEN Environments ELSE {None}) :
     \E fs \in {<<>>} \cup (IF edits = 0 /\ c \in {"ensure", "dry-run"} THEN EnvFiles ELSE {}) :
     \E configFlag \in {Unset} \cup
                        (IF edits = 0 /\ e = None /\ fs = <<>> THEN {"other.toml"} ELSE {}),
        intervalFlag \in {Unset} \cup
                          (IF e # None \/ fs # <<>> \/ c # "ensure" THEN {}
                           ELSE IF edits = 0 THEN Intervals ELSE {"12h"}) :
       Start(c, e, fs, configFlag, intervalFlag)

Next ==
  \/ StartAny
  \/ LoadEnv \/ LoadConfig \/ Check
  \/ Decide \/ Obtain \/ Persist \/ Deliver
  \/ Wake \/ Stop
  \/ EditConfig \/ IssueElsewhere \/ BecomesDue

Spec == Init /\ [][Next]_vars

-----------------------------------------------------------------------------
(* Properties.                                                             *)

\* The type invariant.
Order ==
  [directory : STRING \ {Unset}, challenge : ValidChallenges, ca : ValidCAs,
   ips : SUBSET STRING, identifiers : SUBSET STRING]

TypeOK ==
  /\ hostname \in Hostnames /\ edits \in 0..MaxEdits
  /\ file \in [Paths -> Configuration \cup {Missing}] /\ cfg \in Configuration \cup {Missing}
  /\ store \in [cert : BOOLEAN, key : BOOLEAN] /\ due \in BOOLEAN
  /\ store.key \/ due => store.cert
  /\ placed \subseteq [artifact : ValidArtifacts, checked : BOOLEAN, world : BOOLEAN, key : BOOLEAN]
  /\ \A p, q \in placed : p.artifact = q.artifact => p = q
  /\ pc \in Labels /\ cmd \in Commands /\ path \in Paths /\ every \in {Unset} \cup Intervals
  /\ Looping => cmd = "ensure"
  /\ At("idle") <=> cfg = Missing /\ pc \notin {"env", "config"}
  /\ IsEnvironment(given) /\ IsEnvironment(env) /\ (files = <<>> \/ files \in EnvFiles)
  /\ order # NoOrder => order \in Order
  /\ outcome \in [cmd : Commands, why : Reasons \cup Otherwise]

\* The environment a command works with is the one it was started in, completed by
\* the env files: an exported variable wins over every file, even when it is empty,
\* and of several values in the files the last one wins (envfile.merge).
LastIn(name) ==
  LET has(i) == {k \in DOMAIN files[i] : files[i][k][1] = name}
      last   == Max({i \in DOMAIN files : has(i) # {}})
  IN files[last][Max(has(last))][2]

EnvPrecedence ==
  At("config") =>
    /\ DOMAIN env = DOMAIN given \cup UNION {{files[i][k][1] : k \in DOMAIN files[i]} :
                                              i \in DOMAIN files}
    /\ \A n \in DOMAIN env : env[n] = IF n \in DOMAIN given THEN given[n] ELSE LastIn(n)

\* Of what may refuse a cycle, what the rules of validation look at does not: however the
\* file was edited since a loop was started, no cycle of a command that checks its
\* configuration ends for want of a directory, for its key type, its challenge or an
\* artifact (validate.Config).  The DNS provider, the group of the store, the owner and the
\* mode of a target, ca_bundle and renew_before can refuse it: see FailFast.
CheckedChoicesHold ==
  outcome.cmd # "distribute" =>
    outcome.why \notin {"directory", "key type", "challenge", "artifact"}

\* What an order holds of ip_sans is addresses, of a public CA only those that
\* isPubliclyRoutable accepts, and with a DNS challenge none, whatever the challenge, the
\* CA and the addresses were edited to (config.EffectiveChallenge, validate.Config).
OrderLegal ==
  order # NoOrder =>
    /\ order.ips \subseteq Addresses
    /\ order.challenge = "dns-01" => order.ips = {}
    /\ IsPublicCA(order.ca) => order.ips \subseteq {"public"}

\* A file that holds the private key and that all can read was placed by the
\* distribute command, which checks nothing: the other commands never leave one,
\* even when the order of the bundle or the mode of the target was edited after the
\* certificate was issued, and when what a loop delivers was issued by another command
\* with an order that the loop never read (validate.keyBearing, distribute.defaultMode).
KeyHidden == \A p \in placed : p.key /\ p.world => ~p.checked

-----------------------------------------------------------------------------
(* What the code does not promise, for runs that show it.                  *)

\* Fail fast: a checked configuration is not refused later for what it says.
FailFast ==
  outcome.cmd # "distribute" =>
    outcome.why \notin {"window", "ca bundle", "provider", "group", "mode", "owner"}

\* No order asks for an address by a DNS challenge, wherever it is written.
OrderLegalByShape ==
  order # NoOrder /\ order.challenge = "dns-01" => order.identifiers \cap Addresses = {}

\* No readable key at all.
KeyHiddenFromAll == \A p \in placed : ~(p.key /\ p.world)
=============================================================================
