------------------------------- MODULE Config -------------------------------
(***************************************************************************)
(* The configuration: its defaults, what validation says of it, and what   *)
(* the program derives from it.  A configuration is a record of the fields *)
(* that rules and derivations read; a field that is not set is Unset.      *)
(*                                                                         *)
(*   ca, url, email, challenge, provider, keyType, host, window, dirMode,  *)
(*   group, caFile, format, check, output : one value                      *)
(*   ips    the addresses in ip_sans: "public", "private", "junk"          *)
(*   names  what sans holds: "name", or an address                         *)
(*   order  the tokens of bundle.order                                     *)
(*   target the [[distribute]] blocks, records of an artifact, a mode and  *)
(*          an owner, which stands for the group too                       *)
(*   keep   archive_keep                                                   *)
(*   kid    is acme.eab.kid set?                                           *)
(***************************************************************************)
EXTENDS Integers, Sequences, FiniteSets

Unset == ""

ValidCAs        == {"letsencrypt", "custom"}
ValidChallenges == {"dns-01", "http-01", "tls-alpn-01"}
ValidKeyTypes   == {"ec256", "ec384", "rsa2048", "rsa4096"}
ValidArtifacts  == {"cert", "privkey", "chain", "fullchain", "bundle"}
KeyBearing      == {"privkey", "bundle"}
ValidTokens     == {"cert", "chain", "root", "key"}
ValidFormats    == {Unset, "text", "json"}
ValidChecks     == {Unset, "all", "authoritative", "off"}

\* A file as validation sees it: a path with the wrong shape never reaches its reader.
ValidOutputs    == {Unset, "absolute with its suffix"}

Addresses == {"public", "private"}

\* What a file decodes to.  A target is told from the others by its artifact: a
\* configuration has one block for each.
Configuration ==
  [ca : STRING, url : STRING, email : STRING, challenge : STRING, provider : STRING,
   keyType : STRING, host : STRING, window : STRING, dirMode : STRING, group : STRING,
   caFile : STRING, format : STRING, check : STRING, output : STRING,
   ips : SUBSET STRING, names : SUBSET STRING, order : Seq(STRING), keep : Int, kid : BOOLEAN,
   target : {T \in SUBSET [artifact : STRING, mode : STRING, owner : STRING] :
               \A s, t \in T : s.artifact = t.artifact => s = t}]

Default(value, default) == IF value = Unset THEN default ELSE value

\* The tokens of bundle.order when there are none.
DefaultOrder == <<"cert", "chain", "root", "key">>

\* The provers do not know that a literal is a string.
ASSUME DefaultsAreStrings ==
  {Unset, "ec256", "dns-01", "0700", "cert", "chain", "root", "key",
   "LE staging", "LE production"} \subseteq STRING

\* applyDefaults.
WithDefaults(raw) ==
  [raw EXCEPT !.keyType = Default(@, "ec256"), !.challenge = Default(@, "dns-01"),
              !.dirMode = Default(@, "0700"),
              !.order = IF @ = <<>> THEN DefaultOrder ELSE @]

IsPublicCA(ca)   == ca = "letsencrypt"
IsInternalCA(ca) == ca # Unset /\ ~IsPublicCA(ca)

-----------------------------------------------------------------------------
(* Modes, by the digits that count here.                                   *)

\* strconv.ParseUint(mode, 8, 32).
Octal(mode) == mode \in {"0600", "0640", "0644", "0700"}

WorldReadable(mode) == mode = "0644"

DefaultMode(artifact) == IF artifact \in KeyBearing THEN "0600" ELSE "0644"

TargetMode(t) == Default(t.mode, DefaultMode(t.artifact))

-----------------------------------------------------------------------------
(* validate.Config: one operator per part, each the set of fields it names. *)

If(condition, field) == IF condition THEN {field} ELSE {}

\* Mutant: an internal CA needs no directory.
CAProblems_NoDirectory(cfg) ==
  If(cfg.ca \notin ValidCAs, "acme.ca") \cup If(cfg.email = Unset, "acme.email")

CAProblems(cfg) ==
  If(cfg.ca \notin ValidCAs, "acme.ca")
    \cup If(cfg.email = Unset, "acme.email")
    \cup If(IsInternalCA(cfg.ca) /\ cfg.url = Unset, "acme.directory_url")

\* os.Stat of ca_bundle: that it is there, not what it holds.
ConnectionProblems(cfg) ==
  If(cfg.caFile = "missing", "acme.ca_bundle")
    \cup If(cfg.check \notin ValidChecks, "acme.dns.propagation_check")
    \cup If(cfg.format \notin ValidFormats, "logging.format")

StoreProblems(cfg) ==
  If(cfg.keep < 0, "store.archive_keep") \cup If(~Octal(cfg.dirMode), "store.dir_mode")

\* dns-persist-01 is refused with words of its own, and never switched away.
ChallengeProblems(cfg) ==
  If(cfg.challenge \notin ValidChallenges, "acme.challenge")
    \cup If(cfg.keyType \notin ValidKeyTypes, "cert.key_type")

IPProblems(cfg) ==
  If(\E ip \in cfg.ips : ip \notin Addresses \/ (IsPublicCA(cfg.ca) /\ ip = "private"),
     "cert.ip_sans")

BundleProblems(cfg) ==
  If(\E i \in DOMAIN cfg.order :
       \/ cfg.order[i] \notin ValidTokens
       \/ \E j \in 1..(i - 1) : cfg.order[j] = cfg.order[i],
     "bundle.order")

\* Mutant: the bundle counts as holding the key when its order says so.
TargetProblems_ByOrder(cfg) ==
  UNION {If(t.artifact \notin ValidArtifacts, "distribute.artifact")
           \cup If(/\ t.artifact = "privkey" \/ (t.artifact = "bundle" /\
                        \E i \in DOMAIN cfg.order : cfg.order[i] = "key")
                   /\ WorldReadable(t.mode), "distribute.mode")
         : t \in cfg.target}

\* A mode that is no number is left to others.
TargetProblems(cfg) ==
  UNION {If(t.artifact \notin ValidArtifacts, "distribute.artifact")
           \cup If(t.artifact \in KeyBearing /\ WorldReadable(t.mode), "distribute.mode")
         : t \in cfg.target}

OutputProblems(cfg) == If(cfg.output \notin ValidOutputs, "observe")

Problems(cfg) ==
  CAProblems(cfg) \cup ConnectionProblems(cfg) \cup StoreProblems(cfg)
    \cup ChallengeProblems(cfg) \cup IPProblems(cfg) \cup BundleProblems(cfg)
    \cup TargetProblems(cfg) \cup OutputProblems(cfg)

-----------------------------------------------------------------------------
(* What the commands derive.                                               *)

\* Mutant: ip_sans do not change the challenge.
EffectiveChallenge_Configured(cfg) == cfg.challenge

\* RFC 8738: no DNS challenge for an address.
EffectiveChallenge(cfg) ==
  IF cfg.ips # {} /\ cfg.challenge = "dns-01" THEN "http-01" ELSE cfg.challenge

DirectoryURL(cfg, staging) ==
  IF cfg.ca = "letsencrypt" THEN Default(cfg.url, IF staging THEN "LE staging" ELSE "LE production")
                            ELSE cfg.url

\* resolve.FQDN: the override as it stands, else the host's name if it has a domain.
Subject(cfg, hostname) == Default(cfg.host, IF hostname = "short" THEN Unset ELSE hostname)

\* The subject, sans and ip_sans; what has the shape of an address is one.
Identifiers(cfg, hostname) == {Subject(cfg, hostname)} \cup cfg.names \cup cfg.ips

\* parseWindow, of the windows that are used here.
WindowParses(cfg) == cfg.window # "a month"

\* Looked at by no rule of validation: the provider's name, and whether the system has a
\* user or a group.
KnownProvider(cfg) == cfg.provider = "known"
Exists(name)       == name # "nobody here"

\* Build: the mode of the store's bundle.pem, which depends on its content.
BundleHoldsKey(cfg) == \E i \in DOMAIN cfg.order : cfg.order[i] = "key"
=============================================================================
