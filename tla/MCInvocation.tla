---------------------------- MODULE MCInvocation ----------------------------
(* Instances of Invocation for TLC. *)
EXTENDS Invocation

LetsEncrypt ==
  [ca |-> "letsencrypt", url |-> Unset, email |-> "ops", challenge |-> Unset,
   provider |-> "known", keyType |-> Unset, host |-> Unset, window |-> Unset,
   dirMode |-> Unset, group |-> Unset, caFile |-> Unset, format |-> Unset,
   check |-> Unset, output |-> Unset, ips |-> {}, names |-> {}, order |-> <<>>,
   keep |-> 0, kid |-> FALSE,
   target |-> {[artifact |-> "bundle", mode |-> Unset, owner |-> Unset]}]

Internal ==
  [LetsEncrypt EXCEPT !.ca = "custom", !.url = "internal", !.kid = TRUE]

MCBases == {LetsEncrypt, Internal}

Block(artifact, mode) == {[artifact |-> artifact, mode |-> mode, owner |-> Unset]}
Ghost == "nobody here"

MCVariants ==
  [ca |-> {"custom", "vault"}, url |-> {Unset, "internal"}, email |-> {Unset},
   challenge |-> {"http-01", "dns-persist-01"}, provider |-> {Unset}, keyType |-> {"dsa"},
   host |-> {"public"}, window |-> {"a month"}, dirMode |-> {"rwx"}, group |-> {Ghost},
   caFile |-> {"junk", "missing"}, format |-> {"xml"}, check |-> {"some"},
   output |-> {"relative"}, ips |-> {{"public"}, {"private"}, {"junk"}},
   names |-> {{"public"}}, order |-> {<<"cert", "chain">>, <<"key", "key">>}, keep |-> {-1},
   target |-> {Block("bundle", "0644"), Block("pem", Unset),
               Block("bundle", Unset) \cup Block("cert", "rw"),
               {[artifact |-> "cert", mode |-> Unset, owner |-> Ghost]}}]

Hmac == "SYSCERT_EAB_HMAC"

MCEnvironments ==
  {None, [n \in {Hmac} |-> "h0"], [n \in {Hmac} |-> Unset],
   [n \in {"SYSCERT_CONFIG"} |-> "other.toml"], [n \in {"SYSCERT_INTERVAL"} |-> "12h"]}

Lines == {<<Hmac, "h1">>, <<Hmac, "h2">>, <<"SYSCERT_INTERVAL", "12h">>}
Texts == {<<>>, <<Bad>>, <<<<Hmac, Unset>>>>} \cup {<<a>> : a \in Lines}
           \cup {<<a, b>> : a, b \in Lines}

MCEnvFiles == {<<>>} \cup {<<s>> : s \in Texts} \cup {<<s, t>> : s, t \in Texts}
=============================================================================
