----------------------------- MODULE MCSysCert -----------------------------
(***************************************************************************)
(* Small instances of SysCert for TLC: three artifacts (cert.pem,          *)
(* privkey.pem, fullchain.pem) stand for the five, and two targets take    *)
(* the key and the certificate, the pair a consumer needs to match.        *)
(***************************************************************************)
EXTENDS SysCertProperties

KeyThenCert == <<2, 1>>

CONSTANTS timer, operator

\* One slot, used for every command.
MayAll == [p \in {timer} |-> Commands]
\* One slot, run by the timer only.
MayEnsure == [p \in {timer} |-> {"ensure"}]
\* The timer writes; an operator distributes at any time.
MayDistribute ==
  [p \in {timer, operator} |-> IF p = timer THEN {"ensure", "renew --force", "destroy"}
                                            ELSE {"distribute"}]
\* One slot, used to void again and again.
MayVoidOnly == [p \in {operator} |-> {"void"}]
\* The timer runs while an operator voids.
MayVoid == [p \in {timer, operator} |-> IF p = timer THEN {"ensure"} ELSE {"void"}]
=============================================================================
