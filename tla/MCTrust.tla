------------------------------ MODULE MCTrust ------------------------------
(***************************************************************************)
(* Three internal CAs, two of which have the same name, and a foreign one. *)
(***************************************************************************)
EXTENDS Trust, TLC

CONSTANTS c1, c2, c3, other, f1, f2, f3

MCNameOf == c1 :> f1 @@ c2 :> f1 @@ c3 :> f2

MCForeign == f3 :> other
=============================================================================
