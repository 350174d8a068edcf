---------------------------- MODULE MCDelivery ----------------------------
(* Two targets in a directory another package owns, one with an owner of  *)
(* its own (for the service, a target like any other) and one whose block *)
(* does not resolve, or whose label is refused; and an [observe] file in  *)
(* a top-level directory.                                                 *)
EXTENDS Delivery, TLC

CONSTANTS target, second, facts, pkg, etc

MCDirOf == target :> pkg @@ second :> pkg @@ facts :> etc
MCBlocks ==
  target :> {"owner"} @@ second :> {"unknown", "label"} @@ facts :> {"plain"}
MCOneDir == target :> pkg
MCPlain  == target :> {"plain"}
===========================================================================
