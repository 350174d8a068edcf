----------------------------- MODULE MCAccess -----------------------------
(* The timer, and a slot for what people type, as three users. *)
EXTENDS Access, TLC

CONSTANTS timer, hand, root, syscert, alice

MCUserOf == timer :> {syscert} @@ hand :> {root, syscert, alice}
MCCmdOf  == timer :> {"ensure"} @@ hand :> Commands
===========================================================================
