--------------------------- MODULE AtomicRegister ---------------------------
(***************************************************************************)
(* What internal/atomicfile promises the readers of a path: a register.    *)
(* It holds nothing or one datum; a reader that opens it holds, for as     *)
(* long as it keeps it open, the datum the register held at that moment.   *)
(***************************************************************************)
CONSTANTS
  Data,         \* what may be written
  Readers,
  Nothing

VARIABLES
  value,        \* what the register holds
  opened        \* what each reader has open

Init ==
  /\ value = Nothing
  /\ opened = [r \in Readers |-> Nothing]

Put == value' \in Data /\ UNCHANGED opened

Clear == value' = Nothing /\ UNCHANGED opened

Open(r) ==
  /\ value # Nothing
  /\ opened' = [opened EXCEPT ![r] = value]
  /\ UNCHANGED value

Close(r) == opened' = [opened EXCEPT ![r] = Nothing] /\ UNCHANGED value

Next == Put \/ Clear \/ \E r \in Readers : Open(r) \/ Close(r)

Spec == Init /\ [][Next]_<<value, opened>>
=============================================================================
