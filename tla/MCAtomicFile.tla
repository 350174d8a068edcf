---------------------------- MODULE MCAtomicFile ----------------------------
(***************************************************************************)
(* Small instances of AtomicFile for TLC.                                  *)
(***************************************************************************)
EXTENDS AtomicFile, TLC

CONSTANTS w1, w2, r1, d1, d2, f1, f2, f3, f4

\* Neither writers, data nor inodes are told apart.
Symmetric == Permutations(Writers) \cup Permutations(Data) \cup Permutations(Files)
=============================================================================
