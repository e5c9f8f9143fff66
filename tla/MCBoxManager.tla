---------------------------- MODULE MCBoxManager ----------------------------
(* Small instances of BoxManager for TLC. *)
EXTENDS BoxManager, TLC

Symmetry == Permutations(Procs)
=============================================================================
