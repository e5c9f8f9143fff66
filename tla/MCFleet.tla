------------------------------ MODULE MCFleet ------------------------------
(* Small instances of Fleet: blocks of six ports, as small as they can be. *)
EXTENDS Fleet, TLC
Symmetry == Permutations(Procs) \cup Permutations(Dirs)
=============================================================================
