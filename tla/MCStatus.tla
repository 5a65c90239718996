------------------------------ MODULE MCStatus ------------------------------
(***************************************************************************)
(* Status for TLC: the callers are alike, and so are the versions.         *)
(***************************************************************************)
EXTENDS Status, TLC

Symmetry == Permutations(Operators) \cup Permutations(Versions)
=============================================================================
