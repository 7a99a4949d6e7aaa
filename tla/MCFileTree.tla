----------------------------- MODULE MCFileTree -----------------------------
(* Instances of module FileTree for TLC. *)
EXTENDS FileTree, TLC

CONSTANTS n1, n2, d1, d2

Symmetry == Permutations(Names) \cup Permutations(Contents)
=============================================================================
