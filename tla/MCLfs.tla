------------------------------- MODULE MCLfs -------------------------------
(* Instances of module Lfs for TLC. *)
EXTENDS LfsTree, LfsStore, TreeInv, TLC

CONSTANTS n1, n2, n3, d1, d2, d3

\* Contents whose fingerprints differ in the first byte.
AllDistinct == CHOOSE f \in [Data -> 1 .. Cardinality(Data)] :
                 \A x, y \in Data : f[x] = f[y] => x = y

\* Contents whose fingerprints start with the same byte.
AllAlike == [x \in Data |-> 1]

\* Contents without a zero byte, and all but one with a zero byte in the middle.
AllText == [d \in Data |-> BlkSize]
OneIsText == [d \in Data |-> IF d = d1 THEN BlkSize ELSE 1]

NameSymmetry == Permutations(Names)
Symmetry == Permutations(Names) \cup Permutations(Data)
=============================================================================
