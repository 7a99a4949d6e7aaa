----------------------------- MODULE MCThreads -----------------------------
(* Instances of module Threads for TLC. *)
EXTENDS ThreadsInv

CONSTANTS m1, m2, l1, l2, d1, d2
=============================================================================
