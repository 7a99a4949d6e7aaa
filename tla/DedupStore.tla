----------------------------- MODULE DedupStore -----------------------------
(***************************************************************************)
(* What the deduplicating store of lfs_write promises: block contents in a *)
(* log, and an index that finds each of them.  A content goes to the log   *)
(* once, at a fresh address, and in the same step into the index; nothing  *)
(* is moved, overwritten or forgotten.                                     *)
(***************************************************************************)
CONSTANTS Contents,  \* contents of a block
          Addresses  \* places of the log

VARIABLES log,   \* address -> content
          index  \* content -> address

vars == <<log, index>>

Put(f, x, y) == [z \in DOMAIN f \cup {x} |-> IF z = x THEN y ELSE f[z]]

Init ==
  /\ log = [a \in {} |-> a]
  /\ index = [d \in {} |-> d]

\* lfs_write of a content that the namespace does not know.
Store(d) ==
  /\ d \notin DOMAIN index
  /\ \E a \in Addresses \ DOMAIN log :
       /\ index' = Put(index, d, a)
       /\ log' = Put(log, a, d)

Next == \E d \in Contents : Store(d)

Spec == Init /\ [][Next]_vars
=============================================================================
