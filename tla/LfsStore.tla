------------------------------ MODULE LfsStore ------------------------------
(***************************************************************************)
(* The file system of module Lfs implements the store of DedupStore.       *)
(***************************************************************************)
EXTENDS LfsInv

\* The segments of the log that hold a block.
DataAddr == {a \in LogAddr(Store) : LogSeg(Store, a).kind = "data"}

\* Where a content is found: the namespace names a container, and the header of
\* that container the segment.
Leads(d, a) ==
  /\ a.cid = ns[d] /\ LogSeg(Store, a) = DataSeg(d)
  /\ \E i \in DOMAIN LogContainer(Store, a.cid).hdr :
       /\ LogContainer(Store, a.cid).hdr[i].fp = d
       /\ LogContainer(Store, a.cid).hdr[i].seg = a.seg
Place(d) == CHOOSE a \in LogAddr(Store) : Leads(d, a)

Dedup == INSTANCE DedupStore WITH
  Contents  <- Data,
  Addresses <- [cid : ContainerIds, seg : SegIds],
  log       <- [a \in DataAddr |-> LogSeg(Store, a).data],
  index     <- [d \in DOMAIN ns |-> Place(d)]

\* Every handler stores one new block, in the log and in the index, or none:
\* although lfs_write fills in the header record, the namespace and the segment
\* one after another, appends up to two more segments, and may flush in between.
ImplementsStore == Dedup!Spec
=============================================================================
