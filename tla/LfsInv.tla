------------------------------- MODULE LfsInv -------------------------------
(***************************************************************************)
(* The inductive invariant behind the properties of the log and of         *)
(* deduplication.  Its parts speak of a store st, because the handlers go  *)
(* through several stores in one step, and of a set of known contents,     *)
(* because lfs_write edits the recipe before the namespace knows the block.*)
(***************************************************************************)
EXTENDS LfsProps

\* The addresses of the containers that were begun.
LogAddr(st) == [cid : 0 .. st.buf.id, seg : SegIds]

\* The recipe of an inode has been filled.  (It is zero if lfs_write copied it
\* from memory that the flush of its own block had cleared.)
RecipeThere(st, ino) ==
  ino.recipe # NullAddr =>
    /\ Written(st, ino.recipe)
    /\ LogSeg(st, ino.recipe).kind \in {"recipe", "zero"}

SegSound(st, known, g) ==
  /\ g.kind = "inode" => RecipeThere(st, g.ino)
  /\ g.kind = "recipe" => \A b \in Blocks : g.rec[b] \in known \cup {NoFp}

\* That holds of every version of an inode or a recipe, wherever it is kept: of
\* outdated ones too, because the read cache may hand them out.
SegsSound(st, known) ==
  \A s \in SegIds :
    /\ SegSound(st, known, st.buf.seg[s])
    /\ SegSound(st, known, st.cur.seg[s])
    /\ \A x \in ContainerIds : SegSound(st, known, st.disk[x].seg[s])

\* The header of buf_container has room for a record: it has at most one for
\* each segment that was filled.
HeaderFits(st) == Len(st.buf.hdr) < st.buf.off

\* A record in the header of container x leads to content d.
Filed(st, d, x) ==
  \E i \in DOMAIN LogContainer(st, x).hdr :
    LET a == [cid |-> x, seg |-> LogContainer(st, x).hdr[i].seg]
    IN  /\ LogContainer(st, x).hdr[i].fp = d
        /\ Written(st, a) /\ LogSeg(st, a) = DataSeg(d)

\* No record in a header leads to a block other than that of its fingerprint.
HeadersTrue(st) ==
  \A x \in 0 .. st.buf.id : \A i \in DOMAIN LogContainer(st, x).hdr :
    LET record == LogContainer(st, x).hdr[i]
        a      == [cid |-> x, seg |-> record.seg]
    IN  Written(st, a) /\ LogSeg(st, a) = DataSeg(record.fp)

\* The namespace and the log agree: what is in the namespace is filed where it
\* says, and what is in the log is in the namespace, and there once.
BlocksFiled(st, table) == \A d \in DOMAIN table : Filed(st, d, table[d])
BlocksKnown(st, known) ==
  \A a \in LogAddr(st) : LogSeg(st, a).kind = "data" => LogSeg(st, a).data \in known
BlocksOnce(st) ==
  \A a, b \in LogAddr(st) :
    LogSeg(st, a).kind = "data" /\ LogSeg(st, a) = LogSeg(st, b) => a = b

DedupInv(st, table) ==
  /\ HeaderFits(st)
  /\ HeadersTrue(st)
  /\ BlocksFiled(st, table)
  /\ BlocksKnown(st, DOMAIN table)
  /\ BlocksOnce(st)

\* The inode map leads to inodes.
SlotsSound(st, im) ==
  \A i \in DOMAIN im : im[i].id # 0 =>
    Written(st, im[i].addr) /\ LogSeg(st, im[i].addr).kind = "inode"

\* Between operations all of it holds, whatever was interrupted by a flush: the
\* log, the read cache, the namespace, the inode map and cur_inode agree.
LogSound ==
  /\ DedupInv(Store, ns)
  /\ SegsSound(Store, DOMAIN ns)
  /\ RecipeThere(Store, curInode)
  /\ SlotsSound(Store, imap)
=============================================================================
