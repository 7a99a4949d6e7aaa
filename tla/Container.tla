----------------------------- MODULE Container -----------------------------
(***************************************************************************)
(* The container store of the file system: src/container.c, with the log   *)
(* addresses that src/directory.c and src/lfs.c compute from it.           *)
(*                                                                         *)
(* The log is a file of fixed-size containers.  A container is a header    *)
(* segment (segment 0: the container id and one record per deduplicated    *)
(* data segment) and SegNum - 1 segments of any content.  Two containers   *)
(* are in memory: the one being filled (buf_container) and a read cache of *)
(* one container (cur_container).                                          *)
(*                                                                         *)
(* The operators take and return a store                                   *)
(*       [buf : Container, cur : Container, disk : ContainerIds -> Image]  *)
(* because one file-system call makes several of these calls in a row.     *)
(***************************************************************************)
EXTENDS Integers, Sequences, FiniteSetsExt

CONSTANTS SegNum,        \* c_container_seg_num = c_container_blk_num (8)
          MaxContainer,  \* containers of the log file (c_max_container_num)
          Data,          \* contents of a 4K block; SHA1 is taken as injective,
                         \* so a content also stands for its fingerprint
          FirstByte      \* first byte of the fingerprint of a content

ASSUME ContainerAssumption ==
  /\ SegNum \in Nat /\ SegNum >= 4
  /\ MaxContainer \in Nat \ {0}
  /\ FirstByte \in [Data -> Nat]

SegIds == 1 .. SegNum - 1
ContainerIds == 0 .. MaxContainer - 1

\* An address, as the container id and segment offset it decodes to.
Addr == [cid : 0 .. MaxContainer, seg : SegIds]

\* Address 0 (a cleared direct_blk, file_recipe or inode_addr): subtracting
\* the 4K of the first block wraps around, so it decodes to the last segment
\* of a container beyond the end of the log file.
NullAddr == [cid |-> MaxContainer, seg |-> SegNum - 1]

\* A segment that was never filled since the container was zeroed.
ZeroSeg == [kind |-> "zero"]
DataSeg(d) == [kind |-> "data", data |-> d]

-----------------------------------------------------------------------------
\* A container as it is after container_init or after the memset that follows
\* a flush, with the given id.
EmptyContainer(id) ==
  [id |-> id, hdr |-> <<>>, seg |-> [s \in SegIds |-> ZeroSeg], off |-> 1]

\* What pwrite puts in the log file: everything but the in-memory seg_offset.
Image(c) == [id |-> c.id, hdr |-> c.hdr, seg |-> c.seg]

\* The log file as lfs_init leaves it: zeros, which read as container 0.
ZeroImage == Image(EmptyContainer(0))

\* The address of the segment that the next container_add_seg fills.
NextAddr(st) == [cid |-> st.buf.id, seg |-> st.buf.off]

\* Mutant of ContainerWrite: the places are counted from one.
ContainerWriteBefore(disk, c) ==
  [disk EXCEPT ![IF c.id = 0 THEN 0 ELSE c.id - 1] = Image(c)]

\* container_write: the container goes to the place its own id designates.
ContainerWrite(disk, c) == [disk EXCEPT ![c.id] = Image(c)]

\* Mutant of AddSeg: the container is found full one segment too late.
AddSegLate(st, s) ==
  LET full == [st.buf EXCEPT !.seg[st.buf.off] = s, !.off = @ + 1]
  IN  IF st.buf.off >= SegNum
        THEN st
        ELSE IF full.off > SegNum
               THEN [st EXCEPT !.disk = ContainerWrite(@, full),
                               !.buf  = EmptyContainer(full.id + 1)]
               ELSE [st EXCEPT !.buf = full]

\* Mutant of AddSeg: the memset is not followed by a new container id.
AddSegSameId(st, s) ==
  LET full == [st.buf EXCEPT !.seg[st.buf.off] = s, !.off = @ + 1]
  IN  IF st.buf.off >= SegNum
        THEN st
        ELSE IF full.off = SegNum
               THEN [st EXCEPT !.disk = ContainerWrite(@, full),
                               !.buf  = EmptyContainer(full.id)]
               ELSE [st EXCEPT !.buf = full]

\* container_add_seg on buf_container: fill one segment and, when it was the
\* last, write the container out and start the next one in the same memory.
AddSeg(st, s) ==
  LET full == [st.buf EXCEPT !.seg[st.buf.off] = s, !.off = @ + 1]
  IN  IF st.buf.off >= SegNum
        THEN st
        ELSE IF full.off = SegNum
               THEN [st EXCEPT !.disk = ContainerWrite(@, full),
                               !.buf  = EmptyContainer(full.id + 1)]
               ELSE [st EXCEPT !.buf = full]

\* container_read into cur_container.  The result of pread is not looked at:
\* beyond the end of the file it reads nothing and the old content stays, but
\* seg_offset says "full" all the same.
ContainerRead(st, cid) ==
  IF cid \in ContainerIds
    THEN [st EXCEPT !.cur = [id  |-> st.disk[cid].id,  hdr |-> st.disk[cid].hdr,
                             seg |-> st.disk[cid].seg, off |-> SegNum]]
    ELSE [st EXCEPT !.cur.off = SegNum]

\* container_header_add_fingerprint: the header has as many records as the
\* container has segments; a record added to a full header is dropped.
AddFingerprint(st, d) ==
  IF Len(st.buf.hdr) < SegNum
    THEN [st EXCEPT !.buf.hdr = Append(@, [fp |-> d, seg |-> st.buf.off])]
    ELSE st

\* Mutant of FindFingerprint: the number of the record, not its segment.
FindFingerprintIndex(c, d) ==
  LET hits == {i \in DOMAIN c.hdr : FirstByte[c.hdr[i].fp] = FirstByte[d]}
  IN  IF hits = {} THEN 0 ELSE Min(hits)

\* container_header_find_fingerprint: the inner loop returns in its first
\* iteration, so only the first byte decides.  0 when no record matches.
FindFingerprint(c, d) ==
  LET hits == {i \in DOMAIN c.hdr : FirstByte[c.hdr[i].fp] = FirstByte[d]}
  IN  IF hits = {} THEN 0 ELSE c.hdr[Min(hits)].seg

-----------------------------------------------------------------------------
\* Bring container cid into memory unless its id is that of one of the two
\* containers there: get_inode_from_inode_id, lfs_read and lfs_write.
Cache(st, cid) ==
  IF cid \in {st.buf.id, st.cur.id} THEN st ELSE ContainerRead(st, cid)

\* Mutant of CacheForDir: the copy that lfs_init left is trusted.
CacheForDirTrusting(st, cid) == Cache(st, cid)

\* The same in open_cur_dir, which does not trust the copy of container 0 that
\* lfs_init left in cur_container, recognised by its seg_offset.
CacheForDir(st, cid) ==
  IF \/ cid = st.buf.id
     \/ cid = st.cur.id /\ (st.cur.id = 0 => st.cur.off = SegNum)
    THEN st
    ELSE ContainerRead(st, cid)

\* The memory the handlers then look into: buf_container wins.
Holder(st, cid) == IF cid = st.buf.id THEN st.buf ELSE st.cur
SegAt(st, a) == Holder(st, a.cid).seg[a.seg]

-----------------------------------------------------------------------------
\* Where the log really keeps an address: the memory of the container being
\* filled, or the log file.  Specification only: no handler reads this way.
LogContainer(st, cid) ==
  IF cid = st.buf.id THEN Image(st.buf) ELSE st.disk[cid]
LogSeg(st, a) == LogContainer(st, a.cid).seg[a.seg]

\* The addresses that container_add_seg has filled.
Written(st, a) ==
  /\ a.cid \in ContainerIds /\ a.seg \in SegIds
  /\ \/ a.cid < st.buf.id
     \/ a.cid = st.buf.id /\ a.seg < st.buf.off
=============================================================================
