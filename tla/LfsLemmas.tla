----------------------------- MODULE LfsLemmas -----------------------------
(***************************************************************************)
(* Lemmas about the operators that the handlers of module Lfs are built    *)
(* from: what they return when the store, the inode map and the directory  *)
(* records they are given have the types of LfsProps!TypeOK, and what they *)
(* leave alone.                                                            *)
(***************************************************************************)
EXTENDS LfsInv, TLAPS, FiniteSetTheorems, SequenceTheorems, WellFoundedInduction

\* The stores between two calls of container_add_seg.
Stores ==
  [buf : {x \in ContainerType : x.off < SegNum}, cur : ContainerType,
   disk : [ContainerIds -> ImageType]]

\* What a look-up does to a store: the read cache changes, and nothing else, and
\* every segment in it was there before or comes from the log file.
Looks(st, t) ==
  /\ t \in Stores /\ t.buf = st.buf /\ t.disk = st.disk
  /\ \A s \in SegIds : \/ t.cur.seg[s] = st.cur.seg[s]
                       \/ \E x \in ContainerIds : t.cur.seg[s] = st.disk[x].seg[s]

\* What appending does to a store: at most n containers are flushed, to places
\* of the log file that were not used before.
Grows(st, t, n) ==
  /\ t \in Stores
  /\ t.buf.id \in st.buf.id .. st.buf.id + n
  /\ \A x \in ContainerIds : x < st.buf.id => t.disk[x] = st.disk[x]

-----------------------------------------------------------------------------
(* Natural numbers. *)

\* A set of natural numbers has a least element.
LEMMA NatMin ==
  ASSUME NEW T, T \subseteq Nat, T # {}
  PROVE  \E x \in T : \A y \in T : x <= y
<1>1. \E x \in T : \A y \in T : ~(<<y, x>> \in OpToRel(<, Nat))
  BY NatLessThanWellFounded, WFMin, Zenon
<1>2. OpToRel(<, Nat) = {p \in Nat \X Nat : p[1] < p[2]}
  BY Zenon DEF OpToRel
<1>3. PICK x \in T : \A y \in T : ~(<<y, x>> \in {p \in Nat \X Nat : p[1] < p[2]})
  BY <1>1, <1>2, Zenon
<1>4. ASSUME NEW y \in T PROVE x <= y
  <2>1. <<y, x>> \in Nat \X Nat /\ <<y, x>>[1] = y /\ <<y, x>>[2] = x
    OBVIOUS
  <2>2. ~(y < x)
    BY <1>3, <2>1, Zenon
  <2> QED
    BY <2>2
<1> QED
  BY <1>4

\* Min returns an element of a non-empty set of natural numbers.
LEMMA MinIn ==
  ASSUME NEW T, T \subseteq Nat, T # {}
  PROVE  Min(T) \in T
  BY NatMin, Zenon DEF Min

\* The smaller of two natural numbers.
LEMMA MinOfTwo ==
  ASSUME NEW m \in Nat, NEW n \in Nat
  PROVE  Min({m, n}) \in 0 .. n /\ Min({m, n}) <= m
<1>1. Min({m, n}) = IF m <= n THEN m ELSE n
  BY DEF Min
<1> QED
  BY <1>1

\* Induction with a set in the place of a predicate.
LEMMA SetInduction ==
  ASSUME NEW T, 0 \in T, \A k \in Nat : k \in T => k + 1 \in T
  PROVE  Nat \subseteq T
<1> SUFFICES ASSUME Nat \ T # {} PROVE FALSE
  OBVIOUS
<1>1. PICK x \in Nat \ T : \A y \in Nat \ T : x <= y
  BY NatMin, Zenon
<1>2. x # 0 /\ x - 1 \in Nat
  BY <1>1
<1>3. x - 1 \in T
  BY <1>1, <1>2
<1> QED
  BY <1>1, <1>2, <1>3

\* A subset of 1 .. n has at most n elements.
LEMMA CardOfPart ==
  ASSUME NEW n \in Nat, NEW T, T \subseteq 1 .. n
  PROVE  Cardinality(T) \in 0 .. n
<1>1. IsFiniteSet(1 .. n) /\ Cardinality(1 .. n) = n
  BY FS_Interval
<1>2. IsFiniteSet(T) /\ Cardinality(T) <= n
  BY <1>1, FS_Subset, Zenon
<1>3. Cardinality(T) \in Nat
  BY <1>2, FS_CardinalityType, Zenon
<1> QED
  BY <1>2, <1>3

-----------------------------------------------------------------------------
(* Addresses and segments. *)

\* What a cleared pointer decodes to is an address.
LEMMA NullAddrType == NullAddr \in Addr
  BY ContainerAssumption DEF NullAddr, Addr, SegIds

\* The next segment of a container that is not full has an address.
LEMMA NextAddrType ==
  ASSUME NEW st \in Stores
  PROVE  NextAddr(st) \in Addr
  BY ContainerAssumption
  DEF Stores, ContainerType, NextAddr, Addr, SegIds, ContainerIds

\* What the handlers put in the log is a segment.
LEMMA SegmentType ==
  /\ ZeroSeg \in Segment
  /\ \A d \in Data : DataSeg(d) \in Segment
  /\ \A ino \in Inode : InodeSeg(ino) \in Segment
  /\ \A recs \in Seq(DirRecord) : DirSeg(recs) \in Segment
  /\ \A rec \in Recipe : RecipeSeg(rec) \in Segment
  BY DEF Segment, ZeroSeg, DataSeg, InodeSeg, DirSeg, RecipeSeg

\* A zeroed segment reads as an inode.
LEMMA ZeroInodeType == ZeroInode \in Inode
  BY NullAddrType, LfsAssumption DEF ZeroInode, Inode, InodeIds

\* What the handlers cast a segment to has the type they cast it to.
LEMMA CastType ==
  ASSUME NEW s \in Segment
  PROVE  /\ AsInode(s) \in Inode
         /\ AsDir(s) \in Seq(DirRecord)
         /\ AsRecipe(s) \in Recipe
<1>1. AsInode(s) \in Inode
  BY ZeroInodeType DEF Segment, AsInode, ZeroSeg
<1>2. AsDir(s) \in Seq(DirRecord)
  BY DEF Segment, AsDir, ZeroSeg
<1>3. AsRecipe(s) \in Recipe
  BY DEF Segment, AsRecipe, ZeroSeg, Recipe, EmptyRecipe
<1> QED
  BY <1>1, <1>2, <1>3

\* A look into the memory that holds an address finds a segment.
LEMMA SegAtType ==
  ASSUME NEW st \in Stores, NEW a \in Addr
  PROVE  SegAt(st, a) \in Segment
  BY DEF Stores, ContainerType, Addr, SegAt, Holder

\* The inodes that lfs_create and lfs_mkdir put together are inodes.
LEMMA NewInodeType ==
  ASSUME NEW id \in InodeIds
  PROVE  NewFile(id) \in Inode /\ NewDir(id) \in Inode
  BY ZeroInodeType, NullAddrType
  DEF NewFile, NewDir, ZeroInode, Inode

-----------------------------------------------------------------------------
(* Look-ups change the read cache only. *)

\* container_read replaces the read cache and nothing else.
LEMMA ContainerReadLooks ==
  ASSUME NEW st \in Stores, NEW cid
  PROVE  Looks(st, ContainerRead(st, cid))
  BY ContainerAssumption
  DEF Looks, Stores, ContainerType, ImageType, ContainerRead

\* So do the two ways of bringing a container into memory.
LEMMA CacheLooks ==
  ASSUME NEW st \in Stores, NEW cid
  PROVE  /\ Looks(st, Cache(st, cid))
         /\ Looks(st, CacheForDir(st, cid))
<1>1. Looks(st, st)
  BY DEF Looks
<1> QED
  BY <1>1, ContainerReadLooks DEF Cache, CacheForDir

\* A look after a look is a look.
LEMMA LooksTrans ==
  ASSUME NEW st, NEW t, NEW u, Looks(st, t), Looks(t, u)
  PROVE  Looks(st, u)
  BY DEF Looks

\* Looking is growing by nothing, and growths add up.
LEMMA LooksGrows ==
  ASSUME NEW st \in Stores, NEW t, Looks(st, t)
  PROVE  Grows(st, t, 0)
  BY DEF Looks, Grows, Stores, ContainerType, ContainerIds

\* Growing by at most m segments and then by at most n is growing by m + n.
LEMMA GrowsTrans ==
  ASSUME NEW m \in Nat, NEW n \in Nat,
         NEW st \in Stores, NEW t, NEW u, Grows(st, t, m), Grows(t, u, n)
  PROVE  Grows(st, u, m + n)
<1>1. st.buf.id \in Nat
  BY DEF Stores, ContainerType, ContainerIds
<1>2. t.buf.id \in Nat /\ st.buf.id <= t.buf.id
  BY <1>1 DEF Grows
<1>3. u.buf.id \in st.buf.id .. st.buf.id + (m + n)
  BY <1>1, <1>2 DEF Grows
<1>4. ASSUME NEW x \in ContainerIds, x < st.buf.id PROVE u.disk[x] = st.disk[x]
  <2>1. x < t.buf.id
    BY <1>1, <1>2, <1>4, ContainerAssumption DEF ContainerIds
  <2> QED
    BY <1>4, <2>1 DEF Grows
<1> QED
  BY <1>3, <1>4 DEF Grows

-----------------------------------------------------------------------------
(* Appending a segment flushes at most one container. *)

\* container_init and the memset after a flush leave a container.
LEMMA EmptyContainerType ==
  ASSUME NEW id \in ContainerIds
  PROVE  EmptyContainer(id) \in ContainerType
<1>1. [s \in SegIds |-> ZeroSeg] \in [SegIds -> Segment]
  BY SegmentType
<1>2. << >> \in Header
  BY DEF Header
<1>3. 1 \in 1 .. SegNum
  BY ContainerAssumption
<1> QED
  BY <1>1, <1>2, <1>3 DEF EmptyContainer, ContainerType

\* A record of a container's shape, after one segment was filled.
LEMMA FilledType ==
  ASSUME NEW A, NEW B, NEW I, NEW S, NEW F,
         NEW x \in [id : A, hdr : B, seg : [I -> S], off : F],
         NEW s \in S, NEW i \in I, NEW n \in F
  PROVE  /\ [x EXCEPT !.seg[i] = s, !.off = n] \in [id : A, hdr : B, seg : [I -> S], off : F]
         /\ [x EXCEPT !.seg[i] = s, !.off = n].id = x.id
         /\ [x EXCEPT !.seg[i] = s, !.off = n].off = n
  OBVIOUS

\* container_add_seg flushes at most one container.
LEMMA AddSegGrows ==
  ASSUME NEW st \in Stores, NEW s \in Segment, st.buf.id + 1 < MaxContainer
  PROVE  Grows(st, AddSeg(st, s), 1)
<1> DEFINE full == [st.buf EXCEPT !.seg[st.buf.off] = s, !.off = @ + 1]
<1>1. /\ st.buf \in ContainerType /\ st.buf.off < SegNum
      /\ st.cur \in ContainerType /\ st.disk \in [ContainerIds -> ImageType]
      /\ st.buf.id \in ContainerIds
  BY DEF Stores, ContainerType
<1>2. /\ full \in ContainerType /\ full.id = st.buf.id
      /\ full.off = st.buf.off + 1
  <2>1. st.buf.off \in SegIds /\ st.buf.off + 1 \in 1 .. SegNum
    BY <1>1, ContainerAssumption DEF ContainerType, SegIds
  <2> QED
    BY <1>1, <2>1, FilledType DEF ContainerType
<1>3. CASE full.off # SegNum
  <2>1. AddSeg(st, s) = [buf |-> full, cur |-> st.cur, disk |-> st.disk]
    BY <1>1, <1>3, ContainerAssumption DEF AddSeg, ContainerType, Stores
  <2>2. full.off < SegNum
    BY <1>1, <1>2, <1>3, ContainerAssumption DEF ContainerType
  <2> HIDE DEF full
  <2> QED
    BY <1>1, <1>2, <2>1, <2>2 DEF Grows, Stores, ContainerIds
<1>4. CASE full.off = SegNum
  <2> DEFINE fresh == EmptyContainer(full.id + 1)
             disk2 == ContainerWrite(st.disk, full)
  <2>1. AddSeg(st, s) = [buf |-> fresh, cur |-> st.cur, disk |-> disk2]
    <3>1. ~(st.buf.off >= SegNum)
      BY <1>1, ContainerAssumption DEF ContainerType
    <3>2. AddSeg(st, s) = [st EXCEPT !.disk = ContainerWrite(@, full),
                                     !.buf = EmptyContainer(full.id + 1)]
      BY <1>4, <3>1, Zenon DEF AddSeg
    <3> HIDE DEF full
    <3>3. st = [buf |-> st.buf, cur |-> st.cur, disk |-> st.disk]
      BY DEF Stores
    <3> QED
      BY <3>2, <3>3
  <2>2. Image(full) \in ImageType
    BY <1>2 DEF Image, ImageType, ContainerType
  <2>3. /\ disk2 \in [ContainerIds -> ImageType]
        /\ \A x \in ContainerIds : x # full.id => disk2[x] = st.disk[x]
    BY <1>1, <1>2, <2>2 DEF ContainerWrite
  <2>4. fresh \in ContainerType /\ fresh.off < SegNum /\ fresh.id = st.buf.id + 1
    BY <1>1, <1>2, EmptyContainerType, ContainerAssumption
    DEF EmptyContainer, ContainerIds
  <2> HIDE DEF full, fresh, disk2
  <2> QED
    BY <1>1, <1>2, <2>1, <2>3, <2>4 DEF Grows, Stores, ContainerIds
<1> QED
  BY <1>3, <1>4

\* container_header_add_fingerprint changes the header of buf_container only.
LEMMA AddFingerprintGrows ==
  ASSUME NEW st \in Stores, NEW d \in Data
  PROVE  Grows(st, AddFingerprint(st, d), 0)
<1>1. [fp |-> d, seg |-> st.buf.off] \in [fp : Data, seg : SegIds]
  BY ContainerAssumption DEF Stores, ContainerType, SegIds
<1>2. Append(st.buf.hdr, [fp |-> d, seg |-> st.buf.off]) \in Header
  BY <1>1 DEF Stores, ContainerType, Header
<1>3. CASE Len(st.buf.hdr) < SegNum
  <2> DEFINE hdr2 == Append(st.buf.hdr, [fp |-> d, seg |-> st.buf.off])
             buf2 == [id |-> st.buf.id, hdr |-> hdr2, seg |-> st.buf.seg, off |-> st.buf.off]
  <2>1. AddFingerprint(st, d) = [buf |-> buf2, cur |-> st.cur, disk |-> st.disk]
    BY <1>3 DEF AddFingerprint, Stores, ContainerType
  <2>2. buf2 \in ContainerType /\ buf2.off < SegNum /\ buf2.id = st.buf.id
    BY <1>2 DEF Stores, ContainerType
  <2> HIDE DEF buf2
  <2> QED
    BY <2>1, <2>2 DEF Grows, Stores, ContainerType, ContainerIds
<1>4. CASE ~(Len(st.buf.hdr) < SegNum)
  BY <1>4 DEF AddFingerprint, Grows, Stores, ContainerType, ContainerIds
<1> QED
  BY <1>3, <1>4

-----------------------------------------------------------------------------
(* Directory records. *)

\* A zeroed record is a directory record.
LEMMA HoleType == Hole \in DirRecord
  BY LfsAssumption DEF Hole, DirRecord, AllNames, InodeIds

\* The first records of a new directory are directory records.
LEMMA NewDirRecordsType ==
  ASSUME NEW parent \in InodeIds, NEW id \in InodeIds
  PROVE  NewDirRecords(parent, id) \in Seq(DirRecord) /\ Len(NewDirRecords(parent, id)) = 2
  BY DEF NewDirRecords, DirRecord, AllNames

\* get_inode_id_from_filename finds an inode id.
LEMMA IdOfType ==
  ASSUME NEW dir \in Seq(DirRecord), NEW name, HasName(dir, name)
  PROVE  IdOf(dir, name) \in InodeIds
<1>1. Matches(dir, name) \subseteq Nat /\ Matches(dir, name) # {}
  BY DEF Matches, HasName
<1>2. Min(Matches(dir, name)) \in DOMAIN dir
  BY <1>1, MinIn DEF Matches
<1>3. dir[Min(Matches(dir, name))] \in DirRecord
  BY <1>2
<1> QED
  BY <1>3 DEF IdOf, DirRecord

\* The arithmetic part of the assumption on RecPerSeg.
LEMMA RecPerSegType == RecPerSeg \in Nat /\ RecPerSeg >= 2
  BY DirectoryAssumption, Zenon

\* A part of a sequence of records.
LEMMA PartOfDir ==
  ASSUME NEW dir \in Seq(DirRecord), NEW m \in Nat \ {0}, NEW n \in 0 .. Len(dir)
  PROVE  SubSeq(dir, m, n) \in Seq(DirRecord)
<1>1. Len(dir) \in Nat /\ \A i \in 1 .. Len(dir) : dir[i] \in DirRecord
  OBVIOUS
<1>2. m \in Int /\ n \in Int /\ \A i \in m .. n : dir[i] \in DirRecord
  BY <1>1
<1> QED
  BY <1>2, SubSeqProperties, Zenon

\* open_cur_dir takes a part of the records of the segment.
LEMMA OpenRecordsType ==
  ASSUME NEW recs \in Seq(DirRecord)
  PROVE  OpenRecords(recs) \in Seq(DirRecord)
<1> DEFINE named == {i \in DOMAIN recs : recs[i].name # ""}
<1>1. Cardinality(named) \in 0 .. Len(recs)
  BY CardOfPart, DOMAIN recs = 1 .. Len(recs), Len(recs) \in Nat
<1> HIDE DEF named
<1>2. SubSeq(recs, 1, Cardinality(named)) \in Seq(DirRecord)
  BY <1>1, PartOfDir
<1> QED
  BY <1>2 DEF OpenRecords, named

\* The three operations on an opened directory leave a sequence of records.
LEMMA EditedDirType ==
  ASSUME NEW dir \in Seq(DirRecord)
  PROVE  /\ \A name \in AllNames, id \in InodeIds : AddEntry(dir, name, id) \in Seq(DirRecord)
         /\ \A old, new \in AllNames : ChangeEntry(dir, old, new) \in Seq(DirRecord)
         /\ \A name : HasName(dir, name) => RemoveEntry(dir, name) \in Seq(DirRecord)
<1>1. ASSUME NEW name \in AllNames, NEW id \in InodeIds
      PROVE  AddEntry(dir, name, id) \in Seq(DirRecord)
  <2>1. [name |-> name, id |-> id] \in DirRecord
    BY DEF DirRecord
  <2> QED
    BY <2>1 DEF AddEntry
<1>2. ASSUME NEW old \in AllNames, NEW new \in AllNames
      PROVE  ChangeEntry(dir, old, new) \in Seq(DirRecord)
  <2> DEFINE k == Min(Matches(dir, old))
             dir2 == [dir EXCEPT ![k].name = new]
  <2>1. DOMAIN dir2 = 1 .. Len(dir) /\ Len(dir) \in Nat
    OBVIOUS
  <2>2. \A i \in 1 .. Len(dir) : dir2[i] \in DirRecord
    <3> HIDE DEF k
    <3>1. \A i \in 1 .. Len(dir) : dir[i] \in DirRecord
      OBVIOUS
    <3>2. \A r \in DirRecord : [r EXCEPT !.name = new] \in DirRecord
      BY DEF DirRecord
    <3> QED
      BY <3>1, <3>2
  <2>3. dir2 = [i \in 1 .. Len(dir) |-> dir2[i]]
    BY <2>1
  <2> HIDE DEF dir2
  <2>4. dir2 \in Seq(DirRecord)
    BY <2>1, <2>2, <2>3
  <2> QED
    BY <2>4 DEF ChangeEntry, dir2
<1>3. ASSUME NEW name, HasName(dir, name)
      PROVE  RemoveEntry(dir, name) \in Seq(DirRecord)
  <2> DEFINE gone    == Matches(dir, name)
             cleared == [i \in DOMAIN dir |-> IF i \in gone THEN Hole ELSE dir[i]]
             dir2    == [i \in 1 .. Len(dir) - 1 |->
                           IF i < Max(gone) THEN cleared[i] ELSE cleared[i + 1]]
  <2>1. \A i \in 1 .. Len(dir) : cleared[i] \in DirRecord
    BY HoleType
  <2>2. Len(dir) - 1 \in Nat
    BY <1>3 DEF HasName, Matches
  <2>3. dir2 \in [1 .. Len(dir) - 1 -> DirRecord]
    <3> HIDE DEF cleared, gone
    <3> QED
      BY <2>1, <2>2
  <2> HIDE DEF dir2
  <2>4. dir2 \in Seq(DirRecord)
    BY <2>2, <2>3
  <2> QED
    BY <2>4 DEF RemoveEntry, dir2
<1> QED
  BY <1>1, <1>2, <1>3

-----------------------------------------------------------------------------
(* The inode map. *)

\* A new address for an inode leaves an inode map.
LEMMA ImapType ==
  ASSUME NEW im \in [1 .. MaxInode -> Slot], NEW id \in InodeIds
  PROVE  /\ AddrOf(im, id) \in Addr
         /\ \A a \in Addr : MoveInode(im, id, a) \in [1 .. MaxInode -> Slot]
         /\ \A n : \A a \in Addr : PutInode(im, n, id, a) \in [1 .. MaxInode -> Slot]
         /\ \A n : DropInode(im, n, id) \in [1 .. MaxInode -> Slot]
<1>1. AddrOf(im, id) \in Addr
  <2>1. CASE Slots(im, id) = {}
    BY <2>1, NullAddrType DEF AddrOf
  <2>2. CASE Slots(im, id) # {}
    <3>1. Slots(im, id) \subseteq Nat
      BY LfsAssumption DEF Slots
    <3>2. Min(Slots(im, id)) \in 1 .. MaxInode
      BY <2>2, <3>1, MinIn DEF Slots
    <3> QED
      BY <2>2, <3>2 DEF AddrOf, Slot
  <2> QED
    BY <2>1, <2>2
<1>2. ASSUME NEW a \in Addr
      PROVE  MoveInode(im, id, a) \in [1 .. MaxInode -> Slot]
  <2> DEFINE k == Min(Slots(im, id))
  <2>1. \A s \in Slot : [s EXCEPT !.addr = a] \in Slot
    BY DEF Slot
  <2>2. [im EXCEPT ![k].addr = a] \in [1 .. MaxInode -> Slot]
    <3> HIDE DEF k
    <3> QED
      BY <2>1
  <2> QED
    BY <2>2 DEF MoveInode
<1>3. ASSUME NEW n, NEW a \in Addr
      PROVE  PutInode(im, n, id, a) \in [1 .. MaxInode -> Slot]
  BY <1>2 DEF PutInode, Slot
<1>4. ASSUME NEW n
      PROVE  DropInode(im, n, id) \in [1 .. MaxInode -> Slot]
  <2>1. [id |-> 0, addr |-> NullAddr] \in Slot
    BY NullAddrType, LfsAssumption DEF Slot, InodeIds
  <2> QED
    BY <2>1 DEF DropInode
<1> QED
  BY <1>1, <1>2, <1>3, <1>4

-----------------------------------------------------------------------------
(* Look-ups in the current directory. *)

\* open_cur_dir only looks, and returns directory records.
LEMMA OpenCurDirLooks ==
  ASSUME NEW st \in Stores, NEW ino \in Inode
  PROVE  /\ Looks(st, OpenCurDir(st, ino).st)
         /\ OpenCurDir(st, ino).dir \in Seq(DirRecord)
<1> DEFINE st1 == CacheForDir(st, ino.blk.cid)
<1>1. Looks(st, st1)
  BY CacheLooks
<1>2. SegAt(st1, ino.blk) \in Segment
  BY <1>1, SegAtType DEF Looks, Inode
<1>3. OpenRecords(AsDir(SegAt(st1, ino.blk))) \in Seq(DirRecord)
  BY <1>2, CastType, OpenRecordsType
<1> QED
  BY <1>1, <1>3 DEF OpenCurDir

\* dir_get_inode only looks, and returns an inode.
LEMMA DirGetInodeLooks ==
  ASSUME NEW st \in Stores, curInode \in Inode, imap \in [1 .. MaxInode -> Slot],
         NEW name
  PROVE  /\ Looks(st, DirGetInode(st, name).st)
         /\ DirGetInode(st, name).ino \in Inode
<1> DEFINE open == OpenCurDir(st, curInode)
           addr == AddrOf(imap, IdOf(open.dir, name))
           st1  == Cache(open.st, addr.cid)
<1>1. Looks(st, open.st) /\ open.st \in Stores /\ open.dir \in Seq(DirRecord)
  BY OpenCurDirLooks DEF Looks
<1> HIDE DEF open
<1>2. CASE ~HasName(open.dir, name) \/ addr = NullAddr
  BY <1>1, <1>2, ZeroInodeType DEF DirGetInode, open
<1>3. CASE HasName(open.dir, name) /\ addr # NullAddr
  <2>1. addr \in Addr
    BY <1>1, <1>3, IdOfType, ImapType
  <2>2. Looks(st, st1) /\ st1 \in Stores
    BY <1>1, CacheLooks, LooksTrans DEF Looks
  <2>3. AsInode(SegAt(st1, addr)) \in Inode
    BY <2>1, <2>2, SegAtType, CastType
  <2> QED
    BY <1>3, <2>2, <2>3 DEF DirGetInode, open
<1> QED
  BY <1>2, <1>3

-----------------------------------------------------------------------------
(* What dir_commit_changes and lfs_write put in the log. *)

\* dir_commit_changes fills two segments, and a third when the directory has
\* more records than a segment takes.
LEMMA CommitDirGrows ==
  ASSUME NEW st \in Stores, NEW im \in [1 .. MaxInode -> Slot], NEW n,
         NEW dir \in Seq(DirRecord), NEW ino \in Inode,
         NEW k \in {2, 3}, Len(dir) > RecPerSeg => k = 3, st.buf.id + k < MaxContainer
  PROVE  LET done == CommitDir(st, im, n, dir, ino)
         IN  /\ Grows(st, done.st, k)
             /\ done.imap \in [1 .. MaxInode -> Slot]
             /\ done.ino \in Inode /\ done.ino.id = ino.id
<1> DEFINE first == SubSeq(dir, 1, Min({RecPerSeg, Len(dir)}))
           rest  == SubSeq(dir, RecPerSeg + 1, Len(dir))
           st1   == IF dir = <<>> THEN st ELSE AddSeg(st, DirSeg(first))
           st2   == IF Len(dir) <= RecPerSeg THEN st1 ELSE AddSeg(st1, DirSeg(rest))
           ino1  == [ino EXCEPT !.blk = IF dir = <<>> THEN NullAddr ELSE NextAddr(st)]
<1>1. DirSeg(first) \in Segment /\ DirSeg(rest) \in Segment
  <2>1. /\ Len(dir) \in Nat /\ Len(dir) \in 0 .. Len(dir)
        /\ 1 \in Nat \ {0} /\ RecPerSeg + 1 \in Nat \ {0}
    BY RecPerSegType
  <2>2. Min({RecPerSeg, Len(dir)}) \in 0 .. Len(dir)
    BY <2>1, MinOfTwo, RecPerSegType
  <2>3. first \in Seq(DirRecord)
    BY <2>1, <2>2, PartOfDir, Zenon
  <2>4. rest \in Seq(DirRecord)
    BY <2>1, PartOfDir, Zenon
  <2> QED
    BY <2>3, <2>4, SegmentType
<1> HIDE DEF first, rest
<1>2. st.buf.id \in Nat /\ Grows(st, st, 0)
  BY LooksGrows DEF Looks, Stores, ContainerType, ContainerIds
<1>3. Grows(st, st1, 1)
  <2>1. st.buf.id + 1 < MaxContainer
    BY <1>2, ContainerAssumption
  <2>2. Grows(st, AddSeg(st, DirSeg(first)), 1)
    BY <1>1, <2>1, AddSegGrows
  <2> QED
    BY <1>2, <2>2 DEF Grows
<1>4. Grows(st, st2, k - 1)
  <2>1. CASE Len(dir) <= RecPerSeg
    BY <1>2, <1>3, <2>1 DEF Grows
  <2>2. CASE ~(Len(dir) <= RecPerSeg)
    <3>1. k = 3
      <4>1. Len(dir) \in Nat /\ RecPerSeg \in Nat
        BY RecPerSegType
      <4> QED
        BY <2>2, <4>1
    <3>2. st1 \in Stores /\ st1.buf.id + 1 < MaxContainer
      BY <1>2, <1>3, <3>1, ContainerAssumption DEF Grows
    <3>3. Grows(st1, AddSeg(st1, DirSeg(rest)), 1)
      BY <1>1, <3>2, AddSegGrows
    <3>4. Grows(st, AddSeg(st1, DirSeg(rest)), 1 + 1)
      BY <1>3, <3>3, GrowsTrans
    <3> QED
      BY <2>2, <3>1, <3>4
  <2> QED
    BY <2>1, <2>2
<1> HIDE DEF st1, st2
<1>5. ino1 \in Inode /\ ino1.id = ino.id
  BY NullAddrType, NextAddrType DEF Inode
<1> HIDE DEF ino1
<1>6. st2 \in Stores /\ st2.buf.id + 1 < MaxContainer
  BY <1>2, <1>4, ContainerAssumption DEF Grows
<1>7. Grows(st2, AddSeg(st2, InodeSeg(ino1)), 1)
  BY <1>5, <1>6, SegmentType, AddSegGrows
<1>8. Grows(st, AddSeg(st2, InodeSeg(ino1)), k)
  <2>1. k - 1 \in Nat /\ (k - 1) + 1 = k
    OBVIOUS
  <2> QED
    BY <1>4, <1>7, <2>1, GrowsTrans
<1>9. PutInode(im, n, ino.id, NextAddr(st2)) \in [1 .. MaxInode -> Slot]
  BY <1>6, NextAddrType, ImapType DEF Inode
<1>10. CommitDir(st, im, n, dir, ino) =
         [st |-> AddSeg(st2, InodeSeg(ino1)), imap |-> PutInode(im, n, ino.id, NextAddr(st2)),
          ino |-> ino1]
  BY DEF CommitDir, st1, st2, ino1, first, rest
<1> QED
  BY <1>5, <1>8, <1>9, <1>10

\* lfs_write stores a block, with its record in the header, or nothing.
LEMMA StoreBlockGrows ==
  ASSUME NEW st \in Stores, NEW d \in Data, st.buf.id + 1 < MaxContainer
  PROVE  Grows(st, StoreBlock(st, d), 1)
<1> DEFINE st1 == AddFingerprint(st, d)
<1>1. st.buf.id \in Nat /\ Grows(st, st, 0)
  BY LooksGrows DEF Looks, Stores, ContainerType, ContainerIds
<1>2. Grows(st, st1, 0)
  BY AddFingerprintGrows
<1> HIDE DEF st1
<1>3. st1 \in Stores /\ st1.buf.id + 1 < MaxContainer
  BY <1>1, <1>2 DEF Grows
<1>4. Grows(st1, AddSeg(st1, DataSeg(d)), 1)
  BY <1>3, SegmentType, AddSegGrows
<1>5. Grows(st, AddSeg(st1, DataSeg(d)), 0 + 1)
  BY <1>2, <1>4, GrowsTrans
<1>6. CASE d \in DOMAIN ns
  BY <1>1, <1>6 DEF StoreBlock, Grows
<1>7. CASE d \notin DOMAIN ns
  BY <1>5, <1>7 DEF StoreBlock, st1
<1> QED
  BY <1>6, <1>7

\* lfs_write edits a recipe in the memory of one of the two containers.
LEMMA EditRecipeGrows ==
  ASSUME NEW st \in Stores, NEW a \in Addr, NEW b \in Blocks, NEW d \in Data
  PROVE  Grows(st, EditRecipe(st, a, b, d), 0)
<1> DEFINE rec == [AsRecipe(SegAt(st, a)) EXCEPT ![b] = d]
           seg == RecipeSeg(rec)
<1>1. AsRecipe(SegAt(st, a)) \in Recipe
  BY SegAtType, CastType
<1>2. rec \in Recipe
  BY <1>1 DEF Recipe
<1>3. seg \in Segment
  BY <1>2, SegmentType
<1> HIDE DEF rec, seg
<1>4. a.seg \in SegIds
  BY DEF Addr
<1>5. ASSUME NEW x \in ContainerType
      PROVE  /\ [x EXCEPT !.seg[a.seg] = seg] \in ContainerType
             /\ [x EXCEPT !.seg[a.seg] = seg].id = x.id
             /\ [x EXCEPT !.seg[a.seg] = seg].off = x.off
  BY <1>3, <1>4 DEF ContainerType
<1>6. CASE a.cid = st.buf.id
  <2> DEFINE buf2 == [st.buf EXCEPT !.seg[a.seg] = seg]
  <2>1. EditRecipe(st, a, b, d) = [buf |-> buf2, cur |-> st.cur, disk |-> st.disk]
    BY <1>6 DEF EditRecipe, seg, rec, Stores
  <2>2. /\ buf2 \in ContainerType /\ buf2.off < SegNum
        /\ buf2.id = st.buf.id /\ st.buf.id \in Nat
    BY <1>5 DEF Stores, ContainerType, ContainerIds
  <2> HIDE DEF buf2
  <2> QED
    BY <2>1, <2>2 DEF Grows, Stores
<1>7. CASE a.cid # st.buf.id
  <2> DEFINE cur2 == [st.cur EXCEPT !.seg[a.seg] = seg]
  <2>1. EditRecipe(st, a, b, d) = [buf |-> st.buf, cur |-> cur2, disk |-> st.disk]
    BY <1>7 DEF EditRecipe, seg, rec, Stores
  <2>2. cur2 \in ContainerType /\ st.buf.id \in Nat
    BY <1>5 DEF Stores, ContainerType, ContainerIds
  <2> HIDE DEF cur2
  <2> QED
    BY <2>1, <2>2 DEF Grows, Stores
<1> QED
  BY <1>6, <1>7

\* The namespace stays a table from contents to containers.
LEMMA LearnType ==
  ASSUME DOMAIN ns \subseteq Data, ns \in [DOMAIN ns -> ContainerIds],
         NEW d \in Data, NEW cid \in ContainerIds
  PROVE  /\ DOMAIN Learn(d, cid) \subseteq Data
         /\ Learn(d, cid) \in [DOMAIN Learn(d, cid) -> ContainerIds]
<1>1. CASE d \in DOMAIN ns
  BY <1>1 DEF Learn
<1>2. CASE d \notin DOMAIN ns
  <2>1. Learn(d, cid) = [x \in DOMAIN ns \cup {d} |-> IF x = d THEN cid ELSE ns[x]]
    BY <1>2 DEF Learn
  <2>2. DOMAIN Learn(d, cid) = DOMAIN ns \cup {d}
    BY <2>1
  <2> QED
    BY <2>1, <2>2
<1> QED
  BY <1>1, <1>2

-----------------------------------------------------------------------------
(* The loop of lfs_read. *)

\* One turn of the loop.
LEMMA ReadBlockLooks ==
  ASSUME NEW st \in Stores, NEW a, NEW b, NEW done,
         Looks(st, done.st), "st" \in DOMAIN done
  PROVE  /\ Looks(st, ReadBlock(done, a, b).st)
         /\ "st" \in DOMAIN ReadBlock(done, a, b)
<1> DEFINE fp   == AsRecipe(SegAt(done.st, a))[b]
           st1  == Cache(done.st, ns[fp])
           from == Holder(st1, ns[fp])
           n    == FindFingerprint(from, fp)
           got  == IF n = 0 THEN ZeroSeg ELSE from.seg[n]
<1>1. CASE ~done.more \/ fp \notin DOMAIN ns
  <2>1. ReadBlock(done, a, b) = [done EXCEPT !.more = FALSE]
    BY <1>1, Zenon DEF ReadBlock
  <2>2. [done EXCEPT !.more = FALSE].st = done.st /\ "st" \in DOMAIN [done EXCEPT !.more = FALSE]
    OBVIOUS
  <2> QED
    BY <2>1, <2>2
<1>2. CASE ~(~done.more \/ fp \notin DOMAIN ns)
  <2>1. ReadBlock(done, a, b) = [st |-> st1, out |-> Append(done.out, got), more |-> TRUE]
    BY <1>2, Zenon DEF ReadBlock
  <2>2. Looks(st, st1)
    <3>1. done.st \in Stores
      BY DEF Looks
    <3> QED
      BY <3>1, CacheLooks, LooksTrans
  <2> HIDE DEF st1, got
  <2> QED
    BY <2>1, <2>2
<1> QED
  BY <1>1, <1>2

\* The loop as a function of the number of turns.
Turns(f, st, a, n) ==
  /\ f[0] = [st |-> Cache(st, a.cid), out |-> <<>>, more |-> TRUE]
  /\ \A k \in 1 .. n : f[k] = ReadBlock(f[k - 1], a, k - 1)

LEMMA ReadBlocksLoop ==
  ASSUME NEW st, NEW a, NEW n \in Nat
  PROVE  \E f : Turns(f, st, a, n) /\ ReadBlocks(st, a, n) = f[n]
<1> DEFINE start == [st |-> Cache(st, a.cid), out |-> <<>>, more |-> TRUE]
           Reads(f, m) == f = [k \in 0 .. m |-> IF k = 0 THEN start
                                                ELSE ReadBlock(f[k - 1], a, k - 1)]
           read == CHOOSE f : Reads(f, n)
<1>1. ReadBlocks(st, a, n) = read[n]
  BY Zenon DEF ReadBlocks
<1> HIDE DEF start
<1>2. \E f : Reads(f, n)
  <2> DEFINE T == {m \in Nat : \E f : Reads(f, m)}
  <2>1. 0 \in T
    <3>1. Reads([k \in 0 .. 0 |-> start], 0)
      OBVIOUS
    <3> QED
      BY <3>1
  <2>2. ASSUME NEW m \in Nat, m \in T PROVE m + 1 \in T
    <3>1. PICK f : Reads(f, m)
      BY <2>2
    <3> DEFINE g == [k \in 0 .. m + 1 |-> IF k \in 0 .. m THEN f[k]
                                          ELSE ReadBlock(f[m], a, m)]
    <3>2. Reads(g, m + 1)
      BY <3>1
    <3>3. m + 1 \in Nat
      OBVIOUS
    <3> QED
      BY <3>2, <3>3, Zenon
  <2> HIDE DEF T
  <2>3. n \in T
    BY <2>1, <2>2, SetInduction
  <2> QED
    BY <2>3 DEF T
<1>3. Reads(read, n)
  BY <1>2, Zenon
<1> HIDE DEF read
<1>4. read[0] = start /\ \A k \in 1 .. n : read[k] = ReadBlock(read[k - 1], a, k - 1)
  BY <1>3
<1>5. Turns(read, st, a, n)
  BY <1>4 DEF start, Turns
<1> QED
  BY <1>1, <1>5, Zenon

\* lfs_read as a whole.
LEMMA ReadBlocksLooks ==
  ASSUME NEW st \in Stores, NEW a, NEW n \in Nat
  PROVE  Looks(st, ReadBlocks(st, a, n).st)
<1> DEFINE Good(x) == Looks(st, x.st) /\ "st" \in DOMAIN x
<1>1. PICK f : Turns(f, st, a, n) /\ ReadBlocks(st, a, n) = f[n]
  BY ReadBlocksLoop, Zenon
<1>2. Good(f[0])
  BY <1>1, CacheLooks DEF Turns
<1>3. ASSUME NEW x, NEW b, Good(x)
      PROVE  Good(ReadBlock(x, a, b))
  BY <1>3, ReadBlockLooks
<1> HIDE DEF Good
<1>4. Good(f[n])
  <2> DEFINE T == {k \in Nat : k \in 0 .. n => Good(f[k])}
  <2>1. 0 \in T
    BY <1>2
  <2>2. ASSUME NEW k \in Nat, k \in T PROVE k + 1 \in T
    BY <1>1, <1>3, <2>2 DEF Turns
  <2> HIDE DEF T
  <2>3. n \in T
    BY <2>1, <2>2, SetInduction
  <2> QED
    BY <2>3 DEF T
<1> QED
  BY <1>1, <1>4 DEF Good

\* What lfs_read does to the store, and what it copies, is what its loop does.
LEMMA ReadFileParts ==
  ASSUME NEW st, NEW ino, NEW n
  PROVE  LET none == ino.recipe = NullAddr /\ ino.size # 0
             read == ReadBlocks(st, ino.recipe, n)
         IN  /\ ReadFile(st, ino, n).st = IF none THEN st ELSE read.st
             /\ ReadFile(st, ino, n).out = IF none THEN <<>> ELSE read.out
             /\ ReadFile(st, ino, n).ret = IF none THEN {0} ELSE StrLen(read.out)
<1> DEFINE none == ino.recipe = NullAddr /\ ino.size # 0
           read == ReadBlocks(st, ino.recipe, n)
<1>1. ReadFile(st, ino, n) = IF none THEN [st |-> st, out |-> <<>>, ret |-> {0}]
                             ELSE [st |-> read.st, out |-> read.out, ret |-> StrLen(read.out)]
  BY Zenon DEF ReadFile
<1> HIDE DEF none, read
<1>2. /\ ReadFile(st, ino, n).st = IF none THEN st ELSE read.st
      /\ ReadFile(st, ino, n).out = IF none THEN <<>> ELSE read.out
      /\ ReadFile(st, ino, n).ret = IF none THEN {0} ELSE StrLen(read.out)
  BY <1>1
<1> QED
  BY <1>2 DEF none, read

\* So lfs_read only looks.
LEMMA ReadFileLooks ==
  ASSUME NEW st \in Stores, NEW ino, NEW n \in Nat
  PROVE  Looks(st, ReadFile(st, ino, n).st)
<1>1. Looks(st, ReadBlocks(st, ino.recipe, n).st)
  BY ReadBlocksLooks
<1>2. Looks(st, st)
  BY DEF Looks
<1>3. ReadFile(st, ino, n).st \in {st, ReadBlocks(st, ino.recipe, n).st}
  BY ReadFileParts
<1> QED
  BY <1>1, <1>2, <1>3

-----------------------------------------------------------------------------
(* The log and deduplication: what the operators do to the parts of the    *)
(* invariant LfsInv!LogSound.                                              *)

\* Filled segments keep their contents, but for recipes, which may be edited.
Keeps(st, t) ==
  \A a : Written(st, a) =>
    /\ Written(t, a)
    /\ \/ LogSeg(t, a) = LogSeg(st, a)
       \/ LogSeg(st, a).kind \in {"recipe", "zero"} /\ LogSeg(t, a).kind = "recipe"

\* That carries over a sequence of stores.
LEMMA KeepsTrans ==
  ASSUME NEW st, NEW t, NEW u, Keeps(st, t), Keeps(t, u)
  PROVE  Keeps(st, u)
<1> SUFFICES ASSUME NEW a, Written(st, a)
             PROVE  /\ Written(u, a)
                    /\ \/ LogSeg(u, a) = LogSeg(st, a)
                       \/ LogSeg(st, a).kind \in {"recipe", "zero"} /\ LogSeg(u, a).kind = "recipe"
  BY DEF Keeps
<1>1. /\ Written(t, a)
      /\ \/ LogSeg(t, a) = LogSeg(st, a)
         \/ LogSeg(st, a).kind \in {"recipe", "zero"} /\ LogSeg(t, a).kind = "recipe"
  BY DEF Keeps
<1>2. /\ Written(u, a)
      /\ \/ LogSeg(u, a) = LogSeg(t, a)
         \/ LogSeg(t, a).kind \in {"recipe", "zero"} /\ LogSeg(u, a).kind = "recipe"
  BY <1>1 DEF Keeps
<1> QED
  BY <1>1, <1>2

\* A store in which everything filled is as it was.
LEMMA KeepsSame ==
  ASSUME NEW st, NEW t, \A a : Written(st, a) => Written(t, a) /\ LogSeg(t, a) = LogSeg(st, a)
  PROVE  Keeps(st, t)
  BY DEF Keeps

\* A recipe that was filled still is.
LEMMA KeepsRecipe ==
  ASSUME NEW st, NEW t, NEW ino, Keeps(st, t), RecipeThere(st, ino)
  PROVE  RecipeThere(t, ino)
  BY DEF Keeps, RecipeThere

\* A sound segment stays sound when more is filled and more is known.
LEMMA KeepsSound ==
  ASSUME NEW st, NEW t, NEW known, NEW more, NEW g,
         Keeps(st, t), known \subseteq more, SegSound(st, known, g)
  PROVE  SegSound(t, more, g)
<1>1. ASSUME g.kind = "inode" PROVE RecipeThere(t, g.ino)
  BY <1>1, KeepsRecipe DEF SegSound
<1>2. ASSUME g.kind = "recipe" PROVE \A b \in Blocks : g.rec[b] \in more \cup {NoFp}
  BY <1>2 DEF SegSound
<1> QED
  BY <1>1, <1>2 DEF SegSound

\* Cleared segments, directories and blocks are sound.
LEMMA OtherSound ==
  ASSUME NEW st, NEW known
  PROVE  /\ SegSound(st, known, ZeroSeg)
         /\ \A recs : SegSound(st, known, DirSeg(recs))
         /\ \A d : SegSound(st, known, DataSeg(d))
         /\ \A ino : RecipeThere(st, ino) => SegSound(st, known, InodeSeg(ino))
  BY DEF SegSound, ZeroSeg, DirSeg, DataSeg, InodeSeg

-----------------------------------------------------------------------------
(* container_add_seg. *)

\* The two outcomes of container_add_seg, field by field.
LEMMA AddSegShape ==
  ASSUME NEW st \in Stores, NEW s \in Segment, st.buf.id + 1 < MaxContainer
  PROVE  LET t == AddSeg(st, s)
             filled(i) == IF i = st.buf.off THEN s ELSE st.buf.seg[i]
         IN  /\ t.cur = st.cur
             /\ \/ /\ st.buf.off + 1 < SegNum
                   /\ t.buf.id = st.buf.id /\ t.buf.hdr = st.buf.hdr
                   /\ t.buf.off = st.buf.off + 1
                   /\ \A i \in SegIds : t.buf.seg[i] = filled(i)
                   /\ t.disk = st.disk
                \/ /\ st.buf.off + 1 = SegNum
                   /\ t.buf = EmptyContainer(st.buf.id + 1)
                   /\ t.disk[st.buf.id].hdr = st.buf.hdr
                   /\ \A i \in SegIds : t.disk[st.buf.id].seg[i] = filled(i)
                   /\ \A x \in ContainerIds : x # st.buf.id => t.disk[x] = st.disk[x]
<1> DEFINE seg2 == [st.buf.seg EXCEPT ![st.buf.off] = s]
           full == [st.buf EXCEPT !.seg[st.buf.off] = s, !.off = @ + 1]
<1>1. /\ st.buf \in ContainerType /\ st.buf.off < SegNum
      /\ st.disk \in [ContainerIds -> ImageType] /\ st.buf.id \in ContainerIds
      /\ st.buf.off \in 1 .. SegNum
      /\ st = [buf |-> st.buf, cur |-> st.cur, disk |-> st.disk]
  BY DEF Stores, ContainerType
<1>2. /\ full.id = st.buf.id /\ full.hdr = st.buf.hdr
      /\ full.seg = seg2 /\ full.off = st.buf.off + 1
  BY <1>1 DEF ContainerType
<1>3. \A i \in SegIds : seg2[i] = IF i = st.buf.off THEN s ELSE st.buf.seg[i]
  BY <1>1 DEF ContainerType
<1>4. ~(st.buf.off >= SegNum)
  BY <1>1, ContainerAssumption
<1>5. AddSeg(st, s) =
        IF full.off = SegNum
          THEN [st EXCEPT !.disk = ContainerWrite(@, full), !.buf = EmptyContainer(full.id + 1)]
          ELSE [st EXCEPT !.buf = full]
  BY <1>4, Zenon DEF AddSeg
<1> HIDE DEF seg2, full
<1>6. CASE st.buf.off + 1 = SegNum
  <2>1. AddSeg(st, s) = [buf |-> EmptyContainer(st.buf.id + 1), cur |-> st.cur,
                         disk |-> ContainerWrite(st.disk, full)]
    BY <1>1, <1>2, <1>5, <1>6
  <2>2. /\ ContainerWrite(st.disk, full)[st.buf.id] = Image(full)
        /\ \A x \in ContainerIds :
             x # st.buf.id => ContainerWrite(st.disk, full)[x] = st.disk[x]
    BY <1>1, <1>2 DEF ContainerWrite
  <2>3. Image(full).hdr = st.buf.hdr /\ Image(full).seg = seg2
    BY <1>2 DEF Image
  <2> QED
    BY <1>3, <1>6, <2>1, <2>2, <2>3
<1>7. CASE st.buf.off + 1 # SegNum
  <2>1. AddSeg(st, s) = [buf |-> full, cur |-> st.cur, disk |-> st.disk]
    BY <1>1, <1>2, <1>5, <1>7
  <2>2. st.buf.off + 1 < SegNum
    BY <1>1, <1>7, ContainerAssumption
  <2> QED
    BY <1>2, <1>3, <2>1, <2>2
<1> QED
  BY <1>6, <1>7

\* A filled address: in a container that was flushed, or below seg_offset in the
\* one that is being filled.
LEMMA WrittenPlaces ==
  ASSUME NEW st \in Stores, NEW a, Written(st, a)
  PROVE  /\ a.cid \in 0 .. st.buf.id /\ a.seg \in SegIds /\ a.cid \in ContainerIds
         /\ a.cid = st.buf.id => a.seg < st.buf.off
  BY ContainerAssumption
  DEF Written, Stores, ContainerType, ContainerIds, SegIds

\* container_add_seg keeps what was filled, and fills the next address.
LEMMA AddSegKeeps ==
  ASSUME NEW st \in Stores, NEW s \in Segment, st.buf.id + 1 < MaxContainer
  PROVE  LET t == AddSeg(st, s)
         IN  /\ \A a : Written(st, a) => Written(t, a) /\ LogSeg(t, a) = LogSeg(st, a)
             /\ Written(t, NextAddr(st)) /\ LogSeg(t, NextAddr(st)) = s
<1> DEFINE t == AddSeg(st, s)
           filled(i) == IF i = st.buf.off THEN s ELSE st.buf.seg[i]
<1>1. /\ st.buf.id \in ContainerIds /\ st.buf.id \in Nat
      /\ st.buf.off \in SegIds /\ st.buf.off \in Nat
  BY ContainerAssumption DEF Stores, ContainerType, SegIds, ContainerIds
<1>2. NextAddr(st).cid = st.buf.id /\ NextAddr(st).seg = st.buf.off
  BY DEF NextAddr
<1>3. CASE /\ st.buf.off + 1 < SegNum
           /\ t.buf.id = st.buf.id /\ t.buf.hdr = st.buf.hdr
           /\ t.buf.off = st.buf.off + 1
           /\ \A i \in SegIds : t.buf.seg[i] = filled(i)
           /\ t.disk = st.disk
  <2>1. ASSUME NEW a, Written(st, a)
        PROVE  Written(t, a) /\ LogSeg(t, a) = LogSeg(st, a)
    <3>1. /\ a.cid \in 0 .. st.buf.id /\ a.seg \in SegIds /\ a.cid \in ContainerIds
          /\ a.cid = st.buf.id => a.seg < st.buf.off
      BY <2>1, WrittenPlaces
    <3> HIDE DEF t
    <3>2. Written(t, a)
      BY <1>1, <1>3, <2>1, <3>1 DEF Written, SegIds
    <3>3. LogSeg(t, a) = LogSeg(st, a)
      BY <1>1, <1>3, <3>1 DEF SegIds, LogSeg, LogContainer, Image
    <3> QED
      BY <3>2, <3>3
  <2> HIDE DEF t
  <2>2. Written(t, NextAddr(st)) /\ LogSeg(t, NextAddr(st)) = s
    BY <1>1, <1>2, <1>3 DEF Written, LogSeg, LogContainer, Image
  <2> QED
    BY <2>1, <2>2 DEF t
<1>4. CASE /\ st.buf.off + 1 = SegNum
           /\ t.buf = EmptyContainer(st.buf.id + 1)
           /\ \A i \in SegIds : t.disk[st.buf.id].seg[i] = filled(i)
           /\ \A x \in ContainerIds : x # st.buf.id => t.disk[x] = st.disk[x]
  <2> HIDE DEF t
  <2>1. t.buf.id = st.buf.id + 1 /\ st.buf.id # st.buf.id + 1
    BY <1>1, <1>4 DEF EmptyContainer
  <2>2. ASSUME NEW a, Written(st, a)
        PROVE  Written(t, a) /\ LogSeg(t, a) = LogSeg(st, a)
    <3>1. /\ a.cid \in 0 .. st.buf.id /\ a.seg \in SegIds /\ a.cid \in ContainerIds
          /\ a.cid = st.buf.id => a.seg < st.buf.off
      BY <2>2, WrittenPlaces
    <3>2. Written(t, a)
      BY <1>1, <2>1, <3>1 DEF Written
    <3>3. a.cid # t.buf.id
      BY <1>1, <2>1, <3>1
    <3>4. LogSeg(t, a) = LogSeg(st, a)
      BY <1>1, <1>4, <3>1, <3>3 DEF SegIds, LogSeg, LogContainer, Image
    <3> QED
      BY <3>2, <3>4
  <2>3. Written(t, NextAddr(st)) /\ LogSeg(t, NextAddr(st)) = s
    BY <1>1, <1>2, <1>4, <2>1 DEF Written, LogSeg, LogContainer, Image
  <2> QED
    BY <2>2, <2>3 DEF t
<1> HIDE DEF t
<1> QED
  BY <1>3, <1>4, AddSegShape DEF t

\* What container_add_seg leaves in the log is what was there, the new segment,
\* or cleared; and the headers stay.
LEMMA AddSegLeaves ==
  ASSUME NEW st \in Stores, NEW s \in Segment, st.buf.id + 1 < MaxContainer
  PROVE  LET t == AddSeg(st, s)
         IN  /\ \A a \in LogAddr(t) :
                  \/ LogSeg(t, a) = ZeroSeg
                  \/ a = NextAddr(st)
                  \/ a \in LogAddr(st) /\ LogSeg(t, a) = LogSeg(st, a)
             /\ \A x \in 0 .. st.buf.id : LogContainer(t, x).hdr = LogContainer(st, x).hdr
             /\ \A x \in 0 .. t.buf.id : x \in 0 .. st.buf.id \/ LogContainer(t, x).hdr = <<>>
             /\ Len(st.buf.hdr) <= st.buf.off => HeaderFits(t)
<1> DEFINE t == AddSeg(st, s)
           filled(i) == IF i = st.buf.off THEN s ELSE st.buf.seg[i]
<1>1. /\ st.buf.id \in ContainerIds /\ st.buf.id \in Nat
      /\ st.buf.off \in SegIds /\ st.buf.off \in Nat
      /\ Len(st.buf.hdr) \in Nat
  BY ContainerAssumption DEF Stores, ContainerType, SegIds, ContainerIds, Header
<1>2. NextAddr(st) = [cid |-> st.buf.id, seg |-> st.buf.off]
  BY DEF NextAddr
<1>3. CASE /\ st.buf.off + 1 < SegNum
           /\ t.buf.id = st.buf.id /\ t.buf.hdr = st.buf.hdr
           /\ t.buf.off = st.buf.off + 1
           /\ \A i \in SegIds : t.buf.seg[i] = filled(i)
           /\ t.disk = st.disk
  <2> HIDE DEF t
  <2>1. ASSUME NEW a \in LogAddr(t), a # NextAddr(st)
        PROVE  a \in LogAddr(st) /\ LogSeg(t, a) = LogSeg(st, a)
    <3>1. a.cid \in 0 .. st.buf.id /\ a.seg \in SegIds /\ a \in LogAddr(st)
      BY <1>3 DEF LogAddr
    <3>2. a.cid = st.buf.id => a.seg # st.buf.off
      BY <1>2, <2>1 DEF LogAddr
    <3> QED
      BY <1>3, <3>1, <3>2 DEF LogSeg, LogContainer, Image
  <2>2. \A x \in 0 .. st.buf.id : LogContainer(t, x).hdr = LogContainer(st, x).hdr
    BY <1>3 DEF LogSeg, LogContainer, Image
  <2>3. Len(st.buf.hdr) <= st.buf.off => HeaderFits(t)
    BY <1>1, <1>3 DEF HeaderFits
  <2> QED
    BY <1>3, <2>1, <2>2, <2>3 DEF t
<1>4. CASE /\ st.buf.off + 1 = SegNum
           /\ t.buf = EmptyContainer(st.buf.id + 1)
           /\ t.disk[st.buf.id].hdr = st.buf.hdr
           /\ \A i \in SegIds : t.disk[st.buf.id].seg[i] = filled(i)
           /\ \A x \in ContainerIds : x # st.buf.id => t.disk[x] = st.disk[x]
  <2> HIDE DEF t
  <2>1. /\ t.buf.id = st.buf.id + 1 /\ st.buf.id # st.buf.id + 1
        /\ t.buf.hdr = <<>> /\ t.buf.off = 1
        /\ \A i \in SegIds : t.buf.seg[i] = ZeroSeg
    BY <1>1, <1>4 DEF EmptyContainer
  <2>2. ASSUME NEW a \in LogAddr(t), a # NextAddr(st), a.cid # t.buf.id
        PROVE  a \in LogAddr(st) /\ LogSeg(t, a) = LogSeg(st, a)
    <3>1. a.cid \in 0 .. st.buf.id /\ a.seg \in SegIds /\ a \in LogAddr(st)
      BY <1>1, <2>1, <2>2 DEF LogAddr
    <3>2. a.cid = st.buf.id => a.seg # st.buf.off
      BY <1>2, <2>2 DEF LogAddr
    <3>3. a.cid \in ContainerIds
      BY <1>1, <3>1, ContainerAssumption DEF ContainerIds
    <3> QED
      BY <1>4, <2>2, <3>1, <3>2, <3>3 DEF LogSeg, LogContainer, Image
  <2>3. ASSUME NEW a \in LogAddr(t), a.cid = t.buf.id
        PROVE  LogSeg(t, a) = ZeroSeg
    BY <2>1, <2>3 DEF LogAddr, LogSeg, LogContainer, Image
  <2>4. ASSUME NEW x \in 0 .. st.buf.id
        PROVE  LogContainer(t, x).hdr = LogContainer(st, x).hdr
    <3>1. x \in ContainerIds /\ x # t.buf.id
      BY <1>1, <2>1, ContainerAssumption DEF ContainerIds
    <3> QED
      BY <1>4, <3>1 DEF LogSeg, LogContainer, Image
  <2>5. HeaderFits(t)
    BY <2>1 DEF HeaderFits
  <2>6. \A x \in 0 .. t.buf.id : x \in 0 .. st.buf.id \/ LogContainer(t, x).hdr = <<>>
    BY <1>1, <2>1 DEF LogContainer, Image
  <2> QED
    BY <2>2, <2>3, <2>4, <2>5, <2>6 DEF t
<1> HIDE DEF t
<1> QED
  BY <1>3, <1>4, AddSegShape DEF t

\* Every segment anywhere is one that was somewhere, the new one, or cleared.
LEMMA AddSegSegs ==
  ASSUME NEW st \in Stores, NEW s \in Segment, st.buf.id + 1 < MaxContainer,
         NEW i \in SegIds
  PROVE  LET t == AddSeg(st, s)
         IN  /\ t.buf.seg[i] \in {ZeroSeg, s, st.buf.seg[i]}
             /\ t.cur.seg[i] = st.cur.seg[i]
             /\ \A x \in ContainerIds :
                  t.disk[x].seg[i] \in {s, st.buf.seg[i], st.disk[x].seg[i]}
<1> DEFINE t == AddSeg(st, s)
           filled(j) == IF j = st.buf.off THEN s ELSE st.buf.seg[j]
<1>1. CASE /\ st.buf.off + 1 < SegNum
           /\ \A j \in SegIds : t.buf.seg[j] = filled(j)
           /\ t.disk = st.disk
  BY <1>1, AddSegShape
<1>2. CASE /\ t.buf = EmptyContainer(st.buf.id + 1)
           /\ \A j \in SegIds : t.disk[st.buf.id].seg[j] = filled(j)
           /\ \A x \in ContainerIds : x # st.buf.id => t.disk[x] = st.disk[x]
  <2> HIDE DEF t
  <2>1. t.buf.seg[i] = ZeroSeg
    BY <1>2 DEF EmptyContainer
  <2>2. t.cur = st.cur
    BY AddSegShape DEF t
  <2> QED
    BY <1>2, <2>1, <2>2 DEF t
<1>3. \/ /\ st.buf.off + 1 < SegNum
         /\ \A j \in SegIds : t.buf.seg[j] = filled(j)
         /\ t.disk = st.disk
      \/ /\ t.buf = EmptyContainer(st.buf.id + 1)
         /\ \A j \in SegIds : t.disk[st.buf.id].seg[j] = filled(j)
         /\ \A x \in ContainerIds : x # st.buf.id => t.disk[x] = st.disk[x]
  <2> HIDE DEF t
  <2> QED
    BY AddSegShape DEF t
<1> HIDE DEF t, filled
<1> QED
  BY <1>1, <1>2, <1>3 DEF t

-----------------------------------------------------------------------------
(* Appending a segment keeps the invariant. *)

\* Appending keeps every segment sound, if the new one is.
LEMMA AppendSegsSound ==
  ASSUME NEW st \in Stores, NEW s \in Segment, st.buf.id + 1 < MaxContainer,
         NEW known, SegsSound(st, known), SegSound(st, known, s)
  PROVE  SegsSound(AddSeg(st, s), known) /\ Keeps(st, AddSeg(st, s))
<1> DEFINE t == AddSeg(st, s)
<1>1. Keeps(st, t)
  BY AddSegKeeps, KeepsSame
<1>2. \A g : SegSound(st, known, g) => SegSound(t, known, g)
  BY <1>1, KeepsSound
<1>3. ASSUME NEW i \in SegIds
      PROVE  /\ SegSound(t, known, t.buf.seg[i])
             /\ SegSound(t, known, t.cur.seg[i])
             /\ \A x \in ContainerIds : SegSound(t, known, t.disk[x].seg[i])
  <2>1. /\ t.buf.seg[i] \in {ZeroSeg, s, st.buf.seg[i]}
        /\ t.cur.seg[i] = st.cur.seg[i]
        /\ \A x \in ContainerIds :
             t.disk[x].seg[i] \in {s, st.buf.seg[i], st.disk[x].seg[i]}
    BY AddSegSegs
  <2>2. /\ SegSound(st, known, ZeroSeg) /\ SegSound(st, known, st.buf.seg[i])
        /\ SegSound(st, known, st.cur.seg[i])
        /\ \A x \in ContainerIds : SegSound(st, known, st.disk[x].seg[i])
    BY OtherSound DEF SegsSound
  <2> HIDE DEF t
  <2> QED
    BY <1>2, <2>1, <2>2
<1> HIDE DEF t
<1> QED
  BY <1>1, <1>3 DEF SegsSound, t

\* What is filed in a header stays filed when a segment is added.
LEMMA AppendFiled ==
  ASSUME NEW st \in Stores, NEW s \in Segment, st.buf.id + 1 < MaxContainer,
         NEW d, NEW x, Filed(st, d, x)
  PROVE  Filed(AddSeg(st, s), d, x)
<1> DEFINE t == AddSeg(st, s)
<1>1. PICK i \in DOMAIN LogContainer(st, x).hdr :
        LET a == [cid |-> x, seg |-> LogContainer(st, x).hdr[i].seg]
        IN  /\ LogContainer(st, x).hdr[i].fp = d
            /\ Written(st, a) /\ LogSeg(st, a) = DataSeg(d)
  BY DEF Filed
<1> DEFINE a == [cid |-> x, seg |-> LogContainer(st, x).hdr[i].seg]
<1>2. Written(t, a) /\ LogSeg(t, a) = DataSeg(d)
  BY <1>1, AddSegKeeps
<1>3. x \in 0 .. st.buf.id
  BY <1>1, WrittenPlaces
<1>4. LogContainer(t, x).hdr = LogContainer(st, x).hdr
  BY <1>3, AddSegLeaves
<1> HIDE DEF t
<1> QED
  BY <1>1, <1>2, <1>4 DEF Filed, t

\* Headers that stay lead to blocks that stay.
LEMMA HeadersKept ==
  ASSUME NEW st \in Stores, HeadersTrue(st), NEW t,
         \A x \in 0 .. t.buf.id :
           \/ x \in 0 .. st.buf.id /\ LogContainer(t, x).hdr = LogContainer(st, x).hdr
           \/ LogContainer(t, x).hdr = <<>>,
         \A a : Written(st, a) /\ LogSeg(st, a).kind = "data" =>
                Written(t, a) /\ LogSeg(t, a) = LogSeg(st, a)
  PROVE  HeadersTrue(t)
<1> SUFFICES ASSUME NEW x \in 0 .. t.buf.id, NEW i \in DOMAIN LogContainer(t, x).hdr
             PROVE  LET record == LogContainer(t, x).hdr[i]
                        a      == [cid |-> x, seg |-> record.seg]
                    IN  Written(t, a) /\ LogSeg(t, a) = DataSeg(record.fp)
  BY DEF HeadersTrue
<1> DEFINE record == LogContainer(t, x).hdr[i]
           a      == [cid |-> x, seg |-> record.seg]
<1>1. x \in 0 .. st.buf.id /\ LogContainer(t, x).hdr = LogContainer(st, x).hdr
  OBVIOUS
<1>2. Written(st, a) /\ LogSeg(st, a) = DataSeg(record.fp)
  BY <1>1 DEF HeadersTrue
<1>3. LogSeg(st, a).kind = "data"
  BY <1>2 DEF DataSeg
<1> HIDE DEF record, a
<1>4. Written(t, a) /\ LogSeg(t, a) = DataSeg(record.fp)
  BY <1>2, <1>3
<1> QED
  BY <1>4 DEF record, a

\* The headers of a store after container_add_seg.
LEMMA AppendHeaders ==
  ASSUME NEW st \in Stores, NEW s \in Segment, st.buf.id + 1 < MaxContainer,
         HeadersTrue(st)
  PROVE  HeadersTrue(AddSeg(st, s))
<1> DEFINE t == AddSeg(st, s)
<1>1. \A a : Written(st, a) => Written(t, a) /\ LogSeg(t, a) = LogSeg(st, a)
  BY AddSegKeeps
<1>2. \A x \in 0 .. t.buf.id :
        \/ x \in 0 .. st.buf.id /\ LogContainer(t, x).hdr = LogContainer(st, x).hdr
        \/ LogContainer(t, x).hdr = <<>>
  BY AddSegLeaves
<1> HIDE DEF t
<1>3. HeadersTrue(t)
  BY <1>1, <1>2, HeadersKept
<1> QED
  BY <1>3 DEF t

\* A segment that is not a block changes nothing for deduplication.
LEMMA AppendDedup ==
  ASSUME NEW st \in Stores, NEW s \in Segment, st.buf.id + 1 < MaxContainer,
         NEW table, DedupInv(st, table), s.kind # "data"
  PROVE  DedupInv(AddSeg(st, s), table)
<1> DEFINE t == AddSeg(st, s)
<1>1. HeaderFits(t)
  <2>1. Len(st.buf.hdr) \in Nat /\ st.buf.off \in Nat
    BY ContainerAssumption DEF Stores, ContainerType, Header
  <2>2. Len(st.buf.hdr) <= st.buf.off
    BY <2>1 DEF DedupInv, HeaderFits
  <2> QED
    BY <2>2, AddSegLeaves
<1>2. BlocksFiled(t, table) /\ HeadersTrue(t)
  BY AppendFiled, AppendHeaders DEF DedupInv, BlocksFiled
<1>3. ASSUME NEW a \in LogAddr(t), LogSeg(t, a).kind = "data"
      PROVE  a \in LogAddr(st) /\ LogSeg(t, a) = LogSeg(st, a)
  <2>1. LogSeg(t, a) # ZeroSeg
    BY <1>3 DEF ZeroSeg
  <2>2. a # NextAddr(st)
    BY <1>3, AddSegKeeps
  <2> QED
    BY <2>1, <2>2, AddSegLeaves
<1> HIDE DEF t
<1>4. BlocksKnown(t, DOMAIN table)
  BY <1>3 DEF DedupInv, BlocksKnown
<1>5. BlocksOnce(t)
  BY <1>3, Zenon DEF DedupInv, BlocksOnce
<1> QED
  BY <1>1, <1>2, <1>4, <1>5 DEF DedupInv, t

-----------------------------------------------------------------------------
(* lfs_write: the block, its header record and its place in the namespace. *)

\* The store that StoreBlock adds the block to.
LEMMA AddFingerprintShape ==
  ASSUME NEW st \in Stores, NEW d \in Data, HeaderFits(st)
  PROVE  LET t == AddFingerprint(st, d)
         IN  /\ t \in Stores
             /\ t.buf.id = st.buf.id /\ t.buf.seg = st.buf.seg /\ t.buf.off = st.buf.off
             /\ t.buf.hdr = Append(st.buf.hdr, [fp |-> d, seg |-> st.buf.off])
             /\ t.cur = st.cur /\ t.disk = st.disk
<1>1. /\ Len(st.buf.hdr) \in Nat /\ st.buf.off \in Nat /\ st.buf.off < SegNum
      /\ SegNum \in Nat
  BY ContainerAssumption DEF Stores, ContainerType, Header
<1>2. Len(st.buf.hdr) < SegNum
  BY <1>1 DEF HeaderFits
<1>3. AddFingerprint(st, d) \in Stores
  BY AddFingerprintGrows DEF Grows
<1> QED
  BY <1>2, <1>3 DEF AddFingerprint, Stores, ContainerType

\* A header record changes no segment and un-files nothing.
LEMMA FingerprintKeeps ==
  ASSUME NEW st \in Stores, NEW d \in Data, HeaderFits(st)
  PROVE  LET t == AddFingerprint(st, d)
         IN  /\ \A a : Written(st, a) <=> Written(t, a)
             /\ \A a : LogSeg(t, a) = LogSeg(st, a)
             /\ LogAddr(t) = LogAddr(st)
             /\ \A e, x : Filed(st, e, x) => Filed(t, e, x)
             /\ \A known : SegsSound(st, known) => SegsSound(t, known)
<1> DEFINE t == AddFingerprint(st, d)
<1>1. /\ t \in Stores
      /\ t.buf.id = st.buf.id /\ t.buf.seg = st.buf.seg /\ t.buf.off = st.buf.off
      /\ t.buf.hdr = Append(st.buf.hdr, [fp |-> d, seg |-> st.buf.off])
      /\ t.cur = st.cur /\ t.disk = st.disk
  BY AddFingerprintShape
<1> HIDE DEF t
<1>2. \A a : Written(st, a) <=> Written(t, a)
  BY <1>1 DEF Written
<1>3. \A a : LogSeg(t, a) = LogSeg(st, a)
  BY <1>1 DEF LogSeg, LogContainer, Image
<1>4. LogAddr(t) = LogAddr(st)
  BY <1>1 DEF LogAddr
<1>5. ASSUME NEW e, NEW x, Filed(st, e, x)
      PROVE  Filed(t, e, x)
  <2>1. PICK i \in DOMAIN LogContainer(st, x).hdr :
          LET a == [cid |-> x, seg |-> LogContainer(st, x).hdr[i].seg]
          IN  /\ LogContainer(st, x).hdr[i].fp = e
              /\ Written(st, a) /\ LogSeg(st, a) = DataSeg(e)
    BY <1>5 DEF Filed
  <2>2. /\ i \in DOMAIN LogContainer(t, x).hdr
        /\ LogContainer(t, x).hdr[i] = LogContainer(st, x).hdr[i]
    <3>1. CASE x = st.buf.id
      <4>1. LogContainer(st, x).hdr = st.buf.hdr /\ LogContainer(t, x).hdr = t.buf.hdr
        BY <1>1, <3>1 DEF LogContainer, Image
      <4>2. st.buf.hdr \in Header
        BY DEF Stores, ContainerType
      <4> QED
        BY <1>1, <2>1, <4>1, <4>2 DEF Header
    <3>2. CASE x # st.buf.id
      BY <1>1, <2>1, <3>2 DEF LogContainer
    <3> QED
      BY <3>1, <3>2
  <2> QED
    BY <1>2, <1>3, <2>1, <2>2 DEF Filed
<1>6. ASSUME NEW known, SegsSound(st, known)
      PROVE  SegsSound(t, known)
  <2>1. \A g : SegSound(st, known, g) => SegSound(t, known, g)
    BY <1>2, <1>3 DEF SegSound, RecipeThere
  <2> QED
    BY <1>1, <1>6, <2>1 DEF SegsSound
<1> QED
  BY <1>2, <1>3, <1>4, <1>5, <1>6 DEF t

\* lfs_write keeps the namespace and the log in agreement when it stores a block
\* that the namespace does not know.
LEMMA StoreBlockSound ==
  ASSUME NEW st \in Stores, NEW d \in Data, st.buf.id + 1 < MaxContainer,
         DedupInv(st, ns), NEW known, SegsSound(st, known)
  PROVE  LET t == StoreBlock(st, d)
         IN  /\ DedupInv(t, Learn(d, st.buf.id))
             /\ SegsSound(t, known)
             /\ Keeps(st, t)
<1>1. CASE d \in DOMAIN ns
  BY <1>1 DEF StoreBlock, Learn, Keeps
<1>2. CASE d \notin DOMAIN ns
  <2> DEFINE f == AddFingerprint(st, d)
             t == AddSeg(f, DataSeg(d))
             table == Learn(d, st.buf.id)
  <2>1. StoreBlock(st, d) = t
    BY <1>2 DEF StoreBlock
  <2>2. /\ table = [x \in DOMAIN ns \cup {d} |-> IF x = d THEN st.buf.id ELSE ns[x]]
        /\ DOMAIN table = DOMAIN ns \cup {d}
        /\ table[d] = st.buf.id /\ \A x \in DOMAIN ns : table[x] = ns[x]
    BY <1>2 DEF Learn
  <2>3. /\ f \in Stores
        /\ f.buf.id = st.buf.id /\ f.buf.off = st.buf.off
        /\ f.buf.hdr = Append(st.buf.hdr, [fp |-> d, seg |-> st.buf.off])
    BY AddFingerprintShape DEF DedupInv
  <2>4. /\ \A a : Written(st, a) <=> Written(f, a)
        /\ \A a : LogSeg(f, a) = LogSeg(st, a)
        /\ LogAddr(f) = LogAddr(st)
        /\ \A e, x : Filed(st, e, x) => Filed(f, e, x)
        /\ SegsSound(f, known)
    BY FingerprintKeeps DEF DedupInv
  <2>5. DataSeg(d) \in Segment /\ DataSeg(d).kind = "data" /\ DataSeg(d).data = d
    BY SegmentType DEF DataSeg
  <2>6. /\ Len(st.buf.hdr) \in Nat /\ st.buf.off \in Nat /\ st.buf.id \in Nat
        /\ st.buf.hdr \in Header
    BY ContainerAssumption DEF Stores, ContainerType, Header, ContainerIds
  <2>7. f.buf.id + 1 < MaxContainer
    BY <2>3
  <2> HIDE DEF f, table
  <2>8. HeaderFits(t)
    <3>1. Len(f.buf.hdr) = Len(st.buf.hdr) + 1
      BY <2>3, <2>6 DEF Header
    <3>2. Len(f.buf.hdr) <= f.buf.off
      BY <2>3, <2>6, <3>1 DEF DedupInv, HeaderFits
    <3> QED
      BY <2>3, <2>5, <2>7, <3>2, AddSegLeaves
  <2>9. SegsSound(t, known) /\ Keeps(f, t)
    BY <2>3, <2>4, <2>5, <2>7, OtherSound, AppendSegsSound
  <2>10. Keeps(st, t)
    <3>1. Keeps(st, f)
      BY <2>4, KeepsSame
    <3> QED
      BY <2>9, <3>1, KeepsTrans
  <2>11. Written(t, NextAddr(f)) /\ LogSeg(t, NextAddr(f)) = DataSeg(d)
    BY <2>3, <2>5, <2>7, AddSegKeeps
  <2>12. Filed(t, d, st.buf.id)
    <3>1. NextAddr(f) = [cid |-> st.buf.id, seg |-> st.buf.off]
      BY <2>3 DEF NextAddr
    <3>2. LogContainer(t, st.buf.id).hdr = f.buf.hdr
      <4>1. LogContainer(f, st.buf.id).hdr = f.buf.hdr
        BY <2>3 DEF LogContainer, Image
      <4>2. st.buf.id \in 0 .. f.buf.id
        BY <2>3, <2>6
      <4> QED
        BY <2>3, <2>5, <2>7, <4>1, <4>2, AddSegLeaves
    <3>3. /\ Len(st.buf.hdr) + 1 \in DOMAIN f.buf.hdr
          /\ f.buf.hdr[Len(st.buf.hdr) + 1] = [fp |-> d, seg |-> st.buf.off]
      BY <2>3, <2>6 DEF Header
    <3> HIDE DEF t
    <3> QED
      BY <2>11, <3>1, <3>2, <3>3 DEF Filed
  <2>13. BlocksFiled(t, table)
    <3>1. ASSUME NEW e \in DOMAIN ns PROVE Filed(t, e, ns[e])
      <4>1. Filed(f, e, ns[e])
        BY <2>4 DEF DedupInv, BlocksFiled
      <4> QED
        BY <2>3, <2>5, <2>7, <4>1, AppendFiled
    <3> QED
      BY <2>2, <2>12, <3>1 DEF BlocksFiled
  <2>14. ASSUME NEW a \in LogAddr(t), LogSeg(t, a).kind = "data", a # NextAddr(f)
         PROVE  a \in LogAddr(st) /\ LogSeg(t, a) = LogSeg(st, a)
    <3>1. LogSeg(t, a) # ZeroSeg
      BY <2>14 DEF ZeroSeg
    <3> QED
      BY <2>3, <2>4, <2>5, <2>7, <2>14, <3>1, AddSegLeaves
  <2>17. HeadersTrue(t)
    <3>1. ASSUME NEW x \in 0 .. st.buf.id, NEW i \in DOMAIN LogContainer(f, x).hdr
          PROVE  LET record == LogContainer(f, x).hdr[i]
                     a      == [cid |-> x, seg |-> record.seg]
                 IN  Written(t, a) /\ LogSeg(t, a) = DataSeg(record.fp)
      <4> DEFINE record == LogContainer(f, x).hdr[i]
                 a      == [cid |-> x, seg |-> record.seg]
      <4>1. CASE x = st.buf.id /\ i = Len(st.buf.hdr) + 1
        <5>1. record = [fp |-> d, seg |-> st.buf.off]
          BY <2>3, <2>6, <4>1 DEF LogContainer, Image, Header
        <5>2. a = NextAddr(f)
          BY <2>3, <4>1, <5>1 DEF NextAddr
        <5> QED
          BY <2>11, <5>1, <5>2
      <4>2. CASE ~(x = st.buf.id /\ i = Len(st.buf.hdr) + 1)
        <5>1. i \in DOMAIN LogContainer(st, x).hdr /\ record = LogContainer(st, x).hdr[i]
          <6>1. CASE x = st.buf.id
            <7>1. LogContainer(st, x).hdr = st.buf.hdr /\ LogContainer(f, x).hdr = f.buf.hdr
              BY <2>3, <6>1 DEF LogContainer, Image
            <7> QED
              BY <2>3, <2>6, <3>1, <4>2, <6>1, <7>1 DEF Header
          <6>2. CASE x # st.buf.id
            <7>1. f.disk = st.disk
              BY AddFingerprintShape DEF DedupInv, f
            <7> QED
              BY <2>3, <3>1, <6>2, <7>1 DEF LogContainer
          <6> QED
            BY <6>1, <6>2
        <5>2. Written(st, a) /\ LogSeg(st, a) = DataSeg(record.fp)
          BY <5>1 DEF DedupInv, HeadersTrue
        <5> HIDE DEF record, a
        <5>3. Written(t, a) /\ LogSeg(t, a) = DataSeg(record.fp)
          BY <2>3, <2>4, <2>5, <2>7, <5>2, AddSegKeeps
        <5> QED
          BY <5>3 DEF record, a
      <4> QED
        BY <4>1, <4>2
    <3>2. /\ \A x \in 0 .. f.buf.id : LogContainer(t, x).hdr = LogContainer(f, x).hdr
          /\ \A x \in 0 .. t.buf.id : x \in 0 .. f.buf.id \/ LogContainer(t, x).hdr = <<>>
      BY <2>3, <2>5, <2>7, AddSegLeaves
    <3> HIDE DEF t
    <3>3. ASSUME NEW x \in 0 .. t.buf.id, NEW i \in DOMAIN LogContainer(t, x).hdr
          PROVE  LET record == LogContainer(t, x).hdr[i]
                     a      == [cid |-> x, seg |-> record.seg]
                 IN  Written(t, a) /\ LogSeg(t, a) = DataSeg(record.fp)
      <4>1. LogContainer(t, x).hdr # <<>>
        OBVIOUS
      <4>2. x \in 0 .. st.buf.id /\ LogContainer(t, x).hdr = LogContainer(f, x).hdr
        BY <2>3, <3>2, <4>1
      <4>3. i \in DOMAIN LogContainer(f, x).hdr
        BY <4>2
      <4> QED
        BY <3>1, <4>2, <4>3
    <3> QED
      BY <3>3 DEF HeadersTrue
  <2> HIDE DEF t
  <2>15. BlocksKnown(t, DOMAIN table)
    BY <2>2, <2>5, <2>11, <2>14 DEF DedupInv, BlocksKnown
  <2>16. BlocksOnce(t)
    <3>1. ASSUME NEW a \in LogAddr(t), NEW b \in LogAddr(t),
                 LogSeg(t, a).kind = "data", LogSeg(t, a) = LogSeg(t, b),
                 a = NextAddr(f), b # NextAddr(f)
          PROVE  FALSE
      <4>1. b \in LogAddr(st) /\ LogSeg(st, b) = DataSeg(d)
        BY <2>11, <2>14, <3>1
      <4> QED
        BY <1>2, <2>5, <4>1 DEF DedupInv, BlocksKnown
    <3>2. ASSUME NEW a \in LogAddr(t), NEW b \in LogAddr(t),
                 LogSeg(t, a).kind = "data", LogSeg(t, a) = LogSeg(t, b),
                 a # NextAddr(f), b # NextAddr(f)
          PROVE  a = b
      BY <2>14, <3>2, Zenon DEF DedupInv, BlocksOnce
    <3> QED
      BY <3>1, <3>2, Zenon DEF BlocksOnce
  <2> QED
    BY <2>1, <2>8, <2>9, <2>10, <2>13, <2>15, <2>16, <2>17 DEF DedupInv, table
<1> QED
  BY <1>1, <1>2

-----------------------------------------------------------------------------
(* lfs_write: the recipe, edited in place. *)

\* An edited recipe has the fingerprints it had, and the new one.
LEMMA EditedRecipeSound ==
  ASSUME NEW st \in Stores, NEW a \in Addr, NEW b \in Blocks, NEW d \in Data,
         NEW known, SegsSound(st, known)
  PROVE  LET rec == [AsRecipe(SegAt(st, a)) EXCEPT ![b] = d]
         IN  rec \in Recipe /\ \A x \in Blocks : rec[x] \in known \cup {d} \cup {NoFp}
<1> DEFINE g == SegAt(st, a)
           old == AsRecipe(g)
<1>1. old \in Recipe
  BY SegAtType, CastType
<1>2. SegSound(st, known, g)
  <2>1. a.seg \in SegIds
    BY DEF Addr
  <2> QED
    BY <2>1 DEF SegsSound, SegAt, Holder
<1> HIDE DEF g
<1>3. \A x \in Blocks : old[x] \in known \cup {NoFp}
  BY <1>2 DEF SegSound, AsRecipe, EmptyRecipe
<1> HIDE DEF old
<1> QED
  BY <1>1, <1>3 DEF Recipe, old, g

\* The recipe with the new fingerprint.
Edited(st, a, b, d) == RecipeSeg([AsRecipe(SegAt(st, a)) EXCEPT ![b] = d])

\* What the edit changes: one segment, of one of the two containers.
LEMMA EditRecipeShape ==
  ASSUME NEW st \in Stores, NEW a \in Addr, NEW b, NEW d
  PROVE  LET t == EditRecipe(st, a, b, d)
             edited == Edited(st, a, b, d)
         IN  /\ t.disk = st.disk
             /\ t.buf.id = st.buf.id /\ t.buf.hdr = st.buf.hdr /\ t.buf.off = st.buf.off
             /\ \A i \in SegIds \ {a.seg} : /\ t.buf.seg[i] = st.buf.seg[i]
                                            /\ t.cur.seg[i] = st.cur.seg[i]
             /\ a.cid = st.buf.id => t.buf.seg[a.seg] = edited /\ t.cur = st.cur
             /\ a.cid # st.buf.id => t.cur.seg[a.seg] = edited /\ t.buf = st.buf
<1> DEFINE edited == Edited(st, a, b, d)
           t == EditRecipe(st, a, b, d)
           change(c) == [c EXCEPT !.seg[a.seg] = edited]
<1>1. /\ st = [buf |-> st.buf, cur |-> st.cur, disk |-> st.disk]
      /\ st.buf \in ContainerType /\ st.cur \in ContainerType /\ a.seg \in SegIds
  BY DEF Stores, Addr
<1>2. ASSUME NEW c \in ContainerType
      PROVE  /\ change(c).id = c.id /\ change(c).hdr = c.hdr /\ change(c).off = c.off
             /\ \A i \in SegIds \ {a.seg} : change(c).seg[i] = c.seg[i]
             /\ change(c).seg[a.seg] = edited
  BY <1>1 DEF ContainerType
<1>3. EditRecipe(st, a, b, d) =
        IF a.cid = st.buf.id THEN [st EXCEPT !.buf.seg[a.seg] = edited]
                             ELSE [st EXCEPT !.cur.seg[a.seg] = edited]
  BY DEF EditRecipe, Edited
<1> HIDE DEF edited
<1>4. CASE a.cid = st.buf.id
  <2>1. t = [buf |-> change(st.buf), cur |-> st.cur, disk |-> st.disk]
    BY <1>1, <1>3, <1>4
  <2> HIDE DEF t, change
  <2>2. t.disk = st.disk /\ t.buf = change(st.buf) /\ t.cur = st.cur
    BY <2>1
  <2> QED
    BY <1>1, <1>2, <1>4, <2>2 DEF t, edited
<1>5. CASE a.cid # st.buf.id
  <2>1. t = [buf |-> st.buf, cur |-> change(st.cur), disk |-> st.disk]
    BY <1>1, <1>3, <1>5
  <2> HIDE DEF t, change
  <2>2. t.disk = st.disk /\ t.buf = st.buf /\ t.cur = change(st.cur)
    BY <2>1
  <2> QED
    BY <1>1, <1>2, <1>5, <2>2 DEF t, edited
<1> QED
  BY <1>4, <1>5

\* The edit of a recipe that was filled keeps the invariant; only the edited
\* recipe knows the new fingerprint before the namespace does.
LEMMA EditRecipeSound ==
  ASSUME NEW st \in Stores, NEW a \in Addr, NEW b \in Blocks, NEW d \in Data,
         Written(st, a), LogSeg(st, a).kind \in {"recipe", "zero"},
         NEW known, SegsSound(st, known), NEW table, DedupInv(st, table)
  PROVE  LET t == EditRecipe(st, a, b, d)
         IN  /\ DedupInv(t, table)
             /\ SegsSound(t, known \cup {d})
             /\ Keeps(st, t)
<1> DEFINE t == EditRecipe(st, a, b, d)
           rec == [AsRecipe(SegAt(st, a)) EXCEPT ![b] = d]
           edited == Edited(st, a, b, d)
<1>1. /\ t.disk = st.disk
      /\ t.buf.id = st.buf.id /\ t.buf.hdr = st.buf.hdr /\ t.buf.off = st.buf.off
      /\ \A i \in SegIds \ {a.seg} : /\ t.buf.seg[i] = st.buf.seg[i]
                                     /\ t.cur.seg[i] = st.cur.seg[i]
      /\ a.cid = st.buf.id => t.buf.seg[a.seg] = edited /\ t.cur = st.cur
      /\ a.cid # st.buf.id => t.cur.seg[a.seg] = edited /\ t.buf = st.buf
  BY EditRecipeShape
<1>2. /\ edited.kind = "recipe" /\ edited.rec = rec
      /\ \A x \in Blocks : rec[x] \in known \cup {d} \cup {NoFp}
  BY EditedRecipeSound DEF Edited, RecipeSeg
<1> HIDE DEF t, edited, rec
<1>3. \A x : Written(st, x) <=> Written(t, x)
  BY <1>1 DEF Written
<1>4. LogAddr(t) = LogAddr(st)
  BY <1>1 DEF LogAddr
<1>5. \A x : x.seg \in SegIds =>
        \/ LogSeg(t, x) = LogSeg(st, x)
        \/ x.cid = a.cid /\ x.seg = a.seg /\ LogSeg(t, x) = edited
  BY <1>1 DEF LogSeg, LogContainer, Image
<1>6. \A x : x.seg \in SegIds =>
        \/ LogSeg(t, x) = LogSeg(st, x)
        \/ LogSeg(st, x).kind \in {"recipe", "zero"} /\ LogSeg(t, x) = edited
  BY <1>5 DEF LogSeg
<1>7. Keeps(st, t)
  <2>1. \A x : Written(st, x) => x.seg \in SegIds
    BY DEF Written
  <2> QED
    BY <1>2, <1>3, <1>6, <2>1 DEF Keeps
<1>8. SegsSound(t, known \cup {d})
  <2>1. \A g : SegSound(st, known, g) => SegSound(t, known \cup {d}, g)
    BY <1>7, KeepsSound
  <2>2. SegSound(t, known \cup {d}, edited)
    BY <1>2 DEF SegSound
  <2> QED
    BY <1>1, <2>1, <2>2 DEF SegsSound
<1>9. DedupInv(t, table)
  <2>1. HeaderFits(t)
    BY <1>1 DEF DedupInv, HeaderFits
  <2>2. ASSUME NEW x \in LogAddr(t), LogSeg(t, x).kind = "data"
        PROVE  x \in LogAddr(st) /\ LogSeg(t, x) = LogSeg(st, x)
    BY <1>2, <1>4, <1>6, <2>2 DEF LogAddr
  <2>3. BlocksKnown(t, DOMAIN table)
    BY <2>2 DEF DedupInv, BlocksKnown
  <2>4. BlocksOnce(t)
    BY <2>2, Zenon DEF DedupInv, BlocksOnce
  <2>5. ASSUME NEW e, NEW x, Filed(st, e, x)
        PROVE  Filed(t, e, x)
    <3>1. PICK i \in DOMAIN LogContainer(st, x).hdr :
            LET at == [cid |-> x, seg |-> LogContainer(st, x).hdr[i].seg]
            IN  /\ LogContainer(st, x).hdr[i].fp = e
                /\ Written(st, at) /\ LogSeg(st, at) = DataSeg(e)
      BY <2>5 DEF Filed
    <3> DEFINE at == [cid |-> x, seg |-> LogContainer(st, x).hdr[i].seg]
    <3>2. LogContainer(t, x).hdr = LogContainer(st, x).hdr
      BY <1>1 DEF LogContainer, Image
    <3>3. Written(t, at)
      BY <1>3, <3>1
    <3>4. at.seg \in SegIds /\ LogSeg(st, at).kind = "data"
      BY <3>1 DEF Written, DataSeg
    <3>5. LogSeg(t, at) = DataSeg(e)
      BY <1>6, <3>1, <3>4
    <3> QED
      BY <3>1, <3>2, <3>3, <3>5 DEF Filed
  <2>6. BlocksFiled(t, table)
    BY <2>5 DEF DedupInv, BlocksFiled
  <2>7. HeadersTrue(t)
    <3>1. \A x \in 0 .. t.buf.id :
            x \in 0 .. st.buf.id /\ LogContainer(t, x).hdr = LogContainer(st, x).hdr
      BY <1>1 DEF LogContainer, Image
    <3>2. ASSUME NEW x, Written(st, x), LogSeg(st, x).kind = "data"
          PROVE  Written(t, x) /\ LogSeg(t, x) = LogSeg(st, x)
      <4>1. x.seg \in SegIds
        BY <3>2 DEF Written
      <4> QED
        BY <1>3, <1>6, <3>2, <4>1
    <3> QED
      BY <3>1, <3>2, HeadersKept DEF DedupInv
  <2> QED
    BY <2>1, <2>3, <2>4, <2>6, <2>7 DEF DedupInv
<1> QED
  BY <1>7, <1>8, <1>9 DEF t

\* Storing a block leaves cur_container alone, and clears buf_container if it
\* flushes it.
LEMMA StoreBlockMemory ==
  ASSUME NEW st \in Stores, NEW d \in Data, HeaderFits(st), st.buf.id + 1 < MaxContainer
  PROVE  LET t == StoreBlock(st, d)
         IN  /\ t.cur = st.cur
             /\ t.buf.id = st.buf.id \/ \A i \in SegIds : t.buf.seg[i] = ZeroSeg
<1> DEFINE f == AddFingerprint(st, d)
           t == AddSeg(f, DataSeg(d))
<1>1. CASE d \in DOMAIN ns
  BY <1>1 DEF StoreBlock
<1>2. CASE d \notin DOMAIN ns
  <2>1. f \in Stores /\ f.buf.id = st.buf.id /\ f.cur = st.cur
    BY AddFingerprintShape
  <2>2. StoreBlock(st, d) = t
    BY <1>2 DEF StoreBlock
  <2> HIDE DEF f
  <2>3. t.cur = f.cur /\ (t.buf.id = f.buf.id \/ t.buf = EmptyContainer(f.buf.id + 1))
    <3>1. DataSeg(d) \in Segment /\ f.buf.id + 1 < MaxContainer
      BY <2>1, SegmentType
    <3> QED
      BY <2>1, <3>1, AddSegShape
  <2> HIDE DEF t
  <2>4. \A i \in SegIds : EmptyContainer(f.buf.id + 1).seg[i] = ZeroSeg
    BY DEF EmptyContainer
  <2> QED
    BY <2>1, <2>2, <2>3, <2>4
<1> QED
  BY <1>1, <1>2

\* What lfs_write then copies is that recipe, or a cleared segment if the flush
\* of the block cleared the memory it is copied from.
LEMMA CopiedRecipe ==
  ASSUME NEW st \in Stores, NEW a \in Addr, NEW b \in Blocks, NEW d \in Data,
         Written(st, a), LogSeg(st, a).kind \in {"recipe", "zero"},
         NEW known, SegsSound(st, known), DedupInv(st, ns), st.buf.id + 1 < MaxContainer
  PROVE  LET edited == EditRecipe(st, a, b, d)
             stored == StoreBlock(edited, d)
         IN  /\ a.cid = st.buf.id => stored.buf.seg[a.seg].kind \in {"recipe", "zero"}
             /\ a.cid # st.buf.id => stored.cur.seg[a.seg].kind \in {"recipe", "zero"}
<1> DEFINE edited == EditRecipe(st, a, b, d)
           stored == StoreBlock(edited, d)
<1>1. /\ edited.buf.id = st.buf.id
      /\ a.cid = st.buf.id => edited.buf.seg[a.seg] = Edited(st, a, b, d)
      /\ a.cid # st.buf.id => edited.cur.seg[a.seg] = Edited(st, a, b, d)
  BY EditRecipeShape
<1>2. Edited(st, a, b, d).kind = "recipe"
  BY DEF Edited, RecipeSeg
<1>3. edited \in Stores /\ edited.buf.id + 1 < MaxContainer
  BY <1>1, EditRecipeGrows DEF Grows
<1>4. /\ DedupInv(edited, ns) /\ SegsSound(edited, known \cup {d})
      /\ Written(edited, a)
  BY EditRecipeSound DEF Keeps
<1> HIDE DEF edited
<1>5. Keeps(edited, stored)
  BY <1>3, <1>4, StoreBlockSound
<1>6. /\ stored.cur = edited.cur
      /\ stored.buf.id = edited.buf.id \/ \A i \in SegIds : stored.buf.seg[i] = ZeroSeg
  BY <1>3, <1>4, StoreBlockMemory DEF DedupInv
<1> HIDE DEF stored
<1>7. ASSUME a.cid = st.buf.id
      PROVE  stored.buf.seg[a.seg].kind \in {"recipe", "zero"}
  <2>1. CASE stored.buf.id = edited.buf.id
    <3>1. LogSeg(stored, a) = stored.buf.seg[a.seg] /\ LogSeg(edited, a) = edited.buf.seg[a.seg]
      BY <1>1, <1>7, <2>1 DEF LogSeg, LogContainer, Image
    <3> QED
      BY <1>1, <1>2, <1>4, <1>5, <1>7, <3>1 DEF Keeps
  <2>2. CASE \A i \in SegIds : stored.buf.seg[i] = ZeroSeg
    BY <2>2 DEF Addr, ZeroSeg
  <2> QED
    BY <1>6, <2>1, <2>2
<1> QED
  BY <1>1, <1>2, <1>6, <1>7 DEF stored, edited

-----------------------------------------------------------------------------
(* The whole invariant, of a store in the middle of a handler. *)

Sound(st, known, table, im, ino) ==
  /\ DedupInv(st, table)
  /\ SegsSound(st, known)
  /\ RecipeThere(st, ino)
  /\ SlotsSound(st, im)

\* The inode map leads to inodes as long as filled segments keep their contents.
LEMMA KeepsSlots ==
  ASSUME NEW st, NEW t, NEW im, Keeps(st, t), SlotsSound(st, im)
  PROVE  SlotsSound(t, im)
<1> SUFFICES ASSUME NEW i \in DOMAIN im, im[i].id # 0
             PROVE  Written(t, im[i].addr) /\ LogSeg(t, im[i].addr).kind = "inode"
  BY DEF SlotsSound
<1>1. Written(st, im[i].addr) /\ LogSeg(st, im[i].addr).kind = "inode"
  BY DEF SlotsSound
<1> QED
  BY <1>1 DEF Keeps

\* The address of an inode may be put in the map, and a slot cleared.
LEMMA EditedSlots ==
  ASSUME NEW st, NEW im \in [1 .. MaxInode -> Slot], SlotsSound(st, im), NEW id, NEW n
  PROVE  /\ SlotsSound(st, DropInode(im, n, id))
         /\ \A a : Written(st, a) /\ LogSeg(st, a).kind = "inode" =>
              /\ SlotsSound(st, [im EXCEPT ![n] = [id |-> id, addr |-> a]])
              /\ SlotsSound(st, MoveInode(im, id, a))
              /\ SlotsSound(st, PutInode(im, n, id, a))
<1>1. SlotsSound(st, DropInode(im, n, id))
  BY DEF SlotsSound, DropInode
<1>2. ASSUME NEW a, Written(st, a), LogSeg(st, a).kind = "inode"
      PROVE  /\ SlotsSound(st, [im EXCEPT ![n] = [id |-> id, addr |-> a]])
             /\ SlotsSound(st, MoveInode(im, id, a))
             /\ SlotsSound(st, PutInode(im, n, id, a))
  <2>1. SlotsSound(st, [im EXCEPT ![n] = [id |-> id, addr |-> a]])
    BY <1>2 DEF SlotsSound
  <2>2. SlotsSound(st, MoveInode(im, id, a))
    <3>1. CASE Slots(im, id) = {}
      BY <3>1 DEF MoveInode
    <3>2. CASE Slots(im, id) # {}
      <4> DEFINE m == Min(Slots(im, id))
      <4>1. m \in 1 .. MaxInode
        <5>1. Slots(im, id) \subseteq 1 .. MaxInode /\ 1 .. MaxInode \subseteq Nat
          BY LfsAssumption DEF Slots
        <5> QED
          BY <3>2, <5>1, MinIn
      <4>2. MoveInode(im, id, a) = [im EXCEPT ![m].addr = a]
        BY <3>2 DEF MoveInode
      <4> HIDE DEF m
      <4>3. im[m] = [id |-> im[m].id, addr |-> im[m].addr]
        BY <4>1 DEF Slot
      <4>4. /\ \A i \in 1 .. MaxInode : i # m => MoveInode(im, id, a)[i] = im[i]
            /\ MoveInode(im, id, a)[m].addr = a
            /\ DOMAIN MoveInode(im, id, a) = 1 .. MaxInode
        BY <4>1, <4>2, <4>3
      <4> QED
        BY <1>2, <4>4 DEF SlotsSound
    <3> QED
      BY <3>1, <3>2
  <2>3. SlotsSound(st, PutInode(im, n, id, a))
    BY <2>1, <2>2 DEF PutInode
  <2> QED
    BY <2>1, <2>2, <2>3
<1> QED
  BY <1>1, <1>2

\* A look-up keeps the invariant.
LEMMA LooksSound ==
  ASSUME NEW st \in Stores, NEW t, Looks(st, t)
  PROVE  /\ Keeps(st, t)
         /\ \A known : SegsSound(st, known) => SegsSound(t, known)
         /\ \A known, table, im, ino :
              Sound(st, known, table, im, ino) => Sound(t, known, table, im, ino)
<1>1. /\ \A a : Written(st, a) <=> Written(t, a)
      /\ \A x : LogContainer(t, x) = LogContainer(st, x)
      /\ \A a : LogSeg(t, a) = LogSeg(st, a)
      /\ LogAddr(t) = LogAddr(st)
      /\ HeaderFits(t) <=> HeaderFits(st)
  BY DEF Looks, Written, LogContainer, LogSeg, LogAddr, HeaderFits
<1>2. Keeps(st, t)
  BY <1>1, KeepsSame
<1>3. ASSUME NEW known, SegsSound(st, known)
      PROVE  SegsSound(t, known)
  <2>1. \A g : SegSound(st, known, g) => SegSound(t, known, g)
    BY <1>2, KeepsSound
  <2> QED
    BY <1>3, <2>1 DEF SegsSound, Looks
<1>4. ASSUME NEW table, DedupInv(st, table)
      PROVE  DedupInv(t, table)
  <2>1. BlocksFiled(t, table)
    BY <1>1, <1>4 DEF DedupInv, BlocksFiled, Filed
  <2>2. BlocksKnown(t, DOMAIN table)
    BY <1>1, <1>4 DEF DedupInv, BlocksKnown
  <2>3. BlocksOnce(t)
    BY <1>1, <1>4, Zenon DEF DedupInv, BlocksOnce
  <2>4. HeadersTrue(t)
    BY <1>1, <1>4 DEF DedupInv, HeadersTrue, Looks
  <2> QED
    BY <1>1, <1>4, <2>1, <2>2, <2>3, <2>4 DEF DedupInv
<1> QED
  BY <1>2, <1>3, <1>4, KeepsRecipe, KeepsSlots DEF Sound

\* A segment that is not a block may be appended.
LEMMA AppendSound ==
  ASSUME NEW st \in Stores, NEW s \in Segment, st.buf.id + 1 < MaxContainer, s.kind # "data",
         NEW known, NEW table, NEW im, NEW ino,
         Sound(st, known, table, im, ino), SegSound(st, known, s)
  PROVE  /\ Sound(AddSeg(st, s), known, table, im, ino)
         /\ Keeps(st, AddSeg(st, s))
<1>1. SegsSound(AddSeg(st, s), known) /\ Keeps(st, AddSeg(st, s))
  BY AppendSegsSound DEF Sound
<1>2. DedupInv(AddSeg(st, s), table)
  BY AppendDedup DEF Sound
<1> QED
  BY <1>1, <1>2, KeepsRecipe, KeepsSlots DEF Sound

\* An inode that was looked up has a recipe that has been filled.
LEMMA FoundSound ==
  ASSUME NEW st \in Stores, curInode \in Inode, imap \in [1 .. MaxInode -> Slot],
         NEW known, SegsSound(st, known), NEW name
  PROVE  RecipeThere(DirGetInode(st, name).st, DirGetInode(st, name).ino)
<1> DEFINE open == OpenCurDir(st, curInode)
           addr == AddrOf(imap, IdOf(open.dir, name))
           st1  == Cache(open.st, addr.cid)
<1>1. Looks(st, open.st) /\ open.st \in Stores /\ open.dir \in Seq(DirRecord)
  BY OpenCurDirLooks DEF Looks
<1> HIDE DEF open
<1>2. \A any : RecipeThere(any, ZeroInode)
  BY DEF RecipeThere, ZeroInode
<1>3. CASE ~HasName(open.dir, name) \/ addr = NullAddr
  BY <1>2, <1>3 DEF DirGetInode, open
<1>4. CASE HasName(open.dir, name) /\ addr # NullAddr
  <2>1. addr \in Addr
    BY <1>1, <1>4, IdOfType, ImapType
  <2>2. Looks(st, st1) /\ st1 \in Stores
    BY <1>1, CacheLooks, LooksTrans DEF Looks
  <2>3. SegsSound(st1, known)
    BY <2>2, LooksSound
  <2> HIDE DEF addr, st1
  <2>4. SegSound(st1, known, SegAt(st1, addr))
    BY <2>1, <2>3 DEF SegsSound, SegAt, Holder, Addr
  <2>5. RecipeThere(st1, AsInode(SegAt(st1, addr)))
    BY <1>2, <2>4 DEF AsInode, SegSound
  <2> QED
    BY <1>4, <2>5 DEF DirGetInode, open, addr, st1
<1> QED
  BY <1>3, <1>4

\* dir_commit_changes keeps the invariant: it appends directories and then the
\* inode, whose address it puts in the map.
LEMMA CommitDirSound ==
  ASSUME NEW st \in Stores, NEW im \in [1 .. MaxInode -> Slot], NEW n,
         NEW dir \in Seq(DirRecord), NEW ino \in Inode,
         NEW k \in {2, 3}, Len(dir) > RecPerSeg => k = 3, st.buf.id + k < MaxContainer,
         NEW known, NEW table, Sound(st, known, table, im, ino)
  PROVE  LET done == CommitDir(st, im, n, dir, ino)
         IN  /\ Sound(done.st, known, table, done.imap, done.ino)
             /\ Keeps(st, done.st)
<1> DEFINE first == SubSeq(dir, 1, Min({RecPerSeg, Len(dir)}))
           rest  == SubSeq(dir, RecPerSeg + 1, Len(dir))
           st1   == IF dir = <<>> THEN st ELSE AddSeg(st, DirSeg(first))
           st2   == IF Len(dir) <= RecPerSeg THEN st1 ELSE AddSeg(st1, DirSeg(rest))
           ino1  == [ino EXCEPT !.blk = IF dir = <<>> THEN NullAddr ELSE NextAddr(st)]
           st3   == AddSeg(st2, InodeSeg(ino1))
<1>1. CommitDir(st, im, n, dir, ino) =
        [st |-> st3, imap |-> PutInode(im, n, ino.id, NextAddr(st2)), ino |-> ino1]
  BY DEF CommitDir
<1>2. DirSeg(first) \in Segment /\ DirSeg(rest) \in Segment
  <2>1. /\ Len(dir) \in Nat /\ Len(dir) \in 0 .. Len(dir)
        /\ 1 \in Nat \ {0} /\ RecPerSeg + 1 \in Nat \ {0}
    BY RecPerSegType
  <2>2. Min({RecPerSeg, Len(dir)}) \in 0 .. Len(dir)
    BY <2>1, MinOfTwo, RecPerSegType
  <2>3. first \in Seq(DirRecord)
    BY <2>1, <2>2, PartOfDir, Zenon
  <2>4. rest \in Seq(DirRecord)
    BY <2>1, PartOfDir, Zenon
  <2> QED
    BY <2>3, <2>4, SegmentType
<1>3. \A recs, any : /\ DirSeg(recs).kind # "data"
                     /\ SegSound(any, known, DirSeg(recs))
  BY OtherSound DEF DirSeg
<1>4. st.buf.id \in Nat /\ k \in Nat
  BY DEF Stores, ContainerType, ContainerIds
<1>5. ino1 \in Inode /\ ino1.recipe = ino.recipe
  BY NullAddrType, NextAddrType DEF Inode
<1> HIDE DEF first, rest, ino1
<1>6. /\ Sound(st1, known, table, im, ino) /\ Keeps(st, st1)
      /\ st1 \in Stores /\ st1.buf.id \in st.buf.id .. st.buf.id + 1
  <2>1. CASE dir = <<>>
    BY <1>4, <2>1 DEF Keeps
  <2>2. CASE dir # <<>>
    <3>1. st.buf.id + 1 < MaxContainer
      BY <1>4, ContainerAssumption
    <3> QED
      BY <1>2, <1>3, <2>2, <3>1, AppendSound, AddSegGrows DEF Grows
  <2> QED
    BY <2>1, <2>2
<1> HIDE DEF st1
<1>7. /\ Sound(st2, known, table, im, ino) /\ Keeps(st, st2)
      /\ st2 \in Stores /\ st2.buf.id + 1 < MaxContainer
  <2>1. CASE Len(dir) <= RecPerSeg
    BY <1>4, <1>6, <2>1, ContainerAssumption
  <2>2. CASE ~(Len(dir) <= RecPerSeg)
    <3>1. k = 3
      <4>1. Len(dir) \in Nat /\ RecPerSeg \in Nat
        BY RecPerSegType
      <4> QED
        BY <2>2, <4>1
    <3>2. st1.buf.id + 1 < MaxContainer
      BY <1>4, <1>6, <3>1, ContainerAssumption
    <3> DEFINE u == AddSeg(st1, DirSeg(rest))
    <3>3. Sound(u, known, table, im, ino) /\ Keeps(st1, u)
      BY <1>2, <1>3, <1>6, <3>2, AppendSound
    <3>4. u \in Stores /\ u.buf.id \in st1.buf.id .. st1.buf.id + 1
      BY <1>2, <1>6, <3>2, AddSegGrows DEF Grows
    <3>5. st2 = u
      BY <2>2
    <3> HIDE DEF u, st2
    <3>6. u.buf.id + 1 < MaxContainer
      <4>1. st.buf.id \in Nat /\ st.buf.id + 3 < MaxContainer /\ MaxContainer \in Nat
        BY <1>4, <3>1, ContainerAssumption
      <4>2. st1.buf.id \in Nat /\ st1.buf.id <= st.buf.id + 1
        BY <1>6, <4>1
      <4>3. u.buf.id \in Nat /\ u.buf.id <= st1.buf.id + 1
        BY <3>4, <4>2
      <4>4. \A x, y, z, max \in Nat :
              x + 3 < max /\ y <= x + 1 /\ z <= y + 1 => z + 1 < max
        OBVIOUS
      <4> QED
        BY <4>1, <4>2, <4>3, <4>4, Zenon
    <3>7. Keeps(st, u)
      BY <1>6, <3>3, KeepsTrans
    <3> QED
      BY <3>3, <3>4, <3>5, <3>6, <3>7
  <2> QED
    BY <2>1, <2>2
<1> HIDE DEF st2
<1>8. /\ Sound(st3, known, table, im, ino) /\ Keeps(st2, st3)
      /\ Written(st3, NextAddr(st2)) /\ LogSeg(st3, NextAddr(st2)) = InodeSeg(ino1)
  <2>1. RecipeThere(st2, ino1)
    BY <1>5, <1>7 DEF Sound, RecipeThere
  <2>2. /\ InodeSeg(ino1) \in Segment /\ InodeSeg(ino1).kind # "data"
        /\ SegSound(st2, known, InodeSeg(ino1))
    BY <1>5, <2>1, SegmentType, OtherSound DEF InodeSeg
  <2> QED
    BY <1>7, <2>2, AppendSound, AddSegKeeps
<1> HIDE DEF st3
<1>9. SlotsSound(st3, PutInode(im, n, ino.id, NextAddr(st2)))
  <2>1. InodeSeg(ino1).kind = "inode"
    BY DEF InodeSeg
  <2> QED
    BY <1>8, <2>1, EditedSlots DEF Sound
<1>10. RecipeThere(st3, ino1)
  BY <1>5, <1>8 DEF Sound, RecipeThere
<1>11. Keeps(st, st3)
  BY <1>7, <1>8, KeepsTrans
<1> QED
  BY <1>1, <1>8, <1>9, <1>10, <1>11 DEF Sound
=============================================================================
