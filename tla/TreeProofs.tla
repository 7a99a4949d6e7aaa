----------------------------- MODULE TreeProofs -----------------------------
(***************************************************************************)
(* Theorems about directories, the current directory and the read cache,   *)
(* for every value of the constants.  They follow from one inductive       *)
(* invariant, TreeInv!FsSound, which holds as long as the kernel does not  *)
(* pass on reads of empty files: such a read asks for address 0, and       *)
(* container_read then leaves a foreign container in the cache.            *)
(***************************************************************************)
EXTENDS TreeInv, LogProofs

\* The cache once open_cur_dir has been through: the copy of lfs_init is there
\* only while container 0 is the one being filled.
Ready(st, recipes) ==
  /\ PlacesSound(st)
  /\ (Untouched(st) /\ st.buf.id = 0) \/ Copy(st, recipes)

\* What container_add_seg and container_header_add_fingerprint do to a store:
\* the cache stays, and so does all that was filled.
Appended(st, t) ==
  /\ t \in Stores /\ t.cur = st.cur /\ st.buf.id <= t.buf.id
  /\ \A x \in ContainerIds : x < st.buf.id => t.disk[x] = st.disk[x]
  /\ PlacesSound(st) => PlacesSound(t)
  /\ \A a : Written(st, a) => Written(t, a) /\ LogSeg(t, a) = LogSeg(st, a)

-----------------------------------------------------------------------------
(* Appending. *)

\* The id of the container being filled is a natural number and the id of a
\* container of the log file.
LEMMA BufId ==
  ASSUME NEW st \in Stores
  PROVE  /\ st.buf.id \in ContainerIds /\ st.buf.id \in Nat
         /\ \A x \in ContainerIds : x \in Nat
  BY ContainerAssumption DEF Stores, ContainerType, ContainerIds

\* Appending twice is appending.
LEMMA AppendedTrans ==
  ASSUME NEW st \in Stores, NEW t, NEW u, Appended(st, t), Appended(t, u)
  PROVE  Appended(st, u)
<1>1. t \in Stores /\ u \in Stores
  BY DEF Appended
<1>2. /\ st.buf.id \in Nat /\ t.buf.id \in Nat /\ u.buf.id \in Nat
      /\ \A x \in ContainerIds : x \in Nat
  BY <1>1, BufId
<1> QED
  BY <1>1, <1>2 DEF Appended

\* Appending nothing.
LEMMA AppendedNone ==
  ASSUME NEW st \in Stores
  PROVE  Appended(st, st)
  BY BufId DEF Appended

\* container_add_seg appends; the address it fills was not filled before.
LEMMA AddSegAppends ==
  ASSUME NEW st \in Stores, NEW s \in Segment, st.buf.id + 1 < MaxContainer
  PROVE  LET t == AddSeg(st, s)
         IN  /\ Appended(st, t)
             /\ Written(t, NextAddr(st)) /\ LogSeg(t, NextAddr(st)) = s
<1> DEFINE t == AddSeg(st, s)
<1>1. /\ t \in Stores /\ t.buf.id \in st.buf.id .. st.buf.id + 1
      /\ \A x \in ContainerIds : x < st.buf.id => t.disk[x] = st.disk[x]
  BY AddSegGrows DEF Grows
<1>2. t.cur = st.cur
  BY AddSegShape
<1>3. /\ \A a : Written(st, a) => Written(t, a) /\ LogSeg(t, a) = LogSeg(st, a)
      /\ Written(t, NextAddr(st)) /\ LogSeg(t, NextAddr(st)) = s
  BY AddSegKeeps
<1>4. t.buf.id # st.buf.id => t.disk[st.buf.id].id = st.buf.id
  <2> DEFINE full == [st.buf EXCEPT !.seg[st.buf.off] = s, !.off = @ + 1]
  <2>1. /\ st.buf \in ContainerType /\ full.id = st.buf.id
        /\ st = [buf |-> st.buf, cur |-> st.cur, disk |-> st.disk]
        /\ st.disk \in [ContainerIds -> ImageType]
    BY DEF Stores, ContainerType
  <2>2. \/ t = st \/ t = [st EXCEPT !.buf = full]
        \/ t = [st EXCEPT !.disk = ContainerWrite(@, full), !.buf = EmptyContainer(full.id + 1)]
    BY Zenon DEF AddSeg
  <2>3. ContainerWrite(st.disk, full)[st.buf.id].id = st.buf.id
    BY <2>1, BufId DEF ContainerWrite, Image
  <2> HIDE DEF t, full
  <2> QED
    BY <2>1, <2>2, <2>3
<1> HIDE DEF t
<1>5. PlacesSound(st) => PlacesSound(t)
  <2> SUFFICES ASSUME PlacesSound(st), NEW c \in ContainerIds, c < t.buf.id
               PROVE  t.disk[c].id = c
    BY DEF PlacesSound
  <2>1. CASE c < st.buf.id
    BY <1>1, <2>1 DEF PlacesSound
  <2>2. CASE ~(c < st.buf.id)
    BY <1>1, <1>4, <2>2, BufId
  <2> QED
    BY <2>1, <2>2
<1> QED
  BY <1>1, <1>2, <1>3, <1>5, BufId DEF Appended, t

\* The address that container_add_seg fills next has not been filled, and is
\* not address 0.
LEMMA NextAddrNew ==
  ASSUME NEW st \in Stores
  PROVE  ~Written(st, NextAddr(st)) /\ NextAddr(st) # NullAddr
  BY BufId, ContainerAssumption
  DEF Written, NextAddr, NullAddr, Stores, ContainerType, ContainerIds

\* So is no filled address.
LEMMA WrittenNotNull ==
  ASSUME NEW st \in Stores
  PROVE  ~Written(st, NullAddr)
  BY ContainerAssumption DEF Written, NullAddr, ContainerIds

\* lfs_write stores a block by appending, or not at all.
LEMMA StoreBlockAppends ==
  ASSUME NEW st \in Stores, NEW d \in Data, HeaderFits(st), st.buf.id + 1 < MaxContainer
  PROVE  Appended(st, StoreBlock(st, d))
<1>1. CASE d \in DOMAIN ns
  BY <1>1, AppendedNone DEF StoreBlock
<1>2. CASE d \notin DOMAIN ns
  <2> DEFINE f == AddFingerprint(st, d)
  <2>1. /\ f \in Stores /\ f.buf.id = st.buf.id
        /\ f.cur = st.cur /\ f.disk = st.disk
    BY AddFingerprintShape
  <2>2. \A a : /\ Written(st, a) <=> Written(f, a)
               /\ LogSeg(f, a) = LogSeg(st, a)
    BY FingerprintKeeps
  <2> HIDE DEF f
  <2>3. Appended(st, f)
    BY <2>1, <2>2, BufId DEF Appended, PlacesSound
  <2>4. Appended(f, AddSeg(f, DataSeg(d)))
    BY <2>1, SegmentType, AddSegAppends
  <2> QED
    BY <1>2, <2>3, <2>4, AppendedTrans DEF StoreBlock, f
<1> QED
  BY <1>1, <1>2

\* What dir_commit_changes does: it appends the records and then the inode that
\* points to them; if there are more records than a segment takes, they are in
\* two, and the inode points to the first.
Committed(st, im, n, dir, ino, done) ==
  /\ Appended(st, done.st)
  /\ done.ino = [ino EXCEPT !.blk = NextAddr(st)]
  /\ Written(done.st, NextAddr(st))
  /\ LogSeg(done.st, NextAddr(st)) = DirSeg(SubSeq(dir, 1, Min({RecPerSeg, Len(dir)})))
  /\ \E a \in Addr : /\ done.imap = PutInode(im, n, ino.id, a)
                     /\ Written(done.st, a) /\ LogSeg(done.st, a) = InodeSeg(done.ino)

LEMMA CommitDirShape ==
  ASSUME NEW st \in Stores, NEW im, NEW n,
         NEW dir \in Seq(DirRecord), dir # <<>>, NEW ino \in Inode,
         st.buf.id + 2 < MaxContainer, Len(dir) > RecPerSeg => st.buf.id + 3 < MaxContainer
  PROVE  Committed(st, im, n, dir, ino, CommitDir(st, im, n, dir, ino))
<1> DEFINE first == SubSeq(dir, 1, Min({RecPerSeg, Len(dir)}))
           rest  == SubSeq(dir, RecPerSeg + 1, Len(dir))
           st1   == AddSeg(st, DirSeg(first))
           st2   == IF Len(dir) <= RecPerSeg THEN st1 ELSE AddSeg(st1, DirSeg(rest))
           ino1  == [ino EXCEPT !.blk = NextAddr(st)]
           st3   == AddSeg(st2, InodeSeg(ino1))
<1>1. CommitDir(st, im, n, dir, ino) =
        [st |-> st3, imap |-> PutInode(im, n, ino.id, NextAddr(st2)), ino |-> ino1]
  BY DEF CommitDir
<1>2. DirSeg(first) \in Segment /\ DirSeg(rest) \in Segment
  <2>1. /\ Len(dir) \in Nat /\ Len(dir) \in 0 .. Len(dir)
        /\ 1 \in Nat \ {0} /\ RecPerSeg + 1 \in Nat \ {0}
    BY RecPerSegType
  <2>2. Min({RecPerSeg, Len(dir)}) \in 0 .. Len(dir)
    BY <2>1, MinOfTwo, RecPerSegType
  <2>3. first \in Seq(DirRecord)
    BY <2>1, <2>2, PartOfDir, Zenon
  <2>4. rest \in Seq(DirRecord)
    BY <2>1, PartOfDir, Zenon
  <2> QED
    BY <2>3, <2>4, SegmentType
<1>3. ino1 \in Inode
  BY NextAddrType DEF Inode
<1> HIDE DEF first, rest, ino1
<1>4. /\ st.buf.id \in Nat /\ st.buf.id + 1 < MaxContainer
      /\ st.buf.id + 2 < MaxContainer
  BY BufId, ContainerAssumption
<1>5. /\ Appended(st, st1) /\ st1.buf.id \in st.buf.id .. st.buf.id + 1
      /\ Written(st1, NextAddr(st)) /\ LogSeg(st1, NextAddr(st)) = DirSeg(first)
  BY <1>2, <1>4, AddSegAppends, AddSegGrows DEF Grows
<1> HIDE DEF st1
<1>6. st1 \in Stores
  BY <1>5 DEF Appended
<1>7. Appended(st1, st2) /\ st2.buf.id + 1 < MaxContainer
  <2>1. CASE Len(dir) <= RecPerSeg
    BY <1>4, <1>5, <1>6, <2>1, AppendedNone, ContainerAssumption
  <2>2. CASE ~(Len(dir) <= RecPerSeg)
    <3>1. st.buf.id + 3 < MaxContainer
      <4>1. Len(dir) \in Nat /\ RecPerSeg \in Nat
        BY RecPerSegType
      <4> QED
        BY <2>2, <4>1
    <3>2. st1.buf.id + 1 < MaxContainer
      BY <1>4, <1>5, ContainerAssumption
    <3> DEFINE u == AddSeg(st1, DirSeg(rest))
    <3>3. Appended(st1, u) /\ u.buf.id \in st1.buf.id .. st1.buf.id + 1
      BY <1>2, <1>6, <3>2, AddSegAppends, AddSegGrows DEF Grows
    <3>4. st2 = u
      BY <2>2
    <3> HIDE DEF u, st2
    <3>5. st1.buf.id \in Int /\ u.buf.id \in Int
      BY <1>4, <1>5, <3>3
    <3>6. st.buf.id + 3 < MaxContainer /\ MaxContainer \in Int /\ st.buf.id \in Int
      BY <1>4, <3>1, ContainerAssumption
    <3>7. st1.buf.id <= st.buf.id + 1 /\ u.buf.id <= st1.buf.id + 1
      BY <1>5, <3>3, <3>5, <3>6
    <3>8. u.buf.id + 1 < MaxContainer
      <4>1. \A x, y, z, max \in Int : x + 3 < max /\ y <= x + 1 /\ z <= y + 1 => z + 1 < max
        OBVIOUS
      <4> QED
        BY <3>5, <3>6, <3>7, <4>1, Zenon
    <3> QED
      BY <3>3, <3>4, <3>8
  <2> QED
    BY <2>1, <2>2
<1> HIDE DEF st2
<1>8. st2 \in Stores
  BY <1>7 DEF Appended
<1>9. /\ Appended(st2, st3)
      /\ Written(st3, NextAddr(st2)) /\ LogSeg(st3, NextAddr(st2)) = InodeSeg(ino1)
  BY <1>3, <1>7, <1>8, SegmentType, AddSegAppends
<1> HIDE DEF st3
<1>10. Appended(st, st3) /\ Appended(st1, st3)
  BY <1>5, <1>6, <1>7, <1>8, <1>9, AppendedTrans
<1>11. Written(st3, NextAddr(st)) /\ LogSeg(st3, NextAddr(st)) = DirSeg(first)
  BY <1>5, <1>10 DEF Appended
<1>12. NextAddr(st2) \in Addr
  BY <1>8, NextAddrType
<1> QED
  BY <1>1, <1>9, <1>10, <1>11, <1>12 DEF ino1, first, Committed

-----------------------------------------------------------------------------
(* The read cache. *)

\* open_cur_dir finds the current directory as the log has it, and replaces the
\* copy that lfs_init left.
LEMMA OpensRight ==
  ASSUME NEW st \in Stores, NEW recipes, NEW blk, CacheSound(st, recipes, blk),
         Written(st, blk), LogSeg(st, blk).kind = "dir"
  PROVE  LET t == CacheForDir(st, blk.cid)
         IN  Ready(t, recipes) /\ SegAt(t, blk) = LogSeg(st, blk)
<1> DEFINE t == CacheForDir(st, blk.cid)
<1>1. /\ blk.cid \in 0 .. st.buf.id /\ blk.cid \in ContainerIds /\ blk.seg \in SegIds
      /\ st.buf.id \in Nat /\ \A x \in ContainerIds : x \in Nat
  BY WrittenPlaces, BufId
<1>2. PlacesSound(st) /\ ((Untouched(st) /\ blk.cid = 0) \/ Copy(st, recipes))
  BY DEF CacheSound
<1>3. CASE blk.cid = st.buf.id
  <2>1. t = st /\ SegAt(st, blk) = LogSeg(st, blk)
    BY <1>3 DEF CacheForDir, SegAt, Holder, LogSeg, LogContainer, Image
  <2> QED
    BY <1>2, <1>3, <2>1 DEF Ready
<1>4. CASE /\ blk.cid # st.buf.id
           /\ blk.cid = st.cur.id /\ (st.cur.id = 0 => st.cur.off = SegNum)
  <2>1. t = st /\ Copy(st, recipes)
    BY <1>2, <1>4 DEF CacheForDir, Untouched
  <2>2. SegAt(st, blk) = st.cur.seg[blk.seg] /\ LogSeg(st, blk) = st.disk[st.cur.id].seg[blk.seg]
    BY <1>4 DEF SegAt, Holder, LogSeg, LogContainer
  <2>3. st.cur.seg[blk.seg] = st.disk[st.cur.id].seg[blk.seg]
    BY <1>1, <2>1, <2>2 DEF Copy
  <2> QED
    BY <1>2, <2>1, <2>2, <2>3 DEF Ready
<1>5. CASE /\ blk.cid # st.buf.id
           /\ ~(blk.cid = st.cur.id /\ (st.cur.id = 0 => st.cur.off = SegNum))
  <2>1. t = ContainerRead(st, blk.cid)
    BY <1>5 DEF CacheForDir
  <2>2. /\ t.buf = st.buf /\ t.disk = st.disk
        /\ t.cur.id = st.disk[blk.cid].id /\ t.cur.hdr = st.disk[blk.cid].hdr
        /\ t.cur.seg = st.disk[blk.cid].seg /\ t.cur.off = SegNum
    BY <1>1, <2>1 DEF ContainerRead, Stores
  <2> HIDE DEF t
  <2>3. blk.cid < st.buf.id /\ st.disk[blk.cid].id = blk.cid
    <3>1. \A x, y \in Nat : x \in 0 .. y /\ x # y => x < y
      OBVIOUS
    <3>2. blk.cid < st.buf.id
      BY <1>1, <1>5, <3>1, Zenon
    <3> QED
      BY <1>1, <1>2, <3>2, Zenon DEF PlacesSound
  <2>4. Copy(t, recipes) /\ PlacesSound(t)
    <3>1. /\ t.cur.off = SegNum /\ t.cur.id < t.buf.id
          /\ t.cur.hdr = t.disk[t.cur.id].hdr /\ t.cur.seg = t.disk[t.cur.id].seg
      BY <2>2, <2>3, Zenon
    <3>2. PlacesSound(t)
      BY <1>2, <2>2, Zenon DEF PlacesSound
    <3> QED
      BY <3>1, <3>2, Zenon DEF Copy
  <2>5. SegAt(t, blk) = LogSeg(st, blk)
    BY <1>5, <2>2 DEF SegAt, Holder, LogSeg, LogContainer
  <2> QED
    BY <2>4, <2>5 DEF Ready, t
<1> QED
  BY <1>3, <1>4, <1>5

\* From then on the cache can be trusted, and stays so: any container of the log
\* can be brought into memory, and there it is what the log has, but for recipes
\* that are of no file any more.
LEMMA CacheReady ==
  ASSUME NEW st \in Stores, NEW recipes, Ready(st, recipes),
         NEW cid \in ContainerIds, cid <= st.buf.id
  PROVE  LET t == Cache(st, cid)
         IN  /\ Ready(t, recipes)
             /\ cid # st.buf.id => t.cur.id = cid /\ Copy(t, recipes)
             /\ \A a \in Addr : Written(st, a) /\ a.cid = cid
                       /\ (LogSeg(st, a).kind \in {"recipe", "zero"} => a \in recipes)
                       => SegAt(t, a) = LogSeg(st, a)
<1> DEFINE t == Cache(st, cid)
<1>1. /\ st.buf.id \in Nat /\ \A x \in ContainerIds : x \in Nat
      /\ \A a : Written(st, a) => a.seg \in SegIds
  BY BufId DEF Written
<1>2. CASE cid = st.buf.id
  <2>1. t = st
    BY <1>2 DEF Cache
  <2>2. \A a : a.cid = cid => SegAt(st, a) = LogSeg(st, a)
    BY <1>2 DEF SegAt, Holder, LogSeg, LogContainer, Image
  <2> QED
    BY <1>2, <2>1, <2>2
<1>3. CASE cid # st.buf.id /\ cid = st.cur.id
  <2>1. t = st
    BY <1>3 DEF Cache
  <2>2. Copy(st, recipes)
    BY <1>1, <1>3 DEF Ready, Untouched
  <2>3. ASSUME NEW a \in Addr, Written(st, a), a.cid = cid,
               LogSeg(st, a).kind \in {"recipe", "zero"} => a \in recipes
        PROVE  SegAt(st, a) = LogSeg(st, a)
    <3>1. SegAt(st, a) = st.cur.seg[a.seg] /\ LogSeg(st, a) = st.disk[st.cur.id].seg[a.seg]
      BY <1>3, <2>3 DEF SegAt, Holder, LogSeg, LogContainer
    <3>2. \/ st.cur.seg[a.seg] = st.disk[st.cur.id].seg[a.seg]
          \/ /\ st.disk[st.cur.id].seg[a.seg].kind \in {"recipe", "zero"}
             /\ [cid |-> st.cur.id, seg |-> a.seg] \notin recipes
      BY <1>1, <2>2, <2>3 DEF Copy
    <3>3. a = [cid |-> a.cid, seg |-> a.seg]
      BY DEF Addr
    <3> QED
      BY <1>3, <2>3, <3>1, <3>2, <3>3
  <2> QED
    BY <1>3, <2>1, <2>2, <2>3
<1>4. CASE cid # st.buf.id /\ cid # st.cur.id
  <2>1. t = ContainerRead(st, cid)
    BY <1>4 DEF Cache
  <2>2. /\ t.buf = st.buf /\ t.disk = st.disk
        /\ t.cur.id = st.disk[cid].id /\ t.cur.hdr = st.disk[cid].hdr
        /\ t.cur.seg = st.disk[cid].seg /\ t.cur.off = SegNum
    BY <2>1 DEF ContainerRead, Stores
  <2> HIDE DEF t
  <2>3. cid < st.buf.id /\ st.disk[cid].id = cid
    <3>1. \A x, y \in Nat : x <= y /\ x # y => x < y
      OBVIOUS
    <3>2. cid < st.buf.id
      BY <1>1, <1>4, <3>1, Zenon
    <3> QED
      BY <3>2, Zenon DEF Ready, PlacesSound
  <2>4. Copy(t, recipes) /\ PlacesSound(t) /\ t.cur.id = cid
    <3>1. /\ t.cur.off = SegNum /\ t.cur.id < t.buf.id /\ t.cur.id = cid
          /\ t.cur.hdr = t.disk[t.cur.id].hdr /\ t.cur.seg = t.disk[t.cur.id].seg
      BY <2>2, <2>3, Zenon
    <3>2. PlacesSound(t)
      BY <2>2, Zenon DEF Ready, PlacesSound
    <3> QED
      BY <3>1, <3>2, Zenon DEF Copy
  <2>5. \A a : a.cid = cid => SegAt(t, a) = LogSeg(st, a)
    BY <1>4, <2>2 DEF SegAt, Holder, LogSeg, LogContainer
  <2> QED
    BY <2>4, <2>5 DEF Ready, t
<1> QED
  BY <1>2, <1>3, <1>4

\* Between operations the cache is trusted only if the current directory is
\* where lfs_init left it, or the copy is gone.
LEMMA ReadySound ==
  ASSUME NEW st \in Stores, NEW recipes, Ready(st, recipes), NEW blk, Written(st, blk)
  PROVE  CacheSound(st, recipes, blk)
<1>1. blk.cid \in 0 .. st.buf.id /\ st.buf.id \in Nat
  BY WrittenPlaces, BufId
<1> QED
  BY <1>1 DEF Ready, CacheSound

\* Appending keeps the cache sound: recipes in containers that were flushed
\* before are the ones that were there.
LEMMA AppendedReady ==
  ASSUME NEW st \in Stores, NEW t, Appended(st, t), NEW recipes, Ready(st, recipes),
         NEW more, \A a \in more : a.cid < st.buf.id => a \in recipes,
         NEW blk, blk.cid <= st.buf.id, blk.cid \in Nat
  PROVE  CacheSound(t, more, blk)
<1>1. /\ st.buf.id \in Nat /\ t.buf.id \in Nat /\ t.cur = st.cur /\ st.cur.id \in ContainerIds
      /\ st.buf.id <= t.buf.id /\ PlacesSound(t)
      /\ \A x \in ContainerIds : x \in Nat /\ (x < st.buf.id => t.disk[x] = st.disk[x])
  BY BufId DEF Appended, Ready, Stores, ContainerType
<1>2. CASE Untouched(st) /\ st.buf.id = 0
  BY <1>1, <1>2 DEF CacheSound, Untouched
<1>3. CASE Copy(st, recipes)
  <2>1. /\ st.cur.id < st.buf.id /\ st.cur.id < t.buf.id
        /\ t.disk[st.cur.id] = st.disk[st.cur.id]
    BY <1>1, <1>3 DEF Copy
  <2>2. \A s : [cid |-> st.cur.id, seg |-> s] \notin recipes =>
                  [cid |-> st.cur.id, seg |-> s] \notin more
    BY <2>1
  <2>3. t.cur.off = SegNum /\ t.cur.hdr = t.disk[t.cur.id].hdr
    BY <1>1, <1>3, <2>1 DEF Copy
  <2>4. ASSUME NEW s \in SegIds
        PROVE  \/ t.cur.seg[s] = t.disk[t.cur.id].seg[s]
               \/ /\ t.cur.seg[s].kind = "recipe"
                  /\ t.disk[t.cur.id].seg[s].kind \in {"recipe", "zero"}
                  /\ [cid |-> t.cur.id, seg |-> s] \notin more
    <3>1. \/ st.cur.seg[s] = st.disk[st.cur.id].seg[s]
          \/ /\ st.cur.seg[s].kind = "recipe"
             /\ st.disk[st.cur.id].seg[s].kind \in {"recipe", "zero"}
             /\ [cid |-> st.cur.id, seg |-> s] \notin recipes
      BY <1>3, Zenon DEF Copy
    <3> QED
      BY <1>1, <2>1, <2>2, <3>1
  <2>5. Copy(t, more)
    BY <1>1, <2>1, <2>3, <2>4 DEF Copy
  <2> QED
    BY <1>1, <2>5 DEF CacheSound
<1> QED
  BY <1>2, <1>3 DEF Ready

-----------------------------------------------------------------------------
(* Records of a directory. *)

IdsIn(recs) == {recs[k].id : k \in Places(recs)} \ {0}

\* What the operations leave of a directory: ".." and ".", and after them holes
\* and records of ids, none of them twice.
Derived(recs, r, ids) ==
  /\ Len(r) >= 2 /\ r[1] = recs[1] /\ r[2] = recs[2]
  /\ \A k \in Places(r) : r[k] = Hole \/ (r[k].name \in Names /\ r[k].id \in ids)
  /\ \A k, l \in Places(r) : r[k].id = r[l].id /\ r[k].id # 0 => k = l

WellFormed(recs) ==
  /\ recs \in Seq(DirRecord) /\ Len(recs) >= 2
  /\ recs[1].name = ".." /\ recs[2].name = "."
  /\ Derived(recs, recs, IdsIn(recs))

\* ".", ".." and "" are not file names.
LEMMA NotNames == ".." \notin Names /\ "." \notin Names /\ "" \notin Names
  BY DirectoryAssumption, Zenon

\* A zeroed record has neither a name nor an inode.
LEMMA HoleIs == Hole.name = "" /\ Hole.id = 0
  BY DEF Hole

\* Max returns the largest element of a non-empty set of numbers up to n.
LEMMA MaxIn ==
  ASSUME NEW n \in Nat, NEW T, T \subseteq 0 .. n, T # {}
  PROVE  Max(T) \in T /\ \A y \in T : y <= Max(T)
<1> DEFINE U == {n - x : x \in T}
<1>1. U \subseteq Nat /\ U # {}
  <2>1. \A x \in T : n - x \in Nat
    OBVIOUS
  <2> QED
    BY <2>1
<1>2. PICK u \in U : \A v \in U : u <= v
  BY <1>1, NatMin, Zenon
<1>3. PICK x \in T : u = n - x
  BY <1>2
<1>4. \A y \in T : n - y \in U
  OBVIOUS
<1>5. \A y \in T : x >= y
  BY <1>2, <1>3, <1>4
<1>6. Max(T) \in T /\ \A y \in T : Max(T) >= y
  BY <1>5, Zenon DEF Max
<1> QED
  BY <1>6

\* open_cur_dir takes a part of the records from the front, with ".." and ".".
LEMMA OpenedPart ==
  ASSUME NEW recs, WellFormed(recs)
  PROVE  LET dir == OpenRecords(recs)
         IN  /\ dir \in Seq(DirRecord) /\ Len(dir) \in 2 .. Len(recs)
             /\ \A k \in 1 .. Len(dir) : dir[k] = recs[k]
             /\ Derived(recs, dir, IdsIn(recs))
<1> DEFINE named == {i \in DOMAIN recs : recs[i].name # ""}
           dir   == OpenRecords(recs)
<1>1. recs \in Seq(DirRecord) /\ Len(recs) \in Nat /\ Len(recs) >= 2 /\ DOMAIN recs = 1 .. Len(recs)
  BY DEF WellFormed
<1>2. Cardinality(named) \in 2 .. Len(recs)
  <2>1. named \subseteq 1 .. Len(recs)
    BY <1>1
  <2>2. 1 .. 2 \subseteq named
    <3>1. recs[1].name # "" /\ recs[2].name # ""
      BY DEF WellFormed
    <3>2. \A i \in 1 .. 2 : (i = 1 \/ i = 2) /\ i \in DOMAIN recs
      BY <1>1
    <3> QED
      BY <3>1, <3>2, Zenon
  <2> HIDE DEF named
  <2>3. Cardinality(named) \in 0 .. Len(recs)
    BY <1>1, <2>1, CardOfPart
  <2>4. IsFiniteSet(named)
    <3>1. IsFiniteSet(1 .. Len(recs))
      BY <1>1, FS_Interval
    <3> QED
      BY <2>1, <3>1, FS_Subset, Zenon
  <2>5. Cardinality(1 .. 2) <= Cardinality(named)
    BY <2>2, <2>4, FS_Subset, Zenon
  <2>6. Cardinality(1 .. 2) = 2
    <3>1. \A m \in Nat : Cardinality(1 .. m) = m
      BY FS_Interval
    <3> QED
      BY <3>1, 2 \in Nat, Zenon
  <2> QED
    BY <2>3, <2>5, <2>6
<1>3. dir = SubSeq(recs, 1, Cardinality(named))
  BY DEF OpenRecords
<1> HIDE DEF named, dir
<1>4. dir \in Seq(DirRecord)
  BY <1>1, <1>2, <1>3, PartOfDir
<1>5. Len(dir) = Cardinality(named) /\ \A k \in 1 .. Len(dir) : dir[k] = recs[k]
  BY <1>1, <1>2, <1>3
<1>6. Derived(recs, dir, IdsIn(recs))
  <2>1. \A k \in Places(dir) : k \in Places(recs) /\ dir[k] = recs[k]
    BY <1>1, <1>2, <1>5 DEF Places
  <2>2. dir[1] = recs[1] /\ dir[2] = recs[2] /\ Len(dir) >= 2
    BY <1>2, <1>5
  <2> QED
    BY <2>1, <2>2 DEF WellFormed, Derived
<1> QED
  BY <1>2, <1>4, <1>5, <1>6 DEF dir

\* So does dir_commit_changes of what goes into the first segment.
LEMMA PartDerived ==
  ASSUME NEW recs, NEW ids, NEW r \in Seq(DirRecord), Derived(recs, r, ids)
  PROVE  LET first == SubSeq(r, 1, Min({RecPerSeg, Len(r)}))
         IN  first \in Seq(DirRecord) /\ Derived(recs, first, ids)
<1> DEFINE m == Min({RecPerSeg, Len(r)})
           first == SubSeq(r, 1, m)
<1>1. Len(r) \in Nat /\ Len(r) >= 2
  BY DEF Derived
<1>2. m \in 2 .. Len(r)
  <2>1. m = IF RecPerSeg <= Len(r) THEN RecPerSeg ELSE Len(r)
    BY <1>1, RecPerSegType DEF Min
  <2> QED
    BY <1>1, <2>1, RecPerSegType
<1> HIDE DEF m
<1>3. first \in Seq(DirRecord)
  BY <1>1, <1>2, PartOfDir
<1>4. Len(first) = m /\ \A k \in 1 .. m : first[k] = r[k]
  BY <1>1, <1>2
<1> HIDE DEF first
<1>5. \A k \in Places(first) : k \in Places(r) /\ first[k] = r[k]
  BY <1>1, <1>2, <1>4 DEF Places
<1>6. first[1] = r[1] /\ first[2] = r[2] /\ Len(first) >= 2
  BY <1>2, <1>4
<1>7. Derived(recs, first, ids)
  BY <1>5, <1>6 DEF Derived
<1> QED
  BY <1>3, <1>7 DEF first, m

\* A file name is found among the places after ".." and ".", in a record that is
\* no hole.
LEMMA NamedPlace ==
  ASSUME NEW recs, WellFormed(recs), NEW dir \in Seq(DirRecord),
         Derived(recs, dir, IdsIn(recs)), NEW name \in Names, HasName(dir, name)
  PROVE  LET k == Min(Matches(dir, name))
         IN  /\ k \in Places(dir) /\ dir[k].name = name /\ dir[k].id = IdOf(dir, name)
             /\ IdOf(dir, name) \in IdsIn(recs)
             /\ Matches(dir, name) \subseteq Places(dir)
<1> DEFINE k == Min(Matches(dir, name))
<1>1. Matches(dir, name) \subseteq Nat /\ Matches(dir, name) # {}
  BY DEF Matches, HasName
<1>2. k \in Matches(dir, name)
  BY <1>1, MinIn
<1> HIDE DEF k
<1>3. Matches(dir, name) \subseteq Places(dir)
  <2> SUFFICES ASSUME NEW i \in Matches(dir, name) PROVE i \in Places(dir)
    OBVIOUS
  <2>1. i \in 1 .. Len(dir) /\ dir[i].name = name /\ Len(dir) \in Nat
    BY DEF Matches
  <2>2. i # 1 /\ i # 2
    BY <2>1, NotNames DEF WellFormed, Derived
  <2> QED
    BY <2>1, <2>2 DEF Places
<1>4. dir[k].name = name /\ dir[k].id = IdOf(dir, name)
  BY <1>2 DEF Matches, IdOf, k
<1>5. dir[k] # Hole
  BY <1>4, HoleIs, NotNames
<1> QED
  BY <1>2, <1>3, <1>4, <1>5 DEF Derived, k

\* dir_add_entry.
LEMMA AddDerived ==
  ASSUME NEW recs, WellFormed(recs), NEW name \in Names, NEW n \in InodeIds, n # 0,
         n \notin IdsIn(recs)
  PROVE  Derived(recs, AddEntry(OpenRecords(recs), name, n), IdsIn(recs) \cup {n})
<1> DEFINE dir == OpenRecords(recs)
           r   == Append(dir, [name |-> name, id |-> n])
<1>1. /\ dir \in Seq(DirRecord) /\ Len(dir) \in Nat /\ Len(dir) >= 2
      /\ Derived(recs, dir, IdsIn(recs))
  BY OpenedPart DEF WellFormed
<1> HIDE DEF dir
<1>2. CASE HasName(dir, name)
  BY <1>1, <1>2 DEF AddEntry, Derived, dir
<1>3. CASE ~HasName(dir, name)
  <2>1. /\ Len(r) = Len(dir) + 1 /\ r[Len(dir) + 1] = [name |-> name, id |-> n]
        /\ \A k \in 1 .. Len(dir) : r[k] = dir[k]
    BY <1>1
  <2>2. AddEntry(dir, name, n) = r
    BY <1>3 DEF AddEntry
  <2> HIDE DEF r
  <2>3. ASSUME NEW k \in Places(r)
        PROVE  \/ k \in Places(dir) /\ r[k] = dir[k]
               \/ k = Len(dir) + 1 /\ r[k] = [name |-> name, id |-> n]
    BY <1>1, <2>1 DEF Places
  <2>4. \A k \in Places(dir) : dir[k].id # n
    <3>1. \A k \in Places(dir) : dir[k].id \in IdsIn(recs) \cup {0}
      BY <1>1, HoleIs DEF Derived
    <3> QED
      BY <3>1
  <2>5. r[1] = dir[1] /\ r[2] = dir[2] /\ Len(r) >= 2
    BY <1>1, <2>1
  <2>6. \A k \in Places(r) : r[k] = Hole \/ (r[k].name \in Names /\ r[k].id \in IdsIn(recs) \cup {n})
    BY <1>1, <2>3 DEF Derived
  <2>7. \A k, l \in Places(r) : r[k].id = r[l].id /\ r[k].id # 0 => k = l
    BY <1>1, <2>3, <2>4 DEF Derived
  <2> QED
    BY <1>1, <2>2, <2>5, <2>6, <2>7 DEF Derived, dir
<1> QED
  BY <1>2, <1>3

\* dir_change_entry.
LEMMA ChangeDerived ==
  ASSUME NEW recs, WellFormed(recs), NEW old \in Names, NEW new \in Names,
         HasName(OpenRecords(recs), old)
  PROVE  Derived(recs, ChangeEntry(OpenRecords(recs), old, new), IdsIn(recs))
<1> DEFINE dir == OpenRecords(recs)
           k   == Min(Matches(dir, old))
           r   == [dir EXCEPT ![k].name = new]
<1>1. /\ dir \in Seq(DirRecord) /\ Len(dir) \in Nat /\ Len(dir) >= 2
      /\ Derived(recs, dir, IdsIn(recs))
  BY OpenedPart DEF WellFormed
<1> HIDE DEF dir
<1>2. k \in Places(dir) /\ dir[k].id \in IdsIn(recs)
  BY <1>1, NamedPlace DEF dir
<1>3. ChangeEntry(dir, old, new) = r
  BY DEF ChangeEntry
<1> HIDE DEF k
<1>4. /\ k \in 1 .. Len(dir) /\ k # 1 /\ k # 2
      /\ dir[k] = [name |-> dir[k].name, id |-> dir[k].id]
  <2>1. k \in 1 .. Len(dir) /\ k # 1 /\ k # 2
    BY <1>1, <1>2 DEF Places
  <2>2. dir[k] \in DirRecord
    BY <1>1, <2>1
  <2> QED
    BY <2>1, <2>2 DEF DirRecord
<1>5. /\ Len(r) = Len(dir)
      /\ \A i \in 1 .. Len(dir) : i # k => r[i] = dir[i]
      /\ r[k].name = new /\ r[k].id = dir[k].id
  BY <1>1, <1>4
<1> HIDE DEF r
<1>6. Places(r) = Places(dir) /\ \A i \in Places(dir) : i \in 1 .. Len(dir)
  BY <1>1, <1>5 DEF Places
<1>7. r[1] = dir[1] /\ r[2] = dir[2]
  BY <1>1, <1>4, <1>5
<1> QED
  BY <1>1, <1>2, <1>3, <1>5, <1>6, <1>7 DEF Derived, dir

\* dir_remove_entry: nothing is left of the inode of the first record of that
\* name.
LEMMA RemoveDerived ==
  ASSUME NEW recs, WellFormed(recs), NEW name \in Names, HasName(OpenRecords(recs), name)
  PROVE  Derived(recs, RemoveEntry(OpenRecords(recs), name),
                 IdsIn(recs) \ {IdOf(OpenRecords(recs), name)})
<1> DEFINE dir     == OpenRecords(recs)
           gone    == Matches(dir, name)
           cleared == [i \in DOMAIN dir |-> IF i \in gone THEN Hole ELSE dir[i]]
           r       == [i \in 1 .. Len(dir) - 1 |->
                         IF i < Max(gone) THEN cleared[i] ELSE cleared[i + 1]]
           first   == Min(gone)
           At(i)   == IF i < Max(gone) THEN i ELSE i + 1
<1>1. /\ dir \in Seq(DirRecord) /\ Len(dir) \in Nat /\ Len(dir) >= 2
      /\ Derived(recs, dir, IdsIn(recs))
  BY OpenedPart DEF WellFormed
<1> HIDE DEF dir
<1>2. /\ first \in Places(dir) /\ dir[first].name = name
      /\ dir[first].id = IdOf(dir, name) /\ IdOf(dir, name) \in IdsIn(recs)
      /\ gone \subseteq Places(dir)
  BY <1>1, NamedPlace DEF dir
<1>3. first \in gone
  <2>1. gone \subseteq Nat /\ gone # {}
    BY <1>1 DEF Matches, HasName, dir
  <2> QED
    BY <2>1, MinIn
<1>4. Max(gone) \in gone /\ Max(gone) \in 3 .. Len(dir)
  <2>1. gone \subseteq 0 .. Len(dir) /\ gone # {}
    BY <1>1, <1>2, <1>3 DEF Places
  <2>2. Max(gone) \in gone
    BY <1>1, <2>1, MaxIn
  <2> QED
    BY <1>2, <2>2 DEF Places
<1>5. RemoveEntry(dir, name) = r
  BY DEF RemoveEntry
<1> HIDE DEF gone, first
<1>6. Len(r) = Len(dir) - 1 /\ Len(dir) >= 3
  BY <1>1, <1>4
<1>7. \A i \in 1 .. Len(r) : /\ At(i) \in 1 .. Len(dir)
                             /\ r[i] = IF At(i) \in gone THEN Hole ELSE dir[At(i)]
  BY <1>1, <1>4, <1>6
<1>8. r[1] = dir[1] /\ r[2] = dir[2]
  <2>1. 1 \notin gone /\ 2 \notin gone
    BY <1>2 DEF Places
  <2>2. At(1) = 1 /\ At(2) = 2 /\ 1 \in 1 .. Len(r) /\ 2 \in 1 .. Len(r)
    BY <1>4, <1>6
  <2> HIDE DEF r, At
  <2> QED
    BY <1>7, <2>1, <2>2
<1>9. /\ \A i \in Places(r) : At(i) \in Places(dir) /\ i \in 1 .. Len(r)
      /\ \A i, j \in Places(r) : At(i) = At(j) => i = j
  BY <1>1, <1>4, <1>6 DEF Places
<1> HIDE DEF r, At
<1>10. ASSUME NEW i \in Places(r), r[i] # Hole
       PROVE  /\ r[i] = dir[At(i)] /\ At(i) \in Places(dir) /\ At(i) \notin gone
              /\ r[i].name \in Names /\ r[i].id \in IdsIn(recs)
              /\ r[i].id # IdOf(dir, name)
  <2>1. r[i] = dir[At(i)] /\ At(i) \in Places(dir) /\ At(i) \notin gone
    BY <1>7, <1>9, <1>10
  <2>2. r[i].name \in Names /\ r[i].id \in IdsIn(recs)
    BY <1>1, <1>10, <2>1 DEF Derived
  <2>3. r[i].id # 0 /\ At(i) # first
    BY <1>3, <2>1, <2>2 DEF IdsIn
  <2>4. r[i].id # IdOf(dir, name)
    BY <1>1, <1>2, <2>1, <2>3 DEF Derived
  <2> QED
    BY <2>1, <2>2, <2>4
<1>11. \A k \in Places(r) :
         r[k] = Hole \/ (r[k].name \in Names /\ r[k].id \in IdsIn(recs) \ {IdOf(dir, name)})
  BY <1>10
<1>12. ASSUME NEW k \in Places(r), NEW l \in Places(r), r[k].id = r[l].id, r[k].id # 0
       PROVE  k = l
  <2>1. r[k] # Hole /\ r[l] # Hole
    BY <1>12, HoleIs
  <2>2. At(k) = At(l)
    BY <1>1, <1>10, <1>12, <2>1 DEF Derived
  <2> QED
    BY <1>9, <2>2
<1> QED
  BY <1>1, <1>5, <1>6, <1>8, <1>11, <1>12 DEF Derived, dir

-----------------------------------------------------------------------------
(* The inode map and what it leads to. *)

Imaps == [1 .. MaxInode -> Slot]
Put(im, i, a) == [im EXCEPT ![i] = [id |-> i, addr |-> a]]

\* In a sound map an inode sits in the slot of its number, so the scans for an
\* inode id find that slot or none.
LEMMA SlotsFound ==
  ASSUME NEW im \in Imaps, NEW st, NEW n, MapSound(st, im, n), NEW id \in InodeIds
  PROVE  /\ AddrOf(im, id) = IF id \in LiveIn(im) THEN im[id].addr ELSE NullAddr
         /\ id \in LiveIn(im) => \A a, m : /\ MoveInode(im, id, a) = Put(im, id, a)
                                           /\ PutInode(im, m, id, a) = Put(im, id, a)
         /\ id \in 1 .. MaxInode => \A a : PutInode(im, id, id, a) = Put(im, id, a)
<1>1. DOMAIN im = 1 .. MaxInode /\ \A i \in 1 .. MaxInode : i \in Nat \ {0}
  BY LfsAssumption DEF Imaps
<1>2. \A i \in DOMAIN im : im[i].id # 0 => im[i].id = i
  BY DEF MapSound
<1>3. \A i \in DOMAIN im : im[i] = [id |-> im[i].id, addr |-> im[i].addr]
  BY DEF Imaps, Slot
<1>4. CASE id \in LiveIn(im)
  <2>1. id \in DOMAIN im /\ im[id].id = id /\ id # 0
    BY <1>1, <1>2, <1>4 DEF LiveIn
  <2>2. Slots(im, id) = {id}
    BY <1>2, <2>1 DEF Slots
  <2>3. Min(Slots(im, id)) = id
    BY <1>1, <2>1, <2>2, MinIn
  <2>4. \A a : [im EXCEPT ![id].addr = a] = Put(im, id, a)
    <3>1. im[id] = [id |-> id, addr |-> im[id].addr]
      BY <1>3, <2>1
    <3>2. \A a : [im[id] EXCEPT !.addr = a] = [id |-> id, addr |-> a]
      BY <3>1
    <3>3. \A a : [im EXCEPT ![id].addr = a] = [im EXCEPT ![id] = [im[id] EXCEPT !.addr = a]]
      BY <1>1, <2>1
    <3> QED
      BY <3>2, <3>3 DEF Put
  <2> QED
    BY <1>4, <2>2, <2>3, <2>4 DEF AddrOf, MoveInode, PutInode
<1>5. CASE id \notin LiveIn(im) /\ id # 0
  <2>1. Slots(im, id) = {}
    BY <1>2, <1>5 DEF Slots, LiveIn
  <2> QED
    BY <1>5, <2>1 DEF AddrOf, PutInode, Put
<1>6. CASE id = 0
  <2>1. \A i \in Slots(im, id) : im[i].addr = NullAddr
    BY <1>6 DEF Slots, MapSound
  <2>2. Slots(im, id) # {} => Min(Slots(im, id)) \in Slots(im, id)
    BY <1>1, MinIn DEF Slots
  <2>3. 0 \notin LiveIn(im)
    BY <1>1 DEF LiveIn
  <2> QED
    BY <1>1, <1>6, <2>1, <2>2, <2>3 DEF AddrOf
<1> QED
  BY <1>4, <1>5, <1>6

\* What the map leads to is kept by every step that keeps filled segments but for
\* recipes.
LEMMA KeptView ==
  ASSUME NEW st, NEW t, Keeps(st, t), NEW im, NEW n, MapSound(st, im, n)
  PROVE  /\ MapSound(t, im, n)
         /\ Inodes(t, im) = Inodes(st, im)
         /\ Records(t, Inodes(t, im)) = Records(st, Inodes(st, im))
<1>1. ASSUME NEW i \in LiveIn(im)
      PROVE  /\ Written(t, im[i].addr) /\ LogSeg(t, im[i].addr) = LogSeg(st, im[i].addr)
             /\ LogSeg(st, im[i].addr).ino.type = "dir" =>
                  /\ Written(t, LogSeg(st, im[i].addr).ino.blk)
                  /\ LogSeg(t, LogSeg(st, im[i].addr).ino.blk)
                       = LogSeg(st, LogSeg(st, im[i].addr).ino.blk)
  <2>1. /\ Written(st, im[i].addr) /\ LogSeg(st, im[i].addr).kind = "inode"
        /\ LogSeg(st, im[i].addr).ino.type = "dir" =>
             /\ Written(st, LogSeg(st, im[i].addr).ino.blk)
             /\ LogSeg(st, LogSeg(st, im[i].addr).ino.blk).kind = "dir"
    BY DEF MapSound, LiveIn
  <2> QED
    BY <2>1 DEF Keeps
<1>2. MapSound(t, im, n)
  BY <1>1 DEF MapSound, LiveIn
<1>3. Inodes(t, im) = Inodes(st, im)
  BY <1>1 DEF Inodes
<1>4. \A i \in Dirs(Inodes(st, im)) :
        LogSeg(t, Inodes(st, im)[i].blk).recs = LogSeg(st, Inodes(st, im)[i].blk).recs
  BY <1>1 DEF Inodes, Dirs
<1>5. Records(t, Inodes(st, im)) = Records(st, Inodes(st, im))
  BY <1>4 DEF Records
<1> QED
  BY <1>2, <1>3, <1>5

\* The tree of map im2 is that of map im, but for inode i.
WithInode(st, im, im2, i, ino) ==
  LET inodes  == Inodes(st, im)
      inodes2 == Inodes(st, im2)
  IN  /\ DOMAIN inodes2 = DOMAIN inodes \cup {i}
      /\ inodes2[i] = ino
      /\ \A j \in DOMAIN inodes \ {i} : inodes2[j] = inodes[j]
      /\ ino.type = "dir" => Records(st, inodes2)[i] = LogSeg(st, ino.blk).recs
      /\ \A j \in Dirs(inodes) \ {i} : Records(st, inodes2)[j] = Records(st, inodes)[j]

\* An inode that was added to the log is put in the map.
LEMMA PutView ==
  ASSUME NEW st, NEW im \in Imaps, NEW n \in Nat, MapSound(st, im, n),
         NEW m \in Nat, n <= m, NEW i \in 1 .. MaxInode, i <= m,
         NEW a, NEW ino, Written(st, a), LogSeg(st, a) = InodeSeg(ino),
         ino.id = i, ino.type \in {"file", "dir"},
         ino.type = "dir" => Written(st, ino.blk) /\ LogSeg(st, ino.blk).kind = "dir"
  PROVE  MapSound(st, Put(im, i, a), m) /\ WithInode(st, im, Put(im, i, a), i, ino)
<1> DEFINE im2 == Put(im, i, a)
           inodes == Inodes(st, im)
           inodes2 == Inodes(st, im2)
<1>1. /\ DOMAIN im2 = DOMAIN im /\ i \in DOMAIN im
      /\ im2[i].id = i /\ im2[i].addr = a /\ i # 0
      /\ \A j \in DOMAIN im \ {i} : im2[j] = im[j]
      /\ \A j \in DOMAIN im : j \in Nat
  BY LfsAssumption DEF Put, Imaps
<1> HIDE DEF im2
<1>2. InodeSeg(ino).kind = "inode" /\ InodeSeg(ino).ino = ino
  BY DEF InodeSeg
<1>3. MapSound(st, im2, m)
  <2> SUFFICES ASSUME NEW j \in DOMAIN im
               PROVE  IF im2[j].id = 0
                        THEN im2[j].addr = NullAddr
                        ELSE LET g == LogSeg(st, im2[j].addr)
                             IN  /\ im2[j].id = j /\ j <= m
                                 /\ Written(st, im2[j].addr)
                                 /\ g.kind = "inode" /\ g.ino.id = j
                                 /\ g.ino.type \in {"file", "dir"}
                                 /\ g.ino.type = "dir" =>
                                      Written(st, g.ino.blk) /\ LogSeg(st, g.ino.blk).kind = "dir"
    BY <1>1 DEF MapSound
  <2>1. CASE j = i
    BY <1>1, <1>2, <2>1
  <2>2. CASE j # i
    BY <1>1, <2>2 DEF MapSound
  <2> QED
    BY <2>1, <2>2
<1>4. LiveIn(im2) = LiveIn(im) \cup {i}
  BY <1>1 DEF LiveIn
<1>5. /\ DOMAIN inodes = LiveIn(im) /\ DOMAIN inodes2 = LiveIn(im2)
      /\ \A j \in LiveIn(im) : inodes[j] = LogSeg(st, im[j].addr).ino
      /\ \A j \in LiveIn(im2) : inodes2[j] = LogSeg(st, im2[j].addr).ino
  BY DEF Inodes
<1> HIDE DEF inodes, inodes2
<1>6. inodes2[i] = ino
  BY <1>1, <1>2, <1>4, <1>5
<1>7. \A j \in DOMAIN inodes \ {i} : inodes2[j] = inodes[j]
  BY <1>1, <1>4, <1>5 DEF LiveIn
<1>8. ino.type = "dir" => Records(st, inodes2)[i] = LogSeg(st, ino.blk).recs
  BY <1>4, <1>5, <1>6 DEF Records, Dirs
<1>9. \A j \in Dirs(inodes) \ {i} : Records(st, inodes2)[j] = Records(st, inodes)[j]
  BY <1>4, <1>5, <1>7 DEF Records, Dirs
<1> QED
  BY <1>3, <1>4, <1>5, <1>6, <1>7, <1>8, <1>9 DEF im2, inodes, inodes2, WithInode

\* The tree of map im2 is that of map im without inode i.
WithoutInode(st, im, im2, i) ==
  LET inodes  == Inodes(st, im)
      inodes2 == Inodes(st, im2)
  IN  /\ DOMAIN inodes2 = DOMAIN inodes \ {i}
      /\ \A j \in DOMAIN inodes \ {i} : inodes2[j] = inodes[j] /\ im2[j] = im[j]
      /\ \A j \in DOMAIN im : im[j].id = 0 => im2[j].id = 0
      /\ \A j \in Dirs(inodes) \ {i} : Records(st, inodes2)[j] = Records(st, inodes)[j]

\* lfs_unlink and lfs_rmdir take one inode out of the map.
LEMMA DropView ==
  ASSUME NEW st, NEW im \in Imaps, NEW n \in Nat, MapSound(st, im, n),
         NEW i \in InodeIds, i # 0
  PROVE  /\ MapSound(st, DropInode(im, n, i), n)
         /\ WithoutInode(st, im, DropInode(im, n, i), i)
<1> DEFINE im2 == DropInode(im, n, i)
           inodes == Inodes(st, im)
           inodes2 == Inodes(st, im2)
<1>1. /\ DOMAIN im2 = DOMAIN im
      /\ \A j \in DOMAIN im : im2[j] = IF im[j].id = i THEN [id |-> 0, addr |-> NullAddr]
                                                      ELSE im[j]
  <2>1. \A j \in DOMAIN im : im[j].id = i => j <= n
    BY DEF MapSound
  <2> QED
    BY <2>1 DEF DropInode
<1>2. \A j \in DOMAIN im : im[j].id # 0 => im[j].id = j
  BY DEF MapSound
<1> HIDE DEF im2
<1>3. LiveIn(im2) = LiveIn(im) \ {i}
  BY <1>1, <1>2 DEF LiveIn
<1>4. \A j \in LiveIn(im2) : im2[j] = im[j]
  BY <1>1, <1>2, <1>3 DEF LiveIn
<1>5. MapSound(st, im2, n)
  <2>1. \A j \in DOMAIN im2 : im2[j] = im[j] \/ (im2[j].id = 0 /\ im2[j].addr = NullAddr)
    BY <1>1
  <2> QED
    BY <1>1, <2>1 DEF MapSound
<1>6. /\ DOMAIN inodes = LiveIn(im) /\ DOMAIN inodes2 = LiveIn(im2)
      /\ \A j \in LiveIn(im) : inodes[j] = LogSeg(st, im[j].addr).ino
      /\ \A j \in LiveIn(im2) : inodes2[j] = LogSeg(st, im2[j].addr).ino
  BY DEF Inodes
<1> HIDE DEF inodes, inodes2
<1>7. \A j \in DOMAIN inodes \ {i} : inodes2[j] = inodes[j] /\ im2[j] = im[j]
  BY <1>3, <1>4, <1>6
<1>8. \A j \in Dirs(inodes) \ {i} : Records(st, inodes2)[j] = Records(st, inodes)[j]
  BY <1>3, <1>6, <1>7 DEF Records, Dirs
<1>9. \A j \in DOMAIN im : im[j].id = 0 => im2[j].id = 0
  BY <1>1
<1> QED
  BY <1>3, <1>5, <1>6, <1>7, <1>8, <1>9 DEF im2, inodes, inodes2, WithoutInode

-----------------------------------------------------------------------------
(* The tree. *)

\* Directory c is replaced: by records derived from those it had, with the inodes
\* in new; inodes that it listed may be gone.  Everything else stays.
Replaced(inodes, records, inodes2, records2, c, new) ==
  /\ new \subseteq Nat /\ \A n \in new, i \in DOMAIN inodes : i < n
  /\ DOMAIN inodes2 \subseteq DOMAIN inodes \cup new
  /\ c \in DOMAIN inodes2 /\ inodes2[c].type = "dir"
  /\ \A i \in DOMAIN inodes : i \notin DOMAIN inodes2 => i \in IdsIn(records[c])
  /\ \A i \in DOMAIN inodes2 : i \notin new /\ i # c => inodes2[i] = inodes[i]
  /\ \A i \in Dirs(inodes2) : i \notin new /\ i # c => records2[i] = records[i]
  /\ \A i \in Files(inodes2) : i \in new => inodes2[i].recipe = NullAddr
  /\ \A i \in Dirs(inodes2) : i \in new => records2[i] = NewDirRecords(c, i)
  /\ \E ids : /\ ids \subseteq (IdsIn(records[c]) \cup new) \cap DOMAIN inodes2
              /\ Derived(records[c], records2[c], ids)

\* The records of a directory in the tree are well formed.
LEMMA DirWellFormed ==
  ASSUME NEW inodes, NEW records, TreeSound(inodes, records), NEW i \in Dirs(inodes),
         0 \notin DOMAIN inodes, DOMAIN records = Dirs(inodes), records[i] \in Seq(DirRecord)
  PROVE  WellFormed(records[i])
<1> DEFINE recs == records[i]
<1>1. DirSound(inodes, records, i) /\ ListedOnce(records)
  BY DEF TreeSound
<1>2. /\ Len(recs) >= 2 /\ recs[1].name = ".." /\ recs[2].name = "."
      /\ \A k \in Places(recs) : recs[k] = Hole \/ (recs[k].name \in Names /\ recs[k].id # 0)
  BY <1>1 DEF DirSound
<1>3. \A k, l \in Places(recs) : recs[k].id = recs[l].id /\ recs[k].id # 0 => k = l
  BY <1>1 DEF ListedOnce
<1> HIDE DEF recs
<1>4. \A k \in Places(recs) : recs[k] = Hole \/ (recs[k].name \in Names /\ recs[k].id \in IdsIn(recs))
  BY <1>2 DEF IdsIn
<1> QED
  BY <1>2, <1>3, <1>4 DEF WellFormed, Derived, recs

\* Replacing a directory leaves a tree, and the way up from it.
LEMMA TreeKept ==
  ASSUME NEW inodes, NEW records, NEW inodes2, NEW records2,
         DOMAIN inodes \subseteq Nat \ {0},
         DOMAIN records = Dirs(inodes), DOMAIN records2 = Dirs(inodes2),
         TreeSound(inodes, records), NEW c \in Dirs(inodes),
         NEW new, Replaced(inodes, records, inodes2, records2, c, new)
  PROVE  /\ TreeSound(inodes2, records2)
         /\ \A way : WayUp(records, c, way) => WayUp(records2, c, way)
<1> new \subseteq Nat /\ \A n \in new, i \in DOMAIN inodes : i < n
  BY DEF Replaced
<1>1. /\ \A i \in Dirs(inodes) : DirSound(inodes, records, i)
      /\ ListedOnce(records) /\ RecipesApart(inodes)
  BY DEF TreeSound
<1>2. /\ Dirs(inodes) \subseteq DOMAIN inodes /\ Dirs(inodes2) \subseteq DOMAIN inodes2
      /\ \A i \in DOMAIN inodes : i \in Nat /\ i # 0 /\ i \notin new
      /\ c \in DOMAIN inodes /\ c \notin new /\ c \in Nat /\ inodes[c].type = "dir"
  BY DEF Dirs
<1>3. /\ \A i \in DOMAIN inodes2 : i \notin new =>
           i \in DOMAIN inodes /\ (i \in Dirs(inodes2) <=> i \in Dirs(inodes))
      /\ \A i \in DOMAIN inodes2 : i \in Nat /\ i # 0
      /\ c \in Dirs(inodes2)
  <2>1. /\ c \in DOMAIN inodes2 /\ inodes2[c].type = "dir"
        /\ \A i \in DOMAIN inodes2 : i \notin new => i \in DOMAIN inodes
        /\ \A i \in DOMAIN inodes2 : i \notin new /\ i # c => inodes2[i] = inodes[i]
    BY DEF Replaced
  <2>2. ASSUME NEW i \in DOMAIN inodes2, i \notin new
        PROVE  i \in DOMAIN inodes /\ (i \in Dirs(inodes2) <=> i \in Dirs(inodes))
    BY <1>2, <2>1, <2>2 DEF Dirs
  <2>3. \A i \in DOMAIN inodes2 : i \in Nat /\ i # 0
    <3>1. DOMAIN inodes2 \subseteq DOMAIN inodes \cup new
      BY DEF Replaced
    <3>2. \A n \in new : n \in Nat /\ n > c
      BY <1>2
    <3> QED
      BY <1>2, <3>1, <3>2
  <2> QED
    BY <2>1, <2>2, <2>3 DEF Dirs
<1>4. PICK ids : /\ ids \subseteq (IdsIn(records[c]) \cup new) \cap DOMAIN inodes2
                 /\ Derived(records[c], records2[c], ids)
  BY DEF Replaced
<1>5. \A i \in Dirs(inodes2) : i \notin new =>
        /\ Len(records2[i]) >= 2
        /\ records2[i][1] = records[i][1] /\ records2[i][2] = records[i][2]
  <2>1. \A i \in Dirs(inodes) : Len(records[i]) >= 2
    BY <1>1 DEF DirSound
  <2>2. \A i \in Dirs(inodes2) : i \notin new /\ i # c => i \in Dirs(inodes) /\ records2[i] = records[i]
    BY <1>2, <1>3 DEF Replaced
  <2>3. /\ Len(records2[c]) >= 2
        /\ records2[c][1] = records[c][1] /\ records2[c][2] = records[c][2]
    BY <1>4 DEF Derived
  <2> QED
    BY <2>1, <2>2, <2>3
<1>6. ASSUME NEW x \in IdsIn(records[c])
      PROVE  /\ x \in DOMAIN inodes /\ x > c
             /\ x \in Dirs(inodes) => ParentIn(records, x) = c
             /\ \E k \in Places(records[c]) : records[c][k].id = x
  <2>1. PICK k \in Places(records[c]) : records[c][k].id = x /\ x # 0
    BY DEF IdsIn
  <2>2. records[c][k] # Hole
    BY <2>1, HoleIs
  <2> QED
    BY <1>1, <2>1, <2>2 DEF DirSound
<1>7. ASSUME NEW i \in Dirs(inodes), i # c, NEW k \in Places(records[i]), records[i][k] # Hole
      PROVE  /\ records[i][k].id \in DOMAIN inodes /\ records[i][k].id \notin IdsIn(records[c])
             /\ records[i][k].id \in DOMAIN inodes2
  <2>1. records[i][k].id \in DOMAIN inodes
    BY <1>1, <1>7 DEF DirSound
  <2>2. records[i][k].id # 0
    BY <1>2, <2>1
  <2>3. records[i][k].id \notin IdsIn(records[c])
    BY <1>1, <1>6, <1>7, <2>2 DEF ListedOnce
  <2> QED
    BY <2>1, <2>3 DEF Replaced
<1>8. ASSUME NEW i \in Dirs(inodes2)
      PROVE  DirSound(inodes2, records2, i)
  <2>1. CASE i \in new
    <3>1. records2[i] = <<[name |-> "..", id |-> c], [name |-> ".", id |-> i]>>
      BY <2>1 DEF Replaced, NewDirRecords
    <3>2. c \in 1 .. i /\ c # i
      BY <1>2, <2>1
    <3>3. Len(records2[i]) = 2 /\ Places(records2[i]) = {}
      BY <3>1 DEF Places
    <3> QED
      BY <3>1, <3>2, <3>3 DEF DirSound
  <2>2. CASE i \notin new /\ i # c
    <3>1. i \in Dirs(inodes) /\ records2[i] = records[i]
      BY <1>2, <1>3, <2>2 DEF Replaced
    <3>2. ASSUME NEW k \in Places(records[i]), records[i][k] # Hole
          PROVE  /\ records[i][k].name \in Names
                 /\ records[i][k].id \in DOMAIN inodes2 /\ records[i][k].id > i
                 /\ records[i][k].id \in Dirs(inodes2) => ParentIn(records2, records[i][k].id) = i
      <4>1. /\ records[i][k].name \in Names /\ records[i][k].id > i
            /\ records[i][k].id \in Dirs(inodes) => ParentIn(records, records[i][k].id) = i
        BY <1>1, <3>1, <3>2 DEF DirSound
      <4>2. records[i][k].id \in DOMAIN inodes2 /\ records[i][k].id \notin new
        BY <1>2, <1>7, <2>2, <3>1, <3>2
      <4> QED
        BY <1>3, <1>5, <4>1, <4>2 DEF ParentIn
    <3>3. /\ Len(records[i]) >= 2
          /\ records[i][1].name = ".." /\ records[i][1].id \in 1 .. i
          /\ records[i][1].id = i => i = 1
          /\ records[i][2] = [name |-> ".", id |-> i]
      BY <1>1, <3>1 DEF DirSound
    <3> QED
      BY <3>1, <3>2, <3>3 DEF DirSound
  <2>3. CASE i = c
    <3>1. ASSUME NEW k \in Places(records2[c]), records2[c][k] # Hole
          PROVE  /\ records2[c][k].name \in Names
                 /\ records2[c][k].id \in DOMAIN inodes2 /\ records2[c][k].id > c
                 /\ records2[c][k].id \in Dirs(inodes2) => ParentIn(records2, records2[c][k].id) = c
      <4> DEFINE x == records2[c][k].id
      <4>1. /\ records2[c][k].name \in Names
            /\ x \in IdsIn(records[c]) \cup new /\ x \in DOMAIN inodes2
        BY <1>4, <3>1 DEF Derived
      <4> HIDE DEF x
      <4>2. CASE x \in new
        <5>1. x > c
          BY <1>2, <4>2
        <5>2. x \in Dirs(inodes2) => ParentIn(records2, x) = c
          BY <4>2 DEF Replaced, NewDirRecords, ParentIn
        <5> QED
          BY <4>1, <5>1, <5>2 DEF x
      <4>3. CASE x \notin new
        <5>1. x \in IdsIn(records[c]) /\ x > c
          BY <1>6, <4>1, <4>3
        <5>2. x \in Dirs(inodes2) => ParentIn(records2, x) = c
          BY <1>3, <1>5, <1>6, <4>1, <4>3, <5>1 DEF ParentIn
        <5> QED
          BY <4>1, <5>1, <5>2 DEF x
      <4> QED
        BY <4>2, <4>3
    <3>2. /\ records[c][1].name = ".." /\ records[c][1].id \in 1 .. c
          /\ records[c][1].id = c => c = 1
          /\ records[c][2] = [name |-> ".", id |-> c]
      BY <1>1 DEF DirSound
    <3>3. /\ Len(records2[c]) >= 2
          /\ records2[c][1] = records[c][1] /\ records2[c][2] = records[c][2]
      BY <1>2, <1>3, <1>5
    <3> QED
      BY <2>3, <3>1, <3>2, <3>3 DEF DirSound
  <2> QED
    BY <2>1, <2>2, <2>3
<1>9. ListedOnce(records2)
  <2>1. ASSUME NEW i \in Dirs(inodes2), NEW k \in Places(records2[i]), records2[i][k].id # 0
        PROVE  \/ i = c /\ records2[i][k].id \in IdsIn(records[c]) \cup new
               \/ /\ i # c /\ i \in Dirs(inodes) /\ records2[i] = records[i]
                  /\ records2[i][k].id \notin IdsIn(records[c]) \cup new
    <3>1. records2[i][k] # Hole
      BY <2>1, HoleIs
    <3>2. i \notin new
      <4>1. ASSUME i \in new PROVE FALSE
        <5>1. records2[i] = <<[name |-> "..", id |-> c], [name |-> ".", id |-> i]>>
          BY <4>1 DEF Replaced, NewDirRecords
        <5> QED
          BY <5>1, <2>1 DEF Places
      <4> QED
        BY <4>1
    <3>3. CASE i = c
      BY <1>4, <2>1, <3>1, <3>3 DEF Derived
    <3>4. CASE i # c
      <4>1. i \in Dirs(inodes) /\ records2[i] = records[i]
        BY <1>2, <1>3, <3>2, <3>4 DEF Replaced
      <4> QED
        BY <1>2, <1>7, <3>1, <3>4, <4>1
    <3> QED
      BY <3>3, <3>4
  <2> SUFFICES ASSUME NEW i \in Dirs(inodes2), NEW j \in Dirs(inodes2),
                      NEW k \in Places(records2[i]), NEW l \in Places(records2[j]),
                      records2[i][k].id = records2[j][l].id, records2[i][k].id # 0
               PROVE  i = j /\ k = l
    BY DEF ListedOnce
  <2>2. CASE i = c
    <3>1. j = c
      BY <2>1, <2>2
    <3> QED
      BY <1>4, <2>2, <3>1 DEF Derived
  <2>3. CASE i # c
    <3>1. /\ i \in Dirs(inodes) /\ records2[i] = records[i]
          /\ j \in Dirs(inodes) /\ records2[j] = records[j]
      BY <2>1, <2>3
    <3> QED
      BY <1>1, <3>1 DEF ListedOnce
  <2> QED
    BY <2>2, <2>3
<1>10. RecipesApart(inodes2)
  <2>1. ASSUME NEW i \in Files(inodes2), inodes2[i].recipe # NullAddr
        PROVE  i \in Files(inodes) /\ inodes2[i] = inodes[i]
    <3>1. i \in DOMAIN inodes2 /\ inodes2[i].type = "file" /\ i # c
      BY DEF Files, Replaced
    <3>2. i \notin new
      BY <2>1 DEF Replaced
    <3> QED
      BY <1>3, <3>1, <3>2 DEF Files, Replaced
  <2> QED
    BY <1>1, <2>1 DEF RecipesApart
<1>11. ASSUME NEW way, WayUp(records, c, way)
       PROVE  WayUp(records2, c, way)
  <2>1. /\ way \subseteq Dirs(inodes) \cap 1 .. c /\ c \in way /\ 1 \in way
        /\ \A i \in way \ {1} : /\ ParentIn(records, i) \in way
                                /\ Lists(records[ParentIn(records, i)], i)
    BY <1>11 DEF WayUp
  <2>2. \A i \in way : i \in Dirs(inodes2) /\ i \notin new
    <3>1. \A i \in way : i \in DOMAIN inodes /\ ~(i > c)
      BY <1>2, <2>1
    <3>2. \A i \in way : i \in DOMAIN inodes2
      BY <1>6, <3>1 DEF Replaced
    <3> QED
      BY <1>2, <1>3, <2>1, <3>1, <3>2
  <2>3. \A i \in way : ParentIn(records2, i) = ParentIn(records, i)
    BY <1>5, <2>2 DEF ParentIn
  <2>4. ASSUME NEW i \in way \ {1}
        PROVE  records2[ParentIn(records, i)] = records[ParentIn(records, i)]
    <3> DEFINE p == ParentIn(records, i)
    <3>1. p \in 1 .. i /\ p # i /\ i \in 1 .. c /\ p \in way
      BY <1>1, <2>1 DEF DirSound, ParentIn
    <3>2. p # c
      BY <1>2, <3>1
    <3> QED
      BY <2>2, <3>1, <3>2 DEF Replaced
  <2> QED
    BY <2>1, <2>2, <2>3, <2>4 DEF WayUp
<1> QED
  BY <1>8, <1>9, <1>10, <1>11 DEF TreeSound

-----------------------------------------------------------------------------
(* The file system between two operations. *)

Tree == Inodes(Store, imap)
TreeRecs == Records(Store, Tree)
TreeRecipes == RecipesOf(Tree)
CurDir == OpenRecords(TreeRecs[curInode.id])

\* FsSound in these terms.
LEMMA FsParts ==
  FsSound <=> /\ MapSound(Store, imap, nInode)
              /\ TreeSound(Tree, TreeRecs)
              /\ CurSound(Tree, TreeRecs, curInode)
              /\ CacheSound(Store, TreeRecipes, curInode.blk)
  BY DEF FsSound, Tree, TreeRecs, TreeRecipes

\* A filled address holds a segment.
LEMMA LogSegType ==
  ASSUME NEW st \in Stores, NEW a, Written(st, a)
  PROVE  LogSeg(st, a) \in Segment
  BY DEF Written, LogSeg, LogContainer, Image, Stores, ContainerType, ImageType

\* Segments that are inodes or directories.
LEMMA SegmentParts ==
  ASSUME NEW s \in Segment
  PROVE  /\ s.kind = "inode" => s.ino \in Inode /\ AsInode(s) = s.ino
         /\ s.kind = "dir" => s.recs \in Seq(DirRecord) /\ AsDir(s) = s.recs
<1>1. s.kind = "inode" => s.ino \in Inode
  BY DEF Segment, ZeroSeg
<1>2. s.kind = "dir" => s.recs \in Seq(DirRecord)
  BY DEF Segment, ZeroSeg
<1> QED
  BY <1>1, <1>2 DEF AsInode, AsDir

\* The inodes and the directories that the map leads to.
LEMMA TreeFacts ==
  ASSUME TypeOK, FsSound
  PROVE  /\ DOMAIN Tree = LiveIn(imap) /\ DOMAIN Tree \subseteq 1 .. nInode
         /\ DOMAIN Tree \subseteq Nat \ {0} /\ DOMAIN Tree \subseteq 1 .. MaxInode
         /\ DOMAIN TreeRecs = Dirs(Tree)
         /\ \A i \in DOMAIN Tree :
              /\ Written(Store, imap[i].addr) /\ imap[i].id = i
              /\ LogSeg(Store, imap[i].addr).kind = "inode"
              /\ LogSeg(Store, imap[i].addr).ino = Tree[i]
              /\ Tree[i] \in Inode /\ Tree[i].id = i /\ Tree[i].type \in {"file", "dir"}
         /\ \A i \in Dirs(Tree) :
              /\ Written(Store, Tree[i].blk) /\ LogSeg(Store, Tree[i].blk).kind = "dir"
              /\ LogSeg(Store, Tree[i].blk).recs = TreeRecs[i]
              /\ AsDir(LogSeg(Store, Tree[i].blk)) = TreeRecs[i]
              /\ WellFormed(TreeRecs[i])
<1>1. MapSound(Store, imap, nInode) /\ TreeSound(Tree, TreeRecs)
  BY FsParts
<1>2. Store \in Stores /\ imap \in Imaps /\ nInode \in 1 .. MaxInode
  BY StoreType, Before DEF Imaps
<1>3. /\ DOMAIN Tree = LiveIn(imap) /\ DOMAIN TreeRecs = Dirs(Tree)
      /\ \A i \in LiveIn(imap) : Tree[i] = LogSeg(Store, imap[i].addr).ino
      /\ \A i \in Dirs(Tree) : TreeRecs[i] = LogSeg(Store, Tree[i].blk).recs
  BY DEF Tree, TreeRecs, Inodes, Records
<1>4. /\ LiveIn(imap) \subseteq 1 .. nInode /\ LiveIn(imap) \subseteq 1 .. MaxInode
      /\ LiveIn(imap) \subseteq Nat \ {0}
  BY <1>1, <1>2, LfsAssumption DEF MapSound, LiveIn, Imaps
<1>5. ASSUME NEW i \in DOMAIN Tree
      PROVE  /\ Written(Store, imap[i].addr) /\ imap[i].id = i
             /\ LogSeg(Store, imap[i].addr).kind = "inode"
             /\ LogSeg(Store, imap[i].addr).ino = Tree[i]
             /\ Tree[i] \in Inode /\ Tree[i].id = i /\ Tree[i].type \in {"file", "dir"}
             /\ Tree[i].type = "dir" =>
                  Written(Store, Tree[i].blk) /\ LogSeg(Store, Tree[i].blk).kind = "dir"
  <2>1. /\ Written(Store, imap[i].addr) /\ imap[i].id = i
        /\ LogSeg(Store, imap[i].addr).kind = "inode"
        /\ LogSeg(Store, imap[i].addr).ino = Tree[i]
        /\ Tree[i].id = i /\ Tree[i].type \in {"file", "dir"}
        /\ Tree[i].type = "dir" =>
             Written(Store, Tree[i].blk) /\ LogSeg(Store, Tree[i].blk).kind = "dir"
    BY <1>1, <1>3 DEF MapSound, LiveIn
  <2>2. LogSeg(Store, imap[i].addr) \in Segment
    BY <1>2, <2>1, LogSegType
  <2> QED
    BY <2>1, <2>2, SegmentParts
<1>6. ASSUME NEW i \in Dirs(Tree)
      PROVE  /\ Written(Store, Tree[i].blk) /\ LogSeg(Store, Tree[i].blk).kind = "dir"
             /\ LogSeg(Store, Tree[i].blk).recs = TreeRecs[i]
             /\ AsDir(LogSeg(Store, Tree[i].blk)) = TreeRecs[i]
             /\ WellFormed(TreeRecs[i])
  <2>1. Written(Store, Tree[i].blk) /\ LogSeg(Store, Tree[i].blk).kind = "dir"
    BY <1>5 DEF Dirs
  <2>2. LogSeg(Store, Tree[i].blk) \in Segment
    BY <1>2, <2>1, LogSegType
  <2>3. /\ LogSeg(Store, Tree[i].blk).recs = TreeRecs[i] /\ TreeRecs[i] \in Seq(DirRecord)
        /\ AsDir(LogSeg(Store, Tree[i].blk)) = TreeRecs[i]
    BY <1>3, <2>1, <2>2, SegmentParts
  <2>4. WellFormed(TreeRecs[i])
    <3>1. 0 \notin DOMAIN Tree
      BY <1>3, <1>4
    <3> QED
      BY <1>1, <1>3, <2>3, <3>1, DirWellFormed
  <2> QED
    BY <2>1, <2>3, <2>4
<1> QED
  BY <1>3, <1>4, <1>5, <1>6

\* The current directory among them.
LEMMA CurFacts ==
  ASSUME TypeOK, FsSound
  PROVE  /\ curInode.id \in Dirs(Tree) /\ curInode.id \in DOMAIN Tree
         /\ Tree[curInode.id] = curInode
         /\ Written(Store, curInode.blk) /\ LogSeg(Store, curInode.blk).kind = "dir"
         /\ AsDir(LogSeg(Store, curInode.blk)) = TreeRecs[curInode.id]
         /\ WellFormed(TreeRecs[curInode.id])
         /\ LoggedDir = CurDir
<1>1. curInode.id \in Dirs(Tree) /\ Tree[curInode.id] = curInode
  BY FsParts DEF CurSound
<1>2. curInode.id \in DOMAIN Tree
  BY <1>1 DEF Dirs
<1> QED
  BY <1>1, <1>2, TreeFacts DEF LoggedDir, CurDir

\* open_cur_dir returns the records of the current directory as the log has them.
LEMMA OpenedRight ==
  ASSUME TypeOK, FsSound, NEW st, Looks(Store, st), CacheSound(st, TreeRecipes, curInode.blk)
  PROVE  LET open == OpenCurDir(st, curInode)
         IN  /\ open.dir = CurDir
             /\ Ready(open.st, TreeRecipes) /\ Looks(Store, open.st)
<1> DEFINE open == OpenCurDir(st, curInode)
           t    == CacheForDir(st, curInode.blk.cid)
<1>1. /\ st \in Stores
      /\ \A a : (Written(st, a) <=> Written(Store, a)) /\ LogSeg(st, a) = LogSeg(Store, a)
  BY DEF Looks, Written, LogContainer, LogSeg
<1>2. /\ Written(st, curInode.blk) /\ LogSeg(st, curInode.blk).kind = "dir"
      /\ AsDir(LogSeg(st, curInode.blk)) = TreeRecs[curInode.id]
  BY <1>1, CurFacts
<1>3. Ready(t, TreeRecipes) /\ SegAt(t, curInode.blk) = LogSeg(st, curInode.blk)
  BY <1>1, <1>2, OpensRight
<1>4. open.st = t /\ open.dir = OpenRecords(AsDir(SegAt(t, curInode.blk)))
  BY DEF OpenCurDir
<1>5. Looks(Store, open.st)
  BY <1>1, Before, OpenCurDirLooks, LooksTrans
<1> HIDE DEF open, t
<1> QED
  BY <1>2, <1>3, <1>4, <1>5 DEF CurDir, open

\* After a look-up the cache is still sound for the current directory.
LEMMA CacheAgain ==
  ASSUME TypeOK, FsSound, NEW st, Looks(Store, st), Ready(st, TreeRecipes)
  PROVE  CacheSound(st, TreeRecipes, curInode.blk)
<1>1. st \in Stores /\ Written(st, curInode.blk)
  BY CurFacts DEF Looks, Written
<1> QED
  BY <1>1, ReadySound

\* dir_get_inode finds a name if its record has a live inode, and then that one.
LEMMA FoundRight ==
  ASSUME TypeOK, FsSound, NEW name
  PROVE  LET found == DirGetInode(Store, name)
             i     == IdOf(CurDir, name)
         IN  /\ Looks(Store, found.st) /\ Ready(found.st, TreeRecipes)
             /\ found.ok <=> HasName(CurDir, name) /\ i \in DOMAIN Tree
             /\ found.ok => found.ino = Tree[i]
<1> DEFINE open == OpenCurDir(Store, curInode)
           i    == IdOf(CurDir, name)
           addr == AddrOf(imap, i)
           st1  == Cache(open.st, addr.cid)
           found == DirGetInode(Store, name)
<1>1. Looks(Store, Store)
  BY StoreType DEF Looks
<1>2. open.dir = CurDir /\ Ready(open.st, TreeRecipes) /\ Looks(Store, open.st)
  BY <1>1, FsParts, OpenedRight
<1>3. found = IF ~HasName(CurDir, name) \/ addr = NullAddr
                THEN [st |-> open.st, ok |-> FALSE, ino |-> ZeroInode]
                ELSE [st |-> st1, ok |-> TRUE, ino |-> AsInode(SegAt(st1, addr))]
  BY <1>2, Zenon DEF DirGetInode
<1> HIDE DEF open, found
<1>4. CurDir \in Seq(DirRecord)
  BY CurFacts, OpenedPart DEF CurDir
<1>5. CASE ~HasName(CurDir, name)
  BY <1>2, <1>3, <1>5 DEF found
<1>6. HasName(CurDir, name) =>
        addr = IF i \in DOMAIN Tree THEN imap[i].addr ELSE NullAddr
  <2>1. imap \in Imaps /\ MapSound(Store, imap, nInode) /\ DOMAIN Tree = LiveIn(imap)
    BY Before, FsParts, TreeFacts DEF Imaps
  <2>2. HasName(CurDir, name) => i \in InodeIds
    BY <1>4, IdOfType
  <2> HIDE DEF i
  <2> QED
    BY <2>1, <2>2, SlotsFound
<1>7. CASE HasName(CurDir, name) /\ i \notin DOMAIN Tree
  <2>1. addr = NullAddr
    BY <1>7, <1>6
  <2> QED
    BY <1>2, <1>3, <1>7, <2>1 DEF found
<1>8. CASE HasName(CurDir, name) /\ i \in DOMAIN Tree
  <2>1. addr = imap[i].addr
    BY <1>8, <1>6
  <2>2. /\ Written(Store, addr) /\ LogSeg(Store, addr).kind = "inode"
        /\ LogSeg(Store, addr).ino = Tree[i]
    BY <1>8, <2>1, TreeFacts
  <2>3. /\ open.st \in Stores /\ open.st.buf = Store.buf
        /\ \A a : (Written(open.st, a) <=> Written(Store, a))
                  /\ LogSeg(open.st, a) = LogSeg(Store, a)
    BY <1>2 DEF Looks, Written, LogContainer, LogSeg
  <2>4. addr \in Addr /\ addr.cid \in ContainerIds /\ addr.cid <= open.st.buf.id
    <3>1. addr \in Addr
      BY <1>4, <1>8, IdOfType, Before, ImapType
    <3>2. addr.cid \in 0 .. open.st.buf.id /\ addr.cid \in ContainerIds
      BY <2>2, <2>3, WrittenPlaces
    <3>3. open.st.buf.id \in Nat
      BY <2>3, BufId
    <3> QED
      BY <3>1, <3>2, <3>3
  <2>5. Ready(st1, TreeRecipes) /\ SegAt(st1, addr) = LogSeg(Store, addr)
    BY <1>2, <2>2, <2>3, <2>4, CacheReady
  <2>6. Looks(Store, st1)
    BY <1>2, <2>3, CacheLooks, LooksTrans
  <2>7. addr # NullAddr
    BY <2>2, StoreType, WrittenNotNull
  <2>8. AsInode(SegAt(st1, addr)) = Tree[i]
    BY <2>2, <2>5 DEF AsInode
  <2> HIDE DEF st1, addr, i
  <2> QED
    BY <1>3, <1>8, <2>5, <2>6, <2>7, <2>8 DEF found, i
<1> QED
  BY <1>5, <1>7, <1>8

\* What the names in a directory lead to.
LEMMA NamedChild ==
  ASSUME TypeOK, FsSound, NEW c \in Dirs(Tree), NEW name \in Names,
         HasName(OpenRecords(TreeRecs[c]), name)
  PROVE  LET i == IdOf(OpenRecords(TreeRecs[c]), name)
         IN  /\ i \in DOMAIN Tree /\ i > c /\ Lists(TreeRecs[c], i)
             /\ i \in IdsIn(TreeRecs[c])
             /\ i \in Dirs(Tree) => ParentIn(TreeRecs, i) = c
<1> DEFINE recs == TreeRecs[c]
           dir  == OpenRecords(recs)
           i    == IdOf(dir, name)
           k    == Min(Matches(dir, name))
<1>1. WellFormed(recs) /\ DirSound(Tree, TreeRecs, c)
  BY FsParts, TreeFacts DEF TreeSound
<1>2. /\ dir \in Seq(DirRecord) /\ Len(dir) \in 2 .. Len(recs) /\ Len(recs) \in Nat
      /\ \A l \in 1 .. Len(dir) : dir[l] = recs[l]
      /\ Derived(recs, dir, IdsIn(recs))
  BY <1>1, OpenedPart DEF WellFormed
<1>3. k \in Places(dir) /\ dir[k].name = name /\ dir[k].id = i /\ i \in IdsIn(recs)
  BY <1>1, <1>2, NamedPlace
<1> HIDE DEF dir, i, k
<1>4. k \in Places(recs) /\ recs[k] = dir[k]
  BY <1>2, <1>3 DEF Places
<1>5. recs[k] # Hole
  BY <1>3, <1>4, HoleIs, NotNames
<1>6. i \in DOMAIN Tree /\ i > c /\ (i \in Dirs(Tree) => ParentIn(TreeRecs, i) = c)
  BY <1>1, <1>3, <1>4, <1>5 DEF DirSound, recs
<1>7. Lists(recs, i)
  BY <1>3, <1>4 DEF Lists, dir
<1> QED
  BY <1>3, <1>6, <1>7 DEF i, dir

\* What the names in the current directory lead to.
LEMMA NamesLead ==
  ASSUME TypeOK, FsSound
  PROVE  LET c == curInode.id
         IN  /\ HasName(CurDir, "..") /\ IdOf(CurDir, "..") = TreeRecs[c][1].id
             /\ HasName(CurDir, ".") /\ IdOf(CurDir, ".") = c
             /\ HasName(CurDir, "") => IdOf(CurDir, "") = 0
             /\ \A name \in Names : HasName(CurDir, name) =>
                  LET i == IdOf(CurDir, name)
                  IN  /\ i \in DOMAIN Tree /\ i > c /\ Lists(TreeRecs[c], i)
                      /\ i \in IdsIn(TreeRecs[c])
                      /\ i \in Dirs(Tree) => ParentIn(TreeRecs, i) = c
<1> DEFINE c    == curInode.id
           recs == TreeRecs[c]
<1>1. /\ WellFormed(recs) /\ c \in Dirs(Tree) /\ DirSound(Tree, TreeRecs, c)
      /\ 0 \notin DOMAIN Tree
  BY CurFacts, FsParts, TreeFacts DEF TreeSound
<1>2. /\ CurDir \in Seq(DirRecord) /\ Len(CurDir) \in 2 .. Len(recs) /\ Len(recs) \in Nat
      /\ \A k \in 1 .. Len(CurDir) : CurDir[k] = recs[k]
      /\ Derived(recs, CurDir, IdsIn(recs))
  <2>1. Len(recs) \in Nat
    BY <1>1 DEF WellFormed
  <2> QED
    BY <1>1, <2>1, OpenedPart DEF CurDir
<1>3. /\ CurDir[1].name = ".." /\ CurDir[2].name = "."
      /\ CurDir[1].id = recs[1].id /\ CurDir[2].id = c
      /\ 1 \in DOMAIN CurDir /\ 2 \in DOMAIN CurDir
  BY <1>1, <1>2 DEF DirSound
<1>4. \A k \in DOMAIN CurDir : k \in Nat /\ (k = 1 \/ k = 2 \/ k \in Places(CurDir))
  BY <1>2 DEF Places
<1>5. \A k \in Places(CurDir) : CurDir[k] = Hole \/ CurDir[k].name \in Names
  BY <1>2 DEF Derived
<1>6. ASSUME NEW name, HasName(CurDir, name)
      PROVE  \E k \in DOMAIN CurDir : CurDir[k].name = name /\ CurDir[k].id = IdOf(CurDir, name)
  <2>1. Matches(CurDir, name) \subseteq Nat /\ Matches(CurDir, name) # {}
    BY <1>4, <1>6 DEF Matches, HasName
  <2>2. Min(Matches(CurDir, name)) \in Matches(CurDir, name)
    BY <2>1, MinIn
  <2> QED
    BY <2>2 DEF Matches, IdOf
<1>7. HasName(CurDir, "..") /\ HasName(CurDir, ".")
  BY <1>3 DEF HasName, Matches
<1>8. IdOf(CurDir, "..") = CurDir[1].id
  <2>1. PICK k \in DOMAIN CurDir : CurDir[k].name = ".." /\ CurDir[k].id = IdOf(CurDir, "..")
    BY <1>6, <1>7
  <2> QED
    BY <1>3, <1>4, <1>5, <2>1, NotNames, HoleIs
<1>9. IdOf(CurDir, ".") = CurDir[2].id
  <2>1. PICK k \in DOMAIN CurDir : CurDir[k].name = "." /\ CurDir[k].id = IdOf(CurDir, ".")
    BY <1>6, <1>7
  <2> QED
    BY <1>3, <1>4, <1>5, <2>1, NotNames, HoleIs
<1>10. HasName(CurDir, "") => IdOf(CurDir, "") = 0
  <2> SUFFICES ASSUME HasName(CurDir, "") PROVE IdOf(CurDir, "") = 0
    OBVIOUS
  <2>1. PICK k \in DOMAIN CurDir : CurDir[k].name = "" /\ CurDir[k].id = IdOf(CurDir, "")
    BY <1>6
  <2> QED
    BY <1>3, <1>4, <1>5, <2>1, NotNames, HoleIs
<1>11. ASSUME NEW name \in Names, HasName(CurDir, name)
       PROVE  LET i == IdOf(CurDir, name)
              IN  /\ i \in DOMAIN Tree /\ i > c /\ Lists(recs, i)
                  /\ i \in IdsIn(recs)
                  /\ i \in Dirs(Tree) => ParentIn(TreeRecs, i) = c
  BY <1>1, <1>11, NamedChild DEF CurDir
<1> QED
  BY <1>3, <1>7, <1>8, <1>9, <1>10, <1>11 DEF recs

-----------------------------------------------------------------------------
(* One step. *)

\* What every step does: it keeps the invariant, brings no cleared slot back,
\* and changes no file whose inode it does not move.
StaysDead == \A i \in 1 .. nInode : imap[i].id = 0 => imap'[i].id = 0
FilesKept ==
  \A i \in LiveFiles : imap'[i] = imap[i] =>
    LogInode(i)' = LogInode(i) /\ RecipeOf(i)' = RecipeOf(i)
Sane == FsSound' /\ StaysDead /\ FilesKept

\* What a step does to the tree: nothing;
Stays == Tree' = Tree /\ TreeRecs' = TreeRecs /\ imap' = imap /\ nInode' = nInode

\* or it puts new records into the current directory, as far as they go into a
\* segment, drops inodes and makes some;
FirstSeg(dir) == SubSeq(dir, 1, Min({RecPerSeg, Len(dir)}))
Relists(dir, gone, born) ==
  LET c == curInode.id
  IN  /\ DOMAIN Tree' = (DOMAIN Tree \ gone) \cup born
      /\ \A i \in DOMAIN Tree' : i \notin born /\ i # c =>
           Tree'[i] = Tree[i] /\ imap'[i] = imap[i]
      /\ \A i \in Dirs(Tree') : i \notin born /\ i # c => TreeRecs'[i] = TreeRecs[i]
      /\ c \in Dirs(Tree') /\ curInode'.id = c
      /\ TreeRecs'[c] = FirstSeg(dir)

\* or it moves a file, and its recipe to r.
Moves(i, r) ==
  /\ DOMAIN Tree' = DOMAIN Tree /\ TreeRecs' = TreeRecs
  /\ \A j \in DOMAIN Tree : j # i => Tree'[j] = Tree[j] /\ imap'[j] = imap[j]
  /\ Tree'[i] = [Tree[i] EXCEPT !.size = 1, !.recipe = r]
  /\ nInode' = nInode /\ curInode' = curInode

\* The properties speak of the inodes of the tree.
LEMMA LiveIs ==
  ASSUME TypeOK, FsSound
  PROVE  /\ Live = DOMAIN Tree /\ LiveFiles = Files(Tree)
         /\ \A i \in Live : LogInode(i) = Tree[i]
<1>1. Live = DOMAIN Tree
  BY TreeFacts DEF Live, LiveIn
<1>2. \A i \in Live : LogInode(i) = Tree[i]
  BY <1>1, TreeFacts DEF LogInode, AsInode
<1> QED
  BY <1>1, <1>2 DEF LiveFiles, Files

\* A handler ends in a store of which the invariant speaks.
LEMMA EndsInFsSound ==
  ASSUME NEW t \in Stores, SetStore(t),
         MapSound(t, imap', nInode'),
         TreeSound(Inodes(t, imap'), Records(t, Inodes(t, imap'))),
         CurSound(Inodes(t, imap'), Records(t, Inodes(t, imap')), curInode'),
         CacheSound(t, RecipesOf(Inodes(t, imap')), curInode'.blk)
  PROVE  FsSound'
<1>1. Store' = t
  BY SetStoreIs
<1> QED
  BY <1>1 DEF FsSound

\* Files keep what they have if the filled segments do, but for one that is none
\* of theirs.
LEMMA FilesSame ==
  ASSUME TypeOK, FsSound, Agrees, NEW t \in Stores, SetStore(t), NEW old,
         \A a \in Addr : Written(Store, a) /\ a # old => LogSeg(t, a) = LogSeg(Store, a),
         \A i \in Files(Tree) : imap'[i] = imap[i] =>
           imap[i].addr # old /\ (Tree[i].recipe # old \/ Tree[i].recipe = NullAddr)
  PROVE  FilesKept
<1> SUFFICES ASSUME NEW i \in LiveFiles, imap'[i] = imap[i]
             PROVE  LogInode(i)' = LogInode(i) /\ RecipeOf(i)' = RecipeOf(i)
  BY DEF FilesKept
<1>1. Store' = t
  BY SetStoreIs
<1>2. i \in Files(Tree) /\ i \in DOMAIN Tree /\ LogInode(i) = Tree[i]
  BY LiveIs DEF Files
<1>3. Written(Store, imap[i].addr) /\ LogSeg(Store, imap[i].addr).ino = Tree[i]
      /\ LogSeg(Store, imap[i].addr).kind = "inode"
  BY <1>2, TreeFacts
<1> imap[i].addr \in Addr /\ Tree[i].recipe \in Addr
  <2>1. Tree[i] \in Inode /\ i \in 1 .. MaxInode
    BY <1>2, TreeFacts
  <2> QED
    BY <2>1, Before DEF Inode, Slot
<1>4. LogSeg(t, imap[i].addr) = LogSeg(Store, imap[i].addr)
  BY <1>2, <1>3
<1>5. LogInode(i)' = LogInode(i)
  BY <1>1, <1>4 DEF LogInode
<1>6. RecipeThere(Store, Tree[i])
  <2>1. SegSound(Store, DOMAIN ns, LogSeg(Store, imap[i].addr))
    BY <1>3 DEF Agrees, Sound, SegsSound, Written, LogSeg, LogContainer, Image
  <2> QED
    BY <1>3, <2>1, Zenon DEF SegSound
<1>7. Tree[i].recipe # NullAddr => LogSeg(t, Tree[i].recipe) = LogSeg(Store, Tree[i].recipe)
  BY <1>2, <1>6 DEF RecipeThere
<1>8. RecipeOf(i)' = IF Tree[i].recipe = NullAddr THEN EmptyRecipe
                     ELSE AsRecipe(LogSeg(t, Tree[i].recipe))
  BY <1>1, <1>2, <1>5 DEF RecipeOf
<1> QED
  BY <1>2, <1>5, <1>7, <1>8 DEF RecipeOf

\* A handler that only looks changes the read cache, and perhaps the current
\* directory.
LEMMA LooksSane ==
  ASSUME TypeOK, FsSound, Agrees, NEW t, Looks(Store, t), Ready(t, TreeRecipes),
         SetStore(t), UNCHANGED <<imap, nInode>>, CurSound(Tree, TreeRecs, curInode')
  PROVE  Sane /\ Stays
<1>1. /\ t \in Stores /\ Store \in Stores
      /\ \A a : (Written(t, a) <=> Written(Store, a)) /\ LogSeg(t, a) = LogSeg(Store, a)
  BY StoreType DEF Looks, Written, LogContainer, LogSeg
<1>2. /\ MapSound(t, imap, nInode)
      /\ Inodes(t, imap) = Tree /\ Records(t, Tree) = TreeRecs
  BY <1>1, LooksSound, KeptView, FsParts DEF Tree, TreeRecs
<1>3. CacheSound(t, TreeRecipes, curInode'.blk)
  <2>1. curInode'.id \in Dirs(Tree) /\ Tree[curInode'.id] = curInode'
    BY DEF CurSound
  <2>2. Written(t, curInode'.blk)
    BY <1>1, <2>1, TreeFacts
  <2> QED
    BY <1>1, <2>2, ReadySound
<1>4. FsSound'
  <2>1. imap' = imap /\ nInode' = nInode
    OBVIOUS
  <2>2. TreeSound(Tree, TreeRecs)
    BY FsParts
  <2> QED
    BY <1>1, <1>2, <1>3, <2>1, <2>2, EndsInFsSound DEF TreeRecipes
<1>5. FilesKept
  <2>1. \A i \in Files(Tree) : imap[i].addr # NullAddr
    BY <1>1, TreeFacts, WrittenNotNull DEF Files
  <2> QED
    BY <1>1, <2>1, FilesSame
<1>6. Stays
  <2>1. Store' = t
    BY <1>1, SetStoreIs
  <2> QED
    BY <1>2, <2>1 DEF Stays, Tree, TreeRecs
<1> QED
  BY <1>4, <1>5, <1>6 DEF Sane, StaysDead

-----------------------------------------------------------------------------
(* Handlers that only look. *)

LEMMA ReadDirSane ==
  ASSUME TypeOK, FsSound, Agrees, ReadDir
  PROVE  Sane /\ Stays /\ curInode' = curInode
<1> DEFINE open == OpenCurDir(Store, curInode)
<1>1. Looks(Store, Store)
  BY StoreType DEF Looks
<1>2. Ready(open.st, TreeRecipes) /\ Looks(Store, open.st)
  BY <1>1, FsParts, OpenedRight
<1>3. SetStore(open.st) /\ UNCHANGED <<imap, nInode, curInode>>
  BY DEF ReadDir
<1> QED
  BY <1>2, <1>3, FsParts, LooksSane

LEMMA GetAttrSane ==
  ASSUME TypeOK, FsSound, Agrees, NEW path, GetAttr(path)
  PROVE  Sane /\ Stays /\ curInode' = curInode
<1> DEFINE found == DirGetInode(Store, IF path = parPath THEN ".." ELSE FileName(path))
<1>1. Looks(Store, found.st) /\ Ready(found.st, TreeRecipes)
  BY FoundRight
<1>2. SetStore(found.st) /\ UNCHANGED <<imap, nInode, curInode>>
  BY DEF GetAttr
<1> QED
  BY <1>1, <1>2, FsParts, LooksSane

\* From the current directory the way up goes on from its parent.
LEMMA ParentSound ==
  ASSUME TypeOK, FsSound
  PROVE  LET p == TreeRecs[curInode.id][1].id
         IN  p \in DOMAIN Tree /\ CurSound(Tree, TreeRecs, Tree[p])
<1> DEFINE c == curInode.id
           p == TreeRecs[c][1].id
<1>1. /\ c \in Dirs(Tree) /\ Tree[c] = curInode /\ DOMAIN TreeRecs = Dirs(Tree)
      /\ \A i \in Dirs(Tree) : i \in DOMAIN Tree /\ i \in Nat \ {0} /\ Tree[i].id = i
      /\ \A i \in Dirs(Tree) : DirSound(Tree, TreeRecs, i)
  BY CurFacts, TreeFacts, FsParts DEF TreeSound, Dirs
<1>2. PICK way \in SUBSET (1 .. c) : WayUp(TreeRecs, c, way)
  BY FsParts DEF CurSound
<1>3. p \in 1 .. c /\ (p = c => c = 1) /\ p = ParentIn(TreeRecs, c)
  BY <1>1 DEF DirSound, ParentIn
<1>4. p \in way
  <2>1. /\ c \in way /\ 1 \in way
        /\ \A i \in way \ {1} : ParentIn(TreeRecs, i) \in way
    BY <1>2 DEF WayUp
  <2> HIDE DEF c, p
  <2>2. c = 1 => p = 1
    BY <1>3
  <2> QED
    BY <1>3, <2>1, <2>2
<1> DEFINE rest == way \cap 1 .. p
<1>5. WayUp(TreeRecs, p, rest)
  <2>1. /\ way \subseteq Dirs(Tree) \cap 1 .. c /\ 1 \in way
        /\ \A i \in way \ {1} : /\ ParentIn(TreeRecs, i) \in way
                                /\ Lists(TreeRecs[ParentIn(TreeRecs, i)], i)
    BY <1>1, <1>2 DEF WayUp
  <2>2. \A i \in rest : ParentIn(TreeRecs, i) \in 1 .. p
    <3>1. \A i \in way : i \in Dirs(Tree) /\ ParentIn(TreeRecs, i) \in 1 .. i
      BY <1>1, <2>1 DEF DirSound, ParentIn
    <3>2. p \in Nat /\ \A i \in way : i \in Nat
      BY <1>1, <1>3, <3>1
    <3> HIDE DEF p
    <3> QED
      BY <3>1, <3>2
  <2>3. p \in rest /\ 1 \in rest
    BY <1>1, <1>3, <1>4, <2>1
  <2>4. rest \subseteq DOMAIN TreeRecs \cap 1 .. p
    BY <1>1, <2>1
  <2> HIDE DEF p
  <2> QED
    BY <2>1, <2>2, <2>3, <2>4 DEF WayUp
<1>6. p \in Dirs(Tree) /\ Tree[p].id = p
  BY <1>1, <1>2, <1>4 DEF WayUp
<1> HIDE DEF p
<1> QED
  BY <1>1, <1>5, <1>6 DEF CurSound, p

\* So it does from a directory that is listed in it.
LEMMA ChildSound ==
  ASSUME TypeOK, FsSound, NEW name \in Names, HasName(CurDir, name),
         Tree[IdOf(CurDir, name)].type = "dir"
  PROVE  CurSound(Tree, TreeRecs, Tree[IdOf(CurDir, name)])
<1> DEFINE c == curInode.id
           i == IdOf(CurDir, name)
<1>1. /\ i \in DOMAIN Tree /\ i > c /\ Lists(TreeRecs[c], i)
      /\ i \in Dirs(Tree) => ParentIn(TreeRecs, i) = c
  BY NamesLead
<1> HIDE DEF i
<1>2. /\ i \in Dirs(Tree) /\ ParentIn(TreeRecs, i) = c /\ Tree[i].id = i
      /\ DOMAIN TreeRecs = Dirs(Tree) /\ i \in Nat \ {0} /\ c \in Nat \ {0}
  BY <1>1, TreeFacts, CurFacts DEF Dirs, i
<1>3. PICK way \in SUBSET (1 .. c) : WayUp(TreeRecs, c, way)
  BY FsParts DEF CurSound
<1>4. /\ way \subseteq Dirs(Tree) \cap 1 .. c /\ 1 \in way /\ c \in way
      /\ \A j \in way \ {1} : /\ ParentIn(TreeRecs, j) \in way
                              /\ Lists(TreeRecs[ParentIn(TreeRecs, j)], j)
  BY <1>2, <1>3 DEF WayUp
<1> DEFINE longer == way \cup {i}
<1>5. longer \in SUBSET (1 .. i)
  <2>1. i \in Nat \ {0} /\ c \in Nat /\ c < i
    BY <1>1, <1>2
  <2> HIDE DEF c
  <2>2. 1 .. c \subseteq 1 .. i /\ i \in 1 .. i
    BY <2>1
  <2> QED
    BY <1>4, <2>2
<1>6. WayUp(TreeRecs, i, longer)
  <2>1. longer \subseteq DOMAIN TreeRecs \cap 1 .. i
    BY <1>2, <1>4, <1>5
  <2>2. \A j \in longer \ {1} : /\ ParentIn(TreeRecs, j) \in longer
                                /\ Lists(TreeRecs[ParentIn(TreeRecs, j)], j)
    BY <1>1, <1>2, <1>4
  <2> QED
    BY <1>4, <2>1, <2>2 DEF WayUp
<1> QED
  BY <1>2, <1>5, <1>6 DEF CurSound, i

LEMMA AccessSane ==
  ASSUME TypeOK, FsSound, Agrees, NEW path \in Paths, Access(path)
  PROVE  /\ Sane /\ Stays
         /\ \/ UNCHANGED <<curInode, curPath, parPath>>
            \/ /\ path = parPath /\ path # curPath
               /\ HasName(CurDir, "..") /\ curInode'.id = IdOf(CurDir, "..")
               /\ curPath' = path /\ parPath' = ParentPath(path)
            \/ /\ path # parPath /\ FileName(path) \in Names
               /\ HasName(CurDir, FileName(path))
               /\ curInode'.id = IdOf(CurDir, FileName(path))
               /\ curPath' = path /\ parPath' = curPath
<1> DEFINE up    == path = parPath
           name  == IF up THEN ".." ELSE FileName(path)
           found == DirGetInode(Store, name)
           i     == IdOf(CurDir, name)
           enter == found.ok /\ (up \/ found.ino.type = "dir")
<1>1. /\ Looks(Store, found.st) /\ Ready(found.st, TreeRecipes)
      /\ found.ok <=> HasName(CurDir, name) /\ i \in DOMAIN Tree
      /\ found.ok => found.ino = Tree[i]
  BY FoundRight
<1>2. /\ SetStore(found.st) /\ UNCHANGED <<imap, nInode>>
      /\ curInode' = IF enter THEN found.ino ELSE curInode
      /\ curPath' = IF enter THEN path ELSE curPath
      /\ parPath' = IF ~enter THEN parPath ELSE IF up THEN ParentPath(path) ELSE curPath
      /\ path # curPath
  BY Zenon DEF Access
<1>3. CASE ~enter
  BY <1>1, <1>2, <1>3, FsParts, LooksSane
<1>4. CASE enter /\ up
  <2>1. curInode' = Tree[TreeRecs[curInode.id][1].id]
    BY <1>1, <1>2, <1>4, NamesLead
  <2>2. HasName(CurDir, "..") /\ curInode'.id = IdOf(CurDir, "..")
    BY <2>1, NamesLead, ParentSound, TreeFacts
  <2>3. path = parPath /\ path # curPath /\ curPath' = path /\ parPath' = ParentPath(path)
    BY <1>2, <1>4
  <2> HIDE DEF found, i
  <2>4. Sane /\ Stays
    BY <1>1, <1>2, <2>1, ParentSound, LooksSane
  <2> QED
    BY <2>2, <2>3, <2>4
<1>5. CASE enter /\ ~up
  <2>1. name \in Names \/ name = ""
    <3>1. PICK n \in 0 .. MaxDepth : path \in [1 .. n -> Names]
      BY DEF Paths
    <3>2. path # <<>> => Len(path) = n /\ n \in 1 .. n
      BY <3>1, LfsAssumption
    <3> QED
      BY <1>5, <3>1, <3>2 DEF FileName
  <2>2. name # ""
    BY <1>1, <1>5, NamesLead, TreeFacts, Zenon
  <2>3. name \in Names /\ HasName(CurDir, name) /\ Tree[i].type = "dir" /\ curInode' = Tree[i]
    BY <1>1, <1>2, <1>5, <2>1, <2>2
  <2> HIDE DEF name
  <2>4. CurSound(Tree, TreeRecs, curInode')
    BY <2>3, ChildSound
  <2>5. curInode'.id = IdOf(CurDir, name)
    BY <1>1, <1>5, <2>3, TreeFacts
  <2>6. /\ path # parPath /\ curPath' = path /\ parPath' = curPath
        /\ name = FileName(path)
    BY <1>2, <1>5 DEF name
  <2> HIDE DEF found, i
  <2>7. Sane /\ Stays
    BY <1>1, <1>2, <2>4, LooksSane
  <2> QED
    BY <2>3, <2>5, <2>6, <2>7
<1> QED
  BY <1>3, <1>4, <1>5

\* The recipe of a live inode has been filled.
LEMMA RecipeFilled ==
  ASSUME TypeOK, FsSound, Agrees, NEW i \in DOMAIN Tree
  PROVE  RecipeThere(Store, Tree[i])
<1>1. /\ Written(Store, imap[i].addr) /\ LogSeg(Store, imap[i].addr).ino = Tree[i]
      /\ LogSeg(Store, imap[i].addr).kind = "inode"
  BY TreeFacts
<1>2. SegSound(Store, DOMAIN ns, LogSeg(Store, imap[i].addr))
  BY <1>1 DEF Agrees, Sound, SegsSound, Written, LogSeg, LogContainer, Image
<1> QED
  BY <1>1, <1>2 DEF SegSound

\* What a file's recipe is, and where.
LEMMA RecipePlace ==
  ASSUME TypeOK, FsSound, Agrees, NEW i \in Files(Tree), Tree[i].recipe # NullAddr
  PROVE  /\ Tree[i].recipe \in Addr /\ Tree[i].recipe \in TreeRecipes
         /\ Tree[i].recipe.cid \in ContainerIds /\ Tree[i].recipe.cid <= buf.id
         /\ Written(Store, Tree[i].recipe)
         /\ RecipeOf(i) = AsRecipe(LogSeg(Store, Tree[i].recipe))
         /\ \A b \in Blocks : RecipeOf(i)[b] \in DOMAIN ns \cup {NoFp}
<1> DEFINE a == Tree[i].recipe
<1>1. i \in DOMAIN Tree /\ i \in LiveFiles /\ LogInode(i) = Tree[i]
  BY LiveIs DEF Files, LiveFiles
<1>2. a \in Addr
  BY <1>1, TreeFacts DEF Inode
<1>3. Written(Store, a)
  BY <1>1, RecipeFilled DEF RecipeThere
<1>4. a.cid \in ContainerIds /\ a.cid <= buf.id
  <2>1. a.cid \in 0 .. Store.buf.id /\ a.cid \in ContainerIds
    BY <1>3, StoreType, WrittenPlaces
  <2> QED
    BY <2>1 DEF Store
<1>5. a \in TreeRecipes
  BY DEF TreeRecipes, RecipesOf
<1>6. RecipeOf(i) = AsRecipe(LogSeg(Store, a))
  BY <1>1 DEF RecipeOf
<1>7. \A b \in Blocks : RecipeOf(i)[b] \in DOMAIN ns \cup {NoFp}
  <2>1. SegSound(Store, DOMAIN ns, LogSeg(Store, a))
    BY <1>3 DEF Agrees, Sound, SegsSound, Written, LogSeg, LogContainer, Image
  <2> QED
    BY <1>6, <2>1 DEF AsRecipe, EmptyRecipe, SegSound
<1> QED
  BY <1>2, <1>3, <1>4, <1>5, <1>6, <1>7

\* The namespace names containers that were begun.
LEMMA NamespacePlaces ==
  ASSUME TypeOK, Agrees, NEW d \in DOMAIN ns
  PROVE  ns[d] \in ContainerIds /\ ns[d] <= buf.id
<1>1. Filed(Store, d, ns[d])
  BY DEF Agrees, Sound, DedupInv, BlocksFiled
<1>2. \E a : Written(Store, a) /\ a.cid = ns[d]
  <2>1. PICK k \in DOMAIN LogContainer(Store, ns[d]).hdr :
          Written(Store, [cid |-> ns[d], seg |-> LogContainer(Store, ns[d]).hdr[k].seg])
    BY <1>1 DEF Filed
  <2> QED
    BY <2>1
<1>3. ns[d] \in 0 .. Store.buf.id /\ ns[d] \in ContainerIds
  BY <1>2, StoreType, WrittenPlaces
<1> QED
  BY <1>3, StoreType

\* lfs_read leaves a cache that can be trusted.
LEMMA ReadBlocksReady ==
  ASSUME TypeOK, Agrees, NEW st, Looks(Store, st), NEW recipes, Ready(st, recipes),
         NEW a, a.cid \in ContainerIds, a.cid <= buf.id, NEW n \in Nat
  PROVE  Ready(ReadBlocks(st, a, n).st, recipes)
<1> DEFINE Good(x) == /\ "st" \in DOMAIN x
                      /\ x.st \in Stores /\ x.st.buf.id = buf.id /\ Ready(x.st, recipes)
<1>1. PICK f : Turns(f, st, a, n) /\ ReadBlocks(st, a, n) = f[n]
  BY ReadBlocksLoop, Zenon
<1>2. ASSUME NEW u \in Stores, u.buf.id = buf.id, Ready(u, recipes),
             NEW cid \in ContainerIds, cid <= buf.id
      PROVE  LET t == Cache(u, cid)
             IN  t \in Stores /\ t.buf.id = buf.id /\ Ready(t, recipes)
  BY <1>2, CacheReady, CacheLooks DEF Looks
<1>3. Good(f[0])
  <2>1. st \in Stores /\ st.buf.id = buf.id
    BY StoreType DEF Looks
  <2> QED
    BY <1>1, <1>2, <2>1 DEF Turns
<1>4. ASSUME NEW x, NEW b, Good(x)
      PROVE  Good(ReadBlock(x, a, b))
  <2> DEFINE fp == AsRecipe(SegAt(x.st, a))[b]
  <2>1. CASE ~x.more \/ fp \notin DOMAIN ns
    <3>1. ReadBlock(x, a, b) = [x EXCEPT !.more = FALSE]
      BY <2>1 DEF ReadBlock
    <3> QED
      BY <1>4, <3>1
  <2>2. CASE ~(~x.more \/ fp \notin DOMAIN ns)
    <3>1. /\ ReadBlock(x, a, b).st = Cache(x.st, ns[fp])
          /\ "st" \in DOMAIN ReadBlock(x, a, b)
      BY <2>2 DEF ReadBlock
    <3>2. ns[fp] \in ContainerIds /\ ns[fp] <= buf.id
      BY <2>2, NamespacePlaces
    <3> HIDE DEF fp
    <3> QED
      BY <1>2, <1>4, <3>1, <3>2
  <2> QED
    BY <2>1, <2>2
<1> HIDE DEF Good
<1>5. Good(f[n])
  <2> DEFINE T == {k \in Nat : k \in 0 .. n => Good(f[k])}
  <2>1. 0 \in T
    BY <1>3
  <2>2. ASSUME NEW k \in Nat, k \in T PROVE k + 1 \in T
    BY <1>1, <1>4, <2>2 DEF Turns
  <2> HIDE DEF T
  <2>3. n \in T
    BY <2>1, <2>2, SetInduction
  <2> QED
    BY <2>3 DEF T
<1> QED
  BY <1>1, <1>5 DEF Good

LEMMA ReadSane ==
  ASSUME TypeOK, FsSound, Agrees, ~EmptyReads, NEW name, NEW n \in 1 .. RecipeNum,
         Read(name, n)
  PROVE  Sane /\ Stays /\ curInode' = curInode
<1> DEFINE found == DirGetInode(Store, name)
           i     == IdOf(CurDir, name)
           blocks == ReadBlocks(found.st, found.ino.recipe, n)
           reply  == ReadFile(found.st, found.ino, n)
<1>1. /\ Looks(Store, found.st) /\ Ready(found.st, TreeRecipes)
      /\ found.ok => i \in DOMAIN Tree /\ found.ino = Tree[i]
  BY FoundRight
<1>2. /\ found.ok => found.ino.size # 0
      /\ SetStore(IF ~found.ok \/ found.ino.recipe = NullAddr THEN found.st ELSE blocks.st)
      /\ UNCHANGED <<imap, nInode, curInode>>
  <2>1. /\ found.ok => found.ino.size # 0
        /\ SetStore(IF found.ok THEN reply.st ELSE found.st)
        /\ UNCHANGED <<imap, nInode, curInode>>
    BY Zenon DEF Read
  <2>2. reply.st = IF found.ino.recipe = NullAddr /\ found.ino.size # 0 THEN found.st
                   ELSE blocks.st
    BY ReadFileParts
  <2> HIDE DEF found, blocks, reply
  <2> QED
    BY <2>1, <2>2
<1>3. CASE ~found.ok \/ found.ino.recipe = NullAddr
  BY <1>1, <1>2, <1>3, FsParts, LooksSane
<1>4. CASE found.ok /\ found.ino.recipe # NullAddr
  <2>1. Written(Store, found.ino.recipe)
    BY <1>1, <1>4, RecipeFilled DEF RecipeThere
  <2>2. /\ found.ino.recipe.cid \in ContainerIds /\ found.ino.recipe.cid <= buf.id
        /\ n \in Nat /\ found.st \in Stores
    BY <1>1, <2>1, StoreType, WrittenPlaces DEF Looks
  <2> HIDE DEF found
  <2>3. Ready(blocks.st, TreeRecipes)
    BY <1>1, <2>2, ReadBlocksReady
  <2>4. Looks(Store, blocks.st)
    BY <1>1, <2>2, ReadBlocksLooks, LooksTrans
  <2>5. SetStore(blocks.st) /\ UNCHANGED <<imap, nInode, curInode>>
    BY <1>2, <1>4
  <2> HIDE DEF blocks
  <2> QED
    BY <2>3, <2>4, <2>5, FsParts, LooksSane
<1> QED
  BY <1>3, <1>4

-----------------------------------------------------------------------------
(* Handlers that change the current directory. *)

\* What dir_commit_changes does to the tree: the current directory has the new
\* records, as far as they are in its first segment, and a new inode.
Relisted(u, im, dir, ids, done) ==
  LET c       == curInode.id
      inodes  == Inodes(done.st, done.imap)
      records == Records(done.st, inodes)
  IN  /\ Appended(u, done.st) /\ done.st.buf.id <= u.buf.id + 3
      /\ done.ino = [curInode EXCEPT !.blk = NextAddr(u)]
      /\ done.imap \in Imaps /\ MapSound(done.st, done.imap, nInode)
      /\ \A j \in 1 .. MaxInode : j # c => done.imap[j] = im[j]
      /\ DOMAIN inodes = LiveIn(im) /\ inodes[c] = done.ino
      /\ \A j \in LiveIn(im) \ {c} : inodes[j] = Inodes(Store, im)[j]
      /\ \A j \in Dirs(Inodes(Store, im)) \ {c} :
           records[j] = Records(Store, Inodes(Store, im))[j]
      /\ Derived(TreeRecs[c], records[c], ids)
      /\ records[c] = FirstSeg(dir)

LEMMA CommitView ==
  ASSUME TypeOK, FsSound, NEW u, Looks(Store, u), u.buf.id + 3 < MaxContainer,
         NEW im \in Imaps, MapSound(Store, im, nInode), curInode.id \in LiveIn(im),
         NEW n, NEW dir \in Seq(DirRecord), NEW ids,
         Derived(TreeRecs[curInode.id], dir, ids)
  PROVE  Relisted(u, im, dir, ids, CommitDir(u, im, n, dir, curInode))
<1> DEFINE c     == curInode.id
           done  == CommitDir(u, im, n, dir, curInode)
           first == SubSeq(dir, 1, Min({RecPerSeg, Len(dir)}))
           ino   == [curInode EXCEPT !.blk = NextAddr(u)]
<1>1. /\ u \in Stores /\ Store \in Stores
      /\ curInode \in Inode /\ c \in InodeIds /\ nInode \in Nat
      /\ c \in 1 .. MaxInode /\ c <= nInode
      /\ curInode.type = "dir"
  BY StoreType, Before, CurFacts, TreeFacts DEF Looks, Inode, Dirs
<1>2. dir # <<>>
  BY DEF Derived
<1>3. /\ Appended(u, done.st)
      /\ done.ino = ino
      /\ Written(done.st, NextAddr(u)) /\ LogSeg(done.st, NextAddr(u)) = DirSeg(first)
      /\ \E a \in Addr : /\ done.imap = PutInode(im, n, c, a)
                         /\ Written(done.st, a) /\ LogSeg(done.st, a) = InodeSeg(done.ino)
  <2>1. u.buf.id + 2 < MaxContainer
    BY <1>1, BufId, ContainerAssumption
  <2>2. Committed(u, im, n, dir, curInode, done)
    BY <1>1, <1>2, <2>1, CommitDirShape
  <2> HIDE DEF done, first
  <2>3. c = curInode.id /\ first = SubSeq(dir, 1, Min({RecPerSeg, Len(dir)}))
    BY DEF first
  <2> HIDE DEF c
  <2> QED
    BY <2>2, <2>3 DEF Committed
<1>4. done.st.buf.id <= u.buf.id + 3
  <2>1. Grows(u, done.st, 3)
    BY <1>1, CommitDirGrows DEF Imaps
  <2> HIDE DEF done
  <2> QED
    BY <1>1, <2>1, BufId DEF Grows
<1> HIDE DEF done
<1>5. /\ done.st \in Stores /\ Keeps(Store, done.st)
  <2>1. Keeps(Store, u)
    BY <1>1, LooksSound
  <2>2. Keeps(u, done.st)
    BY <1>3, KeepsSame DEF Appended
  <2> QED
    BY <1>3, <2>1, <2>2, KeepsTrans DEF Appended
<1>6. /\ MapSound(done.st, im, nInode)
      /\ Inodes(done.st, im) = Inodes(Store, im)
      /\ Records(done.st, Inodes(done.st, im)) = Records(Store, Inodes(Store, im))
  BY <1>5, KeptView
<1>7. PICK a \in Addr : /\ done.imap = PutInode(im, n, c, a)
                        /\ Written(done.st, a) /\ LogSeg(done.st, a) = InodeSeg(ino)
  BY <1>3
<1>8. done.imap = Put(im, c, a)
  BY <1>1, <1>6, <1>7, SlotsFound
<1>9. done.imap \in Imaps
  <2>1. [id |-> c, addr |-> a] \in Slot
    BY <1>1 DEF Slot
  <2> QED
    BY <1>8, <2>1 DEF Imaps, Put
<1>10. \A j \in 1 .. MaxInode : j # c => done.imap[j] = im[j]
  BY <1>8 DEF Imaps, Put
<1>11. /\ first \in Seq(DirRecord)
       /\ Derived(TreeRecs[c], first, ids)
  BY PartDerived
<1>12. ino.id = c /\ ino.type = "dir" /\ ino.blk = NextAddr(u)
  BY <1>1 DEF Inode
<1> first = FirstSeg(dir)
  BY DEF FirstSeg
<1> HIDE DEF ino, c, first
<1>13. Written(done.st, ino.blk) /\ LogSeg(done.st, ino.blk).kind = "dir"
       /\ LogSeg(done.st, ino.blk).recs = first
  <2>1. DirSeg(first).kind = "dir" /\ DirSeg(first).recs = first
    BY DEF DirSeg
  <2> QED
    BY <1>3, <1>12, <2>1
<1> DEFINE inodes  == Inodes(done.st, done.imap)
           records == Records(done.st, inodes)
<1>14. /\ MapSound(done.st, done.imap, nInode)
       /\ DOMAIN inodes = DOMAIN Inodes(Store, im) \cup {c}
       /\ inodes[c] = ino
       /\ \A j \in DOMAIN Inodes(Store, im) \ {c} : inodes[j] = Inodes(Store, im)[j]
       /\ records[c] = first
       /\ \A j \in Dirs(Inodes(Store, im)) \ {c} :
            records[j] = Records(Store, Inodes(Store, im))[j]
  <2> DEFINE im2      == Put(im, c, a)
             inodes2  == Inodes(done.st, im2)
             inodes1  == Inodes(done.st, im)
             records2 == Records(done.st, inodes2)
  <2>1. MapSound(done.st, im2, nInode) /\ WithInode(done.st, im, im2, c, ino)
    <3>1. nInode <= nInode /\ ino.type \in {"file", "dir"}
      BY <1>1, <1>12
    <3> QED
      BY <1>1, <1>6, <1>7, <1>12, <1>13, <3>1, PutView
  <2>2. inodes2 = inodes /\ records2 = records
    BY <1>8
  <2> QED
    BY <1>6, <1>8, <1>12, <1>13, <2>1, <2>2 DEF WithInode
<1>15. DOMAIN Inodes(Store, im) = LiveIn(im) /\ c \in LiveIn(im)
  BY DEF Inodes, c
<1> HIDE DEF inodes, records
<1> QED
  BY <1>3, <1>4, <1>9, <1>10, <1>11, <1>14, <1>15 DEF c, done, ino, inodes, records, Relisted

\* A handler that puts new records into the current directory, and perhaps makes
\* an inode, leaves everything else as it was.
LEMMA CommitSane ==
  ASSUME TypeOK, FsSound, Agrees, NEW u, Looks(Store, u), Ready(u, TreeRecipes),
         NEW t, Appended(u, t), SetStore(t), MapSound(t, imap', nInode'),
         NEW new,
         Replaced(Tree, TreeRecs, Inodes(t, imap'), Records(t, Inodes(t, imap')),
                  curInode.id, new),
         curInode' = [curInode EXCEPT !.blk = NextAddr(u)],
         Inodes(t, imap')[curInode.id] = curInode', StaysDead
  PROVE  Sane
<1> DEFINE c       == curInode.id
           inodes  == Inodes(t, imap')
           records == Records(t, inodes)
<1>1. /\ t \in Stores /\ u \in Stores /\ Store \in Stores /\ u.buf.id \in Nat
      /\ \A a : (Written(u, a) <=> Written(Store, a)) /\ LogSeg(u, a) = LogSeg(Store, a)
      /\ \A a : Written(Store, a) => LogSeg(t, a) = LogSeg(Store, a)
  <2>1. t \in Stores /\ u \in Stores /\ Store \in Stores
    BY StoreType DEF Looks, Appended
  <2>2. \A a : (Written(u, a) <=> Written(Store, a)) /\ LogSeg(u, a) = LogSeg(Store, a)
    BY DEF Looks, Written, LogContainer, LogSeg
  <2> QED
    BY <2>1, <2>2, BufId DEF Appended
<1>2. /\ curInode' \in Inode /\ curInode'.id = c /\ curInode'.blk = NextAddr(u)
      /\ curInode \in Inode
  BY <1>1, Before, NextAddrType DEF Inode
<1>3. /\ TreeSound(inodes, records)
      /\ \A way : WayUp(TreeRecs, c, way) => WayUp(records, c, way)
  <2>1. DOMAIN records = Dirs(inodes)
    BY DEF Records
  <2>2. TreeSound(Tree, TreeRecs) /\ c \in Dirs(Tree)
    BY FsParts, CurFacts
  <2> HIDE DEF inodes, records
  <2>3. Replaced(Tree, TreeRecs, inodes, records, c, new)
    BY DEF inodes, records
  <2> QED
    <3>1. DOMAIN Tree \subseteq Nat \ {0} /\ DOMAIN TreeRecs = Dirs(Tree)
      BY TreeFacts
    <3> QED
      BY <2>1, <2>2, <2>3, <3>1, TreeKept, Zenon
<1> HIDE DEF inodes, records
<1>4. Replaced(Tree, TreeRecs, inodes, records, c, new)
  BY DEF inodes, records
<1>5. CurSound(inodes, records, curInode')
  <2>1. c \in Dirs(inodes) /\ inodes[c] = curInode'
    BY <1>4 DEF Dirs, Replaced, inodes
  <2>2. \E way \in SUBSET (1 .. c) : WayUp(TreeRecs, c, way)
    BY FsParts DEF CurSound
  <2> HIDE DEF c
  <2> QED
    BY <1>2, <1>3, <2>1, <2>2 DEF CurSound
<1>6. CacheSound(t, RecipesOf(inodes), curInode'.blk)
  <2>1. ASSUME NEW a \in RecipesOf(inodes), a.cid < u.buf.id
        PROVE  a \in TreeRecipes
    <3>1. PICK i \in Files(inodes) : a = inodes[i].recipe
      BY DEF RecipesOf
    <3>2. i \in DOMAIN inodes /\ inodes[i].type = "file" /\ i # c
      BY <1>4, <3>1 DEF Files, Replaced
    <3>3. u.buf.id < MaxContainer /\ NullAddr.cid = MaxContainer
      BY <1>1, BufId, ContainerAssumption DEF ContainerIds, NullAddr
    <3>4. i \notin new
      BY <1>1, <1>4, <2>1, <3>1, <3>3, ContainerAssumption DEF Replaced
    <3>5. i \in DOMAIN Tree /\ Tree[i] = inodes[i]
      BY <1>4, <3>2, <3>4 DEF Replaced
    <3> QED
      BY <3>1, <3>2, <3>5 DEF TreeRecipes, RecipesOf, Files
  <2>2. NextAddr(u).cid = u.buf.id
    BY DEF NextAddr
  <2> QED
    BY <1>1, <1>2, <2>1, <2>2, AppendedReady
<1>7. FsSound'
  BY <1>1, <1>3, <1>5, <1>6, EndsInFsSound DEF inodes, records
<1>8. FilesKept
  <2>1. \A i \in Files(Tree) : imap[i].addr # NullAddr
    BY <1>1, TreeFacts, WrittenNotNull DEF Files
  <2> QED
    BY <1>1, <2>1, FilesSame
<1> QED
  BY <1>7, <1>8 DEF Sane

\* What the current directory lists is live.
LEMMA ListedLive ==
  ASSUME TypeOK, FsSound
  PROVE  IdsIn(TreeRecs[curInode.id]) \subseteq DOMAIN Tree
<1>1. DirSound(Tree, TreeRecs, curInode.id)
  BY CurFacts, FsParts DEF TreeSound
<1> QED
  BY <1>1, HoleIs DEF IdsIn, DirSound

\* lfs_rename, lfs_unlink and lfs_rmdir: im is the map without the inodes that
\* are gone, ids is what the directory still lists.
LEMMA RelistSane ==
  ASSUME TypeOK, FsSound, Agrees, Room, NEW u, Looks(Store, u), Ready(u, TreeRecipes),
         NEW im \in Imaps, MapSound(Store, im, nInode),
         LiveIn(im) \subseteq DOMAIN Tree, curInode.id \in LiveIn(im),
         DOMAIN Tree \ LiveIn(im) \subseteq IdsIn(TreeRecs[curInode.id]),
         \A j \in LiveIn(im) : Inodes(Store, im)[j] = Tree[j] /\ im[j] = imap[j],
         \A j \in LiveIn(im) \cap Dirs(Tree) : Records(Store, Inodes(Store, im))[j] = TreeRecs[j],
         \A j \in 1 .. nInode : imap[j].id = 0 => im[j].id = 0,
         NEW dir \in Seq(DirRecord), NEW ids, Derived(TreeRecs[curInode.id], dir, ids),
         ids \subseteq IdsIn(TreeRecs[curInode.id]) \cap LiveIn(im),
         SetStore(CommitDir(u, im, nInode, dir, curInode).st),
         imap' = CommitDir(u, im, nInode, dir, curInode).imap,
         curInode' = CommitDir(u, im, nInode, dir, curInode).ino,
         nInode' = nInode
  PROVE  Sane /\ Relists(dir, DOMAIN Tree \ LiveIn(im), {})
<1> DEFINE c       == curInode.id
           done    == CommitDir(u, im, nInode, dir, curInode)
           inodes  == Inodes(done.st, done.imap)
           records == Records(done.st, inodes)
<1>1. u.buf.id + 3 < MaxContainer
  BY StoreType, ContainerAssumption DEF Looks, Room
<1> Relisted(u, im, dir, ids, done)
  BY <1>1, CommitView
<1> HIDE DEF done
<1>2. /\ Appended(u, done.st)
      /\ done.ino = [curInode EXCEPT !.blk = NextAddr(u)]
      /\ done.imap \in Imaps /\ MapSound(done.st, done.imap, nInode)
      /\ \A j \in 1 .. MaxInode : j # c => done.imap[j] = im[j]
      /\ DOMAIN inodes = LiveIn(im) /\ inodes[c] = done.ino
      /\ \A j \in LiveIn(im) \ {c} : inodes[j] = Inodes(Store, im)[j]
      /\ \A j \in Dirs(Inodes(Store, im)) \ {c} :
           records[j] = Records(Store, Inodes(Store, im))[j]
      /\ Derived(TreeRecs[c], records[c], ids)
      /\ records[c] = FirstSeg(dir)
  BY DEF Relisted
<1>3. /\ c \in DOMAIN Tree /\ curInode \in Inode /\ curInode.type = "dir"
      /\ Tree[c] = curInode /\ imap[c].id = c /\ c # 0
      /\ nInode \in 1 .. MaxInode
  BY CurFacts, TreeFacts, Before DEF Dirs
<1> HIDE DEF inodes, records
<1>4. Replaced(Tree, TreeRecs, inodes, records, c, {})
  <2>1. inodes[c].type = "dir"
    BY <1>2, <1>3 DEF Inode
  <2>2. \A i \in DOMAIN inodes : i # c => inodes[i] = Tree[i]
    BY <1>2
  <2>3. \A i \in Dirs(inodes) : i # c => records[i] = TreeRecs[i]
    <3>1. \A i \in Dirs(inodes) : i # c => i \in LiveIn(im) /\ i \in Dirs(Tree)
                                           /\ i \in Dirs(Inodes(Store, im))
      BY <1>2, <2>2 DEF Dirs, Inodes
    <3> QED
      BY <1>2, <3>1
  <2> QED
    BY <1>2, <2>1, <2>2, <2>3 DEF Replaced
<1>5. StaysDead
  <2> SUFFICES ASSUME NEW j \in 1 .. nInode, imap[j].id = 0
               PROVE  imap'[j].id = 0
    BY DEF StaysDead
  <2>1. j # c /\ j \in 1 .. MaxInode
    BY <1>3, LfsAssumption
  <2> QED
    BY <1>2, <2>1 DEF done
<1>6. imap' = done.imap /\ curInode' = done.ino /\ SetStore(done.st)
  BY DEF done
<1>7. Relists(dir, DOMAIN Tree \ LiveIn(im), {})
  <2>1. Tree' = inodes /\ TreeRecs' = records
    <3>1. Store' = done.st
      BY <1>2, <1>6, SetStoreIs DEF Appended
    <3> QED
      BY <1>6, <3>1 DEF inodes, records, Tree, TreeRecs
  <2>2. /\ \A i \in DOMAIN inodes : i # c => inodes[i] = Tree[i] /\ imap'[i] = imap[i]
        /\ \A i \in Dirs(inodes) : i # c => records[i] = TreeRecs[i]
        /\ c \in Dirs(inodes)
    <3>1. \A i \in LiveIn(im) : i \in 1 .. MaxInode
      BY DEF LiveIn, Imaps
    <3> QED
      BY <1>2, <1>4, <1>6, <3>1 DEF Replaced, Dirs
  <2>3. curInode'.id = c
    BY <1>2, <1>3, <1>6 DEF Inode
  <2> HIDE DEF c
  <2>4. DOMAIN inodes = (DOMAIN Tree \ (DOMAIN Tree \ LiveIn(im))) \cup {}
    BY <1>2
  <2> QED
    BY <1>2, <2>1, <2>2, <2>3, <2>4 DEF Relists, c
<1>8. Sane
  <2>1. /\ Appended(u, done.st) /\ MapSound(done.st, imap', nInode')
        /\ Inodes(done.st, imap')[c] = curInode'
        /\ curInode' = [curInode EXCEPT !.blk = NextAddr(u)]
    BY <1>2, <1>6 DEF inodes
  <2>2. Replaced(Tree, TreeRecs, Inodes(done.st, imap'), Records(done.st, Inodes(done.st, imap')),
                 c, {})
    BY <1>4, <1>6 DEF inodes, records
  <2> QED
    BY <1>5, <1>6, <2>1, <2>2, CommitSane, Zenon
<1> QED
  BY <1>7, <1>8

LEMMA RenameSane ==
  ASSUME TypeOK, FsSound, Agrees, NEW old \in Names, NEW new \in Names, Rename(old, new)
  PROVE  /\ Sane
         /\ \/ Stays /\ curInode' = curInode
            \/ /\ HasName(CurDir, old) /\ (RenameOnto \/ old = new \/ ~HasName(CurDir, new))
               /\ Relists(ChangeEntry(CurDir, old, new), {}, {}) /\ nInode' = nInode
<1> DEFINE open == OpenCurDir(Store, curInode)
           dir  == ChangeEntry(CurDir, old, new)
           here == CommitDir(open.st, imap, nInode, dir, curInode)
<1>1. Looks(Store, Store)
  BY StoreType DEF Looks
<1>2. open.dir = CurDir /\ Ready(open.st, TreeRecipes) /\ Looks(Store, open.st)
  BY <1>1, FsParts, OpenedRight
<1>3. CASE ~HasName(CurDir, old)
  <2>1. SetStore(open.st) /\ UNCHANGED <<imap, nInode, curInode>>
    BY <1>2, <1>3 DEF Rename
  <2> QED
    BY <1>2, <2>1, FsParts, LooksSane
<1>4. CASE HasName(CurDir, old)
  <2>1. /\ Room /\ SetStore(here.st) /\ imap' = here.imap /\ curInode' = here.ino
        /\ nInode' = nInode /\ (RenameOnto \/ old = new \/ ~HasName(CurDir, new))
    BY <1>2, <1>4 DEF Rename
  <2>2. /\ WellFormed(TreeRecs[curInode.id]) /\ curInode.id \in LiveIn(imap)
        /\ DOMAIN Tree = LiveIn(imap)
    BY CurFacts, TreeFacts
  <2>3. dir \in Seq(DirRecord) /\ Derived(TreeRecs[curInode.id], dir, IdsIn(TreeRecs[curInode.id]))
    BY <1>4, <2>2, OpenedPart, EditedDirType, ChangeDerived DEF CurDir, AllNames
  <2>4. imap \in Imaps /\ MapSound(Store, imap, nInode)
    BY Before, FsParts DEF Imaps
  <2>5. /\ \A j \in LiveIn(imap) : Inodes(Store, imap)[j] = Tree[j] /\ imap[j] = imap[j]
        /\ \A j \in LiveIn(imap) \cap Dirs(Tree) :
             Records(Store, Inodes(Store, imap))[j] = TreeRecs[j]
    BY DEF Tree, TreeRecs
  <2>6. IdsIn(TreeRecs[curInode.id]) \subseteq IdsIn(TreeRecs[curInode.id]) \cap LiveIn(imap)
    BY <2>2, ListedLive
  <2> HIDE DEF open, dir
  <2>7. Sane /\ Relists(dir, DOMAIN Tree \ LiveIn(imap), {})
    BY <1>2, <2>1, <2>2, <2>3, <2>4, <2>5, <2>6, RelistSane
  <2>8. DOMAIN Tree \ LiveIn(imap) = {}
    BY <2>2
  <2> QED
    BY <1>4, <2>1, <2>7, <2>8 DEF dir
<1> QED
  BY <1>3, <1>4

LEMMA RemoveNameSane ==
  ASSUME TypeOK, FsSound, Agrees, NEW name \in Names, RemoveName(name)
  PROVE  /\ Sane
         /\ \/ Stays /\ curInode' = curInode
            \/ /\ HasName(CurDir, name) /\ nInode' = nInode
               /\ Relists(RemoveEntry(CurDir, name), {IdOf(CurDir, name)}, {})
<1> DEFINE open == OpenCurDir(Store, curInode)
           c    == curInode.id
           i    == IdOf(CurDir, name)
           im   == DropInode(imap, nInode, i)
           dir  == RemoveEntry(CurDir, name)
           here == CommitDir(open.st, im, nInode, dir, curInode)
<1>1. Looks(Store, Store)
  BY StoreType DEF Looks
<1>2. open.dir = CurDir /\ Ready(open.st, TreeRecipes) /\ Looks(Store, open.st)
  BY <1>1, FsParts, OpenedRight
<1>3. CASE ~HasName(CurDir, name)
  <2>1. SetStore(open.st) /\ UNCHANGED <<imap, nInode, curInode>>
    BY <1>2, <1>3 DEF RemoveName
  <2> QED
    BY <1>2, <2>1, FsParts, LooksSane
<1>4. CASE HasName(CurDir, name)
  <2>1. /\ Room /\ SetStore(here.st) /\ imap' = here.imap /\ curInode' = here.ino
        /\ nInode' = nInode
    BY <1>2, <1>4 DEF RemoveName
  <2>2. /\ WellFormed(TreeRecs[c]) /\ c \in LiveIn(imap)
        /\ DOMAIN Tree = LiveIn(imap)
    BY CurFacts, TreeFacts
  <2>3. /\ dir \in Seq(DirRecord)
        /\ Derived(TreeRecs[c], dir, IdsIn(TreeRecs[c]) \ {i})
    BY <1>4, <2>2, OpenedPart, EditedDirType, RemoveDerived DEF CurDir
  <2>4. imap \in Imaps /\ MapSound(Store, imap, nInode) /\ nInode \in Nat
        /\ nInode \in 1 .. MaxInode
    BY Before, FsParts DEF Imaps
  <2>5. i \in DOMAIN Tree /\ i > c /\ i \in IdsIn(TreeRecs[c]) /\ i # 0 /\ i \in InodeIds
    <3>1. CurDir \in Seq(DirRecord)
      BY <2>2, OpenedPart DEF CurDir
    <3> QED
      BY <1>4, <3>1, NamesLead, TreeFacts, IdOfType
  <2>6. im \in Imaps
    BY <2>4, <2>5, ImapType DEF Imaps
  <2>7. /\ MapSound(Store, im, nInode)
        /\ DOMAIN Inodes(Store, im) = DOMAIN Tree \ {i}
        /\ \A j \in DOMAIN Tree \ {i} : Inodes(Store, im)[j] = Tree[j] /\ im[j] = imap[j]
        /\ \A j \in DOMAIN imap : imap[j].id = 0 => im[j].id = 0
        /\ \A j \in Dirs(Tree) \ {i} : Records(Store, Inodes(Store, im))[j] = TreeRecs[j]
    <3>1. TreeRecs = Records(Store, Inodes(Store, imap)) /\ Tree = Inodes(Store, imap)
      BY DEF Tree, TreeRecs
    <3>2. MapSound(Store, im, nInode) /\ WithoutInode(Store, imap, im, i)
      BY <2>4, <2>5, DropView
    <3> HIDE DEF i, im
    <3> QED
      BY <3>1, <3>2 DEF WithoutInode
  <2>8. LiveIn(im) = DOMAIN Tree \ {i}
    BY <2>7 DEF Inodes
  <2>9. i # c
    BY <2>5, CurFacts, TreeFacts
  <2>10. IdsIn(TreeRecs[c]) \ {i} \subseteq IdsIn(TreeRecs[c]) \cap LiveIn(im)
    BY <2>8, ListedLive
  <2>11. \A j \in 1 .. nInode : imap[j].id = 0 => im[j].id = 0
    BY <2>4, <2>7, LfsAssumption DEF Imaps
  <2> HIDE DEF open, dir, im, i
  <2>12. Sane /\ Relists(dir, DOMAIN Tree \ LiveIn(im), {})
    BY <1>2, <2>1, <2>2, <2>3, <2>4, <2>5, <2>6, <2>7, <2>8, <2>9, <2>10, <2>11, RelistSane
  <2>13. DOMAIN Tree \ LiveIn(im) = {i}
    BY <2>5, <2>8
  <2> QED
    BY <1>4, <2>1, <2>12, <2>13 DEF dir, i
<1> QED
  BY <1>3, <1>4

\* lfs_mkdir and lfs_create: the current directory lists inode n, which the map
\* now has.
LEMMA BornSane ==
  ASSUME TypeOK, FsSound, Agrees, NEW u, Looks(Store, u), Ready(u, TreeRecipes),
         NEW n, n = nInode + 1, n <= MaxInode,
         NEW dir, NEW here,
         Relisted(u, imap, dir, IdsIn(TreeRecs[curInode.id]) \cup {n}, here),
         NEW t, Appended(here.st, t), SetStore(t),
         NEW a, NEW ino, Written(t, a), LogSeg(t, a) = InodeSeg(ino), ino.id = n,
         \/ ino.type = "file" /\ ino.recipe = NullAddr
         \/ /\ ino.type = "dir"
            /\ Written(t, ino.blk)
            /\ LogSeg(t, ino.blk) = DirSeg(NewDirRecords(curInode.id, n)),
         imap' = Put(here.imap, n, a), nInode' = n, curInode' = here.ino
  PROVE  /\ Sane /\ Relists(dir, {}, {n}) /\ Tree'[n] = ino
         /\ ino.type = "dir" => TreeRecs'[n] = NewDirRecords(curInode.id, n)
<1> DEFINE c        == curInode.id
           ids      == IdsIn(TreeRecs[c]) \cup {n}
           im2      == Put(here.imap, n, a)
           inodes1  == Inodes(here.st, here.imap)
           records1 == Records(here.st, inodes1)
           inodes   == Inodes(t, im2)
           records  == Records(t, inodes)
<1>1. /\ Appended(u, here.st)
      /\ here.ino = [curInode EXCEPT !.blk = NextAddr(u)]
      /\ here.imap \in Imaps /\ MapSound(here.st, here.imap, nInode)
      /\ \A j \in 1 .. MaxInode : j # c => here.imap[j] = imap[j]
      /\ DOMAIN inodes1 = DOMAIN Tree /\ inodes1[c] = here.ino
      /\ \A j \in DOMAIN Tree \ {c} : inodes1[j] = Tree[j]
      /\ \A j \in Dirs(Tree) \ {c} : records1[j] = TreeRecs[j]
      /\ Derived(TreeRecs[c], records1[c], ids) /\ records1[c] = FirstSeg(dir)
  <2>1. /\ Tree = Inodes(Store, imap) /\ TreeRecs = Records(Store, Inodes(Store, imap))
        /\ DOMAIN Tree = LiveIn(imap)
    BY DEF Tree, TreeRecs, Inodes
  <2> QED
    BY <2>1 DEF Relisted
<1>2. /\ c \in DOMAIN Tree /\ curInode \in Inode /\ curInode.type = "dir"
      /\ Tree[c] = curInode /\ imap[c].id = c /\ c # 0
      /\ nInode \in 1 .. MaxInode /\ DOMAIN Tree \subseteq 1 .. nInode
  BY CurFacts, TreeFacts, Before DEF Dirs
<1>3. n \in 1 .. MaxInode /\ n \in Nat /\ nInode \in Nat /\ nInode <= n
  BY <1>2, LfsAssumption
<1>4. /\ u \in Stores /\ here.st \in Stores /\ t \in Stores
      /\ Appended(u, t) /\ Keeps(here.st, t)
  <2>1. u \in Stores /\ here.st \in Stores /\ t \in Stores
    BY <1>1 DEF Appended, Looks
  <2>2. Appended(u, t)
    BY <1>1, <2>1, AppendedTrans
  <2>3. Keeps(here.st, t)
    BY KeepsSame DEF Appended
  <2> QED
    BY <2>1, <2>2, <2>3
<1>5. /\ MapSound(t, here.imap, nInode)
      /\ Inodes(t, here.imap) = inodes1 /\ Records(t, inodes1) = records1
  BY <1>1, <1>4, KeptView
<1>6. MapSound(t, im2, n) /\ WithInode(t, here.imap, im2, n, ino)
  <2>1. /\ ino.type \in {"file", "dir"}
        /\ ino.type = "dir" => Written(t, ino.blk) /\ LogSeg(t, ino.blk).kind = "dir"
    BY DEF DirSeg
  <2>2. n <= n /\ here.imap \in Imaps
    BY <1>1, <1>3
  <2> QED
    BY <1>3, <1>5, <2>1, <2>2, PutView
<1> HIDE DEF inodes, records, inodes1, records1, ids, im2
<1>7. /\ DOMAIN inodes = DOMAIN Tree \cup {n} /\ inodes[n] = ino
      /\ \A j \in DOMAIN Tree \ {n} : inodes[j] = inodes1[j]
      /\ ino.type = "dir" => records[n] = LogSeg(t, ino.blk).recs
      /\ \A j \in Dirs(inodes1) \ {n} : records[j] = records1[j]
  BY <1>1, <1>5, <1>6 DEF WithInode, inodes, records
<1>8. n \notin DOMAIN Tree /\ c # n /\ \A i \in DOMAIN Tree : i < n
  BY <1>2, <1>3
<1>9. /\ Replaced(Tree, TreeRecs, inodes, records, c, {n})
      /\ \A i \in Dirs(inodes) : i \notin {n} /\ i # c => records[i] = TreeRecs[i]
      /\ c \in Dirs(inodes) /\ records[c] = FirstSeg(dir)
      /\ n \in Dirs(inodes) => records[n] = NewDirRecords(c, n)
  <2>1. inodes[c] = here.ino /\ here.ino.type = "dir"
    BY <1>1, <1>2, <1>7, <1>8 DEF Inode
  <2>2. \A i \in DOMAIN inodes : i \notin {n} /\ i # c => inodes[i] = Tree[i]
    BY <1>1, <1>7
  <2>3. \A i \in Dirs(inodes) : i \notin {n} /\ i # c => records[i] = TreeRecs[i]
    <3>1. \A i \in Dirs(inodes) : i \notin {n} /\ i # c => i \in Dirs(Tree) /\ i \in Dirs(inodes1)
      BY <1>1, <1>7, <2>2 DEF Dirs
    <3> QED
      BY <1>1, <1>7, <3>1
  <2>4. n \in Files(inodes) => inodes[n].recipe = NullAddr
    BY <1>7 DEF Files
  <2>5. n \in Dirs(inodes) => records[n] = NewDirRecords(c, n)
    BY <1>7 DEF Dirs, DirSeg
  <2>6. records[c] = records1[c]
    BY <1>1, <1>2, <1>7, <1>8, <2>1 DEF Dirs
  <2>7. ids \subseteq (IdsIn(TreeRecs[c]) \cup {n}) \cap DOMAIN inodes
    BY <1>7, ListedLive DEF ids
  <2>8. Derived(TreeRecs[c], records[c], ids)
    BY <1>1, <2>6
  <2>9. {n} \subseteq Nat /\ \A m \in {n}, i \in DOMAIN Tree : i < m
    BY <1>3, <1>8
  <2>10. /\ DOMAIN inodes \subseteq DOMAIN Tree \cup {n}
         /\ c \in DOMAIN inodes
         /\ \A i \in DOMAIN Tree : i \in DOMAIN inodes
    BY <1>2, <1>7
  <2> HIDE DEF c
  <2> QED
    <3>1. Replaced(Tree, TreeRecs, inodes, records, c, {n})
      BY <2>1, <2>2, <2>3, <2>4, <2>5, <2>7, <2>8, <2>9, <2>10 DEF Replaced
    <3>2. c \in Dirs(inodes)
      BY <2>1, <2>10 DEF Dirs
    <3> QED
      BY <1>1, <2>3, <2>5, <2>6, <3>1, <3>2
<1>10. StaysDead
  <2> SUFFICES ASSUME NEW j \in 1 .. nInode, imap[j].id = 0
               PROVE  imap'[j].id = 0
    BY DEF StaysDead
  <2>1. j # c /\ j \in 1 .. MaxInode /\ j # n
    BY <1>2, <1>3, LfsAssumption
  <2>2. im2[j] = here.imap[j]
    BY <1>1, <2>1 DEF im2, Put, Imaps
  <2> QED
    BY <1>1, <2>1, <2>2 DEF im2
<1>11. imap' = im2 /\ inodes[c] = curInode'
  BY <1>1, <1>2, <1>7, <1>8 DEF im2
<1>12. Tree' = inodes /\ TreeRecs' = records
  <2>1. Store' = t
    BY <1>4, SetStoreIs
  <2> QED
    BY <1>11, <2>1 DEF inodes, records, Tree, TreeRecs
<1>13. Relists(dir, {}, {n})
  <2>1. \A i \in DOMAIN inodes : i \notin {n} /\ i # c => inodes[i] = Tree[i] /\ imap'[i] = imap[i]
    <3>1. \A i \in DOMAIN Tree : i # c /\ i # n => im2[i] = here.imap[i] /\ here.imap[i] = imap[i]
      BY <1>1, TreeFacts DEF im2, Put, Imaps
    <3> QED
      BY <1>1, <1>7, <1>11, <3>1
  <2>2. curInode'.id = c
    BY <1>1, <1>2 DEF Inode
  <2>3. DOMAIN inodes = (DOMAIN Tree \ {}) \cup {n}
    BY <1>7
  <2> HIDE DEF c
  <2> QED
    BY <1>9, <1>12, <2>1, <2>2, <2>3 DEF Relists, c
<1>14. n \in Dirs(inodes) <=> ino.type = "dir"
  BY <1>7 DEF Dirs
<1>15. Sane
  BY <1>1, <1>4, <1>6, <1>9, <1>10, <1>11, CommitSane DEF inodes, records
<1> QED
  BY <1>7, <1>9, <1>12, <1>13, <1>14, <1>15

LEMMA CreateSane ==
  ASSUME TypeOK, FsSound, Agrees, NEW name \in Names, Create(name)
  PROVE  /\ Sane
         /\ \/ Stays /\ curInode' = curInode
            \/ LET n == nInode + 1
               IN  /\ n <= MaxInode /\ nInode' = n /\ ~HasName(CurDir, name)
                   /\ Relists(AddEntry(CurDir, name, n), {}, {n})
                   /\ Tree'[n] = NewFile(n)
<1> DEFINE found == DirGetInode(Store, name)
           open  == OpenCurDir(found.st, curInode)
           c     == curInode.id
           n     == nInode + 1
           dir   == AddEntry(CurDir, name, n)
           here  == CommitDir(open.st, imap, n, dir, curInode)
           t     == AddSeg(here.st, InodeSeg(NewFile(n)))
           a     == NextAddr(here.st)
<1>1. /\ Looks(Store, found.st) /\ Ready(found.st, TreeRecipes)
      /\ found.ok <=> HasName(CurDir, name) /\ IdOf(CurDir, name) \in DOMAIN Tree
  BY FoundRight
<1>2. CASE found.ok
  <2>1. SetStore(found.st) /\ UNCHANGED <<imap, nInode, curInode>>
    BY <1>2 DEF Create
  <2> QED
    BY <1>1, <2>1, FsParts, LooksSane
<1>3. CASE ~found.ok
  <2>1. open.dir = CurDir /\ Ready(open.st, TreeRecipes) /\ Looks(Store, open.st)
    BY <1>1, CacheAgain, OpenedRight
  <2>2. /\ Room /\ n <= MaxInode /\ nInode' = n
        /\ imap' = [here.imap EXCEPT ![n] = [id |-> n, addr |-> a]]
        /\ SetStore(t) /\ curInode' = here.ino
    BY <1>3, <2>1, Zenon DEF Create
  <2>3. /\ open.st.buf.id = buf.id /\ open.st.buf.id \in Nat
        /\ open.st.buf.id + 3 < MaxContainer
    BY <2>1, <2>2, StoreType, ContainerAssumption DEF Looks, Room
  <2>4. /\ WellFormed(TreeRecs[c]) /\ c \in LiveIn(imap)
        /\ n \in InodeIds /\ n # 0 /\ n \notin IdsIn(TreeRecs[c])
        /\ imap \in Imaps /\ MapSound(Store, imap, nInode)
    BY <2>2, CurFacts, TreeFacts, ListedLive, Before, FsParts, LfsAssumption
    DEF InodeIds, Imaps
  <2>5. dir \in Seq(DirRecord) /\ Derived(TreeRecs[c], dir, IdsIn(TreeRecs[c]) \cup {n})
    BY <2>4, OpenedPart, EditedDirType, AddDerived DEF CurDir, AllNames
  <2>12. ~HasName(CurDir, name)
    BY <1>1, <1>3, NamesLead
  <2> HIDE DEF open, dir, n, found
  <2>6. Relisted(open.st, imap, dir, IdsIn(TreeRecs[c]) \cup {n}, here)
    BY <2>1, <2>3, <2>4, <2>5, CommitView
  <2> HIDE DEF here
  <2>7. here.st \in Stores /\ here.st.buf.id + 1 < MaxContainer
    <3>1. here.st \in Stores /\ here.st.buf.id <= open.st.buf.id + 3
      BY <2>6 DEF Relisted, Appended
    <3> QED
      BY <2>2, <2>3, <3>1, BufId, StoreType, ContainerAssumption DEF Room
  <2>8. /\ Appended(here.st, t)
        /\ Written(t, a) /\ LogSeg(t, a) = InodeSeg(NewFile(n))
    BY <2>4, <2>7, NewInodeType, SegmentType, AddSegAppends
  <2>9. NewFile(n).id = n /\ NewFile(n).type = "file" /\ NewFile(n).recipe = NullAddr
    BY DEF NewFile, ZeroInode
  <2>10. imap' = Put(here.imap, n, a)
    BY <2>2 DEF Put
  <2>11. n = nInode + 1
    BY DEF n
  <2> HIDE DEF t, a
  <2>13. Sane /\ Relists(dir, {}, {n}) /\ Tree'[n] = NewFile(n)
    BY <2>1, <2>2, <2>6, <2>8, <2>9, <2>10, <2>11, BornSane
  <2> QED
    BY <2>2, <2>12, <2>13 DEF dir, n
<1> QED
  BY <1>2, <1>3

\* The records of a new directory fit into one segment.
LEMMA NewDirFits ==
  ASSUME NEW parent \in InodeIds, NEW id \in InodeIds
  PROVE  LET recs == NewDirRecords(parent, id)
         IN  SubSeq(recs, 1, Min({RecPerSeg, Len(recs)})) = recs
<1> DEFINE recs == NewDirRecords(parent, id)
<1>1. recs \in Seq(DirRecord) /\ Len(recs) = 2
  BY NewDirRecordsType
<1> HIDE DEF recs
<1>2. Min({RecPerSeg, Len(recs)}) = 2
  <2>1. Min({RecPerSeg, 2}) \in {RecPerSeg, 2}
    BY MinIn, RecPerSegType
  <2>2. Min({RecPerSeg, 2}) \in 0 .. 2
    BY MinOfTwo, RecPerSegType
  <2> QED
    BY <1>1, <2>1, <2>2, RecPerSegType
<1>3. SubSeq(recs, 1, 2) = recs
  BY <1>1
<1> QED
  BY <1>2, <1>3 DEF recs

LEMMA MkdirSane ==
  ASSUME TypeOK, FsSound, Agrees, NEW name \in Names, Mkdir(name)
  PROVE  LET n == nInode + 1
         IN  /\ Sane
             /\ n <= MaxInode /\ nInode' = n
             /\ Relists(AddEntry(CurDir, name, n), {}, {n})
             /\ Tree'[n].type = "dir" /\ TreeRecs'[n] = NewDirRecords(curInode.id, n)
<1> DEFINE open  == OpenCurDir(Store, curInode)
           c     == curInode.id
           n     == nInode + 1
           dir   == AddEntry(CurDir, name, n)
           here  == CommitDir(open.st, imap, n, dir, curInode)
           recs  == NewDirRecords(c, n)
           there == CommitDir(here.st, here.imap, n, recs, NewDir(n))
           blk   == NextAddr(here.st)
           ino   == [NewDir(n) EXCEPT !.blk = blk]
<1>1. Looks(Store, Store)
  BY StoreType DEF Looks
<1>2. open.dir = CurDir /\ Ready(open.st, TreeRecipes) /\ Looks(Store, open.st)
  BY <1>1, FsParts, OpenedRight
<1>3. /\ Room /\ n <= MaxInode /\ nInode' = n
      /\ SetStore(there.st) /\ imap' = there.imap /\ curInode' = here.ino
  BY <1>2, Zenon DEF Mkdir
<1>4. /\ open.st.buf.id = buf.id /\ open.st.buf.id \in Nat
      /\ open.st.buf.id + 3 < MaxContainer
  BY <1>2, <1>3, StoreType, ContainerAssumption DEF Looks, Room
<1>5. /\ WellFormed(TreeRecs[c]) /\ c \in LiveIn(imap) /\ c \in InodeIds
      /\ n \in 1 .. MaxInode /\ n \in InodeIds /\ n # 0 /\ n \notin IdsIn(TreeRecs[c])
      /\ imap \in Imaps /\ MapSound(Store, imap, nInode)
  BY <1>3, CurFacts, TreeFacts, ListedLive, Before, FsParts, LfsAssumption
  DEF InodeIds, Imaps
<1>6. dir \in Seq(DirRecord) /\ Derived(TreeRecs[c], dir, IdsIn(TreeRecs[c]) \cup {n})
  BY <1>5, OpenedPart, EditedDirType, AddDerived DEF CurDir, AllNames
<1>7. n = nInode + 1
  OBVIOUS
<1> HIDE DEF open, dir, n
<1>8. Relisted(open.st, imap, dir, IdsIn(TreeRecs[c]) \cup {n}, here)
  BY <1>2, <1>4, <1>5, <1>6, CommitView
<1> HIDE DEF here
<1>9. /\ here.st \in Stores /\ here.imap \in Imaps /\ MapSound(here.st, here.imap, nInode)
      /\ here.st.buf.id + 2 < MaxContainer
  <2>1. /\ here.st \in Stores /\ here.st.buf.id <= open.st.buf.id + 3
        /\ here.imap \in Imaps /\ MapSound(here.st, here.imap, nInode)
    BY <1>8 DEF Relisted, Appended
  <2> QED
    BY <1>3, <1>4, <2>1, BufId, StoreType, ContainerAssumption DEF Room
<1>10. Committed(here.st, here.imap, n, recs, NewDir(n), there)
  <2>1. recs \in Seq(DirRecord) /\ Len(recs) = 2 /\ NewDir(n) \in Inode
    BY <1>5, NewDirRecordsType, NewInodeType
  <2> HIDE DEF recs, there
  <2>2. recs # <<>> /\ ~(Len(recs) > RecPerSeg)
    BY <2>1, RecPerSegType
  <2> QED
    BY <1>9, <2>1, <2>2, CommitDirShape DEF there
<1>11. SubSeq(recs, 1, Min({RecPerSeg, Len(recs)})) = recs
  BY <1>5, NewDirFits
<1>12. NewDir(n).id = n
  BY DEF NewDir, ZeroInode
<1>13. ino.id = n /\ ino.type = "dir" /\ ino.blk = blk
  BY DEF NewDir, ZeroInode
<1> HIDE DEF there, recs, ino, blk
<1>14. /\ Appended(here.st, there.st)
       /\ Written(there.st, blk) /\ LogSeg(there.st, blk) = DirSeg(recs)
       /\ \E a \in Addr : /\ there.imap = PutInode(here.imap, n, n, a)
                          /\ Written(there.st, a) /\ LogSeg(there.st, a) = InodeSeg(ino)
  BY <1>10, <1>11, <1>12 DEF Committed, ino, blk
<1>15. PICK a \in Addr : /\ there.imap = PutInode(here.imap, n, n, a)
                         /\ Written(there.st, a) /\ LogSeg(there.st, a) = InodeSeg(ino)
  BY <1>14
<1>16. there.imap = Put(here.imap, n, a)
  BY <1>5, <1>9, <1>15, SlotsFound
<1>17. ino.type = "dir" /\ Written(there.st, ino.blk)
       /\ LogSeg(there.st, ino.blk) = DirSeg(NewDirRecords(c, n))
  BY <1>13, <1>14, Zenon DEF recs
<1>18. /\ Sane /\ Relists(dir, {}, {n}) /\ Tree'[n] = ino
       /\ ino.type = "dir" => TreeRecs'[n] = NewDirRecords(c, n)
  BY <1>2, <1>3, <1>7, <1>8, <1>13, <1>14, <1>15, <1>16, <1>17, BornSane
<1> QED
  BY <1>3, <1>13, <1>18 DEF dir, n

-----------------------------------------------------------------------------
(* lfs_write. *)

\* Fewer recipes to be right about.
LEMMA ReadyFewer ==
  ASSUME NEW st, NEW recipes, Ready(st, recipes), NEW fewer, fewer \subseteq recipes
  PROVE  Ready(st, fewer)
  BY DEF Ready, Copy

\* The edit of a recipe in cur_container changes one segment of it.
LEMMA EditRecipeCur ==
  ASSUME NEW st \in Stores, NEW a \in Addr, NEW b, NEW d, a.cid # st.buf.id
  PROVE  LET t == EditRecipe(st, a, b, d)
         IN  t.cur.id = st.cur.id /\ t.cur.hdr = st.cur.hdr /\ t.cur.off = st.cur.off
<1>1. /\ st = [buf |-> st.buf, cur |-> st.cur, disk |-> st.disk]
      /\ st.cur = [id |-> st.cur.id, hdr |-> st.cur.hdr, seg |-> st.cur.seg, off |-> st.cur.off]
  BY DEF Stores, ContainerType
<1>2. EditRecipe(st, a, b, d)
        = [st EXCEPT !.cur.seg[a.seg] = RecipeSeg([AsRecipe(SegAt(st, a)) EXCEPT ![b] = d])]
  BY DEF EditRecipe
<1> QED
  BY <1>1, <1>2

\* The store once lfs_write has edited the recipe of file i in place: the cache
\* may now differ from the log in that recipe, which is going to be replaced.
RecipeEdited(i, st, e) ==
  LET old == Tree[i].recipe
  IN  /\ e \in Stores /\ e.buf.id = st.buf.id /\ HeaderFits(e)
      /\ Ready(e, TreeRecipes \ {old})
      /\ \A a \in Addr : Written(Store, a) =>
           /\ Written(e, a)
           /\ a # old => LogSeg(e, a) = LogSeg(Store, a)

LEMMA EditedReady ==
  ASSUME TypeOK, FsSound, Agrees, NEW st, Looks(Store, st), Ready(st, TreeRecipes),
         NEW i \in Files(Tree), NEW b \in Blocks, NEW d \in Data
  PROVE  LET old == Tree[i].recipe
         IN  RecipeEdited(i, st, IF old = NullAddr THEN st
                                 ELSE EditRecipe(Cache(st, old.cid), old, b, d))
<1> DEFINE old == Tree[i].recipe
           st1 == Cache(st, old.cid)
           e   == EditRecipe(st1, old, b, d)
<1>1. /\ st \in Stores /\ Store \in Stores /\ st.buf.id = buf.id /\ HeaderFits(st)
      /\ st.buf = Store.buf
      /\ \A a : (Written(st, a) <=> Written(Store, a)) /\ LogSeg(st, a) = LogSeg(Store, a)
  BY StoreType DEF Looks, Written, LogContainer, LogSeg, Agrees, Sound, DedupInv, HeaderFits
<1>2. i \in DOMAIN Tree /\ old \in Addr
  BY TreeFacts DEF Files, Inode
<1>3. CASE old = NullAddr
  <2>1. Ready(st, TreeRecipes \ {old})
    BY ReadyFewer
  <2> QED
    BY <1>1, <1>3, <2>1 DEF RecipeEdited
<1>4. CASE old # NullAddr
  <2>1. Written(Store, old) /\ LogSeg(Store, old).kind \in {"recipe", "zero"}
    BY <1>2, <1>4, RecipeFilled DEF RecipeThere
  <2>2. /\ old.cid \in ContainerIds /\ old.cid <= st.buf.id /\ old.cid \in Nat
        /\ st.buf.id \in Nat /\ old.seg \in SegIds
    BY <1>1, <2>1, WrittenPlaces, BufId
  <2>3. /\ st1 \in Stores /\ st1.buf = st.buf /\ st1.disk = st.disk
        /\ Ready(st1, TreeRecipes)
        /\ old.cid # st.buf.id => st1.cur.id = old.cid /\ Copy(st1, TreeRecipes)
    BY <1>1, <2>2, CacheLooks, CacheReady DEF Looks
  <2> HIDE DEF st1, old
  <2>4. /\ e \in Stores
        /\ e.disk = st.disk
        /\ e.buf.id = st.buf.id /\ e.buf.hdr = st.buf.hdr /\ e.buf.off = st.buf.off
        /\ \A s \in SegIds \ {old.seg} : /\ e.buf.seg[s] = st.buf.seg[s]
                                         /\ e.cur.seg[s] = st1.cur.seg[s]
        /\ old.cid = st.buf.id => e.cur = st1.cur
        /\ old.cid # st.buf.id => e.cur.seg[old.seg] = Edited(st1, old, b, d) /\ e.buf = st.buf
    BY <1>2, <2>3, EditRecipeShape, EditRecipeGrows DEF Grows
  <2>5. old.cid # st.buf.id =>
          e.cur.id = st1.cur.id /\ e.cur.hdr = st1.cur.hdr /\ e.cur.off = st1.cur.off
    BY <1>2, <2>3, EditRecipeCur
  <2> HIDE DEF e
  <2>6. Ready(e, TreeRecipes \ {old})
    <3>1. CASE old.cid = st.buf.id
      <4>1. Ready(e, TreeRecipes)
        <5>1. e.cur = st1.cur /\ e.disk = st1.disk /\ e.buf.id = st1.buf.id
          BY <2>3, <2>4, <3>1
        <5>2. PlacesSound(st1) /\ ((Untouched(st1) /\ st1.buf.id = 0) \/ Copy(st1, TreeRecipes))
          BY <2>3 DEF Ready
        <5>3. PlacesSound(e)
          BY <5>1, <5>2, Zenon DEF PlacesSound
        <5>4. /\ Untouched(st1) => Untouched(e)
              /\ Copy(st1, TreeRecipes) => Copy(e, TreeRecipes)
          BY <5>1, Zenon DEF Untouched, Copy
        <5> QED
          BY <5>1, <5>2, <5>3, <5>4, Zenon DEF Ready
      <4> QED
        BY <4>1, ReadyFewer, Zenon
    <3>2. CASE old.cid # st.buf.id
      <4>1. /\ e.cur.off = SegNum /\ e.cur.id = old.cid /\ e.cur.id < e.buf.id
            /\ e.cur.hdr = e.disk[e.cur.id].hdr
        BY <2>3, <2>4, <2>5, <3>2 DEF Copy
      <4>2. ASSUME NEW s \in SegIds
            PROVE  \/ e.cur.seg[s] = e.disk[e.cur.id].seg[s]
                   \/ /\ e.cur.seg[s].kind = "recipe"
                      /\ e.disk[e.cur.id].seg[s].kind \in {"recipe", "zero"}
                      /\ [cid |-> e.cur.id, seg |-> s] \notin TreeRecipes \ {old}
        <5>1. CASE s = old.seg
          <6>1. e.cur.seg[s].kind = "recipe"
            BY <2>4, <3>2, <5>1 DEF Edited, RecipeSeg
          <6>2. LogSeg(st, old) = e.disk[e.cur.id].seg[s]
            BY <2>4, <3>2, <4>1, <5>1 DEF LogSeg, LogContainer
          <6>3. [cid |-> e.cur.id, seg |-> s] = old
            BY <1>2, <4>1, <5>1 DEF Addr
          <6> QED
            BY <1>1, <2>1, <6>1, <6>2, <6>3
        <5>2. CASE s # old.seg
          <6>1. e.cur.seg[s] = st1.cur.seg[s] /\ e.cur.id = st1.cur.id /\ e.disk = st1.disk
            BY <2>3, <2>4, <2>5, <3>2, <5>2
          <6>2. Copy(st1, TreeRecipes)
            BY <2>3, <3>2
          <6> QED
            BY <6>1, <6>2, Zenon DEF Copy
        <5> QED
          BY <5>1, <5>2
      <4>3. PlacesSound(e)
        BY <2>3, <2>4 DEF Ready, PlacesSound
      <4> QED
        BY <4>1, <4>2, <4>3, Zenon DEF Ready, Copy
    <3> QED
      BY <3>1, <3>2
  <2>7. HeaderFits(e)
    BY <1>1, <2>4 DEF HeaderFits
  <2>8. ASSUME NEW a \in Addr, Written(Store, a)
        PROVE  Written(e, a) /\ (a # old => LogSeg(e, a) = LogSeg(Store, a))
    <3>1. Written(e, a)
      BY <1>1, <2>4, <2>8 DEF Written
    <3>2. ASSUME a # old PROVE LogSeg(e, a) = LogSeg(st, a)
      <4>1. a.seg \in SegIds /\ (a.cid # old.cid \/ a.seg # old.seg)
        BY <1>2, <3>2 DEF Addr
      <4> QED
        BY <2>4, <4>1 DEF LogSeg, LogContainer, Image
    <3> QED
      BY <1>1, <3>1, <3>2
  <2>9. RecipeEdited(i, st, e)
    BY <2>4, <2>6, <2>7, <2>8 DEF RecipeEdited, old
  <2> QED
    BY <1>4, <2>9 DEF old, e, st1
<1> QED
  BY <1>3, <1>4


\* lfs_write moves the inode of one file, to a new recipe, and changes nothing
\* else.
LEMMA MovedSane ==
  ASSUME TypeOK, FsSound, Agrees, NEW st, Looks(Store, st),
         NEW i \in Files(Tree), NEW e, RecipeEdited(i, st, e),
         NEW t, Appended(e, t), SetStore(t), Keeps(Store, t),
         NEW r \in Addr, ~Written(Store, r), r # NullAddr, r.cid >= e.buf.id,
         NEW a, ~Written(Store, a), Written(t, a),
         LogSeg(t, a) = InodeSeg([Tree[i] EXCEPT !.size = 1, !.recipe = r]),
         imap' = Put(imap, i, a), nInode' = nInode, curInode' = curInode
  PROVE  Sane /\ Moves(i, r)
<1> DEFINE c       == curInode.id
           old     == Tree[i].recipe
           ino     == [Tree[i] EXCEPT !.size = 1, !.recipe = r]
           im2     == Put(imap, i, a)
           inodes  == Inodes(t, im2)
           records == Records(t, inodes)
<1>1. /\ i \in DOMAIN Tree /\ Tree[i] \in Inode /\ Tree[i].id = i /\ Tree[i].type = "file"
      /\ i \in 1 .. MaxInode /\ i <= nInode /\ i # 0 /\ imap[i].id = i
      /\ imap \in Imaps /\ MapSound(Store, imap, nInode) /\ nInode \in Nat
      /\ DOMAIN TreeRecs = Dirs(Tree)
  BY TreeFacts, FsParts, Before DEF Files, Imaps
<1>2. /\ ino.id = i /\ ino.type = "file" /\ ino.recipe = r
  BY <1>1 DEF Inode
<1>3. t \in Stores /\ e \in Stores /\ Store \in Stores
  BY StoreType DEF Appended, RecipeEdited
<1>4. /\ MapSound(t, imap, nInode)
      /\ Inodes(t, imap) = Tree /\ Records(t, Tree) = TreeRecs
  BY <1>1, KeptView DEF Tree, TreeRecs
<1> HIDE DEF ino
<1>5. MapSound(t, im2, nInode) /\ WithInode(t, imap, im2, i, ino)
  <2>1. LogSeg(t, a) = InodeSeg(ino) /\ nInode <= nInode
    BY <1>1 DEF ino
  <2>2. ino.type \in {"file", "dir"} /\ (ino.type = "dir" => FALSE)
    BY <1>2
  <2> QED
    BY <1>1, <1>2, <1>4, <2>1, <2>2, PutView
<1>6. /\ DOMAIN inodes = DOMAIN Tree /\ inodes[i] = ino
      /\ \A j \in DOMAIN Tree \ {i} : inodes[j] = Tree[j]
      /\ \A j \in Dirs(Tree) \ {i} : records[j] = TreeRecs[j]
  BY <1>1, <1>4, <1>5 DEF WithInode
<1>7. DOMAIN records = Dirs(inodes) /\ records = [j \in Dirs(inodes) |-> records[j]]
      /\ TreeRecs = [j \in Dirs(Tree) |-> TreeRecs[j]]
  BY DEF Records, TreeRecs
<1> HIDE DEF im2, inodes, records
<1>8. /\ Dirs(inodes) = Dirs(Tree) /\ Files(inodes) = Files(Tree)
      /\ i \notin Dirs(Tree) /\ records = TreeRecs
  <2>1. Dirs(inodes) = Dirs(Tree) /\ Files(inodes) = Files(Tree) /\ i \notin Dirs(Tree)
    BY <1>1, <1>2, <1>6 DEF Dirs, Files
  <2>2. \A j \in Dirs(Tree) : records[j] = TreeRecs[j]
    BY <1>6, <2>1
  <2> QED
    BY <1>7, <2>1, <2>2
<1>9. ASSUME NEW j \in Files(Tree), Tree[j].recipe # NullAddr
      PROVE  /\ Tree[j].recipe # r
             /\ Tree[j].recipe = old => j = i
  <2>1. Written(Store, Tree[j].recipe)
    BY <1>9, RecipeFilled DEF Files, RecipeThere
  <2>2. RecipesApart(Tree)
    BY FsParts DEF TreeSound
  <2> QED
    BY <1>9, <2>1, <2>2 DEF RecipesApart
<1>10. TreeSound(inodes, TreeRecs)
  <2>1. TreeSound(Tree, TreeRecs)
    BY FsParts
  <2>2. \A j \in Dirs(inodes) : DirSound(inodes, TreeRecs, j)
    BY <1>6, <1>8, <2>1, Zenon DEF TreeSound, DirSound
  <2>3. RecipesApart(inodes)
    <3>1. \A j \in Files(Tree) : j = i \/ inodes[j] = Tree[j]
      BY <1>6 DEF Files
    <3> QED
      BY <1>2, <1>6, <1>8, <1>9, <2>1, <3>1 DEF RecipesApart, TreeSound
  <2> QED
    BY <2>1, <2>2, <2>3 DEF TreeSound
<1>11. CurSound(inodes, TreeRecs, curInode)
  <2>1. CurSound(Tree, TreeRecs, curInode) /\ c \in DOMAIN Tree
    BY FsParts, CurFacts
  <2> QED
    BY <1>6, <1>8, <2>1 DEF CurSound
<1>12. CacheSound(t, RecipesOf(inodes), curInode.blk)
  <2>1. ASSUME NEW x \in RecipesOf(inodes), x.cid < e.buf.id
        PROVE  x \in TreeRecipes \ {old}
    <3>1. PICK j \in Files(Tree) : x = inodes[j].recipe
      BY <1>8 DEF RecipesOf
    <3>2. e.buf.id < MaxContainer /\ NullAddr.cid = MaxContainer /\ e.buf.id \in Nat
      BY <1>3, BufId, ContainerAssumption DEF ContainerIds, NullAddr
    <3>3. j # i
      <4>1. r.cid \in Int
        BY ContainerAssumption DEF Addr
      <4> QED
        BY <1>2, <1>6, <2>1, <3>1, <3>2, <4>1
    <3>4. x = Tree[j].recipe
      BY <1>6, <3>1, <3>3 DEF Files
    <3>5. x # NullAddr
      BY <2>1, <3>2, ContainerAssumption
    <3> QED
      BY <1>9, <3>3, <3>4, <3>5 DEF TreeRecipes, RecipesOf
  <2>2. curInode.blk.cid <= e.buf.id /\ curInode.blk.cid \in Nat
    <3>1. curInode.blk.cid \in 0 .. Store.buf.id /\ Store.buf.id \in Nat
      BY <1>3, CurFacts, WrittenPlaces, BufId
    <3>2. e.buf.id = Store.buf.id
      BY DEF RecipeEdited, Looks
    <3> QED
      BY <3>1, <3>2
  <2>3. Ready(e, TreeRecipes \ {old})
    BY DEF RecipeEdited
  <2> QED
    BY <1>3, <2>1, <2>2, <2>3, AppendedReady
<1>13. FsSound'
  <2>1. imap' = im2
    BY DEF im2
  <2>2. MapSound(t, im2, nInode)
    BY <1>5
  <2> QED
    BY <1>3, <1>8, <1>10, <1>11, <1>12, <2>1, <2>2, EndsInFsSound DEF inodes, records
<1>14. FilesKept
  <2>1. \A x \in Addr : Written(Store, x) /\ x # old => LogSeg(t, x) = LogSeg(Store, x)
    BY DEF RecipeEdited, Appended
  <2>2. ASSUME NEW j \in Files(Tree), imap'[j] = imap[j]
        PROVE  imap[j].addr # old /\ (Tree[j].recipe # old \/ Tree[j].recipe = NullAddr)
    <3>1. j \in DOMAIN Tree /\ Written(Store, imap[j].addr)
          /\ LogSeg(Store, imap[j].addr).kind = "inode"
      BY <2>2, TreeFacts DEF Files
    <3>2. imap[j].addr # old
      <4>1. CASE old = NullAddr
        BY <1>3, <3>1, <4>1, WrittenNotNull
      <4>2. CASE old # NullAddr
        BY <1>1, <3>1, <4>2, RecipeFilled DEF RecipeThere
      <4> QED
        BY <4>1, <4>2
    <3>3. j # i
      <4>1. imap'[i].addr = a
        BY <1>1 DEF Put, Imaps
      <4> QED
        BY <2>2, <3>1, <4>1
    <3> QED
      BY <1>9, <3>2, <3>3
  <2> QED
    BY <1>3, <2>1, <2>2, FilesSame
<1>15. StaysDead
  <2>1. \A j \in 1 .. nInode : j \in 1 .. MaxInode
    BY Before, LfsAssumption
  <2> QED
    BY <1>1, <2>1 DEF StaysDead, Put, Imaps
<1>16. Moves(i, r)
  <2>1. Store' = t
    BY <1>3, SetStoreIs
  <2>2. Tree' = inodes /\ TreeRecs' = records
    BY <2>1 DEF inodes, records, im2, Tree, TreeRecs
  <2>3. \A j \in DOMAIN Tree : j # i => imap'[j] = imap[j]
    BY <1>1, TreeFacts DEF Put, Imaps
  <2>4. inodes[i] = [Tree[i] EXCEPT !.size = 1, !.recipe = r]
    BY <1>6 DEF ino
  <2> QED
    BY <1>6, <1>8, <2>2, <2>3, <2>4 DEF Moves
<1> QED
  BY <1>13, <1>14, <1>15, <1>16 DEF Sane

\* The recipe that lfs_write copies is that of the file with the block in it, or
\* empty, if the block's flush has cleared the memory that it is copied from.
LEMMA RecipeWritten ==
  ASSUME TypeOK, FsSound, Agrees, NEW st, Looks(Store, st), Ready(st, TreeRecipes),
         NEW i \in Files(Tree), NEW b \in Blocks, NEW d \in Data,
         st.buf.id + 1 < MaxContainer
  PROVE  LET old    == Tree[i].recipe
             edited == IF old = NullAddr THEN st
                       ELSE EditRecipe(Cache(st, old.cid), old, b, d)
             stored == StoreBlock(edited, d)
             recipe == IF old = NullAddr THEN RecipeSeg([EmptyRecipe EXCEPT ![b] = d])
                       ELSE IF old.cid = st.buf.id THEN stored.buf.seg[old.seg]
                       ELSE stored.cur.seg[old.seg]
         IN  AsRecipe(recipe) \in {[RecipeOf(i) EXCEPT ![b] = d], EmptyRecipe}
<1> DEFINE old    == Tree[i].recipe
           st1    == Cache(st, old.cid)
           e      == EditRecipe(st1, old, b, d)
           stored == StoreBlock(e, d)
           new    == RecipeSeg([RecipeOf(i) EXCEPT ![b] = d])
<1>1. AsRecipe(new) = [RecipeOf(i) EXCEPT ![b] = d] /\ AsRecipe(ZeroSeg) = EmptyRecipe
  BY DEF AsRecipe, RecipeSeg, ZeroSeg
<1>2. CASE old = NullAddr
  <2>1. RecipeOf(i) = EmptyRecipe
    BY <1>2, LiveIs DEF RecipeOf, Files
  <2> QED
    BY <1>1, <1>2, <2>1
<1>3. CASE old # NullAddr
  <2>1. /\ old \in Addr /\ old \in TreeRecipes /\ Written(Store, old)
        /\ old.cid \in ContainerIds /\ old.cid <= buf.id /\ old.seg \in SegIds
        /\ RecipeOf(i) = AsRecipe(LogSeg(Store, old))
    BY <1>3, RecipePlace DEF Addr
  <2>2. /\ st \in Stores /\ st.buf.id = buf.id
        /\ Written(st, old) /\ LogSeg(st, old) = LogSeg(Store, old)
    BY <2>1, StoreType DEF Looks, Written, LogContainer, LogSeg
  <2>3. /\ st1 \in Stores /\ st1.buf = st.buf
        /\ SegAt(st1, old) = LogSeg(Store, old)
    BY <2>1, <2>2, CacheLooks, CacheReady DEF Looks
  <2>4. Edited(st1, old, b, d) = new
    BY <2>1, <2>3 DEF Edited
  <2>5. /\ e \in Stores /\ HeaderFits(e) /\ e.buf.id = st.buf.id /\ Written(e, old)
    <3>1. RecipeEdited(i, st, e)
      BY <1>3, EditedReady
    <3> HIDE DEF e
    <3> QED
      BY <2>1, <3>1 DEF RecipeEdited
  <2>6. /\ old.cid = st.buf.id => e.buf.seg[old.seg] = new
        /\ old.cid # st.buf.id => e.cur.seg[old.seg] = new
    BY <2>1, <2>3, <2>4, EditRecipeShape
  <2> HIDE DEF e, new, st1, old
  <2>7. /\ stored.cur = e.cur
        /\ stored.buf.id = e.buf.id \/ \A s \in SegIds : stored.buf.seg[s] = ZeroSeg
        /\ Appended(e, stored)
    BY <2>5, StoreBlockMemory, StoreBlockAppends
  <2> HIDE DEF stored
  <2>8. ASSUME old.cid = st.buf.id
        PROVE  stored.buf.seg[old.seg] \in {new, ZeroSeg}
    <3>1. CASE stored.buf.id = e.buf.id
      <4>1. /\ LogSeg(stored, old) = stored.buf.seg[old.seg]
            /\ LogSeg(e, old) = e.buf.seg[old.seg]
        BY <2>5, <2>8, <3>1 DEF LogSeg, LogContainer, Image
      <4> QED
        BY <2>5, <2>6, <2>7, <2>8, <4>1 DEF Appended
    <3>2. CASE \A s \in SegIds : stored.buf.seg[s] = ZeroSeg
      BY <2>1, <3>2
    <3> QED
      BY <2>7, <3>1, <3>2
  <2>9. ASSUME old.cid # st.buf.id
        PROVE  stored.cur.seg[old.seg] = new
    BY <2>6, <2>7, <2>9
  <2> QED
    BY <1>1, <1>3, <2>8, <2>9 DEF stored, e, st1, old
<1> QED
  BY <1>2, <1>3

LEMMA WriteSane ==
  ASSUME TypeOK, FsSound, Agrees, NEW name, NEW b \in Blocks, NEW d \in Data,
         Write(name, b, d)
  PROVE  /\ Sane
         /\ \/ Stays /\ curInode' = curInode
            \/ \E i \in Files(Tree) :
                 /\ HasName(CurDir, name) /\ i = IdOf(CurDir, name)
                 /\ \E r : Moves(i, r)
                 /\ RecipeOf(i)' \in {[RecipeOf(i) EXCEPT ![b] = d], EmptyRecipe}
<1> DEFINE found  == DirGetInode(Store, name)
           st     == found.st
           i      == IdOf(CurDir, name)
           old    == found.ino.recipe
           edited == IF old = NullAddr THEN st
                     ELSE EditRecipe(Cache(st, old.cid), old, b, d)
           stored == StoreBlock(edited, d)
           recipe == IF old = NullAddr THEN RecipeSeg([EmptyRecipe EXCEPT ![b] = d])
                     ELSE IF old.cid = st.buf.id THEN stored.buf.seg[old.seg]
                     ELSE stored.cur.seg[old.seg]
           copied == AddSeg(stored, recipe)
           r      == NextAddr(stored)
           a      == NextAddr(copied)
           ino    == [found.ino EXCEPT !.size = 1, !.recipe = r]
           t      == AddSeg(copied, InodeSeg(ino))
<1>1. /\ Looks(Store, st) /\ Ready(st, TreeRecipes)
      /\ found.ok => i \in DOMAIN Tree /\ found.ino = Tree[i] /\ HasName(CurDir, name)
  BY FoundRight
<1>2. CASE ~found.ok
  <2>1. SetStore(st) /\ UNCHANGED <<imap, nInode, curInode>>
    BY <1>2 DEF Write
  <2> QED
    BY <1>1, <2>1, FsParts, LooksSane, Zenon
<1>3. CASE found.ok
  <2>1. /\ found.ino.type = "file" /\ Room
        /\ nInode' = nInode /\ curInode' = curInode
        /\ imap' = MoveInode(imap, ino.id, a) /\ SetStore(t)
    BY <1>3, Zenon DEF Write
  <2>2. found.ino.type = "file" /\ Room
    BY <2>1, Zenon
  <2> HIDE DEF st, i, found
  <2>3. /\ i \in Files(Tree) /\ found.ino = Tree[i] /\ found.ino \in Inode /\ found.ino.id = i
    BY <1>1, <1>3, <2>2, TreeFacts DEF Files
  <2>4. RecipeEdited(i, st, edited)
    BY <1>1, <2>3, EditedReady
  <2>5. st \in Stores /\ st.buf.id = buf.id /\ st.buf.id + 3 < MaxContainer /\ buf.id \in Nat
    <3>1. st \in Stores /\ st.buf.id = buf.id /\ buf.id \in Nat
      BY <1>1, StoreType DEF Looks
    <3>2. buf.id + 5 < MaxContainer
      BY <2>2 DEF Room
    <3> HIDE DEF st
    <3> QED
      BY <3>1, <3>2, ContainerAssumption
  <2>6. /\ edited.buf.id = st.buf.id
        /\ stored \in Stores /\ stored.buf.id \in st.buf.id .. st.buf.id + 1
        /\ Keeps(st, stored) /\ recipe \in Segment
    <3>1. Sound(st, DOMAIN ns, ns, imap, curInode)
      BY <1>1, StoreType, LooksSound DEF Agrees
    <3>2. RecipeThere(st, found.ino)
      <4>1. RecipeThere(Store, found.ino)
        BY <1>1, <1>3, RecipeFilled
      <4> QED
        BY <1>1, <4>1, StoreType, LooksSound, KeepsRecipe
    <3> QED
      BY <2>3, <2>5, <3>1, <3>2, WriteStores, Zenon
  <2> PICK j \in Files(Tree) : j = i
    BY <2>3
  <2>18. AsRecipe(recipe) \in {[RecipeOf(j) EXCEPT ![b] = d], EmptyRecipe}
    <3>1. st.buf.id + 1 < MaxContainer
      BY <2>5, ContainerAssumption
    <3> QED
      BY <1>1, <2>3, <3>1, RecipeWritten
  <2> HIDE DEF edited, recipe
  <2>7. Appended(edited, stored)
    <3>1. edited \in Stores /\ HeaderFits(edited) /\ edited.buf.id + 1 < MaxContainer
      BY <2>4, <2>5, <2>6, ContainerAssumption DEF RecipeEdited
    <3> QED
      BY <3>1, StoreBlockAppends
  <2> HIDE DEF stored
  <2>8. /\ Appended(stored, copied) /\ copied.buf.id \in stored.buf.id .. stored.buf.id + 1
        /\ copied \in Stores
        /\ Written(copied, r) /\ LogSeg(copied, r) = recipe
    <3>1. stored.buf.id + 1 < MaxContainer
      BY <2>5, <2>6, ContainerAssumption
    <3> QED
      BY <2>6, <3>1, AddSegAppends, AddSegGrows DEF Grows
  <2> HIDE DEF copied
  <2>9. r \in Addr /\ r # NullAddr /\ ~Written(stored, r) /\ r.cid = stored.buf.id
    BY <2>6, NextAddrType, NextAddrNew DEF NextAddr
  <2>10. ~Written(copied, a)
    BY <2>8, NextAddrNew
  <2> HIDE DEF r
  <2>11. /\ Appended(copied, t)
         /\ Written(t, a) /\ LogSeg(t, a) = InodeSeg(ino)
    <3>1. ino \in Inode
      BY <2>3, <2>9 DEF Inode
    <3>2. copied.buf.id + 1 < MaxContainer
      BY <2>5, <2>6, <2>8, ContainerAssumption
    <3> HIDE DEF ino
    <3> QED
      BY <2>8, <3>1, <3>2, SegmentType, AddSegAppends
  <2>12. ino.id = i
    BY <2>3 DEF Inode
  <2>13. ino = [Tree[i] EXCEPT !.size = 1, !.recipe = r]
    BY <2>3
  <2> HIDE DEF t, ino, a
  <2>14. Appended(edited, t) /\ Keeps(Store, t)
    <3>1. edited \in Stores
      BY <2>4 DEF RecipeEdited
    <3>2. Appended(edited, copied) /\ Appended(stored, t)
      BY <2>6, <2>7, <2>8, <2>11, <3>1, AppendedTrans
    <3>3. Appended(edited, t)
      BY <2>8, <2>11, <3>1, <3>2, AppendedTrans
    <3>4. Keeps(Store, st)
      BY <1>1, StoreType, LooksSound
    <3>5. Keeps(stored, t)
      BY <3>2, KeepsSame DEF Appended
    <3> QED
      BY <2>6, <3>3, <3>4, <3>5, KeepsTrans
  <2>15. ~Written(Store, r) /\ ~Written(Store, a)
    <3>1. Keeps(Store, stored)
      BY <1>1, <2>6, StoreType, LooksSound, KeepsTrans
    <3> QED
      BY <2>8, <2>9, <2>10, <3>1 DEF Keeps, Appended
  <2>16. r.cid >= edited.buf.id
    BY <2>5, <2>6, <2>9
  <2>17. imap' = Put(imap, i, a)
    <3>1. i \in InodeIds /\ i \in LiveIn(imap) /\ imap \in Imaps /\ MapSound(Store, imap, nInode)
      BY <2>3, TreeFacts, Before, FsParts DEF Inode, Files, Imaps
    <3> QED
      BY <2>1, <2>12, <3>1, SlotsFound
  <2>19. Sane /\ Moves(j, r)
    BY <1>1, <2>1, <2>3, <2>4, <2>9, <2>11, <2>13, <2>14, <2>15, <2>16, <2>17, MovedSane
  <2>20. RecipeOf(j)' = AsRecipe(recipe)
    <3>1. Store' = t /\ imap'[j].addr = a
      <4>1. j \in DOMAIN imap /\ imap \in Imaps
        BY <2>3, TreeFacts, Before DEF Files, Imaps
      <4> QED
        BY <2>1, <2>11, <2>17, <4>1, SetStoreIs DEF Appended, Put, Imaps
    <3>2. LogInode(j)' = ino
      BY <2>11, <3>1 DEF LogInode, AsInode, InodeSeg
    <3>3. ino.recipe = r
      BY <2>3, <2>13 DEF Inode
    <3>4. LogSeg(t, r) = recipe
      BY <2>8, <2>11 DEF Appended
    <3> QED
      BY <2>9, <3>1, <3>2, <3>3, <3>4 DEF RecipeOf
  <2> QED
    BY <1>1, <1>3, <2>18, <2>19, <2>20 DEF i
<1> QED
  BY <1>2, <1>3

-----------------------------------------------------------------------------
(* The theorems. *)

\* lfs_init leaves a root directory that is its own parent, and nothing else.
OnlyRoot ==
  Dirs(Tree) = {1} /\ Files(Tree) = {} /\ TreeRecs[1] = NewDirRecords(1, 1)

LEMMA InitSound == Init => FsSound /\ OnlyRoot
<1> SUFFICES ASSUME Init PROVE FsSound /\ OnlyRoot
  OBVIOUS
<1> DEFINE root == [NewDir(1) EXCEPT !.blk = [cid |-> 0, seg |-> 2]]
           recs == NewDirRecords(1, 1)
<1>1. /\ buf = RootContainer /\ cur = RootContainer /\ nInode = 1
      /\ imap = [i \in 1 .. MaxInode |->
                   IF i = 1 THEN [id |-> 1, addr |-> [cid |-> 0, seg |-> 1]]
                            ELSE [id |-> 0, addr |-> NullAddr]]
      /\ curInode = root
  BY DEF Init
<1>2. /\ RootContainer.id = 0 /\ RootContainer.off = 3
      /\ RootContainer.seg[1] = InodeSeg(root) /\ RootContainer.seg[2] = DirSeg(recs)
  BY ContainerAssumption DEF RootContainer, EmptyContainer, SegIds
<1>3. root.id = 1 /\ root.type = "dir" /\ root.blk = [cid |-> 0, seg |-> 2]
  BY DEF NewDir, ZeroInode
<1>4. /\ Len(recs) = 2 /\ recs[1] = [name |-> "..", id |-> 1] /\ recs[2] = [name |-> ".", id |-> 1]
  BY DEF NewDirRecords
<1> HIDE DEF root, recs
<1> DEFINE a == [cid |-> 0, seg |-> 1]
           b == [cid |-> 0, seg |-> 2]
<1>5. /\ Written(Store, a) /\ LogSeg(Store, a) = InodeSeg(root)
      /\ Written(Store, b) /\ LogSeg(Store, b) = DirSeg(recs)
  BY <1>1, <1>2, ContainerAssumption
  DEF Store, Written, LogSeg, LogContainer, Image, ContainerIds, SegIds
<1>6. /\ DOMAIN imap = 1 .. MaxInode /\ imap[1].id = 1 /\ imap[1].addr = a
      /\ \A i \in DOMAIN imap : i # 1 => imap[i].id = 0 /\ imap[i].addr = NullAddr
      /\ 1 \in DOMAIN imap
  BY <1>1, LfsAssumption
<1>7. LiveIn(imap) = {1}
  BY <1>6 DEF LiveIn
<1>8. Tree = [i \in {1} |-> root]
  <2>1. Tree = [i \in {1} |-> LogSeg(Store, imap[i].addr).ino]
    BY <1>7 DEF Tree, Inodes
  <2> QED
    BY <1>5, <1>6, <2>1 DEF InodeSeg
<1>9. DOMAIN Tree = {1} /\ Tree[1] = root /\ Dirs(Tree) = {1} /\ Files(Tree) = {}
  BY <1>3, <1>8 DEF Dirs, Files
<1>10. DOMAIN TreeRecs = {1} /\ TreeRecs[1] = recs
  BY <1>3, <1>5, <1>9 DEF TreeRecs, Records, DirSeg
<1> HIDE DEF a, b
<1>11. MapSound(Store, imap, nInode)
  <2>1. /\ LogSeg(Store, a).kind = "inode" /\ LogSeg(Store, a).ino = root
        /\ LogSeg(Store, b).kind = "dir"
    BY <1>5 DEF InodeSeg, DirSeg
  <2>2. root.blk = b
    BY <1>3 DEF b
  <2> QED
    BY <1>1, <1>3, <1>5, <1>6, <2>1, <2>2 DEF MapSound
<1>12. Places(recs) = {}
  BY <1>4 DEF Places
<1>13. TreeSound(Tree, TreeRecs)
  BY <1>4, <1>9, <1>10, <1>12 DEF TreeSound, DirSound, ListedOnce, RecipesApart
<1>14. CurSound(Tree, TreeRecs, curInode)
  <2>1. WayUp(TreeRecs, 1, {1})
    BY <1>10 DEF WayUp
  <2> QED
    BY <1>1, <1>3, <1>9, <2>1 DEF CurSound
<1>15. CacheSound(Store, TreeRecipes, curInode.blk)
  BY <1>1, <1>2, <1>3, ContainerAssumption
  DEF CacheSound, PlacesSound, Untouched, Store, ContainerIds
<1>16. OnlyRoot
  BY <1>9, <1>10 DEF OnlyRoot, recs
<1> QED
  BY <1>11, <1>13, <1>14, <1>15, <1>16, FsParts

\* Every step of the file system.
LEMMA NextSane ==
  ASSUME ~EmptyReads, TypeOK, FsSound, Agrees, [Next]_vars
  PROVE  Sane
<1>1. CASE UNCHANGED vars
  BY <1>1 DEF vars, Sane, FsSound, StaysDead, FilesKept, LogInode, RecipeOf, Store
<1>2. CASE ReadDir
  BY <1>2, ReadDirSane
<1>3. ASSUME NEW path \in Paths, GetAttr(path) PROVE Sane
  BY <1>3, GetAttrSane
<1>4. ASSUME NEW path \in Paths, Access(path) PROVE Sane
  BY <1>4, AccessSane
<1>5. ASSUME NEW name \in Names, Mkdir(name) PROVE Sane
  BY <1>5, MkdirSane
<1>6. ASSUME NEW name \in Names, Create(name) PROVE Sane
  BY <1>6, CreateSane
<1>7. ASSUME NEW name \in Names, Unlink(name) \/ Rmdir(name) PROVE Sane
  BY <1>7, RemoveNameSane DEF Unlink, Rmdir
<1>8. ASSUME NEW name \in Names, NEW n \in 1 .. RecipeNum, Read(name, n) PROVE Sane
  BY <1>8, ReadSane
<1>9. ASSUME NEW name \in Names, NEW b \in Blocks, NEW d \in Data, Write(name, b, d) PROVE Sane
  BY <1>9, WriteSane
<1>10. ASSUME NEW name \in Names, NEW new \in Names, Rename(name, new) PROVE Sane
  BY <1>10, RenameSane
<1> QED
  BY <1>1, <1>2, <1>3, <1>4, <1>5, <1>6, <1>7, <1>8, <1>9, <1>10 DEF Next

\* The inductive invariant: the map leads to a tree of directories in which
\* everything is listed once, the current directory has a way up to the root,
\* and the read cache has what the log has.
THEOREM FsAgrees ==
  ASSUME ~EmptyReads
  PROVE  Spec => []FsSound
<1>1. Init => TypeOK /\ LogSound /\ FsSound
  BY InitType, InitAgrees, AgreesIsLogSound, InitSound
<1>2. TypeOK /\ LogSound /\ FsSound /\ [Next]_vars => TypeOK' /\ LogSound' /\ FsSound'
  <2> SUFFICES ASSUME TypeOK, LogSound, FsSound, [Next]_vars
               PROVE  TypeOK' /\ LogSound' /\ FsSound'
    OBVIOUS
  <2>1. Agrees
    BY AgreesIsLogSound
  <2>2. TypeOK' /\ Agrees' /\ FsSound'
    BY <2>1, NextKept, NextLogged, NextSane DEF Kept, Logged, Sane
  <2>3. Agrees' <=> LogSound'
    BY AgreesIsLogSound, PTL
  <2> QED
    BY <2>2, <2>3
<1> QED
  BY <1>1, <1>2, PTL DEF Spec

\* All that holds between operations, for the theorems below.
LEMMA AllHolds ==
  ASSUME ~EmptyReads
  PROVE  Spec => [](TypeOK /\ FsSound /\ Agrees)
<1>1. Spec => []FsSound
  BY FsAgrees
<1>2. LogSound => Agrees
  BY AgreesIsLogSound
<1> QED
  BY <1>1, <1>2, TypeCorrect, LogAgrees, PTL

-----------------------------------------------------------------------------
(* What that means for the properties. *)

\* What the inode map leads to is in the log: an inode in the slot of its
\* number, and from it records or a recipe.  (lfs_create and dir_commit_changes
\* put addresses in the map before container_add_seg has filled them.)
THEOREM MapLeadsToTheLog ==
  ASSUME ~EmptyReads
  PROVE  Spec => []PointersSound
<1>1. TypeOK /\ FsSound /\ Agrees => PointersSound
  <2> SUFFICES ASSUME TypeOK, FsSound, Agrees, NEW i \in Live
               PROVE  /\ imap[i].id = i /\ i <= nInode
                      /\ Written(Store, imap[i].addr)
                      /\ LogSeg(Store, imap[i].addr).kind = "inode"
                      /\ LogInode(i).id = i
                      /\ LogInode(i).type = "dir" =>
                           /\ Written(Store, LogInode(i).blk)
                           /\ LogSeg(Store, LogInode(i).blk).kind = "dir"
                      /\ LogInode(i).type = "file" /\ LogInode(i).recipe # NullAddr =>
                           /\ Written(Store, LogInode(i).recipe)
                           /\ LogSeg(Store, LogInode(i).recipe).kind \in {"recipe", "zero"}
    BY DEF PointersSound
  <2>1. i \in DOMAIN Tree /\ LogInode(i) = Tree[i]
    BY LiveIs
  <2>2. /\ imap[i].id = i /\ i \in 1 .. nInode /\ Written(Store, imap[i].addr)
        /\ LogSeg(Store, imap[i].addr).kind = "inode" /\ Tree[i].id = i
    BY <2>1, TreeFacts
  <2>3. Tree[i].type = "dir" =>
          Written(Store, Tree[i].blk) /\ LogSeg(Store, Tree[i].blk).kind = "dir"
    BY <2>1, TreeFacts DEF Dirs
  <2>4. RecipeThere(Store, Tree[i])
    BY <2>1, RecipeFilled
  <2> QED
    BY <2>1, <2>2, <2>3, <2>4 DEF RecipeThere, TypeOK
<1> QED
  BY <1>1, AllHolds, PTL

\* cur_inode is the inode of a live directory, as the log has it.
THEOREM CurInodeIsLogged ==
  ASSUME ~EmptyReads
  PROVE  Spec => []CurInodeFresh
<1>1. TypeOK /\ FsSound /\ Agrees => CurInodeFresh
  BY CurFacts, LiveIs DEF CurInodeFresh
<1> QED
  BY <1>1, AllHolds, PTL

\* open_cur_dir returns the records that the log has, whatever the cache holds.
THEOREM DirectoryOpensRight ==
  ASSUME ~EmptyReads
  PROVE  Spec => []DirOpensRight
<1>1. TypeOK /\ FsSound /\ Agrees => DirOpensRight
  <2> SUFFICES ASSUME TypeOK, FsSound PROVE OpenedDir = LoggedDir
    BY DEF DirOpensRight
  <2>1. Looks(Store, Store) /\ CacheSound(Store, TreeRecipes, curInode.blk)
    BY FsParts, StoreType DEF Looks
  <2> QED
    BY <2>1, OpenedRight, CurFacts DEF OpenedDir
<1> QED
  BY <1>1, AllHolds, PTL

\* dir_get_inode finds, for every name of the current directory, the live inode
\* of its record.
THEOREM NamesLeadToInodes ==
  ASSUME ~EmptyReads
  PROVE  Spec => []NamesResolve
<1>1. TypeOK /\ FsSound /\ Agrees => NamesResolve
  <2> SUFFICES ASSUME TypeOK, FsSound, NEW name \in AllNames,
                      HasName(LoggedDir, name), IdOf(LoggedDir, name) # 0
               PROVE  LET found == DirGetInode(Store, name)
                      IN  found.ok /\ found.ino.id = IdOf(LoggedDir, name)
    BY DEF NamesResolve
  <2> DEFINE found == DirGetInode(Store, name)
             i     == IdOf(CurDir, name)
  <2>1. LoggedDir = CurDir
    BY CurFacts
  <2>2. i \in DOMAIN Tree
    <3>1. CASE name \in Names
      BY <2>1, <3>1, NamesLead
    <3>2. CASE name = ".."
      BY <3>2, NamesLead, ParentSound
    <3>3. CASE name = "."
      BY <3>3, NamesLead, CurFacts
    <3>4. CASE name = ""
      BY <2>1, <3>4, NamesLead
    <3> QED
      BY <3>1, <3>2, <3>3, <3>4 DEF AllNames
  <2>3. found.ok /\ found.ino = Tree[i]
    BY <2>1, <2>2, FoundRight
  <2>4. Tree[i].id = i
    BY <2>2, TreeFacts
  <2> QED
    BY <2>1, <2>3, <2>4
<1> QED
  BY <1>1, AllHolds, PTL

\* The directory above the current one is live and lists it: lfs_rmdir, which
\* does not ask whether a directory is empty, never cuts off the current one.
THEOREM CwdIsLinked ==
  ASSUME ~EmptyReads
  PROVE  Spec => []CwdLinked
<1>1. TypeOK /\ FsSound /\ Agrees => CwdLinked
  <2> SUFFICES ASSUME TypeOK, FsSound PROVE CwdLinked
    OBVIOUS
  <2> DEFINE c       == curInode.id
             p       == IdOf(LoggedDir, "..")
             records == OpenRecords(AsDir(LogSeg(Store, LogInode(p).blk)))
  <2>1. p = ParentIn(TreeRecs, c)
    BY CurFacts, NamesLead DEF ParentIn
  <2>2. p \in Live /\ LogInode(p) = Tree[p]
    BY <2>1, ParentSound, LiveIs DEF ParentIn
  <2>3. c # 1 => \E i \in DOMAIN records : records[i].name \in Names /\ records[i].id = c
    <3> SUFFICES ASSUME c # 1
                 PROVE  \E i \in DOMAIN records : records[i].name \in Names /\ records[i].id = c
      OBVIOUS
    <3>1. PICK way : WayUp(TreeRecs, c, way)
      BY FsParts, Zenon DEF CurSound
    <3>2. p \in DOMAIN TreeRecs /\ Lists(TreeRecs[p], c)
      BY <2>1, <3>1 DEF WayUp
    <3>3. records = OpenRecords(TreeRecs[p])
      BY <2>2, <3>2, TreeFacts
    <3>4. WellFormed(TreeRecs[p])
      BY <3>2, TreeFacts
    <3>5. /\ records \in Seq(DirRecord) /\ Len(records) \in Nat
          /\ \A k \in 1 .. Len(records) : records[k] = TreeRecs[p][k]
      BY <3>3, <3>4, OpenedPart
    <3> HIDE DEF records, p, c
    <3>6. PICK k \in Places(records) :
            TreeRecs[p][k].name \in Names /\ TreeRecs[p][k].id = c
      BY <3>2, <3>3 DEF Lists
    <3>7. k \in 1 .. Len(records) /\ k \in DOMAIN records
      BY <3>5, <3>6 DEF Places
    <3> QED
      BY <3>5, <3>6, <3>7
  <2> HIDE DEF records
  <2> QED
    BY <2>2, <2>3 DEF CwdLinked, records
<1> QED
  BY <1>1, AllHolds, PTL

\* The cached container is what the log file has, but for recipes that no live
\* file has any more; the copy that lfs_init leaves out of date is trusted only
\* after open_cur_dir has replaced it.
THEOREM CacheIsCoherent ==
  ASSUME ~EmptyReads
  PROVE  Spec => []CacheCoherent
<1>1. TypeOK /\ FsSound /\ Agrees => CacheCoherent
  <2> SUFFICES ASSUME TypeOK, FsSound, cur.id # buf.id
               PROVE  IF StaleCopy
                        THEN curInode.blk.cid = 0
                        ELSE /\ cur.hdr = disk[cur.id].hdr
                             /\ \A s \in SegIds :
                                  \/ cur.seg[s] = disk[cur.id].seg[s]
                                  \/ /\ cur.seg[s].kind = "recipe"
                                     /\ disk[cur.id].seg[s].kind \in {"recipe", "zero"}
                                     /\ \A i \in LiveFiles :
                                          LogInode(i).recipe # [cid |-> cur.id, seg |-> s]
    BY DEF CacheCoherent
  <2>1. /\ PlacesSound(Store)
        /\ (Untouched(Store) /\ curInode.blk.cid = 0) \/ Copy(Store, TreeRecipes)
    BY FsParts DEF CacheSound
  <2>2. CASE Untouched(Store) /\ curInode.blk.cid = 0
    BY <2>2 DEF Untouched, StaleCopy, Store
  <2>3. CASE Copy(Store, TreeRecipes)
    <3>1. ~StaleCopy
      BY <2>3 DEF Copy, StaleCopy, Store
    <3>2. \A i \in LiveFiles : LogInode(i).recipe \in TreeRecipes
      <4>1. \A i \in LiveFiles : i \in Files(Tree) /\ LogInode(i) = Tree[i]
        BY LiveIs DEF LiveFiles
      <4> QED
        BY <4>1 DEF TreeRecipes, RecipesOf
    <3>3. /\ cur.hdr = disk[cur.id].hdr
          /\ \A s \in SegIds :
               \/ cur.seg[s] = disk[cur.id].seg[s]
               \/ /\ cur.seg[s].kind = "recipe"
                  /\ disk[cur.id].seg[s].kind \in {"recipe", "zero"}
                  /\ [cid |-> cur.id, seg |-> s] \notin TreeRecipes
      BY <2>3 DEF Copy, Store
    <3> QED
      BY <3>1, <3>2, <3>3, Zenon
  <2> QED
    BY <2>1, <2>2, <2>3
<1> QED
  BY <1>1, AllHolds, PTL

\* A slot of the map that unlink or rmdir has cleared stays clear, although
\* dir_commit_changes fills the last slot when it misses an inode.
THEOREM RemovedStaysRemoved ==
  ASSUME ~EmptyReads
  PROVE  Spec => NeverReborn
<1>1. TypeOK /\ FsSound /\ Agrees /\ [Next]_vars =>
        \A i \in 1 .. nInode : imap[i].id = 0 => imap'[i].id = 0
  BY NextSane DEF Sane, StaysDead
<1> QED
  BY <1>1, AllHolds, PTL DEF Spec, NeverReborn

\* An operation changes the inode and the recipe of no file but the one whose
\* inode it moves, although lfs_write edits recipes in place.
THEOREM OtherFilesKept ==
  ASSUME ~EmptyReads
  PROVE  Spec => OthersUntouched
<1>1. TypeOK /\ FsSound /\ Agrees /\ [Next]_vars =>
        \A i \in LiveFiles : imap'[i] = imap[i] =>
          LogInode(i)' = LogInode(i) /\ RecipeOf(i)' = RecipeOf(i)
  BY NextSane DEF Sane, FilesKept
<1> QED
  BY <1>1, AllHolds, PTL DEF Spec, OthersUntouched

-----------------------------------------------------------------------------
(* lfs_read: what the loop copies out. *)

\* The first byte of a fingerprint, which is all that
\* container_header_find_fingerprint compares, tells the contents apart.
FirstBytesDiffer == \A d, e \in Data : FirstByte[d] = FirstByte[e] => d = e

\* The least element of a set of natural numbers is its minimum.
LEMMA MinIs ==
  ASSUME NEW T, T \subseteq Nat, NEW m \in T, \A y \in T : m <= y
  PROVE  Min(T) = m
<1>1. \E x \in T : \A y \in T : x <= y
  OBVIOUS
<1>2. Min(T) \in T /\ \A y \in T : Min(T) <= y
  BY <1>1, Zenon DEF Min
<1>3. Min(T) <= m /\ m <= Min(T) /\ m \in Nat /\ Min(T) \in Nat
  BY <1>2
<1> QED
  BY <1>3

\* One more element of a sequence that a function lists.
LEMMA AppendNext ==
  ASSUME NEW S, NEW g \in [Nat \ {0} -> S], NEW k \in Nat
  PROVE  Append([j \in 1 .. k |-> g[j]], g[k + 1]) = [j \in 1 .. k + 1 |-> g[j]]
<1> DEFINE s == [j \in 1 .. k |-> g[j]]
<1>1. s \in Seq(S) /\ Len(s) = k
  OBVIOUS
<1>2. g[k + 1] \in S
  OBVIOUS
<1> DEFINE t == Append(s, g[k + 1])
<1>3. /\ t \in Seq(S) /\ Len(t) = k + 1
      /\ \A j \in 1 .. k : t[j] = s[j]
      /\ t[k + 1] = g[k + 1]
  BY <1>1, <1>2
<1>4. \A j \in 1 .. k + 1 : t[j] = g[j]
  BY <1>3
<1>5. DOMAIN t = 1 .. k + 1 /\ t = [j \in DOMAIN t |-> t[j]]
  BY <1>3
<1> HIDE DEF t
<1>6. t = [j \in 1 .. k + 1 |-> g[j]]
  BY <1>4, <1>5
<1> QED
  BY <1>6 DEF t

\* The memory that a look-up ended in has what the log has, but for recipes that
\* no file has.
LEMMA HeldRight ==
  ASSUME TypeOK, NEW st, Looks(Store, st), Ready(st, TreeRecipes),
         NEW cid \in ContainerIds, cid <= buf.id, cid = buf.id \/ st.cur.id = cid
  PROVE  LET h == Holder(st, cid)
         IN  /\ h.hdr = LogContainer(Store, cid).hdr
             /\ \A a \in Addr :
                  a.cid = cid /\ (LogSeg(Store, a).kind \in {"recipe", "zero"} => a \in TreeRecipes)
                    => h.seg[a.seg] = LogSeg(Store, a)
<1>1. st.buf = buf /\ st.disk = disk /\ Store.buf = buf /\ Store.disk = disk
  BY DEF Looks, Store
<1>2. CASE cid = buf.id
  BY <1>1, <1>2 DEF Holder, LogSeg, LogContainer, Image
<1>3. CASE cid # buf.id
  <2>1. cid \in Nat /\ buf.id \in Nat
    BY BufId, StoreType DEF Store
  <2>2. st.cur.id = cid /\ Copy(st, TreeRecipes)
    BY <1>1, <1>3, <2>1 DEF Ready, Untouched
  <2>3. Holder(st, cid) = st.cur /\ LogContainer(Store, cid) = disk[cid]
    BY <1>1, <1>3 DEF Holder, LogContainer
  <2>4. ASSUME NEW a \in Addr, a.cid = cid,
               LogSeg(Store, a).kind \in {"recipe", "zero"} => a \in TreeRecipes
        PROVE  st.cur.seg[a.seg] = LogSeg(Store, a)
    <3>1. a = [cid |-> cid, seg |-> a.seg] /\ a.seg \in SegIds
      BY <2>4 DEF Addr
    <3>2. LogSeg(Store, a) = disk[cid].seg[a.seg]
      BY <2>3, <2>4 DEF LogSeg
    <3> QED
      BY <1>1, <2>2, <2>4, <3>1, <3>2 DEF Copy
  <2> QED
    BY <1>1, <2>2, <2>3, <2>4 DEF Copy
<1> QED
  BY <1>2, <1>3

\* container_header_find_fingerprint finds a block in the container that the
\* namespace names for it.
LEMMA FindsBlock ==
  ASSUME TypeOK, Agrees, FirstBytesDiffer, NEW d \in DOMAIN ns,
         NEW h, h.hdr = LogContainer(Store, ns[d]).hdr,
         \A a \in Addr : a.cid = ns[d] /\ LogSeg(Store, a).kind = "data"
                           => h.seg[a.seg] = LogSeg(Store, a)
  PROVE  FindFingerprint(h, d) # 0 /\ h.seg[FindFingerprint(h, d)] = DataSeg(d)
<1> DEFINE hdr  == LogContainer(Store, ns[d]).hdr
           hits == {i \in DOMAIN h.hdr : FirstByte[h.hdr[i].fp] = FirstByte[d]}
<1>1. ns[d] \in ContainerIds /\ ns[d] \in 0 .. buf.id /\ d \in Data
  <2>1. ns[d] \in ContainerIds /\ ns[d] <= buf.id
    BY NamespacePlaces
  <2>2. ns[d] \in Nat /\ buf.id \in Nat
    BY <2>1, BufId, StoreType DEF Store
  <2> QED
    BY <2>1, <2>2 DEF TypeOK
<1>2. hdr \in Header
  BY <1>1, StoreType DEF Stores, ContainerType, ImageType, LogContainer, Image
<1>3. hits # {}
  <2>1. Filed(Store, d, ns[d])
    BY DEF Agrees, Sound, DedupInv, BlocksFiled
  <2> QED
    BY <2>1 DEF Filed
<1>4. hits \subseteq Nat
  BY <1>2 DEF Header
<1> DEFINE k == Min(hits)
           a == [cid |-> ns[d], seg |-> hdr[k].seg]
<1>5. k \in hits
  BY <1>3, <1>4, MinIn
<1>6. FindFingerprint(h, d) = hdr[k].seg
  BY <1>3, Zenon DEF FindFingerprint
<1>7. hdr[k] \in [fp : Data, seg : SegIds]
  <2>1. k \in DOMAIN hdr
    BY <1>5
  <2> HIDE DEF k, hdr
  <2>2. k \in 1 .. Len(hdr)
    BY <1>2, <2>1 DEF Header
  <2> QED
    BY <1>2, <2>2, ElementOfSeq DEF Header
<1> HIDE DEF k, hdr
<1>8. hdr[k].fp = d
  BY <1>1, <1>5, <1>7 DEF FirstBytesDiffer, hdr
<1>9. LogSeg(Store, a) = DataSeg(d)
  <2>1. HeadersTrue(Store) /\ Store.buf.id = buf.id
    BY DEF Agrees, Sound, DedupInv, Store
  <2> QED
    BY <1>1, <1>5, <1>8, <2>1 DEF HeadersTrue, hdr
<1>10. a \in Addr /\ LogSeg(Store, a).kind = "data" /\ 0 \notin SegIds
  BY <1>1, <1>7, <1>9, ContainerAssumption DEF Addr, ContainerIds, DataSeg, SegIds
<1>11. h.seg[hdr[k].seg] = DataSeg(d)
  BY <1>9, <1>10
<1> QED
  BY <1>6, <1>7, <1>10, <1>11

\* The loop of lfs_read on file i after k turns: it has copied out the first k
\* blocks, or those before the first that was not written, and while it goes on
\* the recipe is where SegAt looks for it.
Reading(x, i, k, n) ==
  LET rec  == RecipeOf(i)
      addr == Tree[i].recipe
  IN  /\ x = [st |-> x.st, out |-> x.out, more |-> x.more]
      /\ Looks(Store, x.st) /\ Ready(x.st, TreeRecipes)
      /\ IF x.more
           THEN /\ \A j \in 0 .. k - 1 : rec[j] # NoFp
                /\ x.out = [j \in 1 .. k |-> DataSeg(rec[j - 1])]
                /\ k < n => addr.cid = buf.id \/ x.st.cur.id = addr.cid
           ELSE \E m \in 0 .. k - 1 :
                  /\ \A j \in 0 .. m - 1 : rec[j] # NoFp
                  /\ rec[m] = NoFp
                  /\ x.out = [j \in 1 .. m |-> DataSeg(rec[j - 1])]

\* The condition under which none of the blocks but the last may replace the
\* container of the recipe.
RecipeStays(i, n) ==
  Tree[i].recipe.cid = buf.id \/ \A k \in 0 .. n - 2 :
    RecipeOf(i)[k] # NoFp => ns[RecipeOf(i)[k]] \in {buf.id, Tree[i].recipe.cid}

\* The loop starts with the recipe in memory.
LEMMA ReadingStarts ==
  ASSUME TypeOK, FsSound, Agrees, NEW i \in Files(Tree), Tree[i].recipe # NullAddr,
         NEW n \in Nat, NEW st, Looks(Store, st), Ready(st, TreeRecipes)
  PROVE  Reading([st |-> Cache(st, Tree[i].recipe.cid), out |-> <<>>, more |-> TRUE], i, 0, n)
<1> DEFINE cid == Tree[i].recipe.cid
           t   == Cache(st, cid)
<1>1. cid \in ContainerIds /\ cid <= buf.id
  BY RecipePlace
<1>2. st \in Stores /\ st.buf = buf
  BY DEF Looks, Store
<1>3. /\ Ready(t, TreeRecipes) /\ (cid # buf.id => t.cur.id = cid)
  BY <1>1, <1>2, CacheReady
<1>4. Looks(Store, t)
  BY <1>2, CacheLooks, LooksTrans, StoreType
<1> HIDE DEF t, cid
<1> DEFINE x == [st |-> t, out |-> <<>>, more |-> TRUE]
<1>5. /\ x = [st |-> x.st, out |-> x.out, more |-> x.more]
      /\ x.st = t /\ x.out = <<>> /\ x.more
  OBVIOUS
<1>6. <<>> = [j \in 1 .. 0 |-> DataSeg(RecipeOf(i)[j - 1])]
  OBVIOUS
<1> HIDE DEF x
<1>7. Reading(x, i, 0, n)
  BY <1>3, <1>4, <1>5, <1>6 DEF Reading, cid
<1> QED
  BY <1>7 DEF x, t, cid

\* One turn of the loop.
LEMMA ReadingGoesOn ==
  ASSUME TypeOK, FsSound, Agrees, FirstBytesDiffer,
         NEW i \in Files(Tree), Tree[i].recipe # NullAddr,
         NEW n \in 1 .. RecipeNum, RecipeStays(i, n),
         NEW k \in 0 .. n - 1, NEW x, Reading(x, i, k, n)
  PROVE  Reading(ReadBlock(x, Tree[i].recipe, k), i, k + 1, n)
<1> DEFINE a   == Tree[i].recipe
           rec == RecipeOf(i)
           y   == ReadBlock(x, a, k)
           fp  == AsRecipe(SegAt(x.st, a))[k]
           st1 == Cache(x.st, ns[fp])
           h   == Holder(st1, ns[fp])
           s   == FindFingerprint(h, fp)
<1>1. /\ a \in Addr /\ a \in TreeRecipes /\ a.cid \in ContainerIds /\ a.cid <= buf.id
      /\ rec = AsRecipe(LogSeg(Store, a))
      /\ \A b \in Blocks : rec[b] \in DOMAIN ns \cup {NoFp}
  BY RecipePlace
<1>2. k \in Blocks /\ k \in Nat /\ n \in Nat
  BY LfsAssumption DEF Blocks
<1>3. /\ x = [st |-> x.st, out |-> x.out, more |-> x.more]
      /\ Looks(Store, x.st) /\ Ready(x.st, TreeRecipes)
  BY DEF Reading
<1>4. NoFp \notin DOMAIN ns
  BY LfsAssumption DEF TypeOK
<1>5. CASE ~x.more
  <2>1. y = [x EXCEPT !.more = FALSE]
    BY <1>5 DEF ReadBlock
  <2>2. /\ y = [st |-> y.st, out |-> y.out, more |-> y.more]
        /\ y.st = x.st /\ y.out = x.out /\ ~y.more
    BY <1>3, <2>1
  <2>3. \E m \in 0 .. (k + 1) - 1 :
          /\ \A j \in 0 .. m - 1 : rec[j] # NoFp
          /\ rec[m] = NoFp
          /\ x.out = [j \in 1 .. m |-> DataSeg(rec[j - 1])]
    <3>1. 0 .. k - 1 \subseteq 0 .. (k + 1) - 1
      BY <1>2
    <3> HIDE DEF rec
    <3> QED
      BY <1>5, <3>1 DEF Reading, rec
  <2> HIDE DEF y
  <2>4. Reading(y, i, k + 1, n)
    BY <1>3, <2>2, <2>3 DEF Reading
  <2> QED
    BY <2>4 DEF y
<1>6. CASE x.more
  <2>1. /\ \A j \in 0 .. k - 1 : rec[j] # NoFp
        /\ x.out = [j \in 1 .. k |-> DataSeg(rec[j - 1])]
        /\ a.cid = buf.id \/ x.st.cur.id = a.cid
    BY <1>2, <1>6 DEF Reading
  <2>2. fp = rec[k]
    <3>1. SegAt(x.st, a) = LogSeg(Store, a)
      BY <1>1, <1>3, <2>1, HeldRight DEF SegAt
    <3> QED
      BY <1>1, <3>1
  <2> HIDE DEF rec, fp
  <2>3. CASE rec[k] = NoFp
    <3>1. y = [x EXCEPT !.more = FALSE]
      BY <1>4, <2>2, <2>3 DEF ReadBlock, fp
    <3>2. /\ y = [st |-> y.st, out |-> y.out, more |-> y.more]
          /\ y.st = x.st /\ y.out = x.out /\ ~y.more
      BY <1>3, <3>1
    <3>3. k \in 0 .. (k + 1) - 1
      BY <1>2
    <3> HIDE DEF y
    <3>4. Reading(y, i, k + 1, n)
      BY <1>3, <2>1, <2>3, <3>2, <3>3 DEF Reading, rec
    <3> QED
      BY <3>4 DEF y
  <2>4. CASE rec[k] # NoFp
    <3>1. fp \in DOMAIN ns
      BY <1>1, <1>2, <2>2, <2>4
    <3>2. ns[fp] \in ContainerIds /\ ns[fp] <= buf.id
      BY <3>1, NamespacePlaces
    <3>3. x.st \in Stores /\ x.st.buf = buf
      BY <1>3 DEF Looks, Store
    <3>4. /\ Ready(st1, TreeRecipes) /\ Looks(Store, st1)
          /\ ns[fp] = buf.id \/ st1.cur.id = ns[fp]
      BY <1>3, <3>2, <3>3, CacheReady, CacheLooks, LooksTrans, StoreType
    <3>5. a.cid # buf.id /\ k + 1 < n => st1.cur.id = a.cid
      <4>1. k + 1 < n => k \in 0 .. n - 2
        BY <1>2
      <4>2. a.cid # buf.id /\ k + 1 < n => ns[fp] \in {buf.id, a.cid}
        BY <2>2, <2>4, <4>1 DEF RecipeStays, rec
      <4>3. ns[fp] \in {buf.id, x.st.cur.id} => st1 = x.st
        BY <3>3 DEF Cache
      <4> QED
        BY <2>1, <4>2, <4>3
    <3> HIDE DEF st1
    <3>6. s # 0 /\ h.seg[s] = DataSeg(fp)
      <4>1. /\ h.hdr = LogContainer(Store, ns[fp]).hdr
            /\ \A b \in Addr : b.cid = ns[fp] /\ LogSeg(Store, b).kind = "data"
                                 => h.seg[b.seg] = LogSeg(Store, b)
        BY <3>2, <3>4, HeldRight
      <4> QED
        BY <3>1, <4>1, FindsBlock
    <3>7. y = [st |-> st1, out |-> Append(x.out, DataSeg(fp)), more |-> TRUE]
      <4> HIDE DEF s, h
      <4>1. y = [st |-> st1, out |-> Append(x.out, IF s = 0 THEN ZeroSeg ELSE h.seg[s]),
                 more |-> TRUE]
        BY <1>6, <3>1 DEF ReadBlock, fp, st1, h, s
      <4> QED
        BY <3>6, <4>1
    <3>8. Append(x.out, DataSeg(fp)) = [j \in 1 .. k + 1 |-> DataSeg(rec[j - 1])]
      <4> DEFINE g == [j \in Nat \ {0} |-> DataSeg(rec[j - 1])]
      <4>1. g \in [Nat \ {0} -> {g[j] : j \in Nat \ {0}}]
        OBVIOUS
      <4>2. /\ x.out = [j \in 1 .. k |-> g[j]]
            /\ [j \in 1 .. k + 1 |-> DataSeg(rec[j - 1])] = [j \in 1 .. k + 1 |-> g[j]]
            /\ DataSeg(fp) = g[k + 1]
        BY <1>2, <2>1, <2>2
      <4> HIDE DEF g
      <4> QED
        BY <1>2, <4>1, <4>2, AppendNext
    <3>9. \A j \in 0 .. (k + 1) - 1 : rec[j] # NoFp
      BY <1>2, <2>1, <2>4
    <3>10. /\ y = [st |-> y.st, out |-> y.out, more |-> y.more]
           /\ y.st = st1 /\ y.more
           /\ y.out = [j \in 1 .. k + 1 |-> DataSeg(rec[j - 1])]
      BY <3>7, <3>8
    <3> HIDE DEF y
    <3>11. Reading(y, i, k + 1, n)
      BY <3>4, <3>5, <3>9, <3>10 DEF Reading, rec
    <3> QED
      BY <3>11 DEF y
  <2> QED
    BY <2>3, <2>4
<1> QED
  BY <1>5, <1>6

\* What reading the first n blocks of a file copies out.
LEMMA ReadsRight ==
  ASSUME TypeOK, FsSound, Agrees, FirstBytesDiffer,
         NEW i \in Files(Tree), Tree[i].recipe # NullAddr,
         NEW n \in 1 .. RecipeNum, RecipeStays(i, n),
         NEW st, Looks(Store, st), Ready(st, TreeRecipes)
  PROVE  LET m == Min({k \in 0 .. n - 1 : RecipeOf(i)[k] = NoFp} \cup {n})
         IN  ReadBlocks(st, Tree[i].recipe, n).out
               = [k \in 1 .. m |-> DataSeg(RecipeOf(i)[k - 1])]
<1> DEFINE a   == Tree[i].recipe
           rec == RecipeOf(i)
           T   == {k \in 0 .. n - 1 : rec[k] = NoFp} \cup {n}
<1>1. PICK f : Turns(f, st, a, n) /\ ReadBlocks(st, a, n) = f[n]
  <2>1. n \in Nat
    OBVIOUS
  <2> QED
    BY <2>1, ReadBlocksLoop, Zenon
<1>2. Reading(f[0], i, 0, n)
  BY <1>1, ReadingStarts DEF Turns
<1>3. Reading(f[n], i, n, n)
  <2> DEFINE S == {k \in Nat : k \in 0 .. n => Reading(f[k], i, k, n)}
  <2>1. 0 \in S
    BY <1>2
  <2>2. ASSUME NEW k \in Nat, k \in S PROVE k + 1 \in S
    <3> SUFFICES ASSUME k + 1 \in 0 .. n PROVE Reading(f[k + 1], i, k + 1, n)
      OBVIOUS
    <3>1. k \in 0 .. n - 1 /\ k + 1 \in 1 .. n /\ (k + 1) - 1 = k
      OBVIOUS
    <3>2. Reading(f[k], i, k, n)
      BY <2>2, <3>1
    <3>3. f[k + 1] = ReadBlock(f[k], a, k)
      BY <1>1, <3>1 DEF Turns
    <3> QED
      BY <3>1, <3>2, <3>3, ReadingGoesOn
  <2> HIDE DEF S
  <2>3. n \in S
    BY <2>1, <2>2, SetInduction
  <2> QED
    BY <2>3 DEF S
<1>4. T \subseteq Nat /\ n \in T /\ n \in Nat
  OBVIOUS
<1>5. CASE f[n].more
  <2>1. /\ \A j \in 0 .. n - 1 : rec[j] # NoFp
        /\ f[n].out = [j \in 1 .. n |-> DataSeg(rec[j - 1])]
    BY <1>3, <1>5 DEF Reading
  <2>2. \A y \in T : n <= y
    BY <2>1
  <2>3. Min(T) = n
    BY <1>4, <2>2, MinIs
  <2> QED
    BY <1>1, <2>1, <2>3
<1>6. CASE ~f[n].more
  <2>1. PICK m \in 0 .. n - 1 :
          /\ \A j \in 0 .. m - 1 : rec[j] # NoFp
          /\ rec[m] = NoFp
          /\ f[n].out = [j \in 1 .. m |-> DataSeg(rec[j - 1])]
    BY <1>3, <1>6 DEF Reading
  <2>2. m \in T /\ \A y \in T : m <= y
    BY <2>1
  <2>3. Min(T) = m
    BY <1>4, <2>2, MinIs
  <2> QED
    BY <1>1, <2>1, <2>3
<1> QED
  BY <1>5, <1>6

\* Multiples of natural numbers are in the order of the numbers.
LEMMA TimesMonotonic ==
  ASSUME NEW a \in Nat, NEW b \in Nat, a <= b, NEW size \in Nat
  PROVE  /\ a * size \in Nat /\ b * size \in Nat
         /\ a * size <= b * size /\ (a + 1) * size = a * size + size
<1> DEFINE T == {c \in Nat : /\ a * size \in Nat /\ (a + c) * size \in Nat
                             /\ a * size <= (a + c) * size}
<1>1. \A c \in Nat : (c + 1) * size = c * size + size /\ c * size \in Nat
  OBVIOUS
<1>2. 0 \in T
  BY <1>1
<1>3. ASSUME NEW c \in Nat, c \in T PROVE c + 1 \in T
  <2>1. (a + (c + 1)) * size = (a + c) * size + size /\ a + (c + 1) \in Nat
    BY <1>1
  <2> QED
    BY <1>1, <1>3, <2>1
<1>4. b - a \in T
  <2>1. b - a \in Nat
    OBVIOUS
  <2> HIDE DEF T
  <2> QED
    BY <1>2, <1>3, <2>1, SetInduction
<1>5. a + (b - a) = b
  OBVIOUS
<1> QED
  BY <1>1, <1>4, <1>5

\* What strlen counts of the first m blocks of a recipe: those before the first
\* that has a zero byte, and of that one the bytes before it.
LEMMA CountsText ==
  ASSUME NEW rec, NEW m \in Nat, \A j \in 0 .. m - 1 : rec[j] \in Data,
         NEW len \in StrLen([j \in 1 .. m |-> DataSeg(rec[j - 1])]),
         NEW k \in 1 .. m, \A j \in 1 .. k - 1 : TextLen[rec[j - 1]] = BlkSize
  PROVE  LET text == (k - 1) * BlkSize + TextLen[rec[k - 1]]
         IN  IF TextLen[rec[k - 1]] < BlkSize THEN len = text ELSE len >= text
<1> DEFINE out == [j \in 1 .. m |-> DataSeg(rec[j - 1])]
           L   == [j \in 1 .. m |-> TextLen[rec[j - 1]]]
           cut == {j \in DOMAIN out : TextOf(out[j]) < BlkSize}
<1>1. BlkSize \in Nat \ {0} /\ TextLen \in [Data -> 0 .. BlkSize]
  BY LfsAssumption
<1>2. \A j \in 1 .. m : L[j] \in 0 .. BlkSize
  BY <1>1
<1>3. cut = {j \in 1 .. m : L[j] < BlkSize}
  BY DEF TextOf, DataSeg
<1>4. Len(out) = m /\ k \in Nat /\ k - 1 \in Nat /\ \A j \in 1 .. k - 1 : L[j] = BlkSize
  OBVIOUS
<1>5. len \in IF cut = {} THEN {Len(out) * BlkSize + more : more \in 0 .. BlkSize}
              ELSE {(Min(cut) - 1) * BlkSize + TextOf(out[Min(cut)])}
  BY Zenon DEF StrLen
<1>6. \A j \in 1 .. m : TextOf(out[j]) = L[j]
  BY DEF TextOf, DataSeg
<1> HIDE DEF out
<1> SUFFICES IF L[k] < BlkSize THEN len = (k - 1) * BlkSize + L[k]
             ELSE len >= (k - 1) * BlkSize + L[k]
  OBVIOUS
<1> HIDE DEF L, cut
<1>7. CASE L[k] < BlkSize
  <2>1. k \in cut /\ cut \subseteq Nat /\ \A j \in cut : k <= j
    BY <1>1, <1>3, <1>4, <1>7
  <2>2. Min(cut) = k
    BY <2>1, MinIs
  <2>3. len = (k - 1) * BlkSize + L[k]
    BY <1>5, <1>6, <2>1, <2>2
  <2> QED
    BY <1>7, <2>3
<1>8. CASE ~(L[k] < BlkSize)
  <2>1. L[k] = BlkSize
    BY <1>1, <1>2, <1>8
  <2>2. (k - 1) * BlkSize + L[k] = k * BlkSize /\ k * BlkSize \in Nat
    <3>1. ((k - 1) + 1) * BlkSize = (k - 1) * BlkSize + BlkSize
      BY <1>1, <1>4, TimesMonotonic
    <3>2. (k - 1) + 1 = k /\ k <= k
      BY <1>4
    <3>3. k * BlkSize \in Nat
      BY <1>1, <1>4, <3>2, TimesMonotonic
    <3> QED
      BY <2>1, <3>1, <3>2, <3>3
  <2>3. CASE cut = {}
    <3>1. PICK more \in 0 .. BlkSize : len = m * BlkSize + more
      BY <1>4, <1>5, <2>3
    <3>2. k * BlkSize <= m * BlkSize /\ m * BlkSize \in Nat
      BY <1>1, <1>4, TimesMonotonic
    <3>3. len >= k * BlkSize
      <4> DEFINE less == k * BlkSize
                 all  == m * BlkSize
      <4>1. less \in Nat /\ all \in Nat /\ less <= all /\ more \in Nat /\ len = all + more
        BY <1>1, <2>2, <3>1, <3>2
      <4> HIDE DEF less, all
      <4>2. len >= less
        BY <4>1
      <4> QED
        BY <4>2 DEF less
    <3> QED
      BY <1>8, <2>2, <3>3
  <2>4. CASE cut # {}
    <3> DEFINE c == Min(cut)
    <3>1. c \in cut
      <4>1. cut \subseteq Nat
        BY <1>3
      <4> QED
        BY <2>4, <4>1, MinIn
    <3> HIDE DEF c
    <3>2. c \in 1 .. m /\ L[c] \in 0 .. BlkSize /\ L[c] # BlkSize
      BY <1>1, <1>2, <1>3, <3>1
    <3>3. k <= c - 1 /\ c - 1 \in Nat
      BY <1>4, <2>1, <3>2
    <3>4. len = (c - 1) * BlkSize + L[c]
      BY <1>5, <1>6, <2>4, <3>2 DEF c
    <3>5. k * BlkSize <= (c - 1) * BlkSize /\ (c - 1) * BlkSize \in Nat
      BY <1>1, <1>4, <3>3, TimesMonotonic
    <3>6. len >= k * BlkSize
      BY <2>2, <3>2, <3>4, <3>5
    <3> QED
      BY <1>8, <2>2, <3>6
  <2> QED
    BY <2>3, <2>4
<1> QED
  BY <1>7, <1>8

\* Reading a file copies its own blocks, in order, up to the first that was not
\* written: through look-ups of the inode, the recipe, the namespace and the
\* header, each of which may replace the cached container.  What lfs_read returns
\* lets the caller have of them every block up to the first that has a zero byte,
\* and of that one the bytes before it.  The first bytes of fingerprints have to
\* differ: container_header_find_fingerprint compares nothing else.
THEOREM ReadsOwnBlocks ==
  ASSUME ~EmptyReads, FirstBytesDiffer
  PROVE  Spec => []ReadReturnsOwn
<1>1. TypeOK /\ FsSound /\ Agrees => ReadReturnsOwn
  <2> SUFFICES ASSUME TypeOK, FsSound, Agrees, NEW name \in Names, NEW n \in 1 .. RecipeNum
               PROVE  LET found  == DirGetInode(Store, name)
                          addr   == found.ino.recipe
                          recipe == RecipeOf(found.ino.id)
                          stays  == addr.cid = buf.id \/ \A k \in 0 .. n - 2 :
                                      recipe[k] # NoFp => ns[recipe[k]] \in {buf.id, addr.cid}
                          m      == Min({k \in 0 .. n - 1 : recipe[k] = NoFp} \cup {n})
                          reply  == ReadFile(found.st, found.ino, n)
                      IN  found.ok /\ found.ino.type = "file" /\ addr # NullAddr /\ stays =>
                            /\ reply.out = [k \in 1 .. m |-> DataSeg(recipe[k - 1])]
                            /\ \A len \in reply.ret, k \in 1 .. m :
                                 (\A j \in 1 .. k - 1 : TextLen[recipe[j - 1]] = BlkSize) =>
                                   LET text == (k - 1) * BlkSize + TextLen[recipe[k - 1]]
                                   IN  IF TextLen[recipe[k - 1]] < BlkSize
                                         THEN len = text ELSE len >= text
    BY Zenon DEF ReadReturnsOwn
  <2> DEFINE found == DirGetInode(Store, name)
             i     == IdOf(CurDir, name)
             rec   == RecipeOf(found.ino.id)
             T     == {k \in 0 .. n - 1 : rec[k] = NoFp} \cup {n}
             m     == Min(T)
             reply == ReadFile(found.st, found.ino, n)
  <2>1. /\ Looks(Store, found.st) /\ Ready(found.st, TreeRecipes)
        /\ found.ok => i \in DOMAIN Tree /\ found.ino = Tree[i]
    BY FoundRight
  <2> SUFFICES ASSUME found.ok, found.ino.type = "file", found.ino.recipe # NullAddr,
                      \/ found.ino.recipe.cid = buf.id
                      \/ \A k \in 0 .. n - 2 :
                           rec[k] # NoFp => ns[rec[k]] \in {buf.id, found.ino.recipe.cid}
               PROVE  /\ reply.out = [k \in 1 .. m |-> DataSeg(rec[k - 1])]
                      /\ \A len \in reply.ret, k \in 1 .. m :
                           (\A j \in 1 .. k - 1 : TextLen[rec[j - 1]] = BlkSize) =>
                             LET text == (k - 1) * BlkSize + TextLen[rec[k - 1]]
                             IN  IF TextLen[rec[k - 1]] < BlkSize
                                   THEN len = text ELSE len >= text
    BY Zenon
  <2> HIDE DEF found, i
  <2>2. found.ino = Tree[i] /\ i \in Files(Tree) /\ found.ino.id = i
    BY <2>1, TreeFacts DEF Files
  <2>3. RecipeStays(i, n)
    BY <2>2 DEF RecipeStays
  <2>4. ReadBlocks(found.st, found.ino.recipe, n).out = [k \in 1 .. m |-> DataSeg(rec[k - 1])]
    BY <2>1, <2>2, <2>3, ReadsRight
  <2>5. /\ reply.out = ReadBlocks(found.st, found.ino.recipe, n).out
        /\ reply.ret = StrLen(reply.out)
    BY ReadFileParts
  <2>6. m \in 0 .. n /\ \A j \in 0 .. m - 1 : rec[j] # NoFp
    <3>1. T \subseteq Nat /\ n \in T /\ T \subseteq 0 .. n
      OBVIOUS
    <3>2. PICK x \in T : \A y \in T : x <= y
      BY <3>1, NatMin
    <3>3. Min(T) = x
      BY <3>1, <3>2, MinIs
    <3>4. x \in 0 .. n /\ \A j \in 0 .. x - 1 : j \in 0 .. n - 1 /\ j \notin T
      <4> HIDE DEF T
      <4>1. n \in Nat /\ x \in 0 .. n
        BY <3>1
      <4> QED
        BY <3>2, <4>1
    <3>5. \A j \in 0 .. x - 1 : rec[j] # NoFp
      BY <3>4
    <3> HIDE DEF T
    <3> QED
      BY <3>3, <3>4, <3>5
  <2> HIDE DEF T, m
  <2>7. m \in Nat /\ \A j \in 0 .. m - 1 : rec[j] \in Data
    <3>1. \A j \in 0 .. m - 1 : j \in Blocks
      BY <2>6, LfsAssumption DEF Blocks
    <3>2. \A b \in Blocks : rec[b] \in DOMAIN ns \cup {NoFp}
      BY <2>2, RecipePlace
    <3> QED
      BY <2>6, <3>1, <3>2 DEF TypeOK
  <2> HIDE DEF rec, reply
  <2>8. ASSUME NEW len \in reply.ret, NEW k \in 1 .. m,
               \A j \in 1 .. k - 1 : TextLen[rec[j - 1]] = BlkSize
        PROVE  LET text == (k - 1) * BlkSize + TextLen[rec[k - 1]]
               IN  IF TextLen[rec[k - 1]] < BlkSize THEN len = text ELSE len >= text
    <3>1. len \in StrLen([j \in 1 .. m |-> DataSeg(rec[j - 1])])
      BY <2>4, <2>5
    <3> QED
      BY <2>7, <2>8, <3>1, CountsText
  <2> QED
    BY <2>4, <2>5, <2>8
<1> QED
  BY <1>1, AllHolds, PTL
=============================================================================
