----------------------------- MODULE LfsProofs -----------------------------
(***************************************************************************)
(* Theorems about the file system of module Lfs, for every value of its    *)
(* constants.                                                              *)
(***************************************************************************)
EXTENDS LfsLemmas

\* The two containers in memory and the log file, of the type invariant.
LEMMA StoreType ==
  ASSUME TypeOK
  PROVE  /\ Store \in Stores /\ buf.id \in Nat
         /\ Store.buf = buf /\ Store.disk = disk
  BY DEF TypeOK, Stores, Store, ContainerType, ContainerIds

\* A handler that replaces the store by one that has grown from it.
LEMMA SetStoreGrows ==
  ASSUME TypeOK, NEW n \in Nat, NEW st, Grows(Store, st, n), SetStore(st)
  PROVE  /\ buf' \in ContainerType /\ buf'.off < SegNum
         /\ cur' \in ContainerType
         /\ disk' \in [ContainerIds -> ImageType]
         /\ KeepsFlushed
  BY StoreType DEF Grows, Stores, SetStore, KeepsFlushed

-----------------------------------------------------------------------------
(* lfs_init. *)

\* lfs_init establishes the type invariant.
LEMMA InitType == Init => TypeOK
<1> SUFFICES ASSUME Init PROVE TypeOK
  OBVIOUS
<1> DEFINE at1  == [cid |-> 0, seg |-> 1]
           at2  == [cid |-> 0, seg |-> 2]
           root == [NewDir(1) EXCEPT !.blk = at2]
<1>1. at1 \in Addr /\ at2 \in Addr
  BY ContainerAssumption DEF Addr, SegIds
<1>2. 0 \in InodeIds /\ 1 \in InodeIds /\ 0 \in ContainerIds
  BY LfsAssumption, ContainerAssumption DEF InodeIds, ContainerIds
<1>3. root \in Inode
  BY <1>1, <1>2, NewInodeType DEF Inode
<1>4. RootContainer \in ContainerType /\ RootContainer.off < SegNum
  <2> DEFINE empty == EmptyContainer(0)
             seg1  == InodeSeg(root)
             seg2  == DirSeg(NewDirRecords(1, 1))
  <2>1. empty \in ContainerType
    BY <1>2, EmptyContainerType
  <2>2. seg1 \in Segment /\ seg2 \in Segment
    BY <1>2, <1>3, NewDirRecordsType, SegmentType
  <2>3. RootContainer = [empty EXCEPT !.seg[1] = seg1, !.seg[2] = seg2, !.off = 3]
    BY DEF RootContainer
  <2>4. 1 \in SegIds /\ 2 \in SegIds /\ 3 \in 1 .. SegNum /\ 3 < SegNum
    BY ContainerAssumption DEF SegIds
  <2> HIDE DEF empty, seg1, seg2
  <2>5. [empty EXCEPT !.seg[1] = seg1, !.seg[2] = seg2, !.off = 3] \in ContainerType
    BY <2>1, <2>2, <2>4 DEF ContainerType
  <2>6. [empty EXCEPT !.seg[1] = seg1, !.seg[2] = seg2, !.off = 3].off = 3
    BY <2>1 DEF ContainerType
  <2> QED
    BY <2>3, <2>4, <2>5, <2>6
<1>5. disk \in [ContainerIds -> ImageType]
  <2>1. ZeroImage \in ImageType
    BY <1>2, EmptyContainerType DEF ZeroImage, Image, ImageType, ContainerType
  <2> QED
    BY <2>1 DEF Init
<1>6. imap \in [1 .. MaxInode -> Slot]
  BY <1>1, <1>2, NullAddrType DEF Init, Slot
<1>7. nInode \in 1 .. MaxInode
  BY LfsAssumption DEF Init
<1>8. DOMAIN ns \subseteq Data /\ ns \in [DOMAIN ns -> ContainerIds]
  BY DEF Init
<1>9. curPath \in Seq(Names) /\ parPath \in Seq(Names)
  BY DEF Init
<1> QED
  BY <1>3, <1>4, <1>5, <1>6, <1>7, <1>8, <1>9 DEF Init, TypeOK

-----------------------------------------------------------------------------
(* One lemma for each handler: it keeps the types, and it keeps the          *)
(* containers that were flushed.                                             *)

\* What every step has to establish.
Kept == TypeOK' /\ KeepsFlushed

\* The facts about the state before a step that the lemmas below start from.
LEMMA Before ==
  ASSUME TypeOK
  PROVE  /\ imap \in [1 .. MaxInode -> Slot] /\ nInode \in 1 .. MaxInode
         /\ curInode \in Inode
         /\ DOMAIN ns \subseteq Data /\ ns \in [DOMAIN ns -> ContainerIds]
         /\ curPath \in Seq(Names) /\ parPath \in Seq(Names)
  BY DEF TypeOK

\* A handler that looks, and changes nothing but the store.
LEMMA LooksKept ==
  ASSUME TypeOK, NEW st, Looks(Store, st), SetStore(st),
         UNCHANGED <<imap, nInode, ns, curInode, curPath, parPath>>
  PROVE  Kept
<1>1. Grows(Store, st, 0)
  BY StoreType, LooksGrows
<1> QED
  BY <1>1, Before, SetStoreGrows DEF Kept, TypeOK

\* A handler that appends to the log.
LEMMA GrowsKept ==
  ASSUME TypeOK, NEW n \in Nat, NEW st, Grows(Store, st, n), SetStore(st),
         imap' \in [1 .. MaxInode -> Slot], nInode' \in 1 .. MaxInode,
         DOMAIN ns' \subseteq Data, ns' \in [DOMAIN ns' -> ContainerIds],
         curInode' \in Inode, UNCHANGED <<curPath, parPath>>
  PROVE  Kept
<1>1. curPath' \in Seq(Names) /\ parPath' \in Seq(Names)
  BY Before
<1> QED
  BY <1>1, SetStoreGrows DEF Kept, TypeOK

\* lfs_readdir keeps the type invariant.
LEMMA ReadDirKept ==
  ASSUME TypeOK, ReadDir
  PROVE  Kept
<1>1. Looks(Store, OpenCurDir(Store, curInode).st)
  BY StoreType, Before, OpenCurDirLooks
<1> QED
  BY <1>1, LooksKept DEF ReadDir

\* lfs_getattr keeps the type invariant.
LEMMA GetAttrKept ==
  ASSUME TypeOK, NEW path, GetAttr(path)
  PROVE  Kept
<1> DEFINE name == IF path = parPath THEN ".." ELSE FileName(path)
<1>1. Looks(Store, DirGetInode(Store, name).st)
  BY StoreType, Before, DirGetInodeLooks
<1> QED
  BY <1>1, LooksKept, Zenon DEF GetAttr

\* get_filename and get_parentpath of a path, when it is not empty.
LEMMA PathTypes ==
  ASSUME NEW path \in Paths
  PROVE  path \in Seq(Names) /\ ParentPath(path) \in Seq(Names)
<1>1. path \in Seq(Names)
  BY LfsAssumption DEF Paths
<1>2. CASE path = <<>>
  BY <1>1, <1>2 DEF ParentPath
<1>3. CASE path # <<>>
  <2>1. Len(path) \in Nat /\ Len(path) # 0 /\ \A i \in 1 .. Len(path) : path[i] \in Names
    BY <1>1, <1>3
  <2>2. 1 \in Int /\ Len(path) - 1 \in Int /\ \A i \in 1 .. Len(path) - 1 : path[i] \in Names
    BY <2>1
  <2>3. SubSeq(path, 1, Len(path) - 1) \in Seq(Names)
    BY <2>2, SubSeqProperties, Zenon
  <2> QED
    BY <1>1, <1>3, <2>3 DEF ParentPath
<1> QED
  BY <1>2, <1>3, <1>1

\* lfs_access keeps the type invariant.
LEMMA AccessKept ==
  ASSUME TypeOK, NEW path \in Paths, Access(path)
  PROVE  Kept
<1> DEFINE up    == path = parPath
           found == DirGetInode(Store, IF up THEN ".." ELSE FileName(path))
           enter == found.ok /\ (up \/ found.ino.type = "dir")
<1>1. Looks(Store, found.st) /\ found.ino \in Inode
  BY StoreType, Before, DirGetInodeLooks
<1>2. Grows(Store, found.st, 0)
  BY <1>1, StoreType, LooksGrows
<1>3. /\ SetStore(found.st)
      /\ curInode' = IF enter THEN found.ino ELSE curInode
      /\ curPath' = IF enter THEN path ELSE curPath
      /\ parPath' = IF ~enter THEN parPath ELSE IF up THEN ParentPath(path) ELSE curPath
      /\ UNCHANGED <<imap, nInode, ns>>
  BY Zenon DEF Access
<1> HIDE DEF up, found, enter
<1>4. curInode' \in Inode
  BY <1>1, <1>3, Before
<1>5. curPath' \in Seq(Names) /\ parPath' \in Seq(Names)
  BY <1>3, Before, PathTypes
<1> QED
  BY <1>2, <1>3, <1>4, <1>5, Before, SetStoreGrows DEF Kept, TypeOK

\* lfs_read keeps the type invariant.
LEMMA ReadKept ==
  ASSUME TypeOK, NEW name, NEW n \in 1 .. RecipeNum, Read(name, n)
  PROVE  Kept
<1> DEFINE found == DirGetInode(Store, name)
           st1   == ReadFile(found.st, found.ino, n).st
<1>1. Looks(Store, found.st) /\ found.st \in Stores
  BY StoreType, Before, DirGetInodeLooks DEF Looks
<1>2. Looks(Store, st1)
  BY <1>1, ReadFileLooks, LooksTrans, LfsAssumption
<1>3. /\ SetStore(IF found.ok THEN st1 ELSE found.st)
      /\ UNCHANGED <<imap, nInode, ns, curInode, curPath, parPath>>
  BY Zenon DEF Read
<1> HIDE DEF found, st1
<1> QED
  BY <1>1, <1>2, <1>3, LooksKept

\* lfs_mkdir: two directories are committed.
LEMMA MkdirKept ==
  ASSUME TypeOK, NEW name \in Names, Mkdir(name)
  PROVE  Kept
<1> DEFINE open  == OpenCurDir(Store, curInode)
           n     == nInode + 1
           dir   == AddEntry(open.dir, name, n)
           here  == CommitDir(open.st, imap, n, dir, curInode)
           there == CommitDir(here.st, here.imap, n,
                              NewDirRecords(curInode.id, n), NewDir(n))
<1>1. /\ Room /\ n <= MaxInode /\ nInode' = n
      /\ SetStore(there.st) /\ imap' = there.imap /\ curInode' = here.ino
      /\ UNCHANGED <<ns, curPath, parPath>>
  BY Zenon DEF Mkdir
<1>2. n \in InodeIds /\ n \in 1 .. MaxInode /\ name \in AllNames /\ curInode.id \in InodeIds
  <2>1. n \in InodeIds /\ n \in 1 .. MaxInode
    BY <1>1, Before, LfsAssumption DEF InodeIds
  <2>2. name \in AllNames
    BY DEF AllNames
  <2>3. curInode.id \in InodeIds
    BY Before DEF Inode
  <2> QED
    BY <2>1, <2>2, <2>3
<1>3. /\ Looks(Store, open.st) /\ open.st \in Stores
      /\ open.st.buf.id = buf.id /\ buf.id \in Nat /\ buf.id + 5 < MaxContainer
      /\ dir \in Seq(DirRecord)
  BY <1>1, <1>2, StoreType, Before, OpenCurDirLooks, EditedDirType DEF Looks, Room
<1>4. Grows(Store, open.st, 0)
  BY <1>3, StoreType, LooksGrows
<1> HIDE DEF open, dir, n
<1>5. /\ Grows(open.st, here.st, 3)
      /\ here.imap \in [1 .. MaxInode -> Slot] /\ here.ino \in Inode
  <2>1. 3 \in {2, 3} /\ open.st.buf.id + 3 < MaxContainer
    BY <1>3, ContainerAssumption
  <2> QED
    BY <1>3, <2>1, Before, CommitDirGrows
<1> HIDE DEF here
<1>6. here.st \in Stores /\ here.st.buf.id + 2 < MaxContainer
  <2>1. here.st \in Stores /\ here.st.buf.id \in buf.id .. buf.id + 3
    BY <1>3, <1>5 DEF Grows
  <2> QED
    BY <1>3, <2>1, ContainerAssumption
<1>7. /\ Grows(here.st, there.st, 2)
      /\ there.imap \in [1 .. MaxInode -> Slot]
  <2>1. /\ NewDirRecords(curInode.id, n) \in Seq(DirRecord)
        /\ ~(Len(NewDirRecords(curInode.id, n)) > RecPerSeg)
    <3>1. /\ NewDirRecords(curInode.id, n) \in Seq(DirRecord)
          /\ Len(NewDirRecords(curInode.id, n)) = 2
      BY <1>2, NewDirRecordsType, Zenon
    <3> QED
      BY <3>1, RecPerSegType
  <2>2. NewDir(n) \in Inode
    BY <1>2, NewInodeType
  <2> QED
    BY <1>5, <1>6, <2>1, <2>2, CommitDirGrows
<1>8. Grows(Store, there.st, 0 + 3 + 2)
  <2>1. Grows(Store, here.st, 0 + 3)
    BY <1>3, <1>4, <1>5, StoreType, GrowsTrans
  <2> QED
    BY <1>6, <1>7, <2>1, StoreType, GrowsTrans
<1> HIDE DEF there
<1>9. /\ imap' \in [1 .. MaxInode -> Slot] /\ nInode' \in 1 .. MaxInode
      /\ DOMAIN ns' \subseteq Data /\ ns' \in [DOMAIN ns' -> ContainerIds]
      /\ curInode' \in Inode /\ UNCHANGED <<curPath, parPath>>
  BY <1>1, <1>2, <1>5, <1>7, Before
<1>10. 0 + 3 + 2 \in Nat /\ SetStore(there.st)
  BY <1>1
<1> QED
  BY <1>8, <1>9, <1>10, GrowsKept, Zenon

\* lfs_create: a directory is committed and an inode added.
LEMMA CreateKept ==
  ASSUME TypeOK, NEW name \in Names, Create(name)
  PROVE  Kept
<1> DEFINE found == DirGetInode(Store, name)
           open  == OpenCurDir(found.st, curInode)
           n     == nInode + 1
           dir   == AddEntry(open.dir, name, n)
           here  == CommitDir(open.st, imap, n, dir, curInode)
           st1   == AddSeg(here.st, InodeSeg(NewFile(n)))
<1>1. Looks(Store, found.st) /\ found.st \in Stores
  BY StoreType, Before, DirGetInodeLooks DEF Looks
<1>2. CASE found.ok
  <2>1. /\ SetStore(found.st)
        /\ UNCHANGED <<imap, nInode, ns, curInode, curPath, parPath>>
    BY <1>2, Zenon DEF Create
  <2> QED
    BY <1>1, <2>1, LooksKept
<1>3. CASE ~found.ok
  <2>1. /\ Room /\ n <= MaxInode /\ nInode' = n
        /\ imap' = [here.imap EXCEPT ![n] = [id |-> n, addr |-> NextAddr(here.st)]]
        /\ SetStore(st1) /\ curInode' = here.ino
        /\ UNCHANGED <<ns, curPath, parPath>>
    BY <1>3, Zenon DEF Create
  <2>2. n \in InodeIds /\ n \in 1 .. MaxInode
    BY <2>1, Before, LfsAssumption DEF InodeIds
  <2>3. name \in AllNames
    BY DEF AllNames
  <2>4. /\ Looks(Store, open.st) /\ open.st \in Stores
        /\ open.st.buf.id = buf.id /\ buf.id \in Nat /\ buf.id + 5 < MaxContainer
        /\ dir \in Seq(DirRecord)
    <3>1. Looks(found.st, open.st) /\ open.dir \in Seq(DirRecord)
      BY <1>1, Before, OpenCurDirLooks
    <3> HIDE DEF found, open, n
    <3>2. Looks(Store, open.st)
      BY <1>1, <3>1, LooksTrans
    <3>3. dir \in Seq(DirRecord)
      BY <2>2, <2>3, <3>1, EditedDirType
    <3>4. /\ open.st \in Stores /\ open.st.buf.id = buf.id
          /\ buf.id \in Nat /\ buf.id + 5 < MaxContainer
      BY <2>1, <3>2, StoreType DEF Looks, Room
    <3> QED
      BY <3>2, <3>3, <3>4
  <2>5. Grows(Store, open.st, 0)
    BY <2>4, StoreType, LooksGrows
  <2> HIDE DEF found, open, dir, n
  <2>6. /\ Grows(open.st, here.st, 3)
        /\ here.imap \in [1 .. MaxInode -> Slot] /\ here.ino \in Inode
    <3>1. 3 \in {2, 3} /\ open.st.buf.id + 3 < MaxContainer
      BY <2>4, ContainerAssumption
    <3> QED
      BY <2>4, <3>1, Before, CommitDirGrows
  <2> HIDE DEF here
  <2>7. here.st \in Stores /\ here.st.buf.id + 1 < MaxContainer
    BY <2>4, <2>6, ContainerAssumption DEF Grows
  <2>8. Grows(here.st, st1, 1)
    BY <2>2, <2>7, NewInodeType, SegmentType, AddSegGrows
  <2>9. [id |-> n, addr |-> NextAddr(here.st)] \in Slot
    BY <2>2, <2>7, NextAddrType DEF Slot
  <2> HIDE DEF st1
  <2>10. Grows(Store, st1, 0 + 3 + 1)
    <3>1. Grows(Store, here.st, 0 + 3)
      BY <2>4, <2>5, <2>6, StoreType, GrowsTrans
    <3> QED
      BY <2>7, <2>8, <3>1, StoreType, GrowsTrans
  <2>11. /\ imap' \in [1 .. MaxInode -> Slot] /\ nInode' \in 1 .. MaxInode
         /\ DOMAIN ns' \subseteq Data /\ ns' \in [DOMAIN ns' -> ContainerIds]
         /\ curInode' \in Inode /\ UNCHANGED <<curPath, parPath>>
    BY <2>1, <2>2, <2>6, <2>9, Before
  <2>12. 0 + 3 + 1 \in Nat /\ SetStore(st1)
    BY <2>1
  <2> QED
    BY <2>10, <2>11, <2>12, GrowsKept, Zenon
<1> QED
  BY <1>2, <1>3

\* A directory of the current store with edited records is committed: lfs_rename,
\* lfs_unlink and lfs_rmdir.
LEMMA CommitKept ==
  ASSUME TypeOK, Room, NEW st, Looks(Store, st),
         NEW im \in [1 .. MaxInode -> Slot], NEW dir \in Seq(DirRecord),
         SetStore(CommitDir(st, im, nInode, dir, curInode).st),
         imap' = CommitDir(st, im, nInode, dir, curInode).imap,
         curInode' = CommitDir(st, im, nInode, dir, curInode).ino,
         UNCHANGED <<nInode, ns, curPath, parPath>>
  PROVE  Kept
<1> DEFINE here == CommitDir(st, im, nInode, dir, curInode)
<1>1. st \in Stores /\ st.buf.id = buf.id /\ buf.id \in Nat /\ st.buf.id + 3 < MaxContainer
  BY StoreType, ContainerAssumption DEF Looks, Room
<1>2. /\ Grows(st, here.st, 3)
      /\ here.imap \in [1 .. MaxInode -> Slot] /\ here.ino \in Inode
  BY <1>1, Before, CommitDirGrows, 3 \in {2, 3}
<1>3. Grows(Store, here.st, 0 + 3)
  BY <1>1, <1>2, StoreType, LooksGrows, GrowsTrans
<1>4. 0 + 3 \in Nat /\ SetStore(here.st)
  OBVIOUS
<1>5. imap' = here.imap /\ curInode' = here.ino
  OBVIOUS
<1> HIDE DEF here
<1>6. /\ imap' \in [1 .. MaxInode -> Slot] /\ nInode' \in 1 .. MaxInode
      /\ DOMAIN ns' \subseteq Data /\ ns' \in [DOMAIN ns' -> ContainerIds]
      /\ curInode' \in Inode /\ UNCHANGED <<curPath, parPath>>
  BY <1>2, <1>5, Before
<1> QED
  BY <1>3, <1>4, <1>6, GrowsKept, Zenon

\* lfs_rename: a directory is committed.
LEMMA RenameKept ==
  ASSUME TypeOK, NEW old \in Names, NEW new \in Names, Rename(old, new)
  PROVE  Kept
<1> DEFINE open == OpenCurDir(Store, curInode)
           dir  == ChangeEntry(open.dir, old, new)
           here == CommitDir(open.st, imap, nInode, dir, curInode)
<1>1. Looks(Store, open.st) /\ open.dir \in Seq(DirRecord)
  BY StoreType, Before, OpenCurDirLooks
<1>2. CASE ~HasName(open.dir, old)
  <2>1. /\ SetStore(open.st)
        /\ UNCHANGED <<imap, nInode, ns, curInode, curPath, parPath>>
    BY <1>2, Zenon DEF Rename
  <2> QED
    BY <1>1, <2>1, LooksKept
<1>3. CASE HasName(open.dir, old)
  <2>1. /\ Room /\ SetStore(here.st) /\ imap' = here.imap /\ curInode' = here.ino
        /\ UNCHANGED <<nInode, ns, curPath, parPath>>
    BY <1>3, Zenon DEF Rename
  <2>2. old \in AllNames /\ new \in AllNames
    BY DEF AllNames
  <2>3. dir \in Seq(DirRecord)
    BY <1>1, <2>2, EditedDirType
  <2> QED
    BY <1>1, <2>1, <2>3, Before, CommitKept
<1> QED
  BY <1>2, <1>3

\* lfs_unlink and lfs_rmdir: an inode is dropped and a directory committed.
LEMMA RemoveNameKept ==
  ASSUME TypeOK, NEW name \in Names, RemoveName(name)
  PROVE  Kept
<1> DEFINE open == OpenCurDir(Store, curInode)
           dir  == RemoveEntry(open.dir, name)
           im   == DropInode(imap, nInode, IdOf(open.dir, name))
           here == CommitDir(open.st, im, nInode, dir, curInode)
<1>1. Looks(Store, open.st) /\ open.dir \in Seq(DirRecord)
  BY StoreType, Before, OpenCurDirLooks
<1>2. CASE ~HasName(open.dir, name)
  <2>1. /\ SetStore(open.st)
        /\ UNCHANGED <<imap, nInode, ns, curInode, curPath, parPath>>
    BY <1>2, Zenon DEF RemoveName
  <2> QED
    BY <1>1, <2>1, LooksKept
<1>3. CASE HasName(open.dir, name)
  <2>1. /\ Room /\ SetStore(here.st) /\ imap' = here.imap /\ curInode' = here.ino
        /\ UNCHANGED <<nInode, ns, curPath, parPath>>
    BY <1>3, Zenon DEF RemoveName
  <2>2. dir \in Seq(DirRecord)
    BY <1>1, <1>3, EditedDirType
  <2>3. im \in [1 .. MaxInode -> Slot]
    BY <1>1, <1>3, Before, IdOfType, ImapType
  <2> QED
    BY <1>1, <2>1, <2>2, <2>3, CommitKept
<1> QED
  BY <1>2, <1>3

\* lfs_write: the recipe is edited in place, and up to three segments follow:
\* the block, the copy of the recipe and the inode.
LEMMA WriteKept ==
  ASSUME TypeOK, NEW name, NEW b \in Blocks, NEW d \in Data, Write(name, b, d)
  PROVE  Kept
<1> DEFINE found  == DirGetInode(Store, name)
           old    == found.ino.recipe
           fresh  == old = NullAddr
           inBuf  == ~fresh /\ old.cid = found.st.buf.id
           edited == IF fresh THEN found.st
                     ELSE EditRecipe(Cache(found.st, old.cid), old, b, d)
           stored == StoreBlock(edited, d)
           recipe == IF fresh THEN RecipeSeg([EmptyRecipe EXCEPT ![b] = d])
                     ELSE IF inBuf THEN stored.buf.seg[old.seg]
                     ELSE stored.cur.seg[old.seg]
           copied == AddSeg(stored, recipe)
           ino    == [found.ino EXCEPT !.size = 1, !.recipe = NextAddr(stored)]
           st1    == AddSeg(copied, InodeSeg(ino))
<1>1. /\ Looks(Store, found.st) /\ found.st \in Stores
      /\ found.ino \in Inode /\ old \in Addr
  BY StoreType, Before, DirGetInodeLooks DEF Looks, Inode
<1>2. CASE ~found.ok
  <2>1. /\ SetStore(found.st)
        /\ UNCHANGED <<imap, nInode, ns, curInode, curPath, parPath>>
    BY <1>2, Zenon DEF Write
  <2> QED
    BY <1>1, <2>1, LooksKept
<1>3. CASE found.ok
  <2>1. /\ Room /\ ns' = Learn(d, edited.buf.id)
        /\ imap' = MoveInode(imap, ino.id, NextAddr(copied)) /\ SetStore(st1)
        /\ UNCHANGED <<nInode, curInode, curPath, parPath>>
    BY <1>3, Zenon DEF Write
  <2> HIDE DEF found, old
  <2>2. Grows(Store, edited, 0)
    <3>1. Grows(Store, found.st, 0)
      BY <1>1, StoreType, LooksGrows
    <3> DEFINE cached == Cache(found.st, old.cid)
    <3>2. Looks(found.st, cached) /\ cached \in Stores
      BY <1>1, CacheLooks DEF Looks
    <3>3. Grows(Store, cached, 0)
      BY <1>1, <3>2, StoreType, LooksTrans, LooksGrows
    <3> HIDE DEF cached
    <3>4. Grows(cached, EditRecipe(cached, old, b, d), 0)
      BY <1>1, <3>2, EditRecipeGrows
    <3>5. Grows(Store, EditRecipe(cached, old, b, d), 0 + 0)
      BY <3>2, <3>3, <3>4, StoreType, GrowsTrans
    <3> QED
      BY <3>1, <3>5 DEF cached
  <2> HIDE DEF edited
  <2>3. /\ edited \in Stores /\ edited.buf.id = buf.id
        /\ buf.id \in Nat /\ buf.id + 5 < MaxContainer
    BY <2>1, <2>2, StoreType DEF Grows, Room
  <2>4. Grows(edited, stored, 1)
    BY <2>3, StoreBlockGrows, ContainerAssumption
  <2>5. recipe \in Segment
    <3>1. stored \in Stores /\ old.seg \in SegIds
      BY <1>1, <2>4 DEF Grows, Addr
    <3>2. stored.buf.seg[old.seg] \in Segment /\ stored.cur.seg[old.seg] \in Segment
      BY <3>1 DEF Stores, ContainerType
    <3>3. RecipeSeg([EmptyRecipe EXCEPT ![b] = d]) \in Segment
      <4>1. [EmptyRecipe EXCEPT ![b] = d] \in Recipe
        BY DEF EmptyRecipe, Recipe
      <4> QED
        BY <4>1, SegmentType
    <3> HIDE DEF stored
    <3> QED
      BY <3>2, <3>3
  <2> HIDE DEF stored, recipe
  <2>6. stored \in Stores /\ stored.buf.id + 1 < MaxContainer
    BY <2>3, <2>4, ContainerAssumption DEF Grows
  <2>7. Grows(stored, copied, 1)
    BY <2>5, <2>6, AddSegGrows
  <2> HIDE DEF copied
  <2>8. copied \in Stores /\ copied.buf.id + 1 < MaxContainer
    BY <2>3, <2>4, <2>6, <2>7, ContainerAssumption DEF Grows
  <2>9. ino \in Inode /\ ino.id \in InodeIds
    <3>1. NextAddr(stored) \in Addr /\ 1 \in {0, 1}
      BY <2>6, NextAddrType
    <3> QED
      BY <1>1, <3>1 DEF Inode
  <2> HIDE DEF ino
  <2>10. Grows(copied, st1, 1)
    BY <2>8, <2>9, SegmentType, AddSegGrows
  <2> HIDE DEF st1
  <2>11. Grows(Store, st1, 0 + 1 + 1 + 1)
    <3>1. Grows(Store, stored, 0 + 1)
      BY <2>2, <2>3, <2>4, StoreType, GrowsTrans
    <3>2. Grows(Store, copied, 0 + 1 + 1)
      BY <2>6, <2>7, <3>1, StoreType, GrowsTrans
    <3> QED
      BY <2>8, <2>10, <3>2, StoreType, GrowsTrans
  <2>12. edited.buf.id \in ContainerIds
    BY <2>3 DEF Stores, ContainerType
  <2>13. /\ imap' \in [1 .. MaxInode -> Slot] /\ nInode' \in 1 .. MaxInode
         /\ curInode' \in Inode /\ UNCHANGED <<curPath, parPath>>
    BY <2>1, <2>8, <2>9, Before, NextAddrType, ImapType
  <2>14. DOMAIN ns' \subseteq Data /\ ns' \in [DOMAIN ns' -> ContainerIds]
    BY <2>1, <2>12, Before, LearnType
  <2>15. 0 + 1 + 1 + 1 \in Nat /\ SetStore(st1)
    BY <2>1
  <2> QED
    BY <2>11, <2>13, <2>14, <2>15, GrowsKept, Zenon
<1> QED
  BY <1>2, <1>3

-----------------------------------------------------------------------------
\* Every step of the specification, or of its stuttering.
LEMMA NextKept ==
  ASSUME TypeOK, [Next]_vars
  PROVE  Kept
<1>1. CASE ReadDir
  BY <1>1, ReadDirKept
<1>2. ASSUME NEW path \in Paths, GetAttr(path) PROVE Kept
  BY <1>2, GetAttrKept
<1>3. ASSUME NEW path \in Paths, Access(path) PROVE Kept
  BY <1>3, AccessKept
<1>4. ASSUME NEW name \in Names, Mkdir(name) PROVE Kept
  BY <1>4, MkdirKept
<1>5. ASSUME NEW name \in Names, Create(name) PROVE Kept
  BY <1>5, CreateKept
<1>6. ASSUME NEW name \in Names, Unlink(name) \/ Rmdir(name) PROVE Kept
  BY <1>6, RemoveNameKept DEF Unlink, Rmdir
<1>7. ASSUME NEW name \in Names, NEW n \in 1 .. RecipeNum, Read(name, n) PROVE Kept
  BY <1>7, ReadKept
<1>8. ASSUME NEW name \in Names, NEW b \in Blocks, NEW d \in Data, Write(name, b, d)
      PROVE  Kept
  BY <1>8, WriteKept
<1>9. ASSUME NEW old \in Names, NEW new \in Names, Rename(old, new) PROVE Kept
  BY <1>9, RenameKept
<1>10. CASE UNCHANGED vars
  BY <1>10 DEF vars, Kept, KeepsFlushed, TypeOK, ContainerType, ImageType
<1> QED
  BY <1>1, <1>2, <1>3, <1>4, <1>5, <1>6, <1>7, <1>8, <1>9, <1>10, Zenon DEF Next

\* Type correctness: whatever the sequence of file-system calls, the containers,
\* the inode map, the namespace and the copy of the current directory's inode
\* keep their types, and buf_container is never left full.
THEOREM TypeCorrect == Spec => []TypeOK
<1>1. Init => TypeOK
  BY InitType
<1>2. TypeOK /\ [Next]_vars => TypeOK'
  BY NextKept DEF Kept
<1> QED
  BY <1>1, <1>2, PTL DEF Spec

\* Write-once: container_write never goes to the place of a container that was
\* flushed before, so what container_add_seg has flushed stays as it is.
THEOREM FlushedContainersStay == Spec => FlushedForGood
<1>1. TypeOK /\ [Next]_vars => KeepsFlushed
  BY NextKept DEF Kept
<1> QED
  BY <1>1, TypeCorrect, PTL DEF Spec, FlushedForGood
=============================================================================
