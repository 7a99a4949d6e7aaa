----------------------------- MODULE LogProofs -----------------------------
(***************************************************************************)
(* Theorems about the log and deduplication, for every value of the        *)
(* constants.  All of them follow from one inductive invariant,            *)
(* LfsInv!LogSound, and from what a step keeps, LfsLemmas!Keeps; so does   *)
(* that the file system implements the deduplicating store.                *)
(***************************************************************************)
EXTENDS LfsProofs, LfsStore

\* The invariant, in the form in which the lemmas about operators have it.
Agrees == Sound(Store, DOMAIN ns, ns, imap, curInode)

\* It is the invariant of module LfsInv.
LEMMA AgreesIsLogSound == Agrees <=> LogSound
  BY DEF Agrees, LogSound, Sound

\* What every step has to establish.
Logged == Agrees' /\ Keeps(Store, Store')

\* The store after a handler that replaces it.
LEMMA SetStoreIs ==
  ASSUME NEW st \in Stores, SetStore(st)
  PROVE  Store' = st
<1>1. st = [buf |-> st.buf, cur |-> st.cur, disk |-> st.disk]
  BY DEF Stores
<1> QED
  BY <1>1 DEF SetStore, Store

\* A handler that ends in a sound store, and keeps what was filled.
LEMMA EndsSound ==
  ASSUME NEW st \in Stores, SetStore(st), Keeps(Store, st),
         Sound(st, DOMAIN ns', ns', imap', curInode')
  PROVE  Logged
<1>1. Store' = st
  BY SetStoreIs
<1>2. Agrees' = Sound(Store', DOMAIN ns', ns', imap', curInode')
  BY DEF Agrees
<1> QED
  BY <1>1, <1>2 DEF Logged

-----------------------------------------------------------------------------
(* lfs_init. *)

\* lfs_init establishes the invariant: one inode, no block, no recipe.
LEMMA InitAgrees == Init => Agrees
<1> SUFFICES ASSUME Init PROVE Agrees
  OBVIOUS
<1> DEFINE root == [NewDir(1) EXCEPT !.blk = [cid |-> 0, seg |-> 2]]
           seg1 == InodeSeg(root)
           seg2 == DirSeg(NewDirRecords(1, 1))
           empty == EmptyContainer(0)
<1>1. /\ root.recipe = NullAddr
      /\ seg1.kind = "inode" /\ seg1.ino = root /\ seg2.kind = "dir"
  BY DEF NewDir, ZeroInode, InodeSeg, DirSeg
<1>2. RootContainer = [empty EXCEPT !.seg[1] = seg1, !.seg[2] = seg2, !.off = 3]
  BY DEF RootContainer
<1>3. curInode = root
  BY DEF Init
<1> HIDE DEF root, seg1, seg2
<1>4. /\ 1 \in SegIds /\ 2 \in SegIds /\ 0 \in ContainerIds
      /\ \A s \in SegIds : s \in Nat
  BY ContainerAssumption DEF SegIds, ContainerIds
<1>5. /\ RootContainer.id = 0 /\ RootContainer.hdr = <<>> /\ RootContainer.off = 3
      /\ \A s \in SegIds : RootContainer.seg[s] = IF s = 1 THEN seg1
                                                  ELSE IF s = 2 THEN seg2 ELSE ZeroSeg
  BY <1>2, <1>4 DEF EmptyContainer
<1>6. /\ Store.buf = RootContainer /\ Store.cur = RootContainer
      /\ Store.disk = [c \in ContainerIds |-> ZeroImage]
  BY DEF Init, Store
<1>7. \A s \in SegIds : ZeroImage.seg[s] = ZeroSeg
  BY DEF ZeroImage, Image, EmptyContainer
<1>8. ZeroSeg.kind = "zero"
  BY DEF ZeroSeg
<1>9. ASSUME NEW a \in LogAddr(Store)
      PROVE  LogSeg(Store, a) \in {seg1, seg2, ZeroSeg}
  <2>1. a.cid = 0 /\ a.seg \in SegIds
    BY <1>5, <1>6 DEF LogAddr
  <2> QED
    BY <1>5, <1>6, <2>1 DEF LogSeg, LogContainer, Image
<1>10. DOMAIN ns = {}
  BY DEF Init
<1>11. DedupInv(Store, ns)
  <2>1. HeaderFits(Store)
    BY <1>5, <1>6 DEF HeaderFits
  <2>2. \A a \in LogAddr(Store) : LogSeg(Store, a).kind # "data"
    BY <1>1, <1>8, <1>9
  <2>3. \A x \in 0 .. Store.buf.id : LogContainer(Store, x).hdr = <<>>
    BY <1>5, <1>6 DEF LogContainer, Image
  <2> QED
    BY <1>10, <2>1, <2>2, <2>3 DEF DedupInv, HeadersTrue, BlocksFiled, BlocksKnown, BlocksOnce
<1>12. RecipeThere(Store, curInode)
  BY <1>1, <1>3 DEF RecipeThere
<1>13. SegsSound(Store, DOMAIN ns)
  <2>1. /\ SegSound(Store, DOMAIN ns, seg1) /\ SegSound(Store, DOMAIN ns, seg2)
        /\ SegSound(Store, DOMAIN ns, ZeroSeg)
    BY <1>1, <1>3, <1>8, <1>12 DEF SegSound
  <2>2. \A s \in SegIds : RootContainer.seg[s] \in {seg1, seg2, ZeroSeg}
    BY <1>5
  <2> QED
    BY <1>6, <1>7, <2>1, <2>2 DEF SegsSound
<1>14. SlotsSound(Store, imap)
  <2>1. \A i \in DOMAIN imap : imap[i].id # 0 => imap[i].addr = [cid |-> 0, seg |-> 1]
    BY DEF Init
  <2>2. /\ Written(Store, [cid |-> 0, seg |-> 1])
        /\ LogSeg(Store, [cid |-> 0, seg |-> 1]) = seg1
    BY <1>4, <1>5, <1>6 DEF Written, LogSeg, LogContainer, Image
  <2> QED
    BY <1>1, <2>1, <2>2 DEF SlotsSound
<1> QED
  BY <1>11, <1>12, <1>13, <1>14 DEF Agrees, Sound

-----------------------------------------------------------------------------
(* One lemma for each handler. *)

\* A handler that looks, and changes nothing but the store.
LEMMA LooksLogged ==
  ASSUME TypeOK, Agrees, NEW st, Looks(Store, st), SetStore(st),
         UNCHANGED <<imap, nInode, ns, curInode, curPath, parPath>>
  PROVE  Logged
<1>1. Sound(st, DOMAIN ns, ns, imap, curInode) /\ Keeps(Store, st) /\ st \in Stores
  BY StoreType, LooksSound DEF Agrees, Looks
<1> QED
  BY <1>1, EndsSound

\* lfs_readdir only looks.
LEMMA ReadDirLogged ==
  ASSUME TypeOK, Agrees, ReadDir
  PROVE  Logged
<1>1. Looks(Store, OpenCurDir(Store, curInode).st)
  BY StoreType, Before, OpenCurDirLooks
<1> QED
  BY <1>1, LooksLogged DEF ReadDir

\* lfs_getattr only looks.
LEMMA GetAttrLogged ==
  ASSUME TypeOK, Agrees, NEW path, GetAttr(path)
  PROVE  Logged
<1> DEFINE name == IF path = parPath THEN ".." ELSE FileName(path)
<1>1. Looks(Store, DirGetInode(Store, name).st)
  BY StoreType, Before, DirGetInodeLooks
<1> QED
  BY <1>1, LooksLogged, Zenon DEF GetAttr

\* lfs_access may make an inode that it found cur_inode.
LEMMA AccessLogged ==
  ASSUME TypeOK, Agrees, NEW path, Access(path)
  PROVE  Logged
<1> DEFINE up    == path = parPath
           found == DirGetInode(Store, IF up THEN ".." ELSE FileName(path))
           enter == found.ok /\ (up \/ found.ino.type = "dir")
<1>1. Looks(Store, found.st)
  BY StoreType, Before, DirGetInodeLooks
<1>2. RecipeThere(found.st, found.ino)
  BY StoreType, Before, FoundSound DEF Agrees, Sound
<1>3. /\ SetStore(found.st)
      /\ curInode' = IF enter THEN found.ino ELSE curInode
      /\ UNCHANGED <<imap, nInode, ns>>
  BY Zenon DEF Access
<1> HIDE DEF up, found, enter
<1>4. /\ Sound(found.st, DOMAIN ns, ns, imap, curInode)
      /\ Keeps(Store, found.st) /\ found.st \in Stores
  BY <1>1, StoreType, LooksSound DEF Agrees, Looks
<1>5. Sound(found.st, DOMAIN ns', ns', imap', curInode')
  BY <1>2, <1>3, <1>4 DEF Sound
<1> QED
  BY <1>3, <1>4, <1>5, EndsSound

\* lfs_read only looks.
LEMMA ReadLogged ==
  ASSUME TypeOK, Agrees, NEW name, NEW n \in 1 .. RecipeNum, Read(name, n)
  PROVE  Logged
<1> DEFINE found == DirGetInode(Store, name)
           st1   == ReadFile(found.st, found.ino, n).st
<1>1. Looks(Store, found.st) /\ found.st \in Stores
  BY StoreType, Before, DirGetInodeLooks DEF Looks
<1>2. Looks(Store, st1)
  BY <1>1, ReadFileLooks, LooksTrans, LfsAssumption
<1>3. /\ SetStore(IF found.ok THEN st1 ELSE found.st)
      /\ UNCHANGED <<imap, nInode, ns, curInode, curPath, parPath>>
  BY Zenon DEF Read
<1> HIDE DEF found, st1
<1> QED
  BY <1>1, <1>2, <1>3, LooksLogged

\* lfs_rename, lfs_unlink and lfs_rmdir commit a directory, with an inode map
\* from which an inode may have been dropped.
LEMMA CommitLogged ==
  ASSUME TypeOK, Agrees, Room, NEW st, Looks(Store, st),
         NEW im \in [1 .. MaxInode -> Slot], NEW dir \in Seq(DirRecord),
         SlotsSound(Store, im),
         SetStore(CommitDir(st, im, nInode, dir, curInode).st),
         imap' = CommitDir(st, im, nInode, dir, curInode).imap,
         curInode' = CommitDir(st, im, nInode, dir, curInode).ino,
         UNCHANGED <<nInode, ns, curPath, parPath>>
  PROVE  Logged
<1> DEFINE here == CommitDir(st, im, nInode, dir, curInode)
<1>1. st \in Stores /\ st.buf.id = buf.id /\ buf.id \in Nat /\ st.buf.id + 3 < MaxContainer
  BY StoreType, ContainerAssumption DEF Looks, Room
<1>2. Sound(st, DOMAIN ns, ns, im, curInode) /\ Keeps(Store, st)
  <2>1. Sound(Store, DOMAIN ns, ns, im, curInode)
    BY DEF Agrees, Sound
  <2> QED
    BY <2>1, StoreType, LooksSound
<1>3. here.st \in Stores
  BY <1>1, Before, CommitDirGrows, 3 \in {2, 3} DEF Grows
<1>4. /\ Sound(here.st, DOMAIN ns, ns, here.imap, here.ino)
      /\ Keeps(st, here.st)
  BY <1>1, <1>2, Before, CommitDirSound, 3 \in {2, 3}
<1>5. SetStore(here.st) /\ imap' = here.imap /\ curInode' = here.ino /\ ns' = ns
  OBVIOUS
<1> HIDE DEF here
<1>6. Keeps(Store, here.st)
  BY <1>2, <1>4, KeepsTrans
<1> QED
  BY <1>3, <1>4, <1>5, <1>6, EndsSound

\* lfs_rename commits the current directory.
LEMMA RenameLogged ==
  ASSUME TypeOK, Agrees, NEW old \in Names, NEW new \in Names, Rename(old, new)
  PROVE  Logged
<1> DEFINE open == OpenCurDir(Store, curInode)
           dir  == ChangeEntry(open.dir, old, new)
           here == CommitDir(open.st, imap, nInode, dir, curInode)
<1>1. Looks(Store, open.st) /\ open.dir \in Seq(DirRecord)
  BY StoreType, Before, OpenCurDirLooks
<1>2. CASE ~HasName(open.dir, old)
  <2>1. /\ SetStore(open.st)
        /\ UNCHANGED <<imap, nInode, ns, curInode, curPath, parPath>>
    BY <1>2, Zenon DEF Rename
  <2> QED
    BY <1>1, <2>1, LooksLogged
<1>3. CASE HasName(open.dir, old)
  <2>1. /\ Room /\ SetStore(here.st) /\ imap' = here.imap /\ curInode' = here.ino
        /\ UNCHANGED <<nInode, ns, curPath, parPath>>
    BY <1>3, Zenon DEF Rename
  <2>2. old \in AllNames /\ new \in AllNames
    BY DEF AllNames
  <2>3. dir \in Seq(DirRecord)
    BY <1>1, <2>2, EditedDirType
  <2>4. SlotsSound(Store, imap)
    BY DEF Agrees, Sound
  <2> QED
    BY <1>1, <2>1, <2>3, <2>4, Before, CommitLogged
<1> QED
  BY <1>2, <1>3

\* lfs_unlink and lfs_rmdir drop an inode and commit the current directory.
LEMMA RemoveNameLogged ==
  ASSUME TypeOK, Agrees, NEW name \in Names, RemoveName(name)
  PROVE  Logged
<1> DEFINE open == OpenCurDir(Store, curInode)
           dir  == RemoveEntry(open.dir, name)
           im   == DropInode(imap, nInode, IdOf(open.dir, name))
           here == CommitDir(open.st, im, nInode, dir, curInode)
<1>1. Looks(Store, open.st) /\ open.dir \in Seq(DirRecord)
  BY StoreType, Before, OpenCurDirLooks
<1>2. CASE ~HasName(open.dir, name)
  <2>1. /\ SetStore(open.st)
        /\ UNCHANGED <<imap, nInode, ns, curInode, curPath, parPath>>
    BY <1>2, Zenon DEF RemoveName
  <2> QED
    BY <1>1, <2>1, LooksLogged
<1>3. CASE HasName(open.dir, name)
  <2>1. /\ Room /\ SetStore(here.st) /\ imap' = here.imap /\ curInode' = here.ino
        /\ UNCHANGED <<nInode, ns, curPath, parPath>>
    BY <1>3, Zenon DEF RemoveName
  <2>2. dir \in Seq(DirRecord)
    BY <1>1, <1>3, EditedDirType
  <2>3. im \in [1 .. MaxInode -> Slot]
    BY <1>1, <1>3, Before, IdOfType, ImapType
  <2>4. SlotsSound(Store, im)
    BY Before, EditedSlots DEF Agrees, Sound
  <2> QED
    BY <1>1, <2>1, <2>2, <2>3, <2>4, CommitLogged
<1> QED
  BY <1>2, <1>3

\* lfs_mkdir commits the current directory and then the new one.
LEMMA MkdirLogged ==
  ASSUME TypeOK, Agrees, NEW name \in Names, Mkdir(name)
  PROVE  Logged
<1> DEFINE open  == OpenCurDir(Store, curInode)
           n     == nInode + 1
           dir   == AddEntry(open.dir, name, n)
           here  == CommitDir(open.st, imap, n, dir, curInode)
           recs  == NewDirRecords(curInode.id, n)
           there == CommitDir(here.st, here.imap, n, recs, NewDir(n))
<1>1. /\ Room /\ n <= MaxInode
      /\ SetStore(there.st) /\ imap' = there.imap /\ curInode' = here.ino
      /\ UNCHANGED <<ns, curPath, parPath>>
  BY Zenon DEF Mkdir
<1>2. n \in InodeIds /\ name \in AllNames /\ curInode.id \in InodeIds
  <2>1. n \in InodeIds
    BY <1>1, Before, LfsAssumption DEF InodeIds
  <2>2. name \in AllNames
    BY DEF AllNames
  <2>3. curInode.id \in InodeIds
    BY Before DEF Inode
  <2> QED
    BY <2>1, <2>2, <2>3
<1>3. /\ Looks(Store, open.st) /\ open.st \in Stores
      /\ open.st.buf.id = buf.id /\ buf.id \in Nat /\ buf.id + 5 < MaxContainer
      /\ dir \in Seq(DirRecord)
  BY <1>1, <1>2, StoreType, Before, OpenCurDirLooks, EditedDirType DEF Looks, Room
<1>4. Sound(open.st, DOMAIN ns, ns, imap, curInode) /\ Keeps(Store, open.st)
  BY <1>3, StoreType, LooksSound DEF Agrees
<1>5. /\ recs \in Seq(DirRecord) /\ ~(Len(recs) > RecPerSeg)
      /\ NewDir(n) \in Inode /\ NewDir(n).recipe = NullAddr
  <2>1. recs \in Seq(DirRecord) /\ ~(Len(recs) > RecPerSeg)
    <3>1. recs \in Seq(DirRecord) /\ Len(recs) = 2
      BY <1>2, NewDirRecordsType, Zenon
    <3> HIDE DEF recs
    <3> QED
      BY <3>1, RecPerSegType
  <2>2. NewDir(n) \in Inode
    BY <1>2, NewInodeType
  <2>3. NewDir(n).recipe = NullAddr
    BY DEF NewDir, ZeroInode
  <2> QED
    BY <2>1, <2>2, <2>3
<1> HIDE DEF open, dir, n, recs
<1>6. 3 \in {2, 3} /\ open.st.buf.id + 3 < MaxContainer
  BY <1>3, ContainerAssumption
<1>7. /\ Grows(open.st, here.st, 3)
      /\ here.imap \in [1 .. MaxInode -> Slot]
  BY <1>3, <1>6, Before, CommitDirGrows
<1>8. /\ Sound(here.st, DOMAIN ns, ns, here.imap, here.ino)
      /\ Keeps(open.st, here.st)
  BY <1>3, <1>4, <1>6, Before, CommitDirSound
<1> HIDE DEF here
<1>9. here.st \in Stores /\ here.st.buf.id + 2 < MaxContainer
  <2>1. here.st \in Stores /\ here.st.buf.id \in buf.id .. buf.id + 3
    BY <1>3, <1>7 DEF Grows
  <2> QED
    BY <1>3, <2>1, ContainerAssumption
<1>10. Sound(here.st, DOMAIN ns, ns, here.imap, NewDir(n))
  BY <1>5, <1>8 DEF Sound, RecipeThere
<1>11. there.st \in Stores
  BY <1>5, <1>7, <1>9, CommitDirGrows DEF Grows
<1>12. /\ Sound(there.st, DOMAIN ns, ns, there.imap, there.ino)
       /\ Keeps(here.st, there.st)
  BY <1>5, <1>7, <1>9, <1>10, CommitDirSound
<1> HIDE DEF there
<1>13. Sound(there.st, DOMAIN ns', ns', imap', curInode')
  BY <1>1, <1>8, <1>12, KeepsRecipe DEF Sound
<1>14. Keeps(Store, there.st)
  BY <1>4, <1>8, <1>12, KeepsTrans
<1> QED
  BY <1>1, <1>11, <1>13, <1>14, EndsSound

\* lfs_create commits the current directory and adds an inode.
LEMMA CreateLogged ==
  ASSUME TypeOK, Agrees, NEW name \in Names, Create(name)
  PROVE  Logged
<1> DEFINE found == DirGetInode(Store, name)
           open  == OpenCurDir(found.st, curInode)
           n     == nInode + 1
           dir   == AddEntry(open.dir, name, n)
           here  == CommitDir(open.st, imap, n, dir, curInode)
           seg   == InodeSeg(NewFile(n))
           st1   == AddSeg(here.st, seg)
<1>1. Looks(Store, found.st) /\ found.st \in Stores
  BY StoreType, Before, DirGetInodeLooks DEF Looks
<1>2. CASE found.ok
  <2>1. /\ SetStore(found.st)
        /\ UNCHANGED <<imap, nInode, ns, curInode, curPath, parPath>>
    BY <1>2, Zenon DEF Create
  <2> QED
    BY <1>1, <2>1, LooksLogged
<1>3. CASE ~found.ok
  <2>1. /\ Room /\ n <= MaxInode
        /\ imap' = [here.imap EXCEPT ![n] = [id |-> n, addr |-> NextAddr(here.st)]]
        /\ SetStore(st1) /\ curInode' = here.ino
        /\ UNCHANGED <<ns, curPath, parPath>>
    BY <1>3, Zenon DEF Create
  <2>2. n \in InodeIds /\ name \in AllNames
    <3>1. n \in InodeIds
      BY <2>1, Before, LfsAssumption DEF InodeIds
    <3>2. name \in AllNames
      BY DEF AllNames
    <3> QED
      BY <3>1, <3>2
  <2>3. Looks(found.st, open.st) /\ open.dir \in Seq(DirRecord)
    BY <1>1, Before, OpenCurDirLooks
  <2>4. seg \in Segment /\ seg.kind = "inode" /\ seg.ino.recipe = NullAddr
    BY <2>2, NewInodeType, SegmentType DEF InodeSeg, NewFile, ZeroInode
  <2> HIDE DEF found, open, n, seg
  <2>5. Looks(Store, open.st) /\ dir \in Seq(DirRecord)
    BY <1>1, <2>2, <2>3, LooksTrans, EditedDirType
  <2>6. /\ open.st \in Stores /\ open.st.buf.id = buf.id
        /\ buf.id \in Nat /\ buf.id + 5 < MaxContainer
    BY <2>1, <2>5, StoreType DEF Looks, Room
  <2>7. Sound(open.st, DOMAIN ns, ns, imap, curInode) /\ Keeps(Store, open.st)
    BY <2>5, StoreType, LooksSound DEF Agrees
  <2> HIDE DEF dir
  <2>8. 3 \in {2, 3} /\ open.st.buf.id + 3 < MaxContainer
    BY <2>6, ContainerAssumption
  <2>9. /\ Grows(open.st, here.st, 3)
        /\ here.imap \in [1 .. MaxInode -> Slot]
    BY <2>5, <2>6, <2>8, Before, CommitDirGrows
  <2>10. /\ Sound(here.st, DOMAIN ns, ns, here.imap, here.ino)
         /\ Keeps(open.st, here.st)
    BY <2>5, <2>6, <2>7, <2>8, Before, CommitDirSound
  <2> HIDE DEF here
  <2>11. here.st \in Stores /\ here.st.buf.id + 1 < MaxContainer
    BY <2>6, <2>9, ContainerAssumption DEF Grows
  <2>12. SegSound(here.st, DOMAIN ns, seg)
    BY <2>4 DEF SegSound, RecipeThere
  <2>13. /\ Sound(st1, DOMAIN ns, ns, here.imap, here.ino)
         /\ Keeps(here.st, st1)
         /\ Written(st1, NextAddr(here.st)) /\ LogSeg(st1, NextAddr(here.st)) = seg
    BY <2>4, <2>10, <2>11, <2>12, AppendSound, AddSegKeeps
  <2>14. st1 \in Stores
    BY <2>4, <2>11, AddSegGrows DEF Grows
  <2> HIDE DEF st1
  <2>15. SlotsSound(st1, imap')
    BY <2>1, <2>4, <2>9, <2>13, EditedSlots DEF Sound
  <2>16. Sound(st1, DOMAIN ns', ns', imap', curInode')
    BY <2>1, <2>13, <2>15 DEF Sound
  <2>17. Keeps(Store, st1)
    BY <2>7, <2>10, <2>13, KeepsTrans, Zenon
  <2> QED
    BY <2>1, <2>14, <2>16, <2>17, EndsSound
<1> QED
  BY <1>2, <1>3

\* What lfs_write makes of the store until the inode is appended: the recipe is
\* edited, the block stored, and the recipe copied.  (known is what the recipe
\* may name: the new block before the namespace has it.)
LEMMA WriteStores ==
  ASSUME NEW st \in Stores, NEW ino \in Inode, NEW b \in Blocks, NEW d \in Data,
         st.buf.id + 3 < MaxContainer,
         Sound(st, DOMAIN ns, ns, imap, curInode), RecipeThere(st, ino)
  PROVE  LET old    == ino.recipe
             fresh  == old = NullAddr
             cached == Cache(st, old.cid)
             edited == IF fresh THEN st ELSE EditRecipe(cached, old, b, d)
             stored == StoreBlock(edited, d)
             recipe == IF fresh THEN RecipeSeg([EmptyRecipe EXCEPT ![b] = d])
                       ELSE IF old.cid = st.buf.id THEN stored.buf.seg[old.seg]
                       ELSE stored.cur.seg[old.seg]
             known  == DOMAIN ns \cup {d}
         IN  /\ edited.buf.id = st.buf.id
             /\ stored \in Stores /\ stored.buf.id \in st.buf.id .. st.buf.id + 1
             /\ Sound(stored, known, Learn(d, edited.buf.id), imap, curInode)
             /\ Keeps(st, stored)
             /\ recipe \in Segment /\ recipe.kind \in {"recipe", "zero"}
             /\ SegSound(stored, known, recipe)
<1> DEFINE old    == ino.recipe
           fresh  == old = NullAddr
           cached == Cache(st, old.cid)
           edited == IF fresh THEN st ELSE EditRecipe(cached, old, b, d)
           stored == StoreBlock(edited, d)
           new    == RecipeSeg([EmptyRecipe EXCEPT ![b] = d])
           recipe == IF fresh THEN new
                     ELSE IF old.cid = st.buf.id THEN stored.buf.seg[old.seg]
                     ELSE stored.cur.seg[old.seg]
           known  == DOMAIN ns \cup {d}
<1>1. old \in Addr /\ st.buf.id \in Nat
  BY DEF Inode, Stores, ContainerType, ContainerIds
<1>2. /\ new \in Segment /\ new.kind = "recipe"
      /\ \A any : SegSound(any, known, new)
  <2>1. [EmptyRecipe EXCEPT ![b] = d] \in Recipe
    BY DEF EmptyRecipe, Recipe
  <2>2. \A x \in Blocks : [EmptyRecipe EXCEPT ![b] = d][x] \in known \cup {NoFp}
    BY DEF EmptyRecipe
  <2> QED
    BY <2>1, <2>2, SegmentType DEF RecipeSeg, SegSound
<1>3. /\ Looks(st, cached) /\ cached \in Stores /\ cached.buf = st.buf
      /\ Sound(cached, DOMAIN ns, ns, imap, curInode) /\ Keeps(st, cached)
      /\ RecipeThere(cached, ino)
  <2>1. Looks(st, cached) /\ cached \in Stores /\ cached.buf = st.buf
    BY CacheLooks DEF Looks
  <2> HIDE DEF cached
  <2> QED
    BY <2>1, LooksSound, KeepsRecipe
<1> HIDE DEF new, cached
<1>4. /\ edited \in Stores /\ edited.buf.id = st.buf.id
      /\ DedupInv(edited, ns) /\ SegsSound(edited, known) /\ Keeps(st, edited)
  <2>1. CASE fresh
    <3>1. Keeps(st, st)
      BY KeepsSame
    <3>2. \A g : SegSound(st, DOMAIN ns, g) => SegSound(st, known, g)
      BY <3>1, KeepsSound
    <3>3. SegsSound(st, known)
      BY <3>2 DEF Sound, SegsSound
    <3> QED
      BY <2>1, <3>1, <3>3 DEF Sound
  <2>2. CASE ~fresh
    <3> DEFINE t == EditRecipe(cached, old, b, d)
    <3>1. Written(cached, old) /\ LogSeg(cached, old).kind \in {"recipe", "zero"}
      BY <1>3, <2>2 DEF RecipeThere
    <3>2. DedupInv(t, ns) /\ SegsSound(t, known) /\ Keeps(cached, t)
      BY <1>1, <1>3, <3>1, EditRecipeSound DEF Sound
    <3>3. t \in Stores /\ t.buf.id = st.buf.id
      BY <1>1, <1>3, EditRecipeGrows, EditRecipeShape DEF Grows
    <3>4. edited = t
      BY <2>2
    <3> HIDE DEF t, edited
    <3> QED
      BY <1>3, <3>2, <3>3, <3>4, KeepsTrans
  <2> QED
    BY <2>1, <2>2
<1>5. ~fresh => /\ old.cid = st.buf.id => stored.buf.seg[old.seg].kind \in {"recipe", "zero"}
                /\ old.cid # st.buf.id => stored.cur.seg[old.seg].kind \in {"recipe", "zero"}
  <2> SUFFICES ASSUME ~fresh
               PROVE  /\ old.cid = st.buf.id => stored.buf.seg[old.seg].kind \in {"recipe", "zero"}
                      /\ old.cid # st.buf.id => stored.cur.seg[old.seg].kind \in {"recipe", "zero"}
    OBVIOUS
  <2>1. Written(cached, old) /\ LogSeg(cached, old).kind \in {"recipe", "zero"}
    BY <1>3 DEF RecipeThere
  <2>2. cached.buf.id + 1 < MaxContainer /\ cached.buf.id = st.buf.id
    BY <1>1, <1>3, ContainerAssumption
  <2>3. edited = EditRecipe(cached, old, b, d)
    OBVIOUS
  <2> HIDE DEF edited
  <2> QED
    BY <1>1, <1>3, <2>1, <2>2, <2>3, CopiedRecipe DEF Sound
<1> HIDE DEF edited
<1>6. edited.buf.id + 1 < MaxContainer
  BY <1>1, <1>4, ContainerAssumption
<1>7. /\ DedupInv(stored, Learn(d, edited.buf.id))
      /\ SegsSound(stored, known) /\ Keeps(edited, stored)
  BY <1>4, <1>6, StoreBlockSound
<1>8. stored \in Stores /\ stored.buf.id \in st.buf.id .. st.buf.id + 1
  BY <1>4, <1>6, StoreBlockGrows DEF Grows
<1> HIDE DEF stored
<1>9. Keeps(st, stored)
  BY <1>4, <1>7, KeepsTrans
<1>10. Sound(stored, known, Learn(d, edited.buf.id), imap, curInode)
  BY <1>7, <1>9, KeepsRecipe, KeepsSlots DEF Sound
<1>11. CASE fresh
  BY <1>2, <1>4, <1>8, <1>9, <1>10, <1>11 DEF edited, stored, new, cached
<1>12. CASE ~fresh
  <2>1. old.seg \in SegIds
    BY <1>1 DEF Addr
  <2>2. /\ stored.buf.seg[old.seg] \in Segment /\ stored.cur.seg[old.seg] \in Segment
        /\ SegSound(stored, known, stored.buf.seg[old.seg])
        /\ SegSound(stored, known, stored.cur.seg[old.seg])
    BY <1>7, <1>8, <2>1 DEF Stores, ContainerType, SegsSound
  <2>3. /\ recipe \in Segment /\ recipe.kind \in {"recipe", "zero"}
        /\ SegSound(stored, known, recipe)
    BY <1>5, <1>12, <2>2
  <2> QED
    BY <1>4, <1>8, <1>9, <1>10, <2>3 DEF edited, stored, new, cached
<1> QED
  BY <1>11, <1>12

\* lfs_write adds the inode, whose recipe is the copy, and moves it in the map.
LEMMA WriteLogged ==
  ASSUME TypeOK, Agrees, NEW name, NEW b \in Blocks, NEW d \in Data, Write(name, b, d)
  PROVE  Logged
<1> DEFINE found  == DirGetInode(Store, name)
           st     == found.st
           old    == found.ino.recipe
           fresh  == old = NullAddr
           cached == Cache(st, old.cid)
           edited == IF fresh THEN st ELSE EditRecipe(cached, old, b, d)
           stored == StoreBlock(edited, d)
           recipe == IF fresh THEN RecipeSeg([EmptyRecipe EXCEPT ![b] = d])
                     ELSE IF old.cid = st.buf.id THEN stored.buf.seg[old.seg]
                     ELSE stored.cur.seg[old.seg]
           known  == DOMAIN ns \cup {d}
           copied == AddSeg(stored, recipe)
           ino    == [found.ino EXCEPT !.size = 1, !.recipe = NextAddr(stored)]
           seg    == InodeSeg(ino)
           st1    == AddSeg(copied, seg)
<1>1. Looks(Store, st) /\ st \in Stores /\ found.ino \in Inode
  BY StoreType, Before, DirGetInodeLooks DEF Looks
<1>2. CASE ~found.ok
  <2>1. /\ SetStore(st)
        /\ UNCHANGED <<imap, nInode, ns, curInode, curPath, parPath>>
    BY <1>2, Zenon DEF Write
  <2> QED
    BY <1>1, <2>1, LooksLogged
<1>3. CASE found.ok
  <2>1. /\ Room /\ ns' = Learn(d, edited.buf.id)
        /\ imap' = MoveInode(imap, ino.id, NextAddr(copied)) /\ SetStore(st1)
        /\ UNCHANGED <<nInode, curInode, curPath, parPath>>
    <3>1. ASSUME NEW x, NEW y, NEW z
          PROVE  (IF fresh THEN x ELSE IF ~fresh /\ old.cid = st.buf.id THEN y ELSE z)
                   = IF fresh THEN x ELSE IF old.cid = st.buf.id THEN y ELSE z
      OBVIOUS
    <3> QED
      BY <1>3, <3>1, Zenon DEF Write
  <2>2. RecipeThere(st, found.ino)
    BY StoreType, Before, FoundSound DEF Agrees, Sound
  <2> HIDE DEF found
  <2>3. Sound(st, DOMAIN ns, ns, imap, curInode) /\ Keeps(Store, st)
    BY <1>1, StoreType, LooksSound, Zenon DEF Agrees
  <2>4. st.buf.id = buf.id /\ buf.id \in Nat /\ buf.id + 5 < MaxContainer
    BY <1>1, <2>1, StoreType DEF Looks, Room
  <2>5. st.buf.id + 3 < MaxContainer
    <3> HIDE DEF st
    <3> QED
      BY <2>4, ContainerAssumption
  <2>6. /\ edited.buf.id = st.buf.id
        /\ stored \in Stores /\ stored.buf.id \in st.buf.id .. st.buf.id + 1
        /\ Sound(stored, known, Learn(d, edited.buf.id), imap, curInode)
        /\ Keeps(st, stored)
        /\ recipe \in Segment /\ recipe.kind \in {"recipe", "zero"}
        /\ SegSound(stored, known, recipe)
    <3> HIDE DEF st
    <3> QED
      BY <1>1, <2>2, <2>3, <2>5, WriteStores, Zenon
  <2>7. DOMAIN Learn(d, edited.buf.id) = known
    BY DEF Learn
  <2> DEFINE table == Learn(d, edited.buf.id)
  <2>8. ns' = table
    BY <2>1
  <2> HIDE DEF st, edited, stored, recipe, known, table
  <2>9. recipe.kind # "data" /\ stored.buf.id + 1 < MaxContainer
    BY <2>4, <2>6, ContainerAssumption
  <2>10. /\ Sound(copied, known, table, imap, curInode) /\ Keeps(stored, copied)
         /\ Written(copied, NextAddr(stored)) /\ LogSeg(copied, NextAddr(stored)) = recipe
    BY <2>6, <2>9, AppendSound, AddSegKeeps DEF table
  <2>11. copied \in Stores /\ copied.buf.id \in stored.buf.id .. stored.buf.id + 1
    BY <2>6, <2>9, AddSegGrows DEF Grows
  <2> HIDE DEF copied
  <2>12. ino \in Inode /\ ino.recipe = NextAddr(stored)
    BY <1>1, <2>6, NextAddrType DEF Inode
  <2>13. RecipeThere(copied, ino)
    BY <2>6, <2>10, <2>12 DEF RecipeThere
  <2> HIDE DEF ino
  <2>14. /\ seg \in Segment /\ seg.kind = "inode" /\ SegSound(copied, known, seg)
    BY <2>12, <2>13, SegmentType, OtherSound DEF InodeSeg
  <2>15. copied.buf.id + 1 < MaxContainer
    BY <2>4, <2>6, <2>11, ContainerAssumption
  <2> HIDE DEF seg
  <2>16. /\ Sound(st1, known, table, imap, curInode) /\ Keeps(copied, st1)
         /\ Written(st1, NextAddr(copied)) /\ LogSeg(st1, NextAddr(copied)) = seg
    BY <2>10, <2>11, <2>14, <2>15, AppendSound, AddSegKeeps
  <2>17. st1 \in Stores
    BY <2>11, <2>14, <2>15, AddSegGrows DEF Grows
  <2> HIDE DEF st1
  <2>18. SlotsSound(st1, imap')
    BY <2>1, <2>14, <2>16, Before, EditedSlots DEF Sound
  <2>19. Sound(st1, DOMAIN ns', ns', imap', curInode')
    BY <2>1, <2>7, <2>8, <2>16, <2>18 DEF Sound, table
  <2>20. Keeps(Store, st1)
    BY <2>3, <2>6, <2>10, <2>16, KeepsTrans
  <2> QED
    BY <2>1, <2>17, <2>19, <2>20, EndsSound
<1> QED
  BY <1>2, <1>3

-----------------------------------------------------------------------------
\* Every step of the specification, or of its stuttering.
LEMMA NextLogged ==
  ASSUME TypeOK, Agrees, [Next]_vars
  PROVE  Logged
<1>1. CASE ReadDir
  BY <1>1, ReadDirLogged
<1>2. ASSUME NEW path \in Paths, GetAttr(path) PROVE Logged
  BY <1>2, GetAttrLogged
<1>3. ASSUME NEW path \in Paths, Access(path) PROVE Logged
  BY <1>3, AccessLogged
<1>4. ASSUME NEW name \in Names, Mkdir(name) PROVE Logged
  BY <1>4, MkdirLogged
<1>5. ASSUME NEW name \in Names, Create(name) PROVE Logged
  BY <1>5, CreateLogged
<1>6. ASSUME NEW name \in Names, Unlink(name) \/ Rmdir(name) PROVE Logged
  BY <1>6, RemoveNameLogged DEF Unlink, Rmdir
<1>7. ASSUME NEW name \in Names, NEW n \in 1 .. RecipeNum, Read(name, n) PROVE Logged
  BY <1>7, ReadLogged
<1>8. ASSUME NEW name \in Names, NEW b \in Blocks, NEW d \in Data, Write(name, b, d)
      PROVE  Logged
  BY <1>8, WriteLogged
<1>9. ASSUME NEW old \in Names, NEW new \in Names, Rename(old, new) PROVE Logged
  BY <1>9, RenameLogged
<1>10. CASE UNCHANGED vars
  <2>1. Looks(Store, Store) /\ SetStore(Store)
    BY <1>10, StoreType DEF Looks, SetStore, Store, vars
  <2> QED
    BY <1>10, <2>1, LooksLogged DEF vars
<1> QED
  BY <1>1, <1>2, <1>3, <1>4, <1>5, <1>6, <1>7, <1>8, <1>9, <1>10, Zenon DEF Next

-----------------------------------------------------------------------------
(* Theorems. *)

\* The log, the read cache, the namespace, the inode map and cur_inode agree
\* between operations: the inductive invariant of this module, whatever was
\* interrupted by a flush of buf_container.
THEOREM LogAgrees == Spec => []LogSound
<1>1. Init => TypeOK /\ LogSound
  BY InitType, InitAgrees, AgreesIsLogSound
<1>2. TypeOK /\ LogSound /\ [Next]_vars => TypeOK' /\ LogSound'
  <2> SUFFICES ASSUME TypeOK, LogSound, [Next]_vars
               PROVE  TypeOK' /\ LogSound'
    OBVIOUS
  <2>1. Agrees
    BY AgreesIsLogSound
  <2>2. TypeOK' /\ Agrees'
    BY <2>1, NextKept, NextLogged DEF Kept, Logged
  <2>3. Agrees' <=> LogSound'
    BY AgreesIsLogSound, PTL
  <2> QED
    BY <2>2, <2>3
<1> QED
  BY <1>1, <1>2, PTL DEF Spec

\* Deduplication never loses a block: for every fingerprint in the namespace,
\* the container named there has a header record with that fingerprint, at a
\* segment that holds the content (lfs_write, container_add_seg).
THEOREM NamespaceLeadsToBlocks == Spec => []DedupSound
<1>1. TypeOK /\ LogSound => DedupSound
  <2> SUFFICES ASSUME TypeOK, LogSound, NEW d \in DOMAIN ns
               PROVE  LET c == LogContainer(Store, ns[d])
                      IN  \E i \in DOMAIN c.hdr :
                            /\ c.hdr[i] = [fp |-> d, seg |-> c.hdr[i].seg]
                            /\ c.seg[c.hdr[i].seg] = DataSeg(d)
    BY DEF DedupSound
  <2> DEFINE c == LogContainer(Store, ns[d])
  <2>1. PICK i \in DOMAIN c.hdr :
          LET a == [cid |-> ns[d], seg |-> c.hdr[i].seg]
          IN  c.hdr[i].fp = d /\ Written(Store, a) /\ LogSeg(Store, a) = DataSeg(d)
    BY DEF LogSound, DedupInv, BlocksFiled, Filed
  <2>2. c.hdr \in Header
    <3>1. ns[d] \in ContainerIds
      BY Before
    <3>2. Store.buf.hdr \in Header /\ \A x \in ContainerIds : Store.disk[x].hdr \in Header
      BY StoreType DEF Stores, ContainerType, ImageType
    <3> QED
      BY <3>1, <3>2 DEF LogContainer, Image
  <2>3. LogSeg(Store, [cid |-> ns[d], seg |-> c.hdr[i].seg]) = c.seg[c.hdr[i].seg]
    BY DEF LogSeg
  <2> HIDE DEF c
  <2>4. c.hdr[i] = [fp |-> d, seg |-> c.hdr[i].seg]
    <3>1. c.hdr[i].fp = d
      BY <2>1
    <3>2. c.hdr[i] \in [fp : Data, seg : SegIds]
      <4>1. ASSUME NEW T, NEW h \in Seq(T), NEW j \in DOMAIN h PROVE h[j] \in T
        <5>1. j \in 1 .. Len(h)
          BY <4>1
        <5> QED
          BY <5>1, ElementOfSeq
      <4> QED
        BY <2>2, <4>1 DEF Header
    <3> QED
      BY <3>1, <3>2
  <2> QED
    BY <2>1, <2>3, <2>4 DEF c
<1> QED
  BY <1>1, TypeCorrect, LogAgrees, PTL

\* Deduplication works: no content is in the log twice (lfs_write asks the
\* namespace first, and the namespace knows every block of the log).
THEOREM NoBlockTwice == Spec => []StoredOnce
<1>1. TypeOK /\ LogSound => StoredOnce
  <2>1. TypeOK => LogAddr(Store) = [cid : 0 .. buf.id, seg : SegIds]
    BY DEF LogAddr, Store
  <2> QED
    BY <2>1, Zenon DEF LogSound, DedupInv, BlocksOnce, StoredOnce
<1> QED
  BY <1>1, TypeCorrect, LogAgrees, PTL

\* No dangling recipe: a fingerprint in the recipe of a live file is in the
\* namespace, so lfs_read finds the container of every block of the file.
THEOREM RecipesResolve == Spec => []RecipeResolves
<1>1. LogSound => RecipeResolves
  <2> SUFFICES ASSUME LogSound, NEW i \in LiveFiles, NEW b \in Blocks
               PROVE  RecipeOf(i)[b] \in DOMAIN ns \cup {NoFp}
    BY DEF RecipeResolves
  <2>1. ASSUME NEW a, Written(Store, a)
        PROVE  SegSound(Store, DOMAIN ns, LogSeg(Store, a))
    BY <2>1 DEF LogSound, SegsSound, Written, LogSeg, LogContainer, Image
  <2>2. Written(Store, imap[i].addr) /\ LogSeg(Store, imap[i].addr).kind = "inode"
    BY DEF LogSound, SlotsSound, LiveFiles, Live
  <2>3. RecipeThere(Store, LogInode(i))
    BY <2>1, <2>2 DEF SegSound, LogInode, AsInode
  <2>4. CASE LogInode(i).recipe = NullAddr
    BY <2>4 DEF RecipeOf, EmptyRecipe
  <2>5. CASE LogInode(i).recipe # NullAddr
    <3>1. SegSound(Store, DOMAIN ns, LogSeg(Store, LogInode(i).recipe))
      BY <2>1, <2>3, <2>5 DEF RecipeThere
    <3> QED
      BY <2>5, <3>1 DEF RecipeOf, AsRecipe, EmptyRecipe, SegSound
  <2> QED
    BY <2>4, <2>5
<1> QED
  BY <1>1, LogAgrees, PTL

\* The store is a log: a filled segment keeps its content, but for recipes,
\* which lfs_write edits in place.
THEOREM LogKeeps == Spec => LogAppendOnly
<1>1. TypeOK /\ LogSound /\ [Next]_vars =>
        \A a \in Addr : Written(Store, a) =>
          LET old == LogSeg(Store, a)
              new == LogSeg(Store, a)'
          IN  old = new \/ (old.kind \in {"recipe", "zero"} /\ new.kind = "recipe")
  <2> SUFFICES ASSUME TypeOK, LogSound, [Next]_vars, NEW a \in Addr, Written(Store, a)
               PROVE  \/ LogSeg(Store, a) = LogSeg(Store, a)'
                      \/ /\ LogSeg(Store, a).kind \in {"recipe", "zero"}
                         /\ LogSeg(Store, a)'.kind = "recipe"
    OBVIOUS
  <2>1. Keeps(Store, Store')
    BY AgreesIsLogSound, NextLogged DEF Logged
  <2>2. LogSeg(Store, a)' = LogSeg(Store', a)
    OBVIOUS
  <2> QED
    BY <2>1, <2>2 DEF Keeps
<1> QED
  BY <1>1, TypeCorrect, LogAgrees, PTL DEF Spec, LogAppendOnly

-----------------------------------------------------------------------------
(* The abstract store: the known contents and the blocks of the log correspond
   to one another, and filled segments are kept. *)

\* The contents of the namespace and the blocks of the log, one to one.
PlacesRight ==
  /\ \A d \in DOMAIN ns :
       /\ Place(d) \in DataAddr /\ Written(Store, Place(d))
       /\ LogSeg(Store, Place(d)) = DataSeg(d)
  /\ \A a \in DataAddr : \E d \in DOMAIN ns : a = Place(d)
  /\ \A a, b \in DataAddr : LogSeg(Store, a) = LogSeg(Store, b) => a = b
  /\ DataAddr \subseteq [cid : ContainerIds, seg : SegIds]

LEMMA LogAddrType ==
  ASSUME TypeOK, NEW a \in LogAddr(Store)
  PROVE  a \in [cid : ContainerIds, seg : SegIds]
<1>1. Store.buf.id = buf.id /\ buf.id \in ContainerIds
  BY DEF Store, TypeOK, ContainerType
<1>2. 0 .. buf.id \subseteq ContainerIds
  BY <1>1, ContainerAssumption DEF ContainerIds
<1>3. LogAddr(Store) = [cid : 0 .. buf.id, seg : SegIds]
  BY <1>1 DEF LogAddr
<1> QED
  BY <1>2, <1>3

LEMMA PlacesAreRight == TypeOK /\ LogSound => PlacesRight
<1> SUFFICES ASSUME TypeOK, LogSound PROVE PlacesRight
  OBVIOUS
<1>1. \A a, b \in DataAddr : LogSeg(Store, a) = LogSeg(Store, b) => a = b
  BY Zenon DEF LogSound, DedupInv, BlocksOnce, DataAddr
<1>2. ASSUME NEW d \in DOMAIN ns
      PROVE  /\ Place(d) \in DataAddr /\ Written(Store, Place(d))
             /\ LogSeg(Store, Place(d)) = DataSeg(d)
  <2> DEFINE hdr == LogContainer(Store, ns[d]).hdr
  <2>1. PICK i \in DOMAIN hdr :
          LET a == [cid |-> ns[d], seg |-> hdr[i].seg]
          IN  hdr[i].fp = d /\ Written(Store, a) /\ LogSeg(Store, a) = DataSeg(d)
    BY Zenon DEF LogSound, DedupInv, BlocksFiled, Filed
  <2> DEFINE a == [cid |-> ns[d], seg |-> hdr[i].seg]
  <2>2. Written(Store, a) /\ LogSeg(Store, a) = DataSeg(d) /\ hdr[i].fp = d
    BY <2>1
  <2>3. a.cid = ns[d] /\ a.seg = hdr[i].seg
    OBVIOUS
  <2>4. a \in LogAddr(Store)
    <3>1. ns[d] \in ContainerIds /\ Store.buf.id = buf.id /\ buf.id \in Nat
      BY StoreType, Before
    <3>2. hdr[i].seg \in SegIds /\ ns[d] <= Store.buf.id
      BY <2>2, <2>3, <3>1 DEF Written, ContainerIds
    <3> QED
      BY <3>1, <3>2 DEF LogAddr, ContainerIds
  <2>5. Leads(d, a)
    BY <2>2, <2>3 DEF Leads
  <2> HIDE DEF a, hdr
  <2>6. Place(d) \in LogAddr(Store) /\ Leads(d, Place(d))
    BY <2>4, <2>5, Zenon DEF Place
  <2>7. LogSeg(Store, Place(d)) = DataSeg(d)
    BY <2>6 DEF Leads
  <2>8. Place(d) \in DataAddr /\ a \in DataAddr
    BY <2>2, <2>4, <2>6, <2>7 DEF DataAddr, DataSeg
  <2>9. Place(d) = a
    BY <1>1, <2>2, <2>7, <2>8
  <2> QED
    BY <2>2, <2>7, <2>8, <2>9
<1>3. ASSUME NEW a \in DataAddr PROVE \E d \in DOMAIN ns : a = Place(d)
  <2>1. a \in LogAddr(Store) /\ LogSeg(Store, a).kind = "data"
    BY DEF DataAddr
  <2>2. LogSeg(Store, a).data \in DOMAIN ns
    BY <2>1 DEF LogSound, DedupInv, BlocksKnown
  <2>3. LogSeg(Store, a) = DataSeg(LogSeg(Store, a).data)
    <3>1. LogSeg(Store, a) \in Segment
      <4>1. a.cid \in ContainerIds /\ a.seg \in SegIds
        BY <2>1, LogAddrType
      <4>2. /\ Store.buf.seg \in [SegIds -> Segment]
            /\ \A x \in ContainerIds : Store.disk[x].seg \in [SegIds -> Segment]
        BY StoreType DEF TypeOK, ContainerType, ImageType
      <4> QED
        BY <4>1, <4>2 DEF LogSeg, LogContainer, Image
    <3> QED
      BY <2>1, <3>1 DEF Segment, ZeroSeg, DataSeg
  <2> QED
    BY <1>1, <1>2, <2>2, <2>3
<1>4. DataAddr \subseteq [cid : ContainerIds, seg : SegIds]
  BY LogAddrType DEF DataAddr
<1> QED
  BY <1>1, <1>2, <1>3, <1>4 DEF PlacesRight

-----------------------------------------------------------------------------
\* What a step does to the namespace: nothing, or lfs_write files one content
\* that was not there.
NsGrows ==
  \/ ns' = ns
  \/ \E d \in Data :
       /\ d \notin DOMAIN ns /\ DOMAIN ns' = DOMAIN ns \cup {d}

LEMMA NextNsGrows == [Next]_vars => NsGrows
<1> SUFFICES ASSUME [Next]_vars PROVE NsGrows
  OBVIOUS
<1>1. CASE ReadDir
  BY <1>1 DEF ReadDir, NsGrows
<1>2. ASSUME NEW path \in Paths, GetAttr(path) PROVE NsGrows
  BY <1>2 DEF GetAttr, NsGrows
<1>3. ASSUME NEW path \in Paths, Access(path) PROVE NsGrows
  BY <1>3, Zenon DEF Access, NsGrows
<1>4. ASSUME NEW name \in Names, Mkdir(name) PROVE NsGrows
  BY <1>4, Zenon DEF Mkdir, NsGrows
<1>5. ASSUME NEW name \in Names, Create(name) PROVE NsGrows
  BY <1>5, Zenon DEF Create, NsGrows
<1>6. ASSUME NEW name \in Names, Unlink(name) \/ Rmdir(name) PROVE NsGrows
  BY <1>6, Zenon DEF Unlink, Rmdir, RemoveName, NsGrows
<1>7. ASSUME NEW name \in Names, NEW n \in 1 .. RecipeNum, Read(name, n) PROVE NsGrows
  BY <1>7, Zenon DEF Read, NsGrows
<1>8. ASSUME NEW name \in Names, NEW b \in Blocks, NEW d \in Data, Write(name, b, d)
      PROVE  NsGrows
  <2>1. ns' = ns \/ \E x : ns' = Learn(d, x)
    BY <1>8, Zenon DEF Write
  <2>2. ASSUME NEW x, ns' = Learn(d, x) PROVE NsGrows
    BY <2>2 DEF Learn, NsGrows
  <2> QED
    BY <2>1, <2>2 DEF NsGrows
<1>9. ASSUME NEW old \in Names, NEW new \in Names, Rename(old, new) PROVE NsGrows
  BY <1>9, Zenon DEF Rename, NsGrows
<1>10. CASE UNCHANGED vars
  BY <1>10 DEF vars, NsGrows
<1> QED
  BY <1>1, <1>2, <1>3, <1>4, <1>5, <1>6, <1>7, <1>8, <1>9, <1>10, Zenon DEF Next

\* The invariant after a step, and what the step keeps.
LEMMA AfterStep ==
  ASSUME TypeOK, LogSound, [Next]_vars
  PROVE  TypeOK' /\ LogSound' /\ PlacesRight /\ PlacesRight' /\ Keeps(Store, Store')
<1>1. Agrees
  BY AgreesIsLogSound
<1>2. TypeOK' /\ Agrees' /\ Keeps(Store, Store')
  BY <1>1, NextKept, NextLogged DEF Kept, Logged
<1>3. Agrees' <=> LogSound'
  BY AgreesIsLogSound, PTL
<1>4. TypeOK' /\ LogSound' => PlacesRight'
  BY PlacesAreRight, PTL
<1> QED
  BY <1>2, <1>3, <1>4, PlacesAreRight

\* A content stays where it is.
LEMMA PlaceStays ==
  ASSUME TypeOK, LogSound, [Next]_vars, NEW d \in DOMAIN ns, d \in DOMAIN ns'
  PROVE  /\ Place(d)' = Place(d)
         /\ LogSeg(Store, Place(d)) = DataSeg(d) /\ LogSeg(Store', Place(d)) = DataSeg(d)
         /\ Place(d) \in DataAddr /\ Place(d) \in DataAddr'
<1> DEFINE a == Place(d)
<1>1. /\ a \in DataAddr /\ Written(Store, a) /\ LogSeg(Store, a) = DataSeg(d)
      /\ a \in [cid : ContainerIds, seg : SegIds]
  BY AfterStep DEF PlacesRight
<1>2. /\ a' \in DataAddr' /\ LogSeg(Store, a)' = DataSeg(d)
  BY AfterStep DEF PlacesRight
<1>3. \A x, y \in DataAddr' : LogSeg(Store', x) = LogSeg(Store', y) => x = y
  BY AfterStep DEF PlacesRight
<1>4. LogSeg(Store, a)' = LogSeg(Store', a')
  OBVIOUS
<1> HIDE DEF a
<1>5. Written(Store', a) /\ LogSeg(Store', a) = DataSeg(d)
  <2>1. LogSeg(Store, a).kind = "data"
    BY <1>1 DEF DataSeg
  <2> QED
    BY <1>1, <2>1, AfterStep DEF Keeps
<1>6. a \in LogAddr(Store')
  <2>1. Store'.buf.id = buf'.id /\ buf'.id \in Nat
    BY AfterStep DEF TypeOK, ContainerType, ContainerIds, Store
  <2> QED
    BY <1>1, <1>5, <2>1 DEF LogAddr, Written, ContainerIds
<1>7. a \in DataAddr'
  <2>1. DataAddr' = {x \in LogAddr(Store') : LogSeg(Store', x).kind = "data"}
    BY DEF DataAddr
  <2> QED
    BY <1>5, <1>6, <2>1 DEF DataSeg
<1>8. a' = a
  BY <1>2, <1>3, <1>4, <1>5, <1>7
<1> QED
  BY <1>1, <1>5, <1>7, <1>8 DEF a

-----------------------------------------------------------------------------
\* lfs_init leaves the store empty.
LEMMA InitImplements == Init => Dedup!Init
<1> SUFFICES ASSUME Init PROVE Dedup!Init
  OBVIOUS
<1>1. TypeOK /\ LogSound
  BY InitType, InitAgrees, AgreesIsLogSound
<1>2. DOMAIN ns = {}
  BY DEF Init
<1>3. DataAddr = {}
  BY <1>1, <1>2, PlacesAreRight DEF PlacesRight
<1>4. [x \in DataAddr |-> LogSeg(Store, x).data] = [x \in {} |-> x]
  BY <1>3
<1>5. [d \in DOMAIN ns |-> Place(d)] = [d \in {} |-> d]
  BY <1>2
<1> QED
  BY <1>4, <1>5 DEF Dedup!Init

\* A handler that leaves the namespace alone stores no block.
LEMMA SameNamespaceStutters ==
  ASSUME TypeOK, LogSound, [Next]_vars, ns' = ns
  PROVE  UNCHANGED Dedup!vars
<1>1. \A d \in DOMAIN ns : /\ Place(d)' = Place(d)
                           /\ LogSeg(Store, Place(d)) = LogSeg(Store', Place(d))
                           /\ Place(d) \in DataAddr /\ Place(d) \in DataAddr'
  BY PlaceStays
<1>2. \A x \in DataAddr : \E d \in DOMAIN ns : x = Place(d)
  BY AfterStep DEF PlacesRight
<1>3. \A x \in DataAddr' : \E d \in DOMAIN ns : x = Place(d)'
  BY AfterStep DEF PlacesRight
<1>4. DataAddr' = DataAddr
  BY <1>1, <1>2, <1>3
<1>5. \A x \in DataAddr : LogSeg(Store', x).data = LogSeg(Store, x).data
  BY <1>1, <1>2
<1>6. [x \in DataAddr |-> LogSeg(Store, x).data]'
        = [x \in DataAddr |-> LogSeg(Store, x).data]
  BY <1>4, <1>5
<1>7. [d \in DOMAIN ns |-> Place(d)]' = [d \in DOMAIN ns |-> Place(d)]
  BY <1>1
<1> QED
  BY <1>6, <1>7 DEF Dedup!vars

\* lfs_write of a content that the namespace does not know stores it.
LEMMA NewContentStores ==
  ASSUME TypeOK, LogSound, [Next]_vars,
         NEW d \in Data, d \notin DOMAIN ns, DOMAIN ns' = DOMAIN ns \cup {d}
  PROVE  Dedup!Store(d)
<1> DEFINE addrs == [cid : ContainerIds, seg : SegIds]
           log   == [x \in DataAddr |-> LogSeg(Store, x).data]
           index == [e \in DOMAIN ns |-> Place(e)]
           at    == Place(d)'
<1>1. \A e \in DOMAIN ns :
         /\ Place(e)' = Place(e)
         /\ LogSeg(Store, Place(e)) = DataSeg(e) /\ LogSeg(Store', Place(e)) = DataSeg(e)
         /\ Place(e) \in DataAddr /\ Place(e) \in DataAddr'
  BY PlaceStays
<1>2. \A x \in DataAddr : \E e \in DOMAIN ns : x = Place(e)
  BY AfterStep DEF PlacesRight
<1>3. \A x \in DataAddr' : \E e \in DOMAIN ns \cup {d} : x = Place(e)'
  BY AfterStep DEF PlacesRight
<1>4. at \in DataAddr' /\ at \in addrs
  BY AfterStep DEF PlacesRight
<1>5. LogSeg(Store', at) = DataSeg(d)
  <2>1. LogSeg(Store, Place(d))' = DataSeg(d)
    BY AfterStep DEF PlacesRight
  <2> QED
    BY <2>1
<1> HIDE DEF at
<1>6. \A e \in Data : DataSeg(e).data = e
  BY DEF DataSeg
<1>7. DOMAIN ns \subseteq Data
  BY Before
<1>8. at \notin DataAddr
  <2>1. SUFFICES ASSUME at \in DataAddr PROVE FALSE
    OBVIOUS
  <2>2. PICK e \in DOMAIN ns : at = Place(e)
    BY <1>2, <2>1
  <2> QED
    BY <1>1, <1>5, <1>6, <1>7, <2>2
<1>9. DataAddr' = DataAddr \cup {at}
  <2>1. \A x \in DataAddr' : x \in DataAddr \/ x = at
    BY <1>1, <1>3 DEF at
  <2>2. \A x \in DataAddr : x \in DataAddr'
    BY <1>1, <1>2
  <2> QED
    BY <1>4, <2>1, <2>2
<1>10. log' = Dedup!Put(log, at, d)
  <2>1. log' = [x \in DataAddr \cup {at} |-> LogSeg(Store', x).data]
    BY <1>9
  <2>2. \A x \in DataAddr : LogSeg(Store', x).data = LogSeg(Store, x).data
    BY <1>1, <1>2
  <2>3. LogSeg(Store', at).data = d
    BY <1>5, <1>6
  <2> QED
    BY <1>8, <2>1, <2>2, <2>3 DEF Dedup!Put
<1>11. index' = Dedup!Put(index, d, at)
  <2>1. index' = [e \in DOMAIN ns \cup {d} |-> Place(e)']
    OBVIOUS
  <2>2. \A e \in DOMAIN ns \cup {d} : Place(e)' = IF e = d THEN at ELSE index[e]
    BY <1>1 DEF at
  <2> QED
    BY <2>1, <2>2, Zenon DEF Dedup!Put
<1>12. d \notin DOMAIN index /\ DOMAIN log = DataAddr
  OBVIOUS
<1> QED
  BY <1>4, <1>8, <1>10, <1>11, <1>12 DEF Dedup!Store

\* The file system implements the deduplicating store: every handler stores one
\* new content, once and at a fresh address, or none (lfs_write, although it
\* fills in the header record, the namespace and the segment one after another
\* and container_add_seg may flush in between).
THEOREM StoreImplemented == Spec => ImplementsStore
<1>1. TypeOK /\ LogSound /\ [Next]_vars => [Dedup!Next]_(Dedup!vars)
  <2> SUFFICES ASSUME TypeOK, LogSound, [Next]_vars
               PROVE  Dedup!Next \/ UNCHANGED Dedup!vars
    OBVIOUS
  <2>1. CASE ns' = ns
    BY <2>1, SameNamespaceStutters
  <2>2. ASSUME NEW d \in Data, d \notin DOMAIN ns, DOMAIN ns' = DOMAIN ns \cup {d}
        PROVE  Dedup!Next
    BY <2>2, NewContentStores DEF Dedup!Next
  <2> QED
    BY <2>1, <2>2, NextNsGrows DEF NsGrows
<1> QED
  BY <1>1, InitImplements, TypeCorrect, LogAgrees, PTL DEF Spec, ImplementsStore, Dedup!Spec
=============================================================================
