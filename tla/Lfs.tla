-------------------------------- MODULE Lfs --------------------------------
(***************************************************************************)
(* The file system: src/lfs.c, with the directory and inode look-ups of    *)
(* src/directory.c and the file recipe of src/inode.c.                     *)
(*                                                                         *)
(* One action per FUSE operation, as libfuse calls them one after another  *)
(* (the option -s); every action is the whole handler.  A path stands for  *)
(* its last component wherever the code reduces it to that by              *)
(* get_filename: only getattr and access look at more of it.               *)
(***************************************************************************)
EXTENDS Container, Directory

CONSTANTS MaxInode,    \* inodes ever created (MAX_INODE_NUM); bounds nInode
          RecipeNum,   \* blocks of a file (RECIPE_NUM); bounds write offsets
          MaxDepth,    \* components of the paths given to getattr and access
          NoFp,        \* the zeroed fingerprint of an unused recipe entry
          BlkSize,     \* bytes of a block (c_blk_size)
          TextLen,     \* bytes of a content before its first zero byte
          EmptyReads,  \* does the kernel pass on reads of empty files?
          DeepPaths,   \* are there paths other than to the next directory?
          RenameOnto   \* are files renamed onto names that are in use?

ASSUME LfsAssumption ==
  /\ MaxInode \in Nat \ {0}
  /\ RecipeNum \in Nat \ {0}
  /\ MaxDepth \in Nat
  /\ NoFp \notin Data
  /\ BlkSize \in Nat \ {0} /\ TextLen \in [Data -> 0 .. BlkSize]
  /\ {EmptyReads, DeepPaths, RenameOnto} \subseteq BOOLEAN

VARIABLES buf, cur, disk,    \* lfs_info->buf_container, cur_container, lfslog
          imap, nInode,      \* lfs_info->imap->records, n_inode
          ns,                \* lfs_namespace: fingerprint -> container id
          curInode,          \* lfs_info->cur_inode, by value
          curPath, parPath   \* lfs_info->cur_path, par_path

vars == <<buf, cur, disk, imap, nInode, ns, curInode, curPath, parPath>>

-----------------------------------------------------------------------------
InodeIds == 0 .. MaxInode
Blocks == 0 .. RecipeNum - 1
Paths == UNION {[1 .. n -> Names] : n \in 0 .. MaxDepth}

\* inode_t.  The size is in blocks (file_size rounded up): 0x1000 for every
\* directory for ever, and at most one block for a file, because lfs_write sets
\* it to the size of the last write.  blk is direct_blk[0]: with one block the
\* others are written but never read.
Inode == [id : InodeIds, type : {"none", "file", "dir"}, size : {0, 1},
          blk : Addr, recipe : Addr]
ZeroInode == [id |-> 0, type |-> "none", size |-> 0,
              blk |-> NullAddr, recipe |-> NullAddr]
NewFile(id) == [ZeroInode EXCEPT !.id = id, !.type = "file"]
NewDir(id)  == [ZeroInode EXCEPT !.id = id, !.type = "dir", !.size = 1]

\* Mutant of NewDirRecords: the two ids swapped.
NewDirRecordsSwapped(parent, id) ==
  <<[name |-> "..", id |-> id], [name |-> ".", id |-> parent]>>

\* The first two records of every directory.
NewDirRecords(parent, id) ==
  <<[name |-> "..", id |-> parent], [name |-> ".", id |-> id]>>

DirRecord == [name : AllNames, id : InodeIds]
Recipe == [Blocks -> Data \cup {NoFp}]
EmptyRecipe == [b \in Blocks |-> NoFp]
Slot == [id : InodeIds, addr : Addr]

InodeSeg(ino)  == [kind |-> "inode", ino |-> ino]
DirSeg(recs)   == [kind |-> "dir", recs |-> recs]
RecipeSeg(rec) == [kind |-> "recipe", rec |-> rec]

\* What a handler sees when it casts a segment.  A zeroed segment reads as a
\* zeroed structure; a segment of another kind is never cast to an inode or a
\* directory, and as a recipe it holds no fingerprint of the namespace.
AsInode(s)  == IF s.kind = "inode" THEN s.ino ELSE ZeroInode
AsDir(s)    == IF s.kind = "dir" THEN s.recs ELSE <<>>
AsRecipe(s) == IF s.kind = "recipe" THEN s.rec ELSE EmptyRecipe

Store == [buf |-> buf, cur |-> cur, disk |-> disk]
SetStore(st) == buf' = st.buf /\ cur' = st.cur /\ disk' = st.disk

\* Mutant of FileName: what follows the first "/", not the last.
FileNameFirst(path) == IF path = <<>> THEN "" ELSE path[1]

\* get_filename.
FileName(path) == IF path = <<>> THEN "" ELSE path[Len(path)]

\* get_parentpath of anything but a path without "/".
ParentPath(path) == IF path = <<>> THEN <<>> ELSE SubSeq(path, 1, Len(path) - 1)

-----------------------------------------------------------------------------
(* The inode map, scanned from the front for an inode id. *)

Slots(im, id) == {i \in DOMAIN im : im[i].id = id}

AddrOf(im, id) ==
  IF Slots(im, id) = {} THEN NullAddr ELSE im[Min(Slots(im, id))].addr

\* lfs_write: an inode that is not in the map stays out of it.
MoveInode(im, id, a) ==
  IF Slots(im, id) = {} THEN im
                        ELSE [im EXCEPT ![Min(Slots(im, id))].addr = a]

\* Mutant of PutInode: a new inode gets the first free slot.
PutInodeFirstFree(im, n, id, a) ==
  IF Slots(im, id) = {} THEN [im EXCEPT ![Min(Slots(im, 0))] = [id |-> id, addr |-> a]]
                        ELSE MoveInode(im, id, a)

\* dir_commit_changes: an inode that is not in the map gets the last slot.
PutInode(im, n, id, a) ==
  IF Slots(im, id) = {} THEN [im EXCEPT ![n] = [id |-> id, addr |-> a]]
                        ELSE MoveInode(im, id, a)

\* Mutant of DropInode: the inodes made later go too.
DropInodeUp(im, n, id) ==
  [i \in DOMAIN im |->
     IF i <= n /\ im[i].id >= id THEN [id |-> 0, addr |-> NullAddr] ELSE im[i]]

\* lfs_unlink, lfs_rmdir: clear the slots in use that hold the inode.
DropInode(im, n, id) ==
  [i \in DOMAIN im |->
     IF i <= n /\ im[i].id = id THEN [id |-> 0, addr |-> NullAddr] ELSE im[i]]

-----------------------------------------------------------------------------
(* Look-ups.  They change the read cache, and nothing else. *)

\* open_cur_dir: the store afterwards and the records of the directory.
OpenCurDir(st, dirInode) ==
  LET st1 == CacheForDir(st, dirInode.blk.cid)
  IN  [st |-> st1, dir |-> OpenRecords(AsDir(SegAt(st1, dirInode.blk)))]

\* dir_get_inode with get_inode_from_inode_id.
DirGetInode(st, name) ==
  LET open == OpenCurDir(st, curInode)
      addr == AddrOf(imap, IdOf(open.dir, name))
      st1  == Cache(open.st, addr.cid)
  IN  IF ~HasName(open.dir, name) \/ addr = NullAddr
        THEN [st |-> open.st, ok |-> FALSE, ino |-> ZeroInode]
        ELSE [st |-> st1, ok |-> TRUE, ino |-> AsInode(SegAt(st1, addr))]

-----------------------------------------------------------------------------
\* Mutant of CommitDir: the inode is logged before direct_blk is set.
CommitDirOldInode(st, im, n, dir, ino) ==
  LET st1  == AddSeg(st, DirSeg(SubSeq(dir, 1, Min({RecPerSeg, Len(dir)}))))
      ino1 == [ino EXCEPT !.blk = NextAddr(st)]
  IN  [st   |-> AddSeg(st1, InodeSeg(ino)),
       imap |-> PutInode(im, n, ino.id, NextAddr(st1)),
       ino  |-> ino1]

\* Mutant of CommitDir: the inode's address is taken before the records are
\* added.
CommitDirEarly(st, im, n, dir, ino) ==
  LET st1  == AddSeg(st, DirSeg(SubSeq(dir, 1, Min({RecPerSeg, Len(dir)}))))
      ino1 == [ino EXCEPT !.blk = NextAddr(st)]
  IN  [st   |-> AddSeg(st1, InodeSeg(ino1)),
       imap |-> PutInode(im, n, ino.id, NextAddr(st)),
       ino  |-> ino1]

\* dir_commit_changes: the records go to the log, one segment for each
\* RecPerSeg of them, and after them the inode that now points to them.  An
\* opened directory has at most RecPerSeg records and a handler adds at most
\* one, so the loop over segments runs at most twice.
CommitDir(st, im, n, dir, ino) ==
  LET st1  == IF dir = <<>> THEN st
              ELSE AddSeg(st, DirSeg(SubSeq(dir, 1, Min({RecPerSeg, Len(dir)}))))
      st2  == IF Len(dir) <= RecPerSeg THEN st1
              ELSE AddSeg(st1, DirSeg(SubSeq(dir, RecPerSeg + 1, Len(dir))))
      ino1 == [ino EXCEPT !.blk = IF dir = <<>> THEN NullAddr ELSE NextAddr(st)]
  IN  [st   |-> AddSeg(st2, InodeSeg(ino1)),
       imap |-> PutInode(im, n, ino.id, NextAddr(st2)),
       ino  |-> ino1]

\* Bound: a handler fills at most five segments, and the log file has room for
\* the containers it may flush.
Room == buf.id + 5 < MaxContainer

\* lfs_init: the root directory, put together in cur_container and copied.  The
\* inode map and the root's records are not cleared: malloc has them from memory
\* that the process uses for the first time, which the operating system hands out
\* zeroed.
RootContainer ==
  LET root == [NewDir(1) EXCEPT !.blk = [cid |-> 0, seg |-> 2]]
      recs == NewDirRecords(1, 1)
  IN  [EmptyContainer(0) EXCEPT !.seg[1] = InodeSeg(root),
                                !.seg[2] = DirSeg(recs), !.off = 3]

Init ==
  /\ buf = RootContainer /\ cur = RootContainer
  /\ disk = [c \in ContainerIds |-> ZeroImage]
  /\ nInode = 1
  /\ imap = [i \in 1 .. MaxInode |->
               IF i = 1 THEN [id |-> 1, addr |-> [cid |-> 0, seg |-> 1]]
                        ELSE [id |-> 0, addr |-> NullAddr]]
  /\ ns = <<>>
  /\ curInode = [NewDir(1) EXCEPT !.blk = [cid |-> 0, seg |-> 2]]
  /\ curPath = <<>> /\ parPath = <<>>

-----------------------------------------------------------------------------
(* Handlers that only look. *)

\* Environment: without DeepPaths one process walks the tree, a step at a time.
Steps(path) ==
  DeepPaths \/ path = parPath \/ (path # <<>> /\ ParentPath(path) = curPath)

\* lfs_readdir.
ReadDir ==
  /\ SetStore(OpenCurDir(Store, curInode).st)
  /\ UNCHANGED <<imap, nInode, ns, curInode, curPath, parPath>>

\* lfs_getattr: the current directory is answered from memory and its parent is
\* looked up as "..".
GetAttr(path) ==
  /\ path # curPath /\ Steps(path)
  /\ SetStore(DirGetInode(Store, IF path = parPath THEN ".."
                                 ELSE FileName(path)).st)
  /\ UNCHANGED <<imap, nInode, ns, curInode, curPath, parPath>>

\* lfs_access: the only way to another current directory, to the parent or to a
\* directory found under the last component of the path.
Access(path) ==
  LET up    == path = parPath
      found == DirGetInode(Store, IF up THEN ".." ELSE FileName(path))
      enter == found.ok /\ (up \/ found.ino.type = "dir")
  IN  /\ path # curPath /\ Steps(path)
      /\ SetStore(found.st)
      /\ curInode' = IF enter THEN found.ino ELSE curInode
      /\ curPath' = IF enter THEN path ELSE curPath
      /\ parPath' = IF ~enter THEN parPath
                    ELSE IF up THEN ParentPath(path) ELSE curPath
      /\ UNCHANGED <<imap, nInode, ns>>

\* The loop of lfs_read over the first n blocks of the file whose recipe is at
\* a.  The recipe is read in place, in a container that the loop may replace.
\* out is what is copied to buf, block by block.
ReadBlock(done, a, b) ==
  LET fp   == AsRecipe(SegAt(done.st, a))[b]
      st1  == Cache(done.st, ns[fp])
      from == Holder(st1, ns[fp])
      s    == FindFingerprint(from, fp)
      got  == IF s = 0 THEN ZeroSeg ELSE from.seg[s]
  IN  IF ~done.more \/ fp \notin DOMAIN ns
        THEN [done EXCEPT !.more = FALSE]
        ELSE [st |-> st1, out |-> Append(done.out, got), more |-> TRUE]

ReadBlocks(st, a, n) ==
  LET read[k \in 0 .. n] ==
        IF k = 0 THEN [st |-> Cache(st, a.cid), out |-> <<>>, more |-> TRUE]
                 ELSE ReadBlock(read[k - 1], a, k - 1)
  IN  read[n]

\* What strlen counts of one segment.
TextOf(s) == IF s.kind = "data" THEN TextLen[s.data] ELSE 0

\* strlen(buf): the first zero byte ends the count, in whatever block it is.  If no
\* block that was copied has one, strlen runs on in memory that lfs_read has not
\* written, or behind the buffer, and can find any number of bytes there (bound:
\* a block).
StrLen(out) ==
  LET cut == {k \in DOMAIN out : TextOf(out[k]) < BlkSize}
  IN  IF cut = {}
        THEN {Len(out) * BlkSize + more : more \in 0 .. BlkSize}
        ELSE {(Min(cut) - 1) * BlkSize + TextOf(out[Min(cut)])}

\* The rest of lfs_read, once the inode is found: the store, the blocks copied to
\* buf, and the numbers of bytes it may return, which is what libfuse hands over
\* of buf.  A fingerprint that the namespace does not have ends it the same way.
ReadFile(st, ino, n) ==
  LET read == ReadBlocks(st, ino.recipe, n)
  IN  IF ino.recipe = NullAddr /\ ino.size # 0
        THEN [st |-> st, out |-> <<>>, ret |-> {0}]
        ELSE [st |-> read.st, out |-> read.out, ret |-> StrLen(read.out)]

\* lfs_read.  Environment: the kernel reads regular files only.
Read(name, n) ==
  LET found == DirGetInode(Store, name)
  IN  /\ found.ok => found.ino.type = "file"
      /\ found.ok /\ found.ino.size = 0 => EmptyReads
      /\ SetStore(IF found.ok THEN ReadFile(found.st, found.ino, n).st ELSE found.st)
      /\ UNCHANGED <<imap, nInode, ns, curInode, curPath, parPath>>

-----------------------------------------------------------------------------
(* Handlers that append to the log. *)

\* lfs_mkdir: the entry in the current directory, then the new directory.  The
\* inode is made even when the name is refused.
Mkdir(name) ==
  LET open  == OpenCurDir(Store, curInode)
      n     == nInode + 1
      here  == CommitDir(open.st, imap, n, AddEntry(open.dir, name, n), curInode)
      there == CommitDir(here.st, here.imap, n,
                         NewDirRecords(curInode.id, n), NewDir(n))
  IN  /\ Room /\ n <= MaxInode
      /\ nInode' = n
      /\ SetStore(there.st)
      /\ imap' = there.imap
      /\ curInode' = here.ino
      /\ UNCHANGED <<ns, curPath, parPath>>

\* lfs_create: -EEXIST when the look-up succeeds, else a new empty file.
Create(name) ==
  LET found == DirGetInode(Store, name)
      open  == OpenCurDir(found.st, curInode)
      n     == nInode + 1
      here  == CommitDir(open.st, imap, n, AddEntry(open.dir, name, n), curInode)
  IN  /\ UNCHANGED <<ns, curPath, parPath>>
      /\ \/ /\ found.ok
            /\ SetStore(found.st)
            /\ UNCHANGED <<imap, nInode, curInode>>
         \/ /\ ~found.ok
            /\ Room /\ n <= MaxInode
            /\ nInode' = n
            /\ imap' = [here.imap EXCEPT ![n] = [id |-> n, addr |-> NextAddr(here.st)]]
            /\ SetStore(AddSeg(here.st, InodeSeg(NewFile(n))))
            /\ curInode' = here.ino

\* Mutant of StoreBlock: the header record is added after the block.
StoreBlockFirst(st, d) ==
  IF d \in DOMAIN ns THEN st ELSE AddFingerprint(AddSeg(st, DataSeg(d)), d)

\* Mutant of StoreBlock: the namespace is not asked.
StoreBlockAlways(st, d) == AddSeg(AddFingerprint(st, d), DataSeg(d))

\* lfs_write: a content that the namespace does not know goes to the log, its
\* fingerprint to the header of the container being filled.
StoreBlock(st, d) ==
  IF d \in DOMAIN ns THEN st ELSE AddSeg(AddFingerprint(st, d), DataSeg(d))

\* Mutant of Learn: the new item replaces the table.
LearnOnly(d, cid) == IF d \in DOMAIN ns THEN ns ELSE [x \in {d} |-> cid]

\* The namespace after that: HASH_ADD with the id of buf_container.
Learn(d, cid) ==
  IF d \in DOMAIN ns THEN ns
  ELSE [x \in DOMAIN ns \cup {d} |-> IF x = d THEN cid ELSE ns[x]]

\* Mutant of EditRecipe: the offset does not count the header segment.
EditRecipeBefore(st, a, b, d) ==
  LET seg == RecipeSeg([AsRecipe(SegAt(st, a)) EXCEPT ![b] = d])
  IN  IF a.cid = st.buf.id THEN [st EXCEPT !.buf.seg[a.seg - 1] = seg]
                           ELSE [st EXCEPT !.cur.seg[a.seg - 1] = seg]

\* lfs_write: the fingerprint goes into the recipe in place, in the memory of
\* the container that holds it.
EditRecipe(st, a, b, d) ==
  LET seg == RecipeSeg([AsRecipe(SegAt(st, a)) EXCEPT ![b] = d])
  IN  IF a.cid = st.buf.id THEN [st EXCEPT !.buf.seg[a.seg] = seg]
                           ELSE [st EXCEPT !.cur.seg[a.seg] = seg]

\* lfs_write of one block.  A recipe in buf_container is copied to its new
\* place through a pointer into buf_container, after the block was added to it.
Write(name, b, d) ==
  LET found  == DirGetInode(Store, name)
      old    == found.ino.recipe
      fresh  == old = NullAddr
      inBuf  == ~fresh /\ old.cid = found.st.buf.id
      edited == IF fresh THEN found.st
                ELSE EditRecipe(Cache(found.st, old.cid), old, b, d)
      stored == StoreBlock(edited, d)
      recipe == IF fresh THEN RecipeSeg([EmptyRecipe EXCEPT ![b] = d])
                ELSE IF inBuf THEN stored.buf.seg[old.seg]
                ELSE stored.cur.seg[old.seg]
      copied == AddSeg(stored, recipe)
      ino    == [found.ino EXCEPT !.size = 1, !.recipe = NextAddr(stored)]
  IN  /\ found.ok => found.ino.type = "file"
      /\ UNCHANGED <<nInode, curInode, curPath, parPath>>
      /\ \/ /\ ~found.ok
            /\ SetStore(found.st)
            /\ UNCHANGED <<imap, ns>>
         \/ /\ found.ok
            /\ Room
            /\ ns' = Learn(d, edited.buf.id)
            /\ imap' = MoveInode(imap, ino.id, NextAddr(copied))
            /\ SetStore(AddSeg(copied, InodeSeg(ino)))

\* lfs_rename: the last components, both in the current directory.  They can be
\* one name, of two paths: the directory is committed all the same.
Rename(old, new) ==
  LET open == OpenCurDir(Store, curInode)
      here == CommitDir(open.st, imap, nInode, ChangeEntry(open.dir, old, new), curInode)
  IN  /\ RenameOnto \/ old = new \/ ~HasName(open.dir, new)
      /\ UNCHANGED <<nInode, ns, curPath, parPath>>
      /\ \/ /\ ~HasName(open.dir, old)
            /\ SetStore(open.st)
            /\ UNCHANGED <<imap, curInode>>
         \/ /\ HasName(open.dir, old)
            /\ Room
            /\ SetStore(here.st)
            /\ imap' = here.imap
            /\ curInode' = here.ino

\* lfs_unlink and lfs_rmdir, which do the same: neither looks at the type of
\* the inode, nor whether a directory is empty.
RemoveName(name) ==
  LET open == OpenCurDir(Store, curInode)
      here == CommitDir(open.st, DropInode(imap, nInode, IdOf(open.dir, name)),
                        nInode, RemoveEntry(open.dir, name), curInode)
  IN  /\ UNCHANGED <<nInode, ns, curPath, parPath>>
      /\ \/ /\ ~HasName(open.dir, name)
            /\ SetStore(open.st)
            /\ UNCHANGED <<imap, curInode>>
         \/ /\ HasName(open.dir, name)
            /\ Room
            /\ SetStore(here.st)
            /\ imap' = here.imap
            /\ curInode' = here.ino

Unlink(name) == RemoveName(name)
Rmdir(name) == RemoveName(name)

-----------------------------------------------------------------------------
Next ==
  \/ ReadDir
  \/ \E path \in Paths : GetAttr(path) \/ Access(path)
  \/ \E name \in Names :
       \/ Mkdir(name)
       \/ Create(name)
       \/ Unlink(name)
       \/ Rmdir(name)
       \/ \E n \in 1 .. RecipeNum : Read(name, n)
       \/ \E b \in Blocks, d \in Data : Write(name, b, d)
       \/ \E new \in Names : Rename(name, new)

Spec == Init /\ [][Next]_vars
=============================================================================
