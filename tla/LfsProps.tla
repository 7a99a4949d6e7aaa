------------------------------ MODULE LfsProps ------------------------------
(***************************************************************************)
(* What the file system of module Lfs has to keep true from one operation  *)
(* to the next.                                                            *)
(***************************************************************************)
EXTENDS Lfs

Segment ==
  {ZeroSeg} \cup [kind : {"data"}, data : Data]
            \cup [kind : {"inode"}, ino : Inode]
            \cup [kind : {"dir"}, recs : Seq(DirRecord)]
            \cup [kind : {"recipe"}, rec : Recipe]
Header == Seq([fp : Data, seg : SegIds])
ImageType == [id : ContainerIds, hdr : Header, seg : [SegIds -> Segment]]
ContainerType ==
  [id : ContainerIds, hdr : Header, seg : [SegIds -> Segment], off : 1 .. SegNum]

\* The type invariant.  buf_container is never left full: container_add_seg
\* starts the next container as soon as the last segment is filled.
TypeOK ==
  /\ buf \in ContainerType /\ buf.off < SegNum
  /\ cur \in ContainerType
  /\ disk \in [ContainerIds -> ImageType]
  /\ imap \in [1 .. MaxInode -> Slot]
  /\ nInode \in 1 .. MaxInode
  /\ DOMAIN ns \subseteq Data /\ ns \in [DOMAIN ns -> ContainerIds]
  /\ curInode \in Inode
  /\ curPath \in Seq(Names) /\ parPath \in Seq(Names)

-----------------------------------------------------------------------------
Live == {i \in DOMAIN imap : imap[i].id # 0}
LogInode(i) == AsInode(LogSeg(Store, imap[i].addr))
LiveFiles == {i \in Live : LogInode(i).type = "file"}
RecipeOf(i) == IF LogInode(i).recipe = NullAddr THEN EmptyRecipe
               ELSE AsRecipe(LogSeg(Store, LogInode(i).recipe))

\* Everything the inode map leads to is in the log: a live inode sits in the
\* slot of its number, at an address that has been filled and that holds this
\* very inode; the directory block or recipe it points to has been filled and
\* is of the right kind.  (Addresses are computed before container_add_seg is
\* called, in code that a flush of the container can separate from the call.)
PointersSound ==
  \A i \in Live :
    /\ imap[i].id = i /\ i <= nInode
    /\ Written(Store, imap[i].addr)
    /\ LogSeg(Store, imap[i].addr).kind = "inode"
    /\ LogInode(i).id = i
    /\ LogInode(i).type = "dir" =>
         /\ Written(Store, LogInode(i).blk)
         /\ LogSeg(Store, LogInode(i).blk).kind = "dir"
    /\ LogInode(i).type = "file" /\ LogInode(i).recipe # NullAddr =>
         /\ Written(Store, LogInode(i).recipe)
         /\ LogSeg(Store, LogInode(i).recipe).kind \in {"recipe", "zero"}

\* Deduplication never loses a block: the container that the namespace names
\* for a fingerprint has it in its header, at the segment that holds the
\* content (lfs_write records both before container_add_seg, which may flush).
DedupSound ==
  \A d \in DOMAIN ns :
    LET c == LogContainer(Store, ns[d])
    IN  \E i \in DOMAIN c.hdr : c.hdr[i] = [fp |-> d, seg |-> c.hdr[i].seg]
                                /\ c.seg[c.hdr[i].seg] = DataSeg(d)

\* Deduplication works: no content is in the log twice.
StoredOnce ==
  \A a, b \in [cid : 0 .. buf.id, seg : SegIds] :
    /\ LogSeg(Store, a).kind = "data"
    /\ LogSeg(Store, a) = LogSeg(Store, b)
    => a = b

\* No dangling recipe: every fingerprint in the recipe of a live file is in the
\* namespace.
RecipeResolves ==
  \A i \in LiveFiles : \A b \in Blocks :
    RecipeOf(i)[b] \in DOMAIN ns \cup {NoFp}

\* cur_inode, a copy kept in memory between operations, is the inode of the
\* current directory as the log has it.
CurInodeFresh ==
  curInode.id \in Live /\ LogInode(curInode.id) = curInode

-----------------------------------------------------------------------------
\* lfs_init leaves in cur_container a copy of container 0 with two segments.
StaleCopy == cur.id = 0 /\ cur.off # SegNum /\ buf.id # 0

\* The read cache can be trusted.  While cur_container is the outdated copy of
\* container 0, the current directory is in container 0, so that open_cur_dir,
\* which comes first in every handler, replaces the copy before anyone else
\* trusts it.  Otherwise the cached container is what the log file has, but for
\* recipes that lfs_write edited in place, and no live file has such a recipe.
CacheCoherent ==
  cur.id # buf.id =>
    IF StaleCopy
      THEN curInode.blk.cid = 0
      ELSE /\ cur.hdr = disk[cur.id].hdr
           /\ \A s \in SegIds :
                \/ cur.seg[s] = disk[cur.id].seg[s]
                \/ /\ cur.seg[s].kind = "recipe"
                   /\ disk[cur.id].seg[s].kind \in {"recipe", "zero"}
                   /\ \A i \in LiveFiles :
                        LogInode(i).recipe # [cid |-> cur.id, seg |-> s]

\* The current directory, as open_cur_dir returns it and as the log has it.
OpenedDir == OpenCurDir(Store, curInode).dir
LoggedDir == OpenRecords(AsDir(LogSeg(Store, curInode.blk)))

\* open_cur_dir returns the current directory, whatever the two containers in
\* memory are.
DirOpensRight == OpenedDir = LoggedDir

\* Every name in the current directory leads to the live inode of its record,
\* read through the cache; in particular ".." never dangles.
NamesResolve ==
  \A name \in AllNames : HasName(LoggedDir, name) /\ IdOf(LoggedDir, name) # 0 =>
    LET found == DirGetInode(Store, name)
    IN  found.ok /\ found.ino.id = IdOf(LoggedDir, name)

\* The current directory is never cut off from the tree: the directory that its
\* ".." leads to is live and lists it (lfs_rmdir removes directories that are
\* not empty, and lfs_access walks only along entries and "..").
CwdLinked ==
  LET parent  == IdOf(LoggedDir, "..")
      records == OpenRecords(AsDir(LogSeg(Store, LogInode(parent).blk)))
  IN  /\ parent \in Live
      /\ curInode.id # 1 =>
           \E i \in DOMAIN records :
              records[i].name \in Names /\ records[i].id = curInode.id

\* Reading the first n blocks of a file copies the contents whose fingerprints its
\* recipe has, up to the first that was not written: through look-ups of the
\* inode, the recipe, the namespace and the header, each of which may replace the
\* cached container.  (lfs_read goes on reading the recipe where it found it, so for
\* n > 1 none of the blocks before the last may replace the recipe's container:
\* stays.)  And what lfs_read returns lets the caller have of them every block up to
\* the first that has a zero byte, of that one the bytes before it, and no more.
ReadReturnsOwn ==
  \A name \in Names, n \in 1 .. RecipeNum :
    LET found  == DirGetInode(Store, name)
        addr   == found.ino.recipe
        recipe == RecipeOf(found.ino.id)
        stays  == addr.cid = buf.id \/ \A k \in 0 .. n - 2 :
                    recipe[k] # NoFp => ns[recipe[k]] \in {buf.id, addr.cid}
        m      == Min({k \in 0 .. n - 1 : recipe[k] = NoFp} \cup {n})
        reply  == ReadFile(found.st, found.ino, n)
    IN  found.ok /\ found.ino.type = "file" /\ addr # NullAddr /\ stays =>
          /\ reply.out = [k \in 1 .. m |-> DataSeg(recipe[k - 1])]
          /\ \A len \in reply.ret, k \in 1 .. m :
               (\A j \in 1 .. k - 1 : TextLen[recipe[j - 1]] = BlkSize) =>
                 LET text == (k - 1) * BlkSize + TextLen[recipe[k - 1]]
                 IN  IF TextLen[recipe[k - 1]] < BlkSize THEN len = text ELSE len >= text

-----------------------------------------------------------------------------
\* The tree in the log, walked from the root: what a path designates.
RecordsOf(i) == OpenRecords(AsDir(LogSeg(Store, LogInode(i).blk)))
Child(i, name) ==
  IF i \in Live /\ HasName(RecordsOf(i), name) THEN IdOf(RecordsOf(i), name) ELSE 0
Designates(path) ==
  LET walk[k \in 0 .. Len(path)] ==
        IF k = 0 THEN 1 ELSE Child(walk[k - 1], path[k])
  IN  walk[Len(path)]

\* cur_path and cur_inode are changed at different places of lfs_access, and only
\* last components are looked up: still, cur_inode is the directory that
\* cur_path designates, and its ".." the one that par_path designates, as long
\* as directories are entered one at a time.
CwdIsPath ==
  /\ curInode.id = Designates(curPath)
  /\ parPath = ParentPath(curPath)
  /\ IdOf(LoggedDir, "..") = Designates(parPath)

-----------------------------------------------------------------------------
\* The store is a log: a segment that has been filled keeps its content, but for
\* a recipe, which lfs_write edits in place in the container being filled.  A
\* flush (container_add_seg: write out, clear, new id) loses nothing.
LogAppendOnly ==
  [][\A a \in Addr : Written(Store, a) =>
       LET old == LogSeg(Store, a)
           new == LogSeg(Store, a)'
       IN  old = new \/ (old.kind \in {"recipe", "zero"} /\ new.kind = "recipe")]_vars

\* A container is written to the log file once: the place of a container that
\* was flushed is never written again, so no two containers share a place.
KeepsFlushed == \A c \in ContainerIds : c < buf.id => disk'[c] = disk[c]
FlushedForGood == [][KeepsFlushed]_vars

\* An inode number is used once: a slot that unlink or rmdir has cleared stays
\* clear (dir_commit_changes fills the last slot when it misses an inode).
NeverReborn ==
  [][\A i \in 1 .. nInode : imap[i].id = 0 => imap'[i].id = 0]_vars

\* An operation changes no file but those whose inode it moves: although
\* recipes are edited in place, an inode whose address stays the same keeps
\* its contents and its recipe.
OthersUntouched ==
  [][\A i \in LiveFiles : imap'[i] = imap[i] =>
       LogInode(i)' = LogInode(i) /\ RecipeOf(i)' = RecipeOf(i)]_vars
-----------------------------------------------------------------------------
(* What comments and messages of the source say, and the code does not do. *)

\* "add entry to file recipe" (lfs_write): after a write, the recipe that the
\* moved inode points to has an entry.
WriteAddsEntry ==
  [][\A i \in LiveFiles : imap'[i].id = i /\ imap'[i] # imap[i] =>
       \E block \in Blocks : RecipeOf(i)'[block] # NoFp]_vars

\* "remove an entry in directory" (dir_remove_entry): a step in a directory takes
\* away at most one of its names.
NamesIn(dir) == {dir[i].name : i \in DOMAIN dir}
OneNameGone ==
  [][curInode'.id = curInode.id =>
       Cardinality(NamesIn(LoggedDir) \ NamesIn(LoggedDir)') <= 1]_vars

\* "add an entry to the current directory about the new created file"
\* (lfs_create): the file can be found afterwards.
CreatedIsListed ==
  [][nInode' # nInode /\ LogInode(nInode)'.type = "file" =>
       \E i \in DOMAIN LoggedDir' : LoggedDir'[i].id = nInode']_vars

\* "maximum file size is 4gb" (inode_t): the size of a file covers every block
\* that was written to it.
SizeCoversBlocks ==
  \A i \in LiveFiles : \A block \in Blocks :
    RecipeOf(i)[block] # NoFp => block < LogInode(i).size

\* "get the inode of a path" (dir_get_inode): the inode that is found for a path is
\* the one that the path designates.
GetsInodeOfPath ==
  \A path \in Paths \ {<<>>} :
    LET found == DirGetInode(Store, FileName(path))
    IN  found.ok => found.ino.id = Designates(path)

\* "find fingerprint in namespace" (lfs_read): reading all blocks of a file copies
\* out those that its recipe names, up to the first that was not written.
ReadsAllBlocks ==
  \A name \in Names :
    LET found  == DirGetInode(Store, name)
        recipe == RecipeOf(found.ino.id)
        out    == ReadBlocks(found.st, found.ino.recipe, RecipeNum).out
    IN  found.ok /\ found.ino.type = "file" /\ found.ino.recipe # NullAddr =>
          /\ \A k \in DOMAIN out : out[k] = DataSeg(recipe[k - 1])
          /\ Len(out) < RecipeNum => recipe[Len(out)] = NoFp

\* "buf size" (lfs_read, of strlen(buf)): all bytes of the blocks that were copied to
\* buf are counted, and so returned.
CopiedIsReturned ==
  \A name \in Names :
    LET found == DirGetInode(Store, name)
        reply == ReadFile(found.st, found.ino, RecipeNum)
    IN  found.ok /\ found.ino.type = "file" /\ found.ino.recipe # NullAddr =>
          \A len \in reply.ret : len >= Len(reply.out) * BlkSize
=============================================================================
