------------------------------- MODULE TreeInv -------------------------------
(***************************************************************************)
(* The inductive invariant behind the properties of directories, of the    *)
(* current directory and of the read cache.  Like LfsInv it speaks of a    *)
(* store st and an inode map im, because a handler goes through several.   *)
(***************************************************************************)
EXTENDS LfsInv

-----------------------------------------------------------------------------
(* What the inode map leads to in the log. *)

LiveIn(im) == {i \in DOMAIN im : im[i].id # 0}

\* Every slot is clear or leads to the inode of its number, and from there, for
\* a directory, to its records.  (lfs_create and dir_commit_changes put an
\* address in the map before container_add_seg, which may flush, fills it.)
MapSound(st, im, n) ==
  \A i \in DOMAIN im :
    IF im[i].id = 0
      THEN im[i].addr = NullAddr
      ELSE LET g == LogSeg(st, im[i].addr)
           IN  /\ im[i].id = i /\ i <= n
               /\ Written(st, im[i].addr)
               /\ g.kind = "inode" /\ g.ino.id = i /\ g.ino.type \in {"file", "dir"}
               /\ g.ino.type = "dir" =>
                    Written(st, g.ino.blk) /\ LogSeg(st, g.ino.blk).kind = "dir"

\* The live inodes, and the records of the directories among them.
Inodes(st, im) == [i \in LiveIn(im) |-> LogSeg(st, im[i].addr).ino]
Dirs(inodes) == {i \in DOMAIN inodes : inodes[i].type = "dir"}
Files(inodes) == {i \in DOMAIN inodes : inodes[i].type = "file"}
Records(st, inodes) == [i \in Dirs(inodes) |-> LogSeg(st, inodes[i].blk).recs]

-----------------------------------------------------------------------------
(* The tree. *)

\* The places of a directory after ".." and ".".
Places(recs) == 3 .. Len(recs)
ParentIn(records, i) == records[i][1].id

\* A directory starts with ".." and ".".  What it lists is live and was made
\* after it, and a directory that it lists has it as its parent.
DirSound(inodes, records, i) ==
  LET recs == records[i]
  IN  /\ Len(recs) >= 2
      /\ recs[1].name = ".." /\ recs[1].id \in 1 .. i /\ (recs[1].id = i => i = 1)
      /\ recs[2] = [name |-> ".", id |-> i]
      /\ \A k \in Places(recs) :
           \/ recs[k] = Hole
           \/ /\ recs[k].name \in Names
              /\ recs[k].id \in DOMAIN inodes /\ recs[k].id > i
              /\ recs[k].id \in Dirs(inodes) => ParentIn(records, recs[k].id) = i

\* Nothing is listed twice: there are no links, and lfs_rename stays within a
\* directory.
ListedOnce(records) ==
  \A i, j \in DOMAIN records : \A k \in Places(records[i]), l \in Places(records[j]) :
    records[i][k].id = records[j][l].id /\ records[i][k].id # 0 => i = j /\ k = l

\* No two files share a recipe, so an edit in place is seen by one file only.
RecipesApart(inodes) ==
  \A i, j \in Files(inodes) :
    inodes[i].recipe = inodes[j].recipe /\ inodes[i].recipe # NullAddr => i = j

TreeSound(inodes, records) ==
  /\ \A i \in Dirs(inodes) : DirSound(inodes, records, i)
  /\ ListedOnce(records)
  /\ RecipesApart(inodes)

\* A directory is listed where open_cur_dir sees it.
Lists(recs, i) ==
  \E k \in Places(OpenRecords(recs)) : recs[k].name \in Names /\ recs[k].id = i

\* There is a way up from directory c to the root: older and older directories,
\* each of them listed in the next.
WayUp(records, c, way) ==
  /\ way \subseteq DOMAIN records \cap 1 .. c
  /\ c \in way /\ 1 \in way
  /\ \A i \in way \ {1} : /\ ParentIn(records, i) \in way
                          /\ Lists(records[ParentIn(records, i)], i)

\* cur_inode is the inode of a directory as the log has it, with a way up.
CurSound(inodes, records, ino) ==
  /\ ino.id \in Dirs(inodes) /\ inodes[ino.id] = ino
  /\ \E way \in SUBSET (1 .. ino.id) : WayUp(records, ino.id, way)

\* A path leads along way[0], way[1], ...: from the root to the first record of each
\* component's name, through directories that are ever younger.
LeadsAlong(records, path, way) ==
  /\ way[0] = 1
  /\ \A k \in 1 .. Len(path) :
       LET dir == OpenRecords(records[way[k - 1]])
       IN  HasName(dir, path[k]) /\ way[k] = IdOf(dir, path[k])
  /\ \A k, l \in DOMAIN way : k < l => way[k] < way[l]

\* So cur_path leads to the current directory, and par_path to where its ".." does.
PathSound ==
  LET records == Records(Store, Inodes(Store, imap))
  IN  /\ parPath = ParentPath(curPath)
      /\ \E way \in [0 .. Len(curPath) -> DOMAIN records] :
           LeadsAlong(records, curPath, way) /\ way[Len(curPath)] = curInode.id

-----------------------------------------------------------------------------
(* The read cache. *)

RecipesOf(inodes) == {inodes[i].recipe : i \in Files(inodes)}

\* Containers go to the place that their id designates.
PlacesSound(st) == \A c \in ContainerIds : c < st.buf.id => st.disk[c].id = c

\* cur_container as lfs_init has left it: never loaded, and out of date as soon
\* as something is added to container 0.
Untouched(st) == st.cur.id = 0 /\ st.cur.off # SegNum

\* cur_container has what the log file has, but for recipes that lfs_write has
\* edited in it, which are not those of live files.
Copy(st, recipes) ==
  /\ st.cur.off = SegNum /\ st.cur.id < st.buf.id
  /\ st.cur.hdr = st.disk[st.cur.id].hdr
  /\ \A s \in SegIds :
       \/ st.cur.seg[s] = st.disk[st.cur.id].seg[s]
       \/ /\ st.cur.seg[s].kind = "recipe"
          /\ st.disk[st.cur.id].seg[s].kind \in {"recipe", "zero"}
          /\ [cid |-> st.cur.id, seg |-> s] \notin recipes

\* As long as cur_container is untouched the current directory is in container 0:
\* open_cur_dir, which comes first in every handler, reads that container from
\* memory or loads it.
CacheSound(st, recipes, blk) ==
  /\ PlacesSound(st)
  /\ (Untouched(st) /\ blk.cid = 0) \/ Copy(st, recipes)

-----------------------------------------------------------------------------
\* Between operations all of it holds.
FsSound ==
  LET inodes  == Inodes(Store, imap)
      records == Records(Store, inodes)
  IN  /\ MapSound(Store, imap, nInode)
      /\ TreeSound(inodes, records)
      /\ CurSound(inodes, records, curInode)
      /\ CacheSound(Store, RecipesOf(inodes), curInode.blk)
=============================================================================
