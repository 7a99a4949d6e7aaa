------------------------------- MODULE LfsTree -------------------------------
(***************************************************************************)
(* The file system of module Lfs implements the tree of module FileTree,   *)
(* if nothing is renamed onto a name in use, empty files are not read and  *)
(* no directory outgrows its segment.  The tree is read off the log, along *)
(* the inode map; that the handlers reach the same inodes through the read *)
(* cache is what the refinement shows.                                     *)
(***************************************************************************)
EXTENDS LfsProps, Functions

LiveDirs == {i \in Live : LogInode(i).type = "dir"}

\* The tree: the inode map leads to the directories and files, directory
\* blocks list them, recipes are the files' contents.
TreeDirs == [i \in LiveDirs |-> Range(RecordsOf(i))]
TreeFiles == [i \in LiveFiles |-> RecipeOf(i)]

Abstract == INSTANCE FileTree WITH
  Contents  <- Data,
  NoContent <- NoFp,
  MaxId     <- MaxInode,
  dirs      <- TreeDirs,
  files     <- TreeFiles,
  cwd       <- curInode.id,
  last      <- nInode

\* Every handler is one step of the tree, or none: with flushes between any two
\* of its appends, a read cache that any look-up replaces, and inodes and
\* directory blocks that move with every change.
ImplementsTree == Abstract!Spec

-----------------------------------------------------------------------------
\* Records fit into a segment, without a gap, and no name is there twice.
Tidy(recs) ==
  /\ Len(recs) <= RecPerSeg
  /\ \A k \in DOMAIN recs : recs[k].name # ""
  /\ \A k, l \in DOMAIN recs : recs[k].name = recs[l].name => k = l

\* Every directory in the log is tidy, whatever was added to it, renamed in it and
\* removed from it: what open_cur_dir counts is what there is, and the scans of
\* directory.c, which stop at the first record of a name, miss none.
DirsTidy == \A i \in LiveDirs : Tidy(AsDir(LogSeg(Store, LogInode(i).blk)))

\* There is room for a name in the current directory, or none to be added.
DirHasRoom == Len(LoggedDir) < RecPerSeg \/ Names \subseteq NamesIn(LoggedDir)
=============================================================================
