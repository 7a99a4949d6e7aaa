------------------------------ MODULE FileTree ------------------------------
(***************************************************************************)
(* What the handlers of src/lfs.c promise: a tree of directories and files *)
(* with numbers, one directory being the current one.  A directory is a    *)
(* set of entries.  There are no segments, containers, caches or           *)
(* fingerprints here.  Two things of the program are kept because its      *)
(* users see them: a directory that is made under a name in use exists     *)
(* without a name, and a write may lose all the blocks of its file.        *)
(* Renaming onto a name in use is not described.                           *)
(***************************************************************************)
EXTENDS Integers, Functions

CONSTANTS Names,      \* file names other than "." and ".."
          Contents,   \* contents of a block
          NoContent,  \* a block that was not written
          Blocks,     \* block numbers of a file
          MaxId       \* bounds the numbers given to files and directories

ASSUME FileTreeAssumption ==
  /\ Names \cap {"..", "."} = {}
  /\ NoContent \notin Contents
  /\ MaxId \in Nat \ {0}

VARIABLES dirs,   \* number of a directory -> its entries
          files,  \* number of a file -> its blocks
          cwd,    \* the current directory
          last    \* the last number given

vars == <<dirs, files, cwd, last>>

Put(f, x, y) == [z \in DOMAIN f \cup {x} |-> IF z = x THEN y ELSE f[z]]
Drop(f, x) == Restrict(f, DOMAIN f \ {x})

Entry(name, i) == [name |-> name, id |-> i]
NewDir(parent, i) == {Entry("..", parent), Entry(".", i)}
EmptyFile == [b \in Blocks |-> NoContent]

InUse(name) == \E e \in dirs[cwd] : e.name = name

\* lfs_init.
Init ==
  /\ dirs = [i \in {1} |-> NewDir(1, 1)]
  /\ files = [i \in {} |-> EmptyFile]
  /\ cwd = 1
  /\ last = 1

\* lfs_getattr, lfs_readdir, lfs_read, and every handler that returns an error.
Look == UNCHANGED vars

\* lfs_access of a directory in the current one, or of the parent.
Enter(e) ==
  /\ cwd' = e.id
  /\ e.id \in DOMAIN dirs
  /\ UNCHANGED <<last, dirs, files>>

\* Mutant of Mkdir: the parent is the root.
MkdirInRoot(name) ==
  LET here == IF InUse(name) THEN {} ELSE {Entry(name, last + 1)}
  IN  /\ last < MaxId /\ last' = last + 1 /\ cwd' = cwd
      /\ dirs' = Put([dirs EXCEPT ![cwd] = @ \cup here], last + 1, NewDir(1, last + 1))
      /\ UNCHANGED files

\* lfs_mkdir: the directory is made even when the name is in use.
Mkdir(name) ==
  LET here == IF InUse(name) THEN {} ELSE {Entry(name, last + 1)}
  IN  /\ last < MaxId /\ last' = last + 1 /\ cwd' = cwd
      /\ dirs' = Put([dirs EXCEPT ![cwd] = @ \cup here], last + 1, NewDir(cwd, last + 1))
      /\ UNCHANGED files

\* Mutant of Create: the number is taken before it is incremented.
CreateBefore(name) ==
  /\ last < MaxId /\ last' = last + 1 /\ cwd' = cwd
  /\ ~InUse(name)
  /\ dirs' = [dirs EXCEPT ![cwd] = @ \cup {Entry(name, last)}]
  /\ files' = Put(files, last, EmptyFile)

\* lfs_create of a name that is not in use.
Create(name) ==
  /\ last < MaxId /\ last' = last + 1 /\ cwd' = cwd
  /\ ~InUse(name)
  /\ dirs' = [dirs EXCEPT ![cwd] = @ \cup {Entry(name, last + 1)}]
  /\ files' = Put(files, last + 1, EmptyFile)

\* Mutant of Remove: the entry stays.
RemoveInode(e) ==
  /\ UNCHANGED <<cwd, last>>
  /\ e.name \in Names
  /\ dirs' = Drop(dirs, e.id)
  /\ files' = Drop(files, e.id)

\* lfs_unlink and lfs_rmdir: what a directory has in it stays, without a name.
Remove(e) ==
  /\ UNCHANGED <<cwd, last>>
  /\ e.name \in Names
  /\ dirs' = Drop([dirs EXCEPT ![cwd] = @ \ {e}], e.id)
  /\ files' = Drop(files, e.id)

\* Mutant of Rename: the old name stays.
RenameCopies(e, new) ==
  /\ UNCHANGED <<cwd, last>>
  /\ e.name \in Names /\ ~InUse(new)
  /\ dirs' = [dirs EXCEPT ![cwd] = @ \cup {Entry(new, e.id)}]
  /\ UNCHANGED files

\* lfs_rename within the current directory.
Rename(e, new) ==
  /\ UNCHANGED <<cwd, last>>
  /\ e.name \in Names /\ ~InUse(new)
  /\ dirs' = [dirs EXCEPT ![cwd] = (@ \ {e}) \cup {Entry(new, e.id)}]
  /\ UNCHANGED files

\* lfs_write of one block.
Write(e, b, d) ==
  /\ UNCHANGED <<cwd, last>>
  /\ e.id \in DOMAIN files
  /\ files' = [files EXCEPT ![e.id][b] = d]
  /\ UNCHANGED dirs

\* lfs_write when its recipe is cleared by the flush of its block.
LoseBlocks(e) ==
  /\ UNCHANGED <<cwd, last>>
  /\ e.id \in DOMAIN files
  /\ files' = [files EXCEPT ![e.id] = EmptyFile]
  /\ UNCHANGED dirs

Next ==
  \/ Look
  \/ \E name \in Names : Mkdir(name) \/ Create(name)
  \/ \E e \in dirs[cwd] :
       \/ Enter(e)
       \/ Remove(e)
       \/ \E new \in Names : Rename(e, new)
       \/ \E b \in Blocks, d \in Contents : Write(e, b, d)
       \/ LoseBlocks(e)

Spec == Init /\ [][Next]_vars

-----------------------------------------------------------------------------
\* The type invariant.
TypeOK ==
  /\ last \in 1 .. MaxId
  /\ DOMAIN dirs \cup DOMAIN files \subseteq 1 .. last
  /\ DOMAIN dirs \cap DOMAIN files = {}
  /\ \A i \in DOMAIN dirs :
       dirs[i] \subseteq [name : Names \cup {"..", "."}, id : 1 .. last]
  /\ files \in [DOMAIN files -> [Blocks -> Contents \cup {NoContent}]]
  /\ cwd \in DOMAIN dirs

\* No name dangles, nothing has two names, and a directory's ".." leads to where it
\* is listed, whatever was removed around it (lfs_rmdir leaves the inodes of a
\* directory's entries behind, lfs_mkdir makes directories without a name).
NamesSound ==
  \A i \in DOMAIN dirs : \A e \in dirs[i] : e.name \in Names =>
    /\ e.id \in DOMAIN dirs \cup DOMAIN files
    /\ \A j \in DOMAIN dirs : \A f \in dirs[j] :
         f.name \in Names /\ (f.id = e.id \/ (i = j /\ f.name = e.name)) => i = j /\ e = f
    /\ e.id \in DOMAIN dirs => Entry("..", i) \in dirs[e.id]

\* The way up from the current directory leads to the root, through directories
\* that list one another: rmdir never takes away the ground under cur_inode.
CwdRooted ==
  \E way \in SUBSET (1 .. cwd) :
    /\ {1, cwd} \subseteq way /\ way \subseteq DOMAIN dirs
    /\ \A i \in way \ {1} : \E p \in way :
         /\ p < i /\ Entry("..", p) \in dirs[i]
         /\ \E name \in Names : Entry(name, i) \in dirs[p]
=============================================================================
