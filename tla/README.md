# TLA+ model of the userspace deduplication file system

The program is a FUSE file system in C (`src/src/*.c`, about 1250 lines) that keeps
everything in a log file of fixed-size *containers* and stores a 4K block only once.
This directory holds a TLA+ model of it, the TLC configurations that check the model on
small instances, and proofs, checked by TLAPS, that hold for every value of the constants.

## 1. The system

| component | state it keeps | operations | what makes it correct |
|---|---|---|---|
| container store (`container.c`) | `buf_container` (being filled), `cur_container` (read cache of one container), the log file | init, copy, write, read, add_seg, add/find fingerprint | a filled segment is never lost or overwritten; a cached container is what the log has; a fingerprint leads to its block |
| directory contents (`directory.c`) | `dir_t`, records in memory for the time of one operation | add, change, remove, find | a name once per directory; an edit touches only its name |
| look-up and commit (`directory.c`) | inode map, `cur_inode` | `open_cur_dir`, `dir_get_inode`, `get_inode_from_inode_id`, `dir_commit_changes` | every pointer (map -> inode -> directory block or recipe) leads to a filled segment of the right kind |
| recipe and namespace (`inode.c`, `lfs.c`) | recipe segments, hash table fingerprint -> container | `filerecipe_add_entry`, HASH_FIND, HASH_ADD | every fingerprint in a recipe can be found again; no content is stored twice |
| FUSE operations (`lfs.c`) | `n_inode`, `cur_inode`, `cur_path`, `par_path` | getattr, mkdir, readdir, create, access, open, read, write, rename, unlink, rmdir | the current directory stays in the tree, names resolve, one file's write leaves the others alone |
| initialisation (`lfs.c:568-627`) | all of the above | `lfs_init` | a root directory that opens |
| paths, arithmetic, fingerprints (`util.c`) | none | `get_filename`, `get_parentpath`, `get_division_result`, `compute_fingerprint` | - |
| uthash.h (vendored), printing, stubs, build files | - | - | not modelled |

How they interact: `main` calls `lfs_init` and gives the table of handlers to libfuse. A
handler reduces its path to the last component (`get_filename`) and looks it up in the
*current* directory only; `lfs_access` is what changes the current directory. Every look-up
goes `cur_inode` -> directory block -> inode number -> inode map -> address -> container,
and each arrow may call `container_read`, which replaces the contents of `cur_container`.
Every change appends segments with `container_add_seg` (directory block, inode, data block,
recipe), which writes the container out, clears the memory and starts the next container
when the last segment is filled, wherever in a handler that happens.

What is hard about it, and hard to reach by tests:

- a flush in the middle of a handler, between the computation of an address and the
  segment that goes there, or while a pointer into the flushed memory is in use;
- one read cache used for everything, with a copy of container 0 left in it by `lfs_init`
  that is out of date after the first operation and that only `open_cur_dir` distrusts;
- recipes that are edited in place, in the read cache or the container being filled;
- sequences of legal calls (rename over a name, then unlink; rmdir of a non-empty directory;
  removal, then creation) that leave records, slots or pointers in odd states;
- limits: 7 segments, 15 records, 8 recipe entries, 2048 inodes, 1024 containers, 32 bits.

There is no restart to recover from: `lfs_init` truncates the log file (`lfs.c:579`).
libfuse runs handlers in several threads unless `-s` is given, and nothing in the code
locks: module `Threads`. `PROJECT.json` lists every hazard at its line, with the properties that
would catch it going wrong.

## 2. The modules

| module | models | how |
|---|---|---|
| `Container` | `container.c`, and the address computations of `directory.c` and `lfs.c` | operators on a store `[buf, cur, disk]`, because one handler makes many calls in a row |
| `Directory` | the `dir_t` operations of `directory.c` | operators on sequences of records |
| `Lfs` | `lfs.c`, and look-up and commit of `directory.c`, `inode.c` | variables, `Init`, one action per handler, `Next`, `Spec` |
| `LfsProps` | - | the type invariant, invariants and action properties |
| `LfsInv`, `TreeInv` | - | the inductive invariants of `Lfs`: `LogSound`, about the log and deduplication; `FsSound`, about directories and the read cache; `PathSound`, about `cur_path` |
| `FileTree` | what the handlers of `lfs.c` promise | abstract: directories as sets of entries, files as blocks, one current directory |
| `DedupStore` | what the block store of `lfs_write` promises | abstract: a log and an index, one step per new content |
| `LfsTree`, `LfsStore` | - | the refinement mappings from `Lfs` to these two; `DirsTidy`, which the first one needs |
| `LogFile` | the log file block by block, `container_write`, 32-bit addresses | variables; filling segments, containers written whole, in part or not at all |
| `Threads` | `lfs_create`, `lfs_write`, `container_add_seg`, `get_inode_from_inode_id` in several threads | a program counter per thread, one action per statement that touches shared memory |
| `ThreadsInv` | - | `ThreadsSound`, the inductive invariant of `Threads` for one thread that changes anything |
| `MCLfs`, `MCFileTree`, `MCThreads` | - | constants for TLC; one `.cfg` per question (`LogFile` needs none) |
| `LfsLemmas` | - | what the operators of `Lfs` return and preserve: types and growth; the parts of `LogSound` |
| `LfsProofs`, `LogProofs`, `TreeProofs` | - | for types, `LogSound` and `FsSound`: one lemma per handler, and the theorems |
| `LfsTreeProofs` | - | that `Lfs` implements `FileTree`, and the theorems about the current path |
| `LogFileProofs`, `FileTreeProofs`, `ThreadsProofs` | - | theorems about the other modules |

How they belong together: `Lfs` is the system, one handler at a time, and uses `Container` and
`Directory`. `FileTree` and `DedupStore` are two abstract views of it, of what users and of what
blocks see, and `LfsTree` and `LfsStore` map the one to the others. `LogFile` goes below `Lfs`: it
justifies taking an address for a pair and a container for a place in the file. `Threads` replaces
the assumption of `Lfs` that handlers run one after another, for the steps that share memory.

Variables and code: `buf`, `cur` = `lfs_info->buf_container`, `cur_container`; `disk` = the
file `lfslog`; `imap`, `nInode` = `imap->records`, `n_inode`; `ns` = `lfs_namespace`;
`curInode`, `curPath`, `parPath` = `cur_inode` (by value: each `lfs_access` allocates a new
one), `cur_path`, `par_path`. `next_container_id` is left out: it is written and read within
one call of `container_add_seg`.

An action is a whole handler, including the look-ups that replace the read cache, failing
ones too. `Mkdir`, for example, is: increment `n_inode`, open the current directory, add the
name (a refusal is not looked at, as in `lfs.c:82`), commit it, commit the new directory.

Definitions whose comment starts with "Mutant of" are not part of the model. Each is a
plausible slip in the definition after it, and shows that a property can fail.

### Abstractions

- A block content is a model value and stands for its fingerprint as well: SHA1 is taken as
  injective. `FirstByte` gives the first byte of the fingerprint, the only one that
  `container_header_find_fingerprint` looks at.
- An address is the pair (container, segment) it decodes to; the cleared address 0 decodes
  to a place beyond the log file (`NullAddr`), as the 32-bit subtraction does. The real pair is
  (131071, 7); the model has (`MaxContainer`, `SegNum` - 1).
- A segment is a tagged record; a cleared segment is `ZeroSeg` and reads as a cleared
  structure of any kind. A read that finds no header record copies the header segment in the
  code and `ZeroSeg` in the model.
- `lfs_read` returns `strlen(buf)`, and libfuse hands over that many bytes. `ReadFile` has both: `out`,
  the blocks that are copied, and `ret`, the numbers that `strlen` may return. Of a content's bytes the
  model knows how many come before the first zero byte (`TextLen`, of `BlkSize`). Where no copied block
  has a zero byte, and on the error path when nothing was copied, `strlen` runs on in memory that
  `lfs_read` did not write or that is behind the buffer; the model lets it find up to one block there.
- `file_size` is in blocks. Times, modes, owners and link counts are left out; so is
  `direct_blk[1]` and up, which is written but never read, directories having one block.
- A path is its components. The model gives whole paths to `getattr` and `access`, which
  compare them with `cur_path` and `par_path`, and the last component to the others.
- Memory that `malloc` returned and nobody wrote is taken as zero. That is an assumption, and the program
  depends on it: `lfs_init` clears neither the inode map (`lfs.c:570`) nor the root's records (608), but
  every look-up and commit scans all 2048 slots of the map (`directory.c:207, 310`), and the records are logged
  as they are (`lfs.c:615`) and those with a name counted (`directory.c:87`). It holds where the allocator gives
  out memory for the first time, which the operating system hands over cleared; with other
  contents there would be inodes and names that nobody made. The records of a new directory (`lfs.c:66`)
  are different: the commit copies those that were added and no others. The record behind
  the 15th (`directory.c:125`) is written behind a heap block; the model takes the overflow as harmless.
- In `LogFile` an address is counted in blocks, addresses being multiples of 4K, so that 32 bits
  become `8 * Wrap` blocks; a segment is told apart by where it was put first, and `pwrite` writes
  one of a few numbers of blocks (`Outcomes`). `SegNum` is the 8 of the source.
- In `Threads` a call of `memcpy`, `memset`, `pread`, `pwrite`, `HASH_FIND` or `HASH_ADD` is one
  step, as is the computation of an address; an increment is two; the comparison after the increment
  of `seg_offset` reads either the memory or the value just stored, as a compiler may choose.
  Memory is sequentially consistent: the reorderings that C allows for unlocked accesses are not
  modelled, so the runs show less than what can go wrong. The directory's segments in `lfs_create`
  and the recipe's and the inode's in `lfs_write` go through the same calls and are left out, and so
  are headers, failures and flushes during `open_cur_dir`.
- In `FileTree` a handler that fails is `Look`, as is a rename of a name to itself, and a file keeps what the write that loses a recipe
  (run `recipe`) leaves of it, which is nothing (`LoseBlocks`). Renames onto names in use are not
  in it: what they lead to (run `remove`) is no tree.
- Environment: the kernel sends reads and writes of regular files only, and (unless `EmptyReads`) does
  not pass on the read of a file whose
  size is 0. With direct I/O it does pass it on, which is `MCLfs_emptyread.cfg` (section 3). With `DeepPaths`
  FALSE one process walks the tree, so `access` and `getattr` get paths one step from the current
  directory (`Steps`, which translates no code); with `RenameOnto` FALSE nothing is renamed onto another name
  that is in use. Both are TRUE
  where nothing else is said, and in the proofs they can be either unless a theorem has one of them as its hypothesis.
  A rename of a name to itself is always possible: the handler sees last components only, so a move from one
  directory to another that keeps the name arrives as one.
- In `Lfs` handlers run one after another (libfuse's `-s`).

Bounds: `MaxInode` inodes, `RecipeNum` blocks per file, `MaxDepth` components of a path, and
`Room`: a handler that appends starts only if five containers are left, more than it can flush.
`MaxId` bounds the numbers of `FileTree` and the containers of `LogFile`; `Threads` begins a
creation or a write only if numbers and containers are left for all threads.

### Fairness

`Lfs`, `FileTree`, `DedupStore` and `LogFile` have none: every handler is one call that ends, and
what the users of the file system ask for is up to them. `Threads` has weak fairness of
`Continue(t)` for every thread `t`: the scheduler of the operating system runs every thread, and
nothing in the code waits for another thread, so a step that can be taken stays possible. Requests
(`Start`) need not arrive. With it `FullIsWritten` and `MapLeads` say that what a handler leaves
half done is finished.

Deadlock is checked except in the runs of `LogFile`, whose log ends at `MaxId`.

## 3. What the runs check

| run | instance | shows |
|---|---|---|
| `files` | 4 segments, 10 containers, 2 contents, one of them with a zero byte, 2 names, 2 new inodes, 2 blocks, 4 records | `TypeOK`, `PointersSound`, `DedupSound`, `StoredOnce`, `RecipeResolves`, `ReadReturnsOwn`, `FlushedForGood`, `ImplementsStore` |
| `tree` | 4 segments, 10 containers, 2 names, 4 new inodes, paths of 2 components, 4 records | `CurInodeFresh`, `DirOpensRight`, `NamesResolve`, `CwdLinked`, `FsSound`, `NeverReborn` |
| `edits` | 5 segments, 9 containers, 2 contents, 2 names, 2 new inodes, 2 blocks, 15 records, paths of 1 component, `RenameOnto` FALSE | `CacheCoherent`, `LogSound`, `LogAppendOnly`, `OthersUntouched` |
| `refine` | 4 segments, 10 containers, 2 names, 2 contents, 1 block, 2 new inodes, 4 records, paths of 2 components, `DeepPaths` and `RenameOnto` FALSE | `CwdIsPath`, `DirsTidy`, `PathSound`, `ImplementsTree` |
| `filetree` | 2 names, 2 contents, 2 blocks, 5 numbers | `TypeOK`, `NamesSound`, `CwdRooted` |
| `logfile` | 8 segments, 6 containers, 32 bits for 7, a `pwrite` of 0, 3 or 8 blocks | `TypeOK`, `Leads` |
| `threads` | one thread creates and writes, one looks up; 4 segments, 5 containers, 3 new inodes, 2 contents | `TypeOK`, `ThreadsSound`, `MadeIsLogged`, `FullIsWritten`, `MapLeads` |

Why the bounds are enough: a handler appends at most five segments, so with three usable
segments per container (`SegNum` = 4) a flush falls between any two appends of any handler,
and a handler may flush twice; with `Room`, `MaxContainer` = 10 leaves four to five containers to
fill, so that addresses lead to the container being filled, to the cached one and to one that
is neither. `edits` has five segments, so that a recipe can be in the container being filled with another segment
before it and still be edited there, and two files of two blocks and two contents, so that recipes
differ, an edit in place changes the cached container and a wrong one would show in the
other file; it is without renames onto a name in use, which `files` and `tree` have. Two names make one
collision (rename onto a name), four records per directory are two names and none to spare.
Names and contents are symmetric: `AllDistinct` and `AllAlike` only serve to compare first bytes. In `files` only
names are, since its contents differ in their zero bytes; two bytes per block (`BlkSize`) make one that is cut in the middle.
`refine` has a tree of up to three directories, and a second content, so that
a block is overwritten and a write that loses its blocks (`LoseBlocks`) loses some; no directory of it gets full, which is
what `MCLfs_path.cfg` is for (below). In `filetree` five numbers make a directory in a directory in a
directory with something beside it. `threads` flushes at least three containers, so the looked-up
inode is in the container being filled, the cached one or neither, at every step of a flush.

The deep ones, and what they are about:

- `PointersSound`, `CurInodeFresh`: addresses computed before `container_add_seg` flushes.
- `DedupSound`, `StoredOnce`, `RecipeResolves`, `ReadReturnsOwn`: header record, namespace and
  block agree through flushes, and a read finds the blocks through look-ups that replace
  one another's container, as long as they leave the recipe where it is. `ReadReturnsOwn` is also about what
  the caller is given of them: every block up to the first that has a zero byte, and of that one the
  bytes before it (`MCLfs_zerobyte.cfg` is about the rest).
- `LogSound`: the invariant behind these, of every version of an inode or recipe in the log, in
  the container being filled and in the read cache. It is checked with 5 segments, and where recipes differ
  and are edited in place.
- `FsSound`, `PathSound`, `ThreadsSound`: the invariants that the proofs rest on (section 4), stated for TLC as well.
- `CacheCoherent`, `DirOpensRight`: why the outdated copy of container 0 does no harm (as long
  as empty files are not read): while it is there the current directory is in container 0, so
  `open_cur_dir`, the first call of every handler, replaces it.
- `LogAppendOnly`, `FlushedForGood`, `OthersUntouched`: although recipes are edited in place, what
  a live file leads to does not change by an operation on another.
- `NamesResolve`, `CwdLinked`, `NeverReborn`: removing directories that are not empty,
  duplicate names and the last-slot fallback of `dir_commit_changes` leave neither a dangling
  name in the current directory nor a number used twice.
- `CwdIsPath`: `cur_inode`, `cur_path` and `par_path` are three globals that `lfs_access` changes at
  different places, and paths are never resolved from the root; they agree as long as directories
  are entered one at a time (`MCLfs_deep.cfg` is what happens otherwise).
- `ImplementsTree`: every handler, with its flushes, look-ups through one read cache, and inodes that
  move with each change, is one step of the tree or none. `NamesSound` and `CwdRooted` are what the
  tree then gives: `rmdir` of directories that are not empty breaks no name and not the way up.
- `DirsTidy`: records are added at the end, zeroed and closed up, and cut off at the end of a segment, and still
  there is no gap (which `open_cur_dir` would take for the end) and no name twice.
- `ImplementsStore`: header record, namespace entry and segment, written one after another
  around flushes, are one step of a store that never moves or loses a block.
- `Leads` (`LogFile`): with failing writes and 32-bit arithmetic, an address never leads to another
  container's segment.
- `MadeIsLogged`, `MapLeads` (`Threads`): the map entry comes before the segment, and a flush clears the
  memory after the write; at no step in between is a made file nowhere, for one thread that changes.
- `FullIsWritten` (`Threads`): a full container is written out, by the one thread that fills it.

### Where the code does something else

Five runs show where the code does not do what a comment or a message of it says; each has
one property, which TLC finds violated, and one finding in `PROJECT.json`.

| run | property | the code |
|---|---|---|
| `recipe` | `WriteAddsEntry` | `lfs_write` copies a recipe out of memory that its own flush has cleared: the file loses its contents |
| `collision` | `ReadReturnsOwn` | fingerprints are compared in their first byte only |
| `remove` | `OneNameGone` | `dir_change_entry` lets a directory have a name twice; removing it then leaves a hole and the last name is lost |
| `fulldir` | `CreatedIsListed` | the record beyond the first segment is not opened again (here 3 records per segment instead of 15) |
| `threads_map` | `MadeIsLogged` | two creations take `n_inode` for an index after both have incremented it |

### Further configurations

The project keeps eleven more configurations. They are not among the runs of `PROJECT.json` and no result above or theorem below
rests on them. `tlc -config C.cfg M` checks one, with `M` = `MCLfs`, `MCThreads` or `LogFile`, the beginning of the
configuration's name. In ten of them TLC finds the property violated, by what the code does:

| configuration | property | the code |
|---|---|---|
| `MCLfs_size` | `SizeCoversBlocks` | `file_size` is the size of the last write |
| `MCLfs_zerobyte` | `CopiedIsReturned` | the return value of `lfs_read` is a `strlen`, so what is behind a zero byte is not handed over |
| `MCLfs_blocks` | `ReadsAllBlocks` | `lfs_read` goes on reading its recipe in a read cache that it has replaced |
| `MCLfs_deep` | `GetsInodeOfPath` | the last component of any path is looked up in the current directory |
| `MCLfs_emptyread` | `DirOpensRight` | `lfs_read` of an empty file makes the outdated copy of container 0 look complete |
| `MCThreads_once` | `OncePerContent` | two writes ask the namespace before either tells it |
| `MCThreads_full` | `FullIsWritten` | two threads step `seg_offset` past the value that means full |
| `MCThreads_look` | `LooksRight` | a look-up in the middle of a flush, one thread changing and one looking |
| `MCThreads_cur` | `LoadedIsThere` | two look-ups replace each other's container |
| `LogFile_wrap` | `Leads` | the last address below the wrap-around is 0, which means "none" (here 32 bits address 3 containers instead of 131072) |

The eleventh, `MCLfs_path`, holds: `CwdIsPath`, `DirsTidy` and `PathSound` with 4 segments, 10 containers, 2 names, 1 content, 1 block,
4 new inodes and paths of 3 components, so that the current directory can be three levels deep while
another branch is made, renamed or removed, and with 3 records, which is one name and a second that is cut off at the end of the segment.

Two more things have no configuration. `lfs_rmdir` leaves the inodes of what a removed directory lists in the map
(`lfs.c:514` has it as to be done), and so does `FileTree`. And nothing stops the log at the end of the
file that `lfs_init` made, nor does anything look at the result of `pwrite`: in `LogFile` the log goes on as far as
32 bits reach, and of the containers some are lost; the others are still found.

## 4. What is proved

For all values of the constants that satisfy `ContainerAssumption`, `DirectoryAssumption` and
`LfsAssumption` (among them `EmptyReads` = TRUE, contents whose fingerprints begin alike and contents with zero bytes):

| module | theorem | property |
|---|---|---|
| `LfsProofs` | `TypeCorrect` | `[]TypeOK` |
| `LfsProofs` | `FlushedContainersStay` | `FlushedForGood` |
| `LogProofs` | `LogAgrees` | `[]LogSound` |
| `LogProofs` | `NamespaceLeadsToBlocks` | `[]DedupSound` |
| `LogProofs` | `NoBlockTwice` | `[]StoredOnce` |
| `LogProofs` | `RecipesResolve` | `[]RecipeResolves` |
| `LogProofs` | `LogKeeps` | `LogAppendOnly` |
| `LogProofs` | `StoreImplemented` | `ImplementsStore` |
| `TreeProofs` | `FsAgrees` | `[]FsSound` |
| `TreeProofs` | `MapLeadsToTheLog` | `[]PointersSound` |
| `TreeProofs` | `CurInodeIsLogged` | `[]CurInodeFresh` |
| `TreeProofs` | `DirectoryOpensRight` | `[]DirOpensRight` |
| `TreeProofs` | `NamesLeadToInodes` | `[]NamesResolve` |
| `TreeProofs` | `CwdIsLinked` | `[]CwdLinked` |
| `TreeProofs` | `CacheIsCoherent` | `[]CacheCoherent` |
| `TreeProofs` | `RemovedStaysRemoved` | `NeverReborn` |
| `TreeProofs` | `OtherFilesKept` | `OthersUntouched` |
| `TreeProofs` | `ReadsOwnBlocks` | `[]ReadReturnsOwn`, if first bytes differ |
| `LfsTreeProofs` | `TreeImplemented` | `[]DirHasRoom => ImplementsTree` |
| `LfsTreeProofs` | `DirectoriesAreTidy` | `[]DirsTidy` |
| `LfsTreeProofs` | `NoNameDangles` | `[]NamesSound` of the tree in the log |
| `LfsTreeProofs` | `CurrentDirectoryStays` | `[]CwdRooted` of the tree in the log |
| `LfsTreeProofs` | `PathAgrees` | `[]PathSound` |
| `LfsTreeProofs` | `CwdIsWhereThePathLeads` | `[]CwdIsPath` |
| `LogFileProofs` | `DecodeInverts` | decoding inverts encoding below the wrap-around |
| `LogFileProofs` | `LogFileTyped` | `[]TypeOK` of `LogFile` |
| `LogFileProofs` | `AddressesLead` | `[]Leads`, if `MaxId + 1 < Wrap` |
| `FileTreeProofs` | `TreeTyped` | `[]TypeOK` of `FileTree` |
| `FileTreeProofs` | `NamesNeverDangle` | `[]NamesSound` |
| `FileTreeProofs` | `CurrentDirectoryRooted` | `[]CwdRooted` |
| `ThreadsProofs` | `ThreadsTyped` | `[]TypeOK` of `Threads` |
| `ThreadsProofs` | `StatementsAgree` | `[]ThreadsSound` |
| `ThreadsProofs` | `MadeStaysLogged` | `[]MadeIsLogged` |

`LogFileProofs`, `FileTreeProofs` and `ThreadsProofs` rest on `LogFileAssumption`, `FileTreeAssumption` and
`ThreadsAssumption` instead. Some theorems have hypotheses of their own, and for each a
run or configuration of section 3 shows what goes wrong without it: the property itself, or for `ImplementsTree` and `DirsTidy` one
handler's part of it:

| theorems | hypothesis | without it |
|---|---|---|
| all of `TreeProofs`, `LfsTreeProofs` | `~EmptyReads`: the kernel does not pass on the read of a file of size 0 | `MCLfs_emptyread` |
| `TreeImplemented`, `DirectoriesAreTidy`, `NoNameDangles` | `~RenameOnto`: nothing is renamed onto another name in use | run `remove` |
| `TreeImplemented` | `[]DirHasRoom`: no name is added to a directory that is full | run `fulldir` |
| `PathAgrees`, `CwdIsWhereThePathLeads` | `~DeepPaths`: directories are entered one at a time | `MCLfs_deep` |
| `ReadsOwnBlocks` | `FirstBytesDiffer`: fingerprints differ in the first byte | run `collision` |
| `AddressesLead` | the log stays below the wrap-around | `LogFile_wrap` |
| all of `ThreadsProofs` | `Mutators = {m}`: one thread serves the calls that change something; there are any number of look-ups | run `threads_map` |

The runs that check the properties of `TreeProofs` and `LfsTreeProofs` have `EmptyReads` = FALSE and `AllDistinct`
too; `refine` has the other three hypotheses (two names fit into the four records of a directory), and
`MCLfs_path` all but `[]DirHasRoom`, which its properties' theorems do not need.

### Types and flushes

`LfsLemmas` defines two relations between the stores before and after a piece of
a handler. `Looks(st, t)`: only the read cache differs. `Grows(st, t, n)`: at most n containers
were flushed, and those with a number below the one being filled are as before. Each
operator has a lemma that says which of the two it establishes and what type its other results
have (`AddSegGrows`, `CommitDirGrows`, `ReadBlocksLooks`, ...), and `GrowsTrans` adds growths up.
`LfsProofs` has one lemma per handler (`MkdirKept`, `WriteKept`, ...) that adds up the handler's
growths to at most five, which `Room` allows, and concludes `TypeOK'` and `KeepsFlushed`;
`NextKept` splits `Next` into them. `TypeOK` is inductive because it says that
`buf_container` is never left full (`buf.off < SegNum`): without that, an address could be
computed for a segment that does not exist and the next `container_add_seg` would refuse it.
`ReadBlocks` is a recursive function; that it exists is shown in `ReadBlocksLooks` by induction
over a set of numbers (`SetInduction`, from the least element of a set).

### The log and deduplication

None of `DedupSound`, `StoredOnce` and `RecipeResolves` is inductive: that a block goes to the log
once depends on the namespace knowing every block that is there; that a recipe stays resolvable
depends on the recipe that `lfs_write` edits, which may be an outdated copy in the read
cache or reached through an outdated inode; that a header record fits depends on the header never
having more records than filled segments. `LogSound` (`LfsInv`) says all of that, of every
segment anywhere:

- `DedupInv`: the header has room (`HeaderFits`) and its records lead to no other block than theirs
  (`HeadersTrue`), what the namespace knows is filed in the
  container it names (`BlocksFiled`), what is in the log is in the namespace (`BlocksKnown`), once
  (`BlocksOnce`);
- `SegsSound`: an inode in the log or in the read cache has no recipe or one that was filled, and a
  recipe there names known contents only;
- `RecipeThere` for `cur_inode`, and `SlotsSound`: the inode map leads to inodes.

Its parts are operators of a store, so that they can be followed through the calls of one
handler: `LfsLemmas` shows what `container_add_seg`, a header record, the edit of a recipe, a
look-up and a commit do to them (`AppendSound`, `StoreBlockSound`, `EditRecipeSound`,
`LooksSound`, `CommitDirSound`), and that all of them keep what was filled (`Keeps`, which is
`LogAppendOnly` of two stores). `CopiedRecipe` is about the pointer into `buf_container` that
`lfs_write` keeps over a flush: what it copies is the recipe or a cleared segment, which is why the
invariant allows a recipe of kind "zero" and why `recipe` (section 3) is a lost file
and not a corrupt one. `LogProofs` has one lemma per handler and the theorems.

### The store, refined

`ImplementsStore` maps a content to the place that the namespace and a header lead to
(`LfsStore!Place`, a CHOOSE). `PlacesAreRight` shows from `LogSound` that there is exactly one such
place and that every block in the log is at the place of its content. A handler keeps what was
filled (`LogAppendOnly`) and forgets no content (`NextNsGrows`), so places stay (`PlaceStays`); it
learns one content at most, so it either leaves log and index as they are
(`SameNamespaceStutters`) or is `Store` of the new content at its fresh place
(`NewContentStores`). `StoreImplemented` puts these together with `LogAgrees`.

### Addresses

`DecodeInverts` is arithmetic: below the wrap-around the modulus disappears and an address is 8 times
the container plus the segment plus one. `AddressesLead` needs a stronger invariant than `Leads`: that
memory holds exactly the segments filled so far, and that the file holds, at the place of every
container that was begun, what was written there or, beyond the log, zeros; places of different
containers do not overlap.

### The tree

`NamesSound` is kept by every operation, but not by itself: that removing an entry does not
remove the current directory needs numbers that grow from a directory to what it lists, and
".." entries that lead to one older directory (`Ordered`). With these, `CwdRooted` follows a
*way*: making adds entries and removes none, removing and renaming touch the current
directory's entries only, which are younger than everything on the way (`WayKept`), and entering
lengthens the way, keeps it or cuts it (`EnterRooted`).

### Directories, the current directory and the read cache

None of `DirOpensRight`, `NamesResolve`, `CwdLinked` and `CacheCoherent` is inductive. What is read through
the cache is right because of which container the current directory is in; that ".." resolves needs to
hold of every directory, not of the current one; that a removal does not cut off the current directory needs
numbers that grow from a directory to what it lists. `FsSound` (`TreeInv`) has four parts:

- `MapSound`: a slot is clear or has its own number and leads to a filled segment with that inode, and
  from there, for a directory, to records;
- `TreeSound`: a directory begins with ".." and "."; what it lists is live, younger, and, if it is a directory, has it
  as its parent; nothing is listed twice; no two files have one recipe;
- `CurSound`: `cur_inode` is as logged, and there is a *way* up from it to the root, a set of directories each
  of which is listed in its parent where `open_cur_dir` sees it;
- `CacheSound`: `cur_container` is a copy of its container in the log file but for recipes of no live file, or
  it is as `lfs_init` left it and the current directory is in container 0.

`RecipesApart`, in the second part, is what `OthersUntouched` needs: a recipe edited in place is
seen by one file. Records that the model allows and a reader may not expect are in it: a removed
entry leaves a hole (`Hole`), a rename may give a name twice, and a directory made when
its parent is full is listed nowhere.

Like those of `LogSound`, the parts are operators of a store and of the inode map, as functions
from numbers to inodes and to records. `TreeProofs` goes in three layers. The first says what
the operators do: that look-ups leave the log alone and the cache sound, that `open_cur_dir` returns what
the log has, what `dir_commit_changes` does to inodes and records (one inode is
replaced, and nothing else moves, whatever is flushed in between). The second is about inodes and records
alone: making, renaming, removing and entering keep the tree and the way. The third has one
lemma per handler, and the theorems. `ReadsOwnBlocks` needs `HeadersTrue` of `LogSound`: a header record that
agrees in the first byte is one of the block's own fingerprint. Its second half, about the return value, is
arithmetic on the blocks that were copied (`CountsText`).

### The file system, refined

`ImplementsTree` reads the tree off the log: a directory is the set of the records that `open_cur_dir`
sees of its block, a file what its recipe has. That a handler does to these sets what `FileTree` says
needs more than `FsSound`. With a name twice, removing it takes one entry off the set and two
records off the directory, and with a gap `open_cur_dir` stops too early; `DirsTidy` excludes both,
and is kept by every handler if nothing is renamed onto a name in use. A name added to a directory that is full
is another matter: the commit cuts it off, the directory stays tidy, but the tree is not what was
promised. So the theorem has a hypothesis about behaviours, `[]DirHasRoom`, instead of one about
constants: nothing in the code keeps directories from getting full.

The handler lemmas of `TreeProofs` say which of three things a handler does to inodes and records: it
leaves them (`Stays`), it replaces the records of the current directory and makes or removes one
inode (`Relists`), or it moves one file (`Moves`). `LfsTreeProofs` goes in three layers again: what the
operations of `Directory` do to a tidy sequence, as a set (`AddIs`, `ChangeIs`, `RemoveIs`); what the three things do
to the tree (`LookedTree`, `RelistedTree`); and one lemma per handler that names the step of
`FileTree` (`MkdirStep`, `WriteStep`, ...), which `NextTree` puts together.

`NoNameDangles` and `CurrentDirectoryStays` state what `FileTreeProofs` proves of the tree for the tree in the log. They
come from `FsSound` and not through the refinement, and so they need no room in directories.

### The current path

`CwdIsPath` walks a path of any length, so a proof about how the walk changes would be an induction. `PathSound` says
it with a function instead: there is a *way*, a directory for every prefix of `cur_path`, from the root to
`cur_inode`, each found in the one before under the next component. Its last part makes it inductive: numbers grow along
the way. A handler relists the current directory, which is the last on the way, and removes what
that lists, which is younger; so the records that the way rests on are those of older directories and stay
(`PathKept`). `lfs_access` takes the last step off the way (`PathUp`, where `TreeSound` has it that ".." is the
directory before) or adds one (`PathDown`). That the walk of `Designates` is the way of `PathSound` is the one
induction left (`WalkIs`), over the set of numbers for which the two agree.

### Threads

`ThreadsSound` says, for every place between two statements, what the one mutator has in its
local variables and how they agree with the shared ones: while its segment is being filled, the
inode's slot already has the address of the *next* segment, and between `memset` and the new id, `buf_container`
has the id of a container in the log file. `Led(n)` says more than `MadeIsLogged`: that the segment will not be
filled again, being in the log file or before `seg_offset`. `BlocksSound` says where the namespace runs ahead of the
log: between `HASH_ADD` and `memcpy` it knows a content that is not there yet. That a content is in the log
once follows for one thread that writes, and is the theorem `NoBlockTwice` already; with two it
fails (`MCThreads_once`).
`ThreadsProofs` has one lemma per statement; a look-up changes nothing that the mutator
reads (`LooksOnSound`), so all of its statements have one lemma in common.

### Only model-checked

- `FullIsWritten` and `MapLeads` are liveness, and `ENABLED` is out of the prover's reach.
- The violations of section 3 are counterexamples, which TLC finds.

## 5. Plan

Done: all components that keep state, the two abstract specifications with their refinements, the
log file with its arithmetic and failing writes, threads, and proofs of all invariants, action properties and
refinements that the passing runs check. What could follow: the handlers that `Threads` does not split into steps
(`lfs_rename`, `lfs_unlink`), and a tree with hard limits, in which a name added to a full directory is lost, to do
without `DirHasRoom`.

Not modelled, and why: partial writes (`lfs.c:396` reads behind the buffer it was given; what is
there is up to libfuse), failing system calls other than `pwrite` of a container, timestamps and
modes (nothing depends on them), uthash (third-party), printing (no effect), the stubs (no effect
or no caller), the build. There is no crash to recover from: the log is truncated at every start.
