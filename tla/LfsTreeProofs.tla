--------------------------- MODULE LfsTreeProofs ---------------------------
(***************************************************************************)
(* The file system implements the tree of module FileTree, for every value *)
(* of the constants.  The proof takes what each handler does to the inodes *)
(* and records in the log from module TreeProofs; the lemmas here say what *)
(* that is in the tree, where a directory is a set of entries.  The last   *)
(* part is about cur_path, which leads through the tree from the root.     *)
(***************************************************************************)
EXTENDS TreeProofs, LfsTree

\* Tidy but for the length: that of records on their way into a segment.
Clean(dir) ==
  /\ \A k \in DOMAIN dir : dir[k].name # ""
  /\ \A k, l \in DOMAIN dir : dir[k].name = dir[l].name => k = l

Record(name, i) == [name |-> name, id |-> i]

-----------------------------------------------------------------------------
(* Records as sets of entries. *)

\* What a sequence holds.
LEMMA RangeIs ==
  ASSUME NEW dir
  PROVE  Range(dir) = {dir[k] : k \in DOMAIN dir}
  BY DEF Range

\* A record is its name and its id.
LEMMA RecordAt ==
  ASSUME NEW dir \in Seq(DirRecord), NEW k \in DOMAIN dir
  PROVE  dir[k] \in DirRecord /\ dir[k] = Record(dir[k].name, dir[k].id)
<1>1. dir[k] \in DirRecord
  OBVIOUS
<1> QED
  BY <1>1 DEF DirRecord, Record

\* Among clean records a name is in one record, the one that is found.
LEMMA FoundEntry ==
  ASSUME NEW dir \in Seq(DirRecord), Clean(dir), NEW name, HasName(dir, name)
  PROVE  LET k == Min(Matches(dir, name))
             e == Record(name, IdOf(dir, name))
         IN  /\ k \in 1 .. Len(dir) /\ dir[k] = e /\ Matches(dir, name) = {k}
             /\ e \in Range(dir)
             /\ \A f \in Range(dir) : f.name = name => f = e
<1> DEFINE k == Min(Matches(dir, name))
           e == Record(name, IdOf(dir, name))
<1>1. Matches(dir, name) \subseteq Nat /\ Matches(dir, name) # {} /\ DOMAIN dir = 1 .. Len(dir)
  BY DEF Matches, HasName
<1>2. k \in Matches(dir, name)
  BY <1>1, MinIn
<1>3. IdOf(dir, name) = dir[k].id
  BY DEF IdOf
<1> HIDE DEF k
<1>4. k \in DOMAIN dir /\ dir[k].name = name
  BY <1>2 DEF Matches
<1>5. dir[k] = e
  BY <1>3, <1>4, RecordAt
<1>6. Matches(dir, name) = {k}
  BY <1>2, <1>4 DEF Matches, Clean
<1> HIDE DEF e
<1>7. \A f \in Range(dir) : f.name = name => f = e
  BY <1>4, <1>5, RangeIs DEF Clean
<1>8. e \in Range(dir)
  BY <1>4, <1>5, RangeIs
<1> QED
  BY <1>1, <1>4, <1>5, <1>6, <1>7, <1>8 DEF k, e

\* A name is there if an entry has it.
LEMMA NameInUse ==
  ASSUME NEW dir, NEW name
  PROVE  HasName(dir, name) <=> \E e \in Range(dir) : e.name = name
  BY RangeIs DEF HasName, Matches

\* dir_add_entry adds the entry, if no other has the name.
LEMMA AddIs ==
  ASSUME NEW dir \in Seq(DirRecord), Clean(dir), NEW name \in Names, NEW n
  PROVE  LET new == AddEntry(dir, name, n)
         IN  /\ Clean(new)
             /\ HasName(dir, name) => new = dir
             /\ ~HasName(dir, name) => /\ Range(new) = Range(dir) \cup {Record(name, n)}
                                       /\ Len(new) = Len(dir) + 1
<1> DEFINE new == Append(dir, Record(name, n))
<1>1. CASE HasName(dir, name)
  BY <1>1 DEF AddEntry
<1>2. CASE ~HasName(dir, name)
  <2>1. AddEntry(dir, name, n) = new
    BY <1>2 DEF AddEntry, Record
  <2>2. /\ Len(dir) \in Nat /\ Len(new) = Len(dir) + 1
        /\ DOMAIN dir = 1 .. Len(dir) /\ DOMAIN new = DOMAIN dir \cup {Len(dir) + 1}
        /\ \A k \in DOMAIN dir : new[k] = dir[k] /\ k # Len(dir) + 1
        /\ new[Len(dir) + 1] = Record(name, n)
    OBVIOUS
  <2> HIDE DEF new
  <2>3. Record(name, n).name = name /\ name # ""
    BY NotNames DEF Record
  <2>4. \A k \in DOMAIN dir : dir[k].name # name
    BY <1>2 DEF HasName, Matches
  <2>5. Clean(new)
    BY <2>2, <2>3, <2>4 DEF Clean
  <2>6. Range(new) = Range(dir) \cup {Record(name, n)}
    BY <2>2, RangeIs
  <2> QED
    BY <1>2, <2>1, <2>2, <2>5, <2>6
<1> QED
  BY <1>1, <1>2

\* dir_change_entry gives the entry another name.
LEMMA ChangeIs ==
  ASSUME NEW dir \in Seq(DirRecord), Clean(dir), NEW old, NEW new \in Names,
         HasName(dir, old), ~HasName(dir, new)
  PROVE  LET to == ChangeEntry(dir, old, new)
             i  == IdOf(dir, old)
         IN  /\ Clean(to) /\ Len(to) = Len(dir) /\ to \in Seq(DirRecord)
             /\ Range(to) = (Range(dir) \ {Record(old, i)}) \cup {Record(new, i)}
<1> DEFINE k  == Min(Matches(dir, old))
           i  == IdOf(dir, old)
           to == [dir EXCEPT ![k].name = new]
<1>1. ChangeEntry(dir, old, new) = to
  BY DEF ChangeEntry
<1>2. k \in 1 .. Len(dir) /\ dir[k] = Record(old, i) /\ dir[k].name = old
  BY FoundEntry DEF Record
<1> HIDE DEF k, i
<1>3. [dir[k] EXCEPT !.name = new] = Record(new, i) /\ Record(new, i).name = new
  BY <1>2 DEF Record
<1>4. /\ Len(dir) \in Nat /\ DOMAIN dir = 1 .. Len(dir)
      /\ DOMAIN to = DOMAIN dir /\ to[k] = Record(new, i)
      /\ \A l \in DOMAIN dir : l # k => to[l] = dir[l]
      /\ Len(to) = Len(dir)
  BY <1>2, <1>3
<1>5. to \in Seq(DirRecord)
  <2>1. Record(new, i) \in DirRecord
    <3>1. dir[k] \in DirRecord /\ dir[k].id = i
      BY <1>2, RecordAt DEF Record
    <3> QED
      BY <3>1 DEF DirRecord, Record, AllNames
  <2> QED
    BY <1>2, <1>4, <2>1
<1> HIDE DEF to
<1>6. \A l \in DOMAIN dir : dir[l].name # new
  BY DEF HasName, Matches
<1>7. Clean(to)
  <2>1. to[k].name = new /\ new # ""
    BY <1>3, <1>4, NotNames
  <2>2. \A l \in DOMAIN dir : l # k => to[l].name = dir[l].name /\ dir[l].name # ""
    BY <1>4 DEF Clean
  <2>3. \A l, j \in DOMAIN dir : to[l].name = to[j].name => l = j
    <3>1. \A l, j \in DOMAIN dir : dir[l].name = dir[j].name => l = j
      BY DEF Clean
    <3> QED
      BY <1>6, <2>1, <2>2, <3>1, Zenon
  <2> QED
    BY <1>4, <2>1, <2>2, <2>3, Zenon DEF Clean
<1>8. Range(to) = (Range(dir) \ {Record(old, i)}) \cup {Record(new, i)}
  <2>1. \A l \in DOMAIN dir : dir[l] = Record(old, i) => l = k
    BY <1>2, <1>4 DEF Clean
  <2> QED
    BY <1>2, <1>4, <2>1, RangeIs
<1> QED
  BY <1>1, <1>4, <1>5, <1>7, <1>8 DEF i

\* dir_remove_entry takes the entry out.
LEMMA RemoveIs ==
  ASSUME NEW dir \in Seq(DirRecord), Clean(dir), NEW name, HasName(dir, name)
  PROVE  LET new == RemoveEntry(dir, name)
         IN  /\ Clean(new) /\ Len(new) <= Len(dir)
             /\ Range(new) = Range(dir) \ {Record(name, IdOf(dir, name))}
<1> DEFINE k     == Min(Matches(dir, name))
           e     == Record(name, IdOf(dir, name))
           At(i) == IF i < k THEN i ELSE i + 1
           new   == [i \in 1 .. Len(dir) - 1 |-> dir[At(i)]]
<1>1. /\ k \in 1 .. Len(dir) /\ dir[k] = e /\ Matches(dir, name) = {k}
      /\ DOMAIN dir = 1 .. Len(dir) /\ Len(dir) \in Nat
  BY FoundEntry
<1>2. Max(Matches(dir, name)) = k
  <2>1. k \in Nat /\ {k} \subseteq 0 .. Len(dir)
    BY <1>1
  <2>2. Max({k}) \in {k}
    BY <1>1, <2>1, MaxIn
  <2> QED
    BY <1>1, <2>2
<1> HIDE DEF k, e
<1>3. RemoveEntry(dir, name) = new
  <2> DEFINE gone    == Matches(dir, name)
             cleared == [i \in DOMAIN dir |-> IF i \in gone THEN Hole ELSE dir[i]]
  <2>1. RemoveEntry(dir, name)
          = [i \in 1 .. Len(dir) - 1 |-> IF i < k THEN cleared[i] ELSE cleared[i + 1]]
    BY <1>2 DEF RemoveEntry
  <2>2. \A i \in DOMAIN dir : i # k => cleared[i] = dir[i]
    BY <1>1
  <2> HIDE DEF cleared
  <2>3. \A i \in 1 .. Len(dir) - 1 :
          /\ i < k => i \in DOMAIN dir /\ i # k
          /\ ~(i < k) => i + 1 \in DOMAIN dir /\ i + 1 # k
    BY <1>1
  <2> QED
    BY <2>1, <2>2, <2>3
<1>4. /\ \A i \in 1 .. Len(dir) - 1 : At(i) \in DOMAIN dir /\ At(i) # k
      /\ \A i, j \in 1 .. Len(dir) - 1 : At(i) = At(j) => i = j
      /\ \A l \in DOMAIN dir : l # k => \E i \in 1 .. Len(dir) - 1 : At(i) = l
  <2>1. \A l \in DOMAIN dir : l < k => l \in 1 .. Len(dir) - 1 /\ At(l) = l
    BY <1>1
  <2>2. \A l \in DOMAIN dir : l > k => l - 1 \in 1 .. Len(dir) - 1 /\ At(l - 1) = l
    BY <1>1
  <2>3. \A l \in DOMAIN dir : l # k => \E i \in 1 .. Len(dir) - 1 : At(i) = l
    <3> HIDE DEF At
    <3>1. \A l \in DOMAIN dir : l # k => l < k \/ l > k
      BY <1>1
    <3> QED
      BY <2>1, <2>2, <3>1
  <2> QED
    BY <1>1, <2>3
<1>5. DOMAIN new = 1 .. Len(dir) - 1 /\ \A i \in DOMAIN new : new[i] = dir[At(i)]
  OBVIOUS
<1>6. Len(new) <= Len(dir)
  <2>1. Len(dir) - 1 \in Nat
    BY <1>1
  <2>2. new \in Seq({dir[l] : l \in DOMAIN dir}) /\ Len(new) = Len(dir) - 1
    BY <1>4, <2>1
  <2> QED
    BY <1>1, <2>2
<1> HIDE DEF new, At
<1>7. Clean(new)
  <2>1. \A i \in DOMAIN new : At(i) \in DOMAIN dir /\ new[i] = dir[At(i)]
    BY <1>4, <1>5
  <2>2. \A i \in DOMAIN new : new[i].name # ""
    BY <2>1 DEF Clean
  <2>3. ASSUME NEW i \in DOMAIN new, NEW j \in DOMAIN new, new[i].name = new[j].name
        PROVE  i = j
    <3>1. dir[At(i)].name = dir[At(j)].name
      BY <2>1, <2>3
    <3>2. At(i) = At(j)
      BY <2>1, <3>1 DEF Clean
    <3> QED
      BY <1>4, <1>5, <3>2
  <2> QED
    BY <2>2, <2>3 DEF Clean
<1>8. Range(new) = Range(dir) \ {e}
  <2>1. \A l \in DOMAIN dir : dir[l] = e => l = k
    BY <1>1 DEF Clean
  <2>2. {dir[At(i)] : i \in 1 .. Len(dir) - 1} = {dir[l] : l \in DOMAIN dir \ {k}}
    BY <1>4
  <2>3. {dir[l] : l \in DOMAIN dir \ {k}} = {dir[l] : l \in DOMAIN dir} \ {e}
    BY <1>1, <2>1
  <2>4. {new[i] : i \in DOMAIN new} = {dir[At(i)] : i \in 1 .. Len(dir) - 1}
    BY <1>5
  <2> QED
    BY <2>2, <2>3, <2>4, RangeIs
<1> QED
  BY <1>3, <1>6, <1>7, <1>8 DEF e

\* What goes into the first segment is tidy, and all of it if it fits.
LEMMA FirstTidy ==
  ASSUME NEW dir \in Seq(DirRecord), Clean(dir)
  PROVE  Tidy(FirstSeg(dir)) /\ (Len(dir) <= RecPerSeg => FirstSeg(dir) = dir)
<1> DEFINE m == Min({RecPerSeg, Len(dir)})
<1>1. Len(dir) \in Nat /\ RecPerSeg \in Nat /\ DOMAIN dir = 1 .. Len(dir)
  BY RecPerSegType
<1>2. m \in Nat /\ m <= Len(dir) /\ m <= RecPerSeg /\ (Len(dir) <= RecPerSeg => m = Len(dir))
  <2>1. m \in 0 .. Len(dir) /\ m <= RecPerSeg
    BY <1>1, MinOfTwo
  <2>2. m \in {RecPerSeg, Len(dir)}
    BY <1>1, MinIn
  <2> QED
    BY <1>1, <2>1, <2>2
<1> HIDE DEF m
<1> DEFINE first == SubSeq(dir, 1, m)
<1>3. /\ Len(first) = m /\ DOMAIN first = 1 .. m
      /\ \A k \in 1 .. m : first[k] = dir[k] /\ k \in DOMAIN dir
  <2>1. first \in Seq(DirRecord) /\ Len(first) = m /\ \A k \in 1 .. m : first[k] = dir[k]
    BY <1>2
  <2> HIDE DEF first
  <2>2. DOMAIN first = 1 .. m
    BY <2>1
  <2>3. \A k \in 1 .. m : k \in DOMAIN dir
    <3> DEFINE n == Len(dir)
    <3>1. m \in Nat /\ n \in Nat /\ m <= n /\ DOMAIN dir = 1 .. n
      BY <1>1, <1>2
    <3> HIDE DEF n
    <3> QED
      BY <3>1
  <2> QED
    BY <2>1, <2>2, <2>3, Zenon
<1>4. m = Len(dir) => first = dir
  BY <1>1
<1> HIDE DEF first
<1>5. Tidy(first)
  BY <1>2, <1>3 DEF Tidy, Clean
<1> QED
  BY <1>2, <1>4, <1>5 DEF FirstSeg, first, m

\* open_cur_dir sees all of tidy records.
LEMMA TidyOpens ==
  ASSUME NEW dir \in Seq(DirRecord), Tidy(dir)
  PROVE  OpenRecords(dir) = dir /\ Clean(dir)
<1>1. Len(dir) \in Nat /\ DOMAIN dir = 1 .. Len(dir)
  OBVIOUS
<1>2. {i \in DOMAIN dir : dir[i].name # ""} = 1 .. Len(dir)
  BY <1>1 DEF Tidy
<1>3. Cardinality(1 .. Len(dir)) = Len(dir)
  <2> DEFINE m == Len(dir)
  <2>1. m \in Nat
    BY <1>1
  <2> HIDE DEF m
  <2>2. Cardinality(1 .. m) = m
    BY <2>1, FS_Interval
  <2> QED
    BY <2>2 DEF m
<1>4. SubSeq(dir, 1, Len(dir)) = dir
  BY <1>1
<1> QED
  BY <1>2, <1>3, <1>4 DEF OpenRecords, Tidy, Clean

\* ".." and "." are tidy.
LEMMA NewDirTidy ==
  ASSUME NEW parent \in InodeIds, NEW id \in InodeIds
  PROVE  LET recs == NewDirRecords(parent, id)
         IN  Tidy(recs) /\ Range(recs) = {Record("..", parent), Record(".", id)}
<1> DEFINE recs == NewDirRecords(parent, id)
<1>1. /\ Len(recs) = 2 /\ DOMAIN recs = {1, 2}
      /\ recs[1] = Record("..", parent) /\ recs[2] = Record(".", id)
  BY DEF NewDirRecords, Record
<1> HIDE DEF recs
<1>2. Range(recs) = {Record("..", parent), Record(".", id)}
  BY <1>1, RangeIs
<1>3. Tidy(recs)
  <2>1. recs[1].name = ".." /\ recs[2].name = "."
    BY <1>1 DEF Record
  <2>2. \A k \in {1, 2} : recs[k].name # ""
    BY <2>1
  <2>3. \A k, l \in {1, 2} : recs[k].name = recs[l].name => k = l
    BY <2>1
  <2>4. Len(recs) <= RecPerSeg
    BY <1>1, RecPerSegType
  <2> QED
    BY <1>1, <2>2, <2>3, <2>4 DEF Tidy
<1> QED
  BY <1>2, <1>3 DEF recs

-----------------------------------------------------------------------------
(* The tree that the properties read off the log. *)

\* It is Tree and TreeRecs, and if these are tidy, open_cur_dir sees all of them.
Shown ==
  /\ LiveDirs = Dirs(Tree) /\ LiveFiles = Files(Tree) /\ curInode.id \in Dirs(Tree)
  /\ \A i \in Files(Tree) : LogInode(i) = Tree[i]
  /\ \A i \in Dirs(Tree) : TreeRecs[i] \in Seq(DirRecord)
  /\ DirsTidy <=> \A i \in Dirs(Tree) : Tidy(TreeRecs[i])
  /\ DirsTidy => TreeDirs = [i \in Dirs(Tree) |-> Range(TreeRecs[i])]

LEMMA ShownIs == TypeOK /\ FsSound => Shown
<1> SUFFICES ASSUME TypeOK, FsSound PROVE Shown
  OBVIOUS
<1>1. /\ Live = DOMAIN Tree /\ LiveFiles = Files(Tree)
      /\ \A i \in Live : LogInode(i) = Tree[i]
  BY LiveIs
<1>2. LiveDirs = Dirs(Tree)
  BY <1>1 DEF LiveDirs, Dirs
<1>3. \A i \in Dirs(Tree) : /\ AsDir(LogSeg(Store, LogInode(i).blk)) = TreeRecs[i]
                            /\ TreeRecs[i] \in Seq(DirRecord)
  BY <1>1, TreeFacts DEF Dirs, WellFormed
<1>4. \A i \in Files(Tree) : LogInode(i) = Tree[i]
  BY <1>1 DEF Files
<1>5. DirsTidy <=> \A i \in Dirs(Tree) : Tidy(TreeRecs[i])
  BY <1>2, <1>3 DEF DirsTidy
<1>6. ASSUME DirsTidy PROVE TreeDirs = [i \in Dirs(Tree) |-> Range(TreeRecs[i])]
  <2>1. \A i \in Dirs(Tree) : RecordsOf(i) = TreeRecs[i]
    BY <1>3, <1>5, <1>6, TidyOpens DEF RecordsOf
  <2> QED
    BY <1>2, <2>1 DEF TreeDirs
<1> QED
  BY <1>1, <1>2, <1>3, <1>4, <1>5, <1>6, CurFacts DEF Shown

\* The current directory in it.
LEMMA CurTidy ==
  ASSUME TypeOK, FsSound, DirsTidy
  PROVE  LET c == curInode.id
         IN  /\ c \in Dirs(Tree) /\ TreeRecs[c] = CurDir /\ LoggedDir = CurDir
             /\ CurDir \in Seq(DirRecord) /\ Clean(CurDir) /\ Len(CurDir) <= RecPerSeg
             /\ TreeDirs[c] = Range(CurDir) /\ WellFormed(CurDir)
<1> DEFINE c == curInode.id
<1>1. Shown
  BY ShownIs
<1>2. c \in Dirs(Tree) /\ LoggedDir = CurDir /\ WellFormed(TreeRecs[c])
  BY CurFacts
<1> HIDE DEF c
<1>3. TreeRecs[c] \in Seq(DirRecord) /\ Tidy(TreeRecs[c]) /\ TreeDirs[c] = Range(TreeRecs[c])
  BY <1>1, <1>2 DEF Shown
<1>4. OpenRecords(TreeRecs[c]) = TreeRecs[c] /\ Clean(TreeRecs[c])
  BY <1>3, TidyOpens
<1>5. CurDir = OpenRecords(TreeRecs[c])
  BY DEF CurDir, c
<1> QED
  BY <1>2, <1>3, <1>4, <1>5 DEF Tidy, c

\* The inodes that were there before the current directory was relisted.
LEMMA RelistedOld ==
  ASSUME Shown, NEW dir, NEW gone, NEW born, Relists(dir, gone, born),
         curInode.id \notin gone \cup born, born \cap DOMAIN Tree = {}
  PROVE  /\ Dirs(Tree') \ born = Dirs(Tree) \ gone
         /\ Files(Tree') \ born = Files(Tree) \ gone
<1> DEFINE c == curInode.id
<1>1. /\ DOMAIN Tree' = (DOMAIN Tree \ gone) \cup born
      /\ \A i \in DOMAIN Tree' : i \notin born /\ i # c => Tree'[i] = Tree[i]
      /\ c \in Dirs(Tree') /\ c \in Dirs(Tree) /\ c \notin gone \cup born
  BY DEF Relists, Shown
<1> HIDE DEF c
<1>2. c \notin Files(Tree') /\ c \notin Files(Tree)
  BY <1>1 DEF Dirs, Files
<1>3. \A i : i \in Dirs(Tree') \ born <=> i \in Dirs(Tree) \ gone
  BY <1>1 DEF Dirs
<1>4. \A i : i \in Files(Tree') \ born <=> i \in Files(Tree) \ gone
  BY <1>1, <1>2 DEF Files
<1> QED
  BY <1>3, <1>4

\* Relisting the current directory leaves the directories tidy,
LEMMA RelistedTidy ==
  ASSUME Shown, Shown', DirsTidy, NEW dir \in Seq(DirRecord), Clean(dir),
         NEW gone, NEW born, Relists(dir, gone, born),
         curInode.id \notin gone \cup born, born \cap DOMAIN Tree = {},
         \A i \in Dirs(Tree') \cap born : Tidy(TreeRecs'[i])
  PROVE  DirsTidy'
<1> DEFINE c == curInode.id
<1>1. Tidy(FirstSeg(dir))
  BY FirstTidy
<1>2. Dirs(Tree') \ born = Dirs(Tree) \ gone
  BY RelistedOld
<1>3. /\ \A i \in Dirs(Tree') : i \notin born /\ i # c => TreeRecs'[i] = TreeRecs[i]
      /\ TreeRecs'[c] = FirstSeg(dir)
  BY DEF Relists
<1> HIDE DEF c
<1>4. \A i \in Dirs(Tree) : Tidy(TreeRecs[i])
  BY DEF Shown
<1>5. \A i \in Dirs(Tree') : Tidy(TreeRecs'[i])
  BY <1>1, <1>2, <1>3, <1>4
<1> QED
  BY <1>5 DEF Shown

\* and replaces its entries in the tree, if the records fit into a segment.
LEMMA RelistedTree ==
  ASSUME Shown, Shown', DirsTidy, DirsTidy', FilesKept, NEW dir,
         NEW gone, NEW born, Relists(dir, gone, born),
         curInode.id \notin gone \cup born, born \cap DOMAIN Tree = {},
         FirstSeg(dir) = dir
  PROVE  LET c == curInode.id
         IN  /\ curInode'.id = c
             /\ Dirs(Tree') \ born = Dirs(Tree) \ gone
             /\ Files(Tree') \ born = Files(Tree) \ gone
             /\ TreeDirs' = [i \in Dirs(Tree') |->
                               IF i = c THEN Range(dir)
                               ELSE IF i \in born THEN Range(TreeRecs'[i])
                               ELSE TreeDirs[i]]
             /\ DOMAIN TreeFiles' = Files(Tree')
             /\ \A i \in Files(Tree') : TreeFiles'[i] = IF i \in born THEN RecipeOf(i)'
                                                                     ELSE TreeFiles[i]
<1> DEFINE c == curInode.id
<1>1. Dirs(Tree') \ born = Dirs(Tree) \ gone /\ Files(Tree') \ born = Files(Tree) \ gone
  BY RelistedOld
<1>2. /\ \A i \in Dirs(Tree') : i \notin born /\ i # c => TreeRecs'[i] = TreeRecs[i]
      /\ \A i \in DOMAIN Tree' : i \notin born /\ i # c => imap'[i] = imap[i]
      /\ TreeRecs'[c] = dir /\ curInode'.id = c
  BY DEF Relists
<1>3. c \in Dirs(Tree') /\ c \notin gone \cup born /\ c \in Dirs(Tree)
  BY DEF Relists, Shown
<1> HIDE DEF c
<1>4. /\ TreeDirs = [i \in Dirs(Tree) |-> Range(TreeRecs[i])]
      /\ TreeDirs' = [i \in Dirs(Tree') |-> Range(TreeRecs'[i])]
  BY DEF Shown
<1>5. TreeDirs' = [i \in Dirs(Tree') |-> IF i = c THEN Range(dir)
                                         ELSE IF i \in born THEN Range(TreeRecs'[i])
                                         ELSE TreeDirs[i]]
  BY <1>1, <1>2, <1>4
<1>6. DOMAIN TreeFiles' = Files(Tree') /\ DOMAIN TreeFiles = Files(Tree)
  BY DEF Shown, TreeFiles
<1>7. ASSUME NEW i \in Files(Tree')
      PROVE  TreeFiles'[i] = IF i \in born THEN RecipeOf(i)' ELSE TreeFiles[i]
  <2>1. TreeFiles'[i] = RecipeOf(i)'
    BY DEF Shown, TreeFiles
  <2>2. CASE i \notin born
    <3>1. i \in LiveFiles /\ imap'[i] = imap[i]
      BY <1>1, <1>2, <1>3, <2>2 DEF Shown, Files, Dirs
    <3> QED
      BY <2>1, <2>2, <3>1 DEF FilesKept, TreeFiles
  <2> QED
    BY <2>1, <2>2
<1> QED
  BY <1>1, <1>2, <1>5, <1>6, <1>7 DEF c

-----------------------------------------------------------------------------
(* Every handler is a step of the tree, or none. *)

TreeStep == [Abstract!Next]_(Abstract!vars)

\* Look-ups leave the tree alone.
LEMMA LookedTree ==
  ASSUME Shown, Shown', DirsTidy, FilesKept, Stays
  PROVE  DirsTidy' /\ TreeDirs' = TreeDirs /\ TreeFiles' = TreeFiles /\ nInode' = nInode
<1>1. Tree' = Tree /\ TreeRecs' = TreeRecs /\ imap' = imap /\ nInode' = nInode
  BY DEF Stays
<1>2. Dirs(Tree') = Dirs(Tree) /\ Files(Tree') = Files(Tree)
  BY <1>1
<1>3. DirsTidy'
  BY <1>1, <1>2 DEF Shown
<1>4. TreeDirs' = TreeDirs
  BY <1>1, <1>2, <1>3 DEF Shown
<1>5. LiveFiles' = LiveFiles /\ \A i \in LiveFiles : RecipeOf(i)' = RecipeOf(i)
  BY <1>1, <1>2 DEF Shown, FilesKept
<1>6. TreeFiles' = TreeFiles
  BY <1>5 DEF TreeFiles
<1> QED
  BY <1>1, <1>3, <1>4, <1>6

\* ReadDir, GetAttr, Read, and all that return an error.
LEMMA LookStep ==
  ASSUME Shown, Shown', DirsTidy, FilesKept, Stays, curInode' = curInode
  PROVE  DirsTidy' /\ TreeStep
  BY LookedTree DEF TreeStep, Abstract!vars

\* Access.
LEMMA EnterStep ==
  ASSUME TypeOK, FsSound, DirsTidy, Shown, Shown', FilesKept, Stays,
         NEW name, HasName(CurDir, name), curInode'.id = IdOf(CurDir, name)
  PROVE  DirsTidy' /\ TreeStep
<1> DEFINE c == curInode.id
           e == Record(name, IdOf(CurDir, name))
<1>1. DirsTidy' /\ TreeDirs' = TreeDirs /\ TreeFiles' = TreeFiles /\ nInode' = nInode
  BY LookedTree
<1>2. e \in TreeDirs[c] /\ e.id = IdOf(CurDir, name)
  BY CurTidy, FoundEntry DEF Record
<1>3. curInode'.id \in Dirs(Tree)
  BY DEF Shown, Stays
<1>4. DOMAIN TreeDirs = Dirs(Tree)
  BY DEF Shown
<1> HIDE DEF c, e
<1>5. Abstract!Enter(e)
  BY <1>1, <1>2, <1>3, <1>4 DEF Abstract!Enter
<1> QED
  BY <1>1, <1>2, <1>5 DEF TreeStep, Abstract!Next, c

\* A name that is not in use finds room.
LEMMA RoomForName ==
  ASSUME TypeOK, FsSound, DirsTidy, DirHasRoom, NEW name \in Names, ~HasName(CurDir, name)
  PROVE  Len(CurDir) + 1 <= RecPerSeg
<1>1. name \notin NamesIn(CurDir)
  BY DEF NamesIn, HasName, Matches
<1>2. Len(CurDir) \in Nat /\ LoggedDir = CurDir
  BY CurTidy
<1> QED
  BY <1>1, <1>2, RecPerSegType DEF DirHasRoom

\* InUse is HasName.
LEMMA InUseIs ==
  ASSUME TypeOK, FsSound, DirsTidy
  PROVE  \A name : Abstract!InUse(name) <=> HasName(CurDir, name)
  BY CurTidy, NameInUse DEF Abstract!InUse

\* Numbers are new.
LEMMA NewNumber ==
  ASSUME TypeOK, FsSound
  PROVE  /\ nInode + 1 \notin DOMAIN Tree /\ nInode + 1 \in Nat
         /\ curInode.id \in 1 .. nInode
<1>1. DOMAIN Tree \subseteq 1 .. nInode /\ curInode.id \in DOMAIN Tree /\ nInode \in Nat
  BY TreeFacts, CurFacts DEF TypeOK
<1> QED
  BY <1>1

\* A name added to the current directory is an entry more, unless it is in use.
LEMMA CurAdds ==
  ASSUME TypeOK, FsSound, DirsTidy, NEW name \in Names, NEW n \in InodeIds
  PROVE  LET dir == AddEntry(CurDir, name, n)
         IN  /\ dir \in Seq(DirRecord) /\ Clean(dir)
             /\ HasName(CurDir, name) => dir = CurDir
             /\ ~HasName(CurDir, name) => /\ Range(dir) = Range(CurDir) \cup {Record(name, n)}
                                          /\ Len(dir) = Len(CurDir) + 1
<1>1. CurDir \in Seq(DirRecord) /\ Clean(CurDir)
  BY CurTidy
<1>2. AddEntry(CurDir, name, n) \in Seq(DirRecord)
  BY <1>1, EditedDirType DEF AllNames
<1> QED
  BY <1>1, <1>2, AddIs

\* Create: a file under a name that is not in use.
LEMMA CreateStep ==
  ASSUME TypeOK, FsSound, Agrees, DirsTidy, Shown, Shown', NEW name \in Names, Create(name)
  PROVE  DirsTidy' /\ (DirHasRoom => TreeStep)
<1> DEFINE c   == curInode.id
           n   == nInode + 1
           dir == AddEntry(CurDir, name, n)
<1>1. /\ FilesKept
      /\ \/ Stays /\ curInode' = curInode
         \/ /\ n <= MaxInode /\ nInode' = n /\ ~HasName(CurDir, name)
            /\ Relists(dir, {}, {n}) /\ Tree'[n] = NewFile(n)
  BY CreateSane DEF Sane
<1>2. CASE Stays /\ curInode' = curInode
  BY <1>1, <1>2, LookStep
<1>3. CASE /\ n <= MaxInode /\ nInode' = n /\ ~HasName(CurDir, name)
           /\ Relists(dir, {}, {n}) /\ Tree'[n] = NewFile(n)
  <2>1. n \notin DOMAIN Tree /\ n \in Nat /\ c \in 1 .. nInode /\ nInode \in Nat /\ c # n
    BY NewNumber DEF TypeOK
  <2>2. /\ dir \in Seq(DirRecord) /\ Clean(dir) /\ Len(dir) = Len(CurDir) + 1
        /\ Range(dir) = Range(CurDir) \cup {Record(name, n)}
    <3>1. n \in InodeIds
      BY <1>3, <2>1, LfsAssumption DEF InodeIds
    <3> QED
      BY <1>3, <3>1, CurAdds
  <2>3. NewFile(n).type = "file" /\ NewFile(n).recipe = NullAddr
    BY DEF NewFile, ZeroInode
  <2> HIDE DEF dir
  <2>4. n \notin Dirs(Tree')
    BY <1>3, <2>3 DEF Dirs
  <2>5. DirsTidy'
    BY <1>3, <2>1, <2>2, <2>4, RelistedTidy
  <2>6. ASSUME DirHasRoom PROVE Abstract!Create(name)
    <3>1. FirstSeg(dir) = dir
      BY <1>3, <2>2, <2>6, RoomForName, FirstTidy
    <3>2. /\ curInode'.id = c
          /\ Dirs(Tree') \ {n} = Dirs(Tree) \ {}
          /\ Files(Tree') \ {n} = Files(Tree) \ {}
          /\ TreeDirs' = [i \in Dirs(Tree') |->
                            IF i = c THEN Range(dir)
                            ELSE IF i \in {n} THEN Range(TreeRecs'[i]) ELSE TreeDirs[i]]
          /\ DOMAIN TreeFiles' = Files(Tree')
          /\ \A i \in Files(Tree') : TreeFiles'[i] = IF i \in {n} THEN RecipeOf(i)'
                                                                  ELSE TreeFiles[i]
      BY <1>1, <1>3, <2>1, <2>5, <3>1, RelistedTree
    <3>3. n \in Files(Tree')
      BY <1>3, <2>3 DEF Relists, Files
    <3>4. \A m \in {n} : RecipeOf(m)' = Abstract!EmptyFile
      BY <1>3, <2>3, <3>3 DEF Shown, RecipeOf, EmptyRecipe, Abstract!EmptyFile
    <3>5. /\ Dirs(Tree') = Dirs(Tree) /\ DOMAIN TreeDirs = Dirs(Tree)
          /\ Files(Tree') = Files(Tree) \cup {n} /\ DOMAIN TreeFiles = Files(Tree)
          /\ TreeDirs[c] = Range(CurDir)
      BY <2>4, <3>2, <3>3, CurTidy DEF Shown, TreeFiles
    <3> HIDE DEF c, n
    <3>6. TreeDirs' = [TreeDirs EXCEPT ![c] = @ \cup {Record(name, n)}]
      BY <2>2, <2>4, <3>2, <3>5
    <3>7. TreeFiles' = Abstract!Put(TreeFiles, n, Abstract!EmptyFile)
      BY <3>2, <3>4, <3>5 DEF Abstract!Put, TreeFiles
    <3>8. ~Abstract!InUse(name)
      BY <1>3, InUseIs
    <3>9. nInode < MaxInode /\ nInode' = nInode + 1 /\ curInode'.id = c
      BY <1>3, <2>1, <3>2, LfsAssumption DEF n
    <3> QED
      BY <3>6, <3>7, <3>8, <3>9
      DEF Abstract!Create, Abstract!Entry, Record, c, n
  <2> QED
    BY <2>5, <2>6 DEF TreeStep, Abstract!Next
<1> QED
  BY <1>1, <1>2, <1>3

\* Mkdir: a directory, with an entry if the name is not in use.
LEMMA MkdirStep ==
  ASSUME TypeOK, FsSound, Agrees, DirsTidy, Shown, Shown', NEW name \in Names, Mkdir(name)
  PROVE  DirsTidy' /\ (DirHasRoom => TreeStep)
<1> DEFINE c    == curInode.id
           n    == nInode + 1
           dir  == AddEntry(CurDir, name, n)
           here == IF HasName(CurDir, name) THEN {} ELSE {Record(name, n)}
<1>1. /\ FilesKept
      /\ n <= MaxInode /\ nInode' = n /\ Relists(dir, {}, {n})
      /\ Tree'[n].type = "dir" /\ TreeRecs'[n] = NewDirRecords(c, n)
  BY MkdirSane DEF Sane
<1>2. n \notin DOMAIN Tree /\ n \in Nat /\ c \in 1 .. nInode /\ nInode \in Nat /\ c # n
  BY NewNumber DEF TypeOK
<1>3. n \in InodeIds /\ c \in InodeIds
  BY <1>1, <1>2, LfsAssumption DEF InodeIds
<1>4. /\ dir \in Seq(DirRecord) /\ Clean(dir) /\ Range(dir) = Range(CurDir) \cup here
      /\ HasName(CurDir, name) => dir = CurDir
      /\ ~HasName(CurDir, name) => Len(dir) = Len(CurDir) + 1
  <2>1. HasName(CurDir, name) => Range(dir) = Range(CurDir) \cup here
    BY <1>3, CurAdds
  <2>2. ~HasName(CurDir, name) => Range(dir) = Range(CurDir) \cup here
    BY <1>3, CurAdds
  <2> QED
    BY <1>3, <2>1, <2>2, CurAdds
<1> HIDE DEF dir, here
<1>5. Tidy(TreeRecs'[n]) /\ Range(TreeRecs'[n]) = {Record("..", c), Record(".", n)}
  BY <1>1, <1>3, NewDirTidy
<1>6. DirsTidy'
  BY <1>1, <1>2, <1>4, <1>5, RelistedTidy
<1>7. ASSUME DirHasRoom PROVE Abstract!Mkdir(name)
  <2>1. FirstSeg(dir) = dir
    <3>1. CASE HasName(CurDir, name)
      BY <1>4, <3>1, CurTidy, FirstTidy
    <3>2. CASE ~HasName(CurDir, name)
      BY <1>4, <1>7, <3>2, RoomForName, FirstTidy
    <3> QED
      BY <3>1, <3>2
  <2>2. /\ curInode'.id = c
        /\ Dirs(Tree') \ {n} = Dirs(Tree) \ {}
        /\ Files(Tree') \ {n} = Files(Tree) \ {}
        /\ TreeDirs' = [i \in Dirs(Tree') |->
                          IF i = c THEN Range(dir)
                          ELSE IF i \in {n} THEN Range(TreeRecs'[i]) ELSE TreeDirs[i]]
        /\ DOMAIN TreeFiles' = Files(Tree')
        /\ \A i \in Files(Tree') : TreeFiles'[i] = IF i \in {n} THEN RecipeOf(i)'
                                                                ELSE TreeFiles[i]
    BY <1>1, <1>2, <1>4, <1>6, <2>1, RelistedTree
  <2>3. n \in Dirs(Tree') /\ n \notin Files(Tree')
    BY <1>1 DEF Relists, Dirs, Files
  <2>4. /\ Dirs(Tree') = Dirs(Tree) \cup {n} /\ DOMAIN TreeDirs = Dirs(Tree)
        /\ Files(Tree') = Files(Tree) /\ DOMAIN TreeFiles = Files(Tree)
        /\ TreeDirs[c] = Range(CurDir) /\ c \in Dirs(Tree)
    <3>1. /\ DOMAIN TreeDirs = Dirs(Tree) /\ DOMAIN TreeFiles = Files(Tree)
          /\ TreeDirs[c] = Range(CurDir) /\ c \in Dirs(Tree)
      BY CurTidy DEF Shown, TreeFiles
    <3>2. n \notin Files(Tree)
      BY <1>2 DEF Files
    <3> QED
      BY <2>2, <2>3, <3>1, <3>2
  <2> DEFINE put == [TreeDirs EXCEPT ![c] = @ \cup here]
             new == {Record("..", c), Record(".", n)}
  <2>5. n < MaxInode + 1 /\ nInode < MaxInode /\ nInode' = nInode + 1 /\ curInode'.id = c
    BY <1>1, <1>2, <2>2, LfsAssumption
  <2> HIDE DEF c, n
  <2>6. TreeDirs' = Abstract!Put(put, n, new)
    <3>1. DOMAIN put = Dirs(Tree) /\ \A i \in Dirs(Tree) :
            put[i] = IF i = c THEN Range(dir) ELSE TreeDirs[i]
      BY <1>4, <2>4
    <3> HIDE DEF put, new
    <3>2. TreeDirs' = [i \in Dirs(Tree) \cup {n} |-> IF i = n THEN new ELSE put[i]]
      <4>1. TreeDirs' = [i \in Dirs(Tree) \cup {n} |->
                           IF i = c THEN Range(dir)
                           ELSE IF i = n THEN Range(TreeRecs'[i]) ELSE TreeDirs[i]]
        BY <2>2, <2>4
      <4>2. c # n /\ Range(TreeRecs'[n]) = new
        BY <1>2, <1>5 DEF new
      <4> QED
        BY <3>1, <4>1, <4>2
    <3> QED
      BY <3>1, <3>2 DEF Abstract!Put
  <2>7. TreeFiles' = TreeFiles
    BY <2>2, <2>3, <2>4 DEF TreeFiles
  <2>8. here = IF Abstract!InUse(name) THEN {} ELSE {Record(name, n)}
    BY InUseIs DEF here, n
  <2> QED
    BY <2>5, <2>6, <2>7, <2>8
    DEF Abstract!Mkdir, Abstract!Entry, Abstract!NewDir, Record, c, n
<1> QED
  BY <1>6, <1>7 DEF TreeStep, Abstract!Next

\* A record renamed to its own name.
LEMMA ChangeSame ==
  ASSUME NEW dir \in Seq(DirRecord), Clean(dir), NEW name, HasName(dir, name)
  PROVE  ChangeEntry(dir, name, name) = dir
<1> DEFINE k == Min(Matches(dir, name))
<1>1. k \in 1 .. Len(dir) /\ Matches(dir, name) = {k}
  BY FoundEntry
<1>2. dir[k].name = name /\ dir[k] \in DirRecord
  BY <1>1 DEF Matches
<1> HIDE DEF k
<1>3. [dir[k] EXCEPT !.name = name] = dir[k]
  BY <1>2 DEF DirRecord
<1>4. [dir EXCEPT ![k].name = name] = dir
  BY <1>1, <1>3
<1> QED
  BY <1>4 DEF ChangeEntry, k

\* Rename: the entry gets another name, or the name that it has.
LEMMA RenameStep ==
  ASSUME ~RenameOnto, TypeOK, FsSound, Agrees, DirsTidy, Shown, Shown',
         NEW old \in Names, NEW new \in Names, Rename(old, new)
  PROVE  DirsTidy' /\ TreeStep
<1> DEFINE c   == curInode.id
           dir == ChangeEntry(CurDir, old, new)
           e   == Record(old, IdOf(CurDir, old))
           f   == Record(new, IdOf(CurDir, old))
<1>1. /\ FilesKept
      /\ \/ Stays /\ curInode' = curInode
         \/ /\ HasName(CurDir, old) /\ (old = new \/ ~HasName(CurDir, new))
            /\ Relists(dir, {}, {}) /\ nInode' = nInode
  BY RenameSane DEF Sane
<1>2. CASE Stays /\ curInode' = curInode
  BY <1>1, <1>2, LookStep
<1>3. CASE /\ HasName(CurDir, old) /\ (old = new \/ ~HasName(CurDir, new))
           /\ Relists(dir, {}, {}) /\ nInode' = nInode
  <2>1. /\ dir \in Seq(DirRecord) /\ Clean(dir) /\ Len(dir) <= RecPerSeg
        /\ Range(dir) = (Range(CurDir) \ {e}) \cup {f}
    <3>1. CASE ~HasName(CurDir, new)
      BY <1>3, <3>1, CurTidy, ChangeIs
    <3>2. CASE old = new
      <4>1. dir = CurDir
        BY <1>3, <3>2, CurTidy, ChangeSame
      <4>2. e \in Range(CurDir) /\ e = f
        BY <1>3, <3>2, CurTidy, FoundEntry
      <4> HIDE DEF dir, e, f
      <4> QED
        BY <4>1, <4>2, CurTidy
    <3> QED
      BY <1>3, <3>1, <3>2
  <2>2. e \in TreeDirs[c] /\ e.name = old /\ e.id = f.id /\ f = Record(new, e.id)
    BY <1>3, CurTidy, FoundEntry DEF Record
  <2> HIDE DEF dir, e, f
  <2>3. DirsTidy'
    BY <1>3, <2>1, RelistedTidy
  <2>4. FirstSeg(dir) = dir
    BY <2>1, FirstTidy
  <2>5. /\ curInode'.id = c
        /\ Dirs(Tree') \ {} = Dirs(Tree) \ {}
        /\ Files(Tree') \ {} = Files(Tree) \ {}
        /\ TreeDirs' = [i \in Dirs(Tree') |->
                          IF i = c THEN Range(dir)
                          ELSE IF i \in {} THEN Range(TreeRecs'[i]) ELSE TreeDirs[i]]
        /\ DOMAIN TreeFiles' = Files(Tree')
        /\ \A i \in Files(Tree') : TreeFiles'[i] = IF i \in {} THEN RecipeOf(i)'
                                                               ELSE TreeFiles[i]
    <3> DEFINE none == {}
    <3>1. /\ FilesKept /\ Relists(dir, none, none)
          /\ c \notin none \cup none /\ none \cap DOMAIN Tree = {}
      BY <1>1, <1>3
    <3> HIDE DEF none
    <3>2. /\ curInode'.id = c
          /\ Dirs(Tree') \ none = Dirs(Tree) \ none
          /\ Files(Tree') \ none = Files(Tree) \ none
          /\ TreeDirs' = [i \in Dirs(Tree') |->
                            IF i = c THEN Range(dir)
                            ELSE IF i \in none THEN Range(TreeRecs'[i]) ELSE TreeDirs[i]]
          /\ DOMAIN TreeFiles' = Files(Tree')
          /\ \A i \in Files(Tree') : TreeFiles'[i] = IF i \in none THEN RecipeOf(i)'
                                                                     ELSE TreeFiles[i]
      BY <2>3, <2>4, <3>1, RelistedTree
    <3> QED
      BY <3>2 DEF none
  <2>6. /\ DOMAIN TreeDirs = Dirs(Tree) /\ DOMAIN TreeFiles = Files(Tree)
        /\ TreeDirs[c] = Range(CurDir) /\ c \in Dirs(Tree)
    BY CurTidy DEF Shown, TreeFiles
  <2> HIDE DEF c
  <2>7. TreeDirs' = [TreeDirs EXCEPT ![c] = (@ \ {e}) \cup {f}]
    BY <2>1, <2>5, <2>6
  <2>8. TreeFiles' = TreeFiles
    BY <2>5, <2>6 DEF TreeFiles
  <2>9. CASE ~HasName(CurDir, new)
    <3>1. ~Abstract!InUse(new)
      BY <2>9, InUseIs
    <3>2. Abstract!Rename(e, new)
      BY <1>3, <2>2, <2>5, <2>7, <2>8, <3>1
      DEF Abstract!Rename, Abstract!Entry, Record, c
    <3> QED
      BY <2>2, <2>3, <3>2 DEF TreeStep, Abstract!Next, c
  <2>10. CASE old = new
    <3>1. (TreeDirs[c] \ {e}) \cup {f} = TreeDirs[c]
      BY <2>2, <2>10 DEF f, e, Record
    <3>2. TreeDirs \in [DOMAIN TreeDirs -> Range(TreeDirs)]
      BY DEF TreeDirs, Range
    <3>3. TreeDirs' = TreeDirs
      BY <2>6, <2>7, <3>1, <3>2
    <3> QED
      BY <1>3, <2>3, <2>5, <2>8, <3>3 DEF TreeStep, Abstract!vars, c
  <2> QED
    BY <1>3, <2>9, <2>10
<1> QED
  BY <1>1, <1>2, <1>3

\* Unlink and Rmdir: the entry goes, and what it leads to.
LEMMA RemoveStep ==
  ASSUME TypeOK, FsSound, Agrees, DirsTidy, Shown, Shown',
         NEW name \in Names, RemoveName(name)
  PROVE  DirsTidy' /\ TreeStep
<1> DEFINE c   == curInode.id
           i   == IdOf(CurDir, name)
           dir == RemoveEntry(CurDir, name)
           e   == Record(name, i)
<1>1. /\ FilesKept
      /\ \/ Stays /\ curInode' = curInode
         \/ HasName(CurDir, name) /\ nInode' = nInode /\ Relists(dir, {i}, {})
  BY RemoveNameSane DEF Sane
<1>2. CASE Stays /\ curInode' = curInode
  BY <1>1, <1>2, LookStep
<1>3. CASE HasName(CurDir, name) /\ nInode' = nInode /\ Relists(dir, {i}, {})
  <2>1. /\ dir \in Seq(DirRecord) /\ Clean(dir) /\ Len(dir) <= Len(CurDir)
        /\ Range(dir) = Range(CurDir) \ {e}
    BY <1>3, CurTidy, RemoveIs, EditedDirType
  <2>2. e \in TreeDirs[c] /\ e.name = name /\ e.id = i
    BY <1>3, CurTidy, FoundEntry DEF Record
  <2>3. c \notin {i} \cup {} /\ {} \cap DOMAIN Tree = {}
    <3>1. i \in DOMAIN Tree /\ i > c
      BY <1>3, NamesLead
    <3>2. i \in Nat /\ c \in Nat
      BY <3>1, TreeFacts, CurFacts
    <3> QED
      BY <3>1, <3>2
  <2> HIDE DEF dir, e
  <2>4. DirsTidy'
    BY <1>3, <2>1, <2>3, RelistedTidy
  <2>5. FirstSeg(dir) = dir
    <3>1. Len(dir) <= RecPerSeg
      BY <2>1, CurTidy, RecPerSegType
    <3> QED
      BY <2>1, <3>1, FirstTidy
  <2>6. /\ curInode'.id = c
        /\ Dirs(Tree') \ {} = Dirs(Tree) \ {i}
        /\ Files(Tree') \ {} = Files(Tree) \ {i}
        /\ TreeDirs' = [j \in Dirs(Tree') |->
                          IF j = c THEN Range(dir)
                          ELSE IF j \in {} THEN Range(TreeRecs'[j]) ELSE TreeDirs[j]]
        /\ DOMAIN TreeFiles' = Files(Tree')
        /\ \A j \in Files(Tree') : TreeFiles'[j] = IF j \in {} THEN RecipeOf(j)'
                                                               ELSE TreeFiles[j]
    BY <1>1, <1>3, <2>3, <2>4, <2>5, RelistedTree
  <2>7. /\ DOMAIN TreeDirs = Dirs(Tree) /\ DOMAIN TreeFiles = Files(Tree)
        /\ TreeDirs[c] = Range(CurDir) /\ c \in Dirs(Tree)
    BY CurTidy DEF Shown, TreeFiles
  <2> HIDE DEF c, i
  <2>8. TreeDirs' = Abstract!Drop([TreeDirs EXCEPT ![c] = @ \ {e}], i)
    <3> DEFINE cut == [TreeDirs EXCEPT ![c] = @ \ {e}]
    <3>1. DOMAIN cut = Dirs(Tree) /\ \A j \in Dirs(Tree) :
            cut[j] = IF j = c THEN Range(dir) ELSE TreeDirs[j]
      BY <2>1, <2>7
    <3> HIDE DEF cut
    <3>2. TreeDirs' = [j \in Dirs(Tree) \ {i} |-> cut[j]]
      BY <2>6, <3>1
    <3> QED
      BY <3>1, <3>2 DEF Abstract!Drop, Abstract!Restrict, cut
  <2>9. TreeFiles' = Abstract!Drop(TreeFiles, i)
    <3>1. TreeFiles' = [j \in Files(Tree) \ {i} |-> TreeFiles[j]]
      BY <2>6 DEF TreeFiles
    <3> QED
      BY <2>7, <3>1 DEF Abstract!Drop, Abstract!Restrict
  <2>10. Abstract!Remove(e)
    BY <1>3, <2>2, <2>6, <2>8, <2>9 DEF Abstract!Remove, c
  <2> QED
    BY <2>2, <2>4, <2>10 DEF TreeStep, Abstract!Next, c
<1> QED
  BY <1>1, <1>2, <1>3

\* Write: one block of a file, or all of them.
LEMMA WriteStep ==
  ASSUME TypeOK, FsSound, Agrees, DirsTidy, Shown, Shown',
         NEW name, NEW b \in Blocks, NEW d \in Data, Write(name, b, d)
  PROVE  DirsTidy' /\ TreeStep
<1>1. /\ FilesKept
      /\ \/ Stays /\ curInode' = curInode
         \/ \E i \in Files(Tree) :
              /\ HasName(CurDir, name) /\ i = IdOf(CurDir, name)
              /\ \E r : Moves(i, r)
              /\ RecipeOf(i)' \in {[RecipeOf(i) EXCEPT ![b] = d], EmptyRecipe}
  BY WriteSane DEF Sane
<1>2. CASE Stays /\ curInode' = curInode
  BY <1>1, <1>2, LookStep
<1>3. ASSUME NEW i \in Files(Tree), HasName(CurDir, name), i = IdOf(CurDir, name),
             NEW r, Moves(i, r),
             RecipeOf(i)' \in {[RecipeOf(i) EXCEPT ![b] = d], EmptyRecipe}
      PROVE  DirsTidy' /\ TreeStep
  <2> DEFINE e == Record(name, i)
  <2>1. e \in TreeDirs[curInode.id] /\ e.id = i
    BY <1>3, CurTidy, FoundEntry DEF Record
  <2> HIDE DEF e
  <2>2. /\ Tree'[i].type = "file" /\ Tree[i].type = "file"
        /\ DOMAIN Tree' = DOMAIN Tree /\ TreeRecs' = TreeRecs
        /\ \A j \in DOMAIN Tree : j # i => Tree'[j] = Tree[j] /\ imap'[j] = imap[j]
        /\ nInode' = nInode /\ curInode' = curInode
    <3>1. Tree[i] \in Inode /\ Tree[i].type = "file"
      BY TreeFacts DEF Files
    <3> QED
      BY <1>3, <3>1 DEF Moves, Inode
  <2>3. Dirs(Tree') = Dirs(Tree) /\ Files(Tree') = Files(Tree)
    <3>1. \A j : j \in Dirs(Tree') <=> j \in Dirs(Tree)
      BY <2>2 DEF Dirs
    <3>2. \A j : j \in Files(Tree') <=> j \in Files(Tree)
      BY <2>2 DEF Files
    <3> QED
      BY <3>1, <3>2
  <2>4. DirsTidy'
    BY <2>2, <2>3 DEF Shown
  <2>5. TreeDirs' = TreeDirs
    BY <2>2, <2>3, <2>4 DEF Shown
  <2>6. /\ TreeFiles = [j \in Files(Tree) |-> RecipeOf(j)]
        /\ TreeFiles' = [j \in Files(Tree) |-> RecipeOf(j)']
    BY <2>3 DEF Shown, TreeFiles
  <2>7. \A j \in Files(Tree) : j # i => RecipeOf(j)' = RecipeOf(j)
    BY <1>1, <2>2 DEF FilesKept, Shown, Files
  <2>8. CASE RecipeOf(i)' = [RecipeOf(i) EXCEPT ![b] = d]
    <3>1. TreeFiles' = [TreeFiles EXCEPT ![i][b] = d]
      BY <2>6, <2>7, <2>8
    <3>2. Abstract!Write(e, b, d)
      BY <2>1, <2>2, <2>5, <2>6, <3>1 DEF Abstract!Write
    <3> QED
      BY <2>1, <2>4, <3>2 DEF TreeStep, Abstract!Next
  <2>9. CASE RecipeOf(i)' = EmptyRecipe
    <3>1. TreeFiles' = [TreeFiles EXCEPT ![i] = Abstract!EmptyFile]
      BY <2>6, <2>7, <2>9 DEF EmptyRecipe, Abstract!EmptyFile
    <3>2. Abstract!LoseBlocks(e)
      BY <2>1, <2>2, <2>5, <2>6, <3>1 DEF Abstract!LoseBlocks
    <3> QED
      BY <2>1, <2>4, <3>2 DEF TreeStep, Abstract!Next
  <2> QED
    BY <1>3, <2>8, <2>9
<1> QED
  BY <1>1, <1>2, <1>3

\* Every step of the file system.
LEMMA NextTree ==
  ASSUME ~EmptyReads, ~RenameOnto, TypeOK, FsSound, Agrees, DirsTidy, TypeOK', FsSound',
         [Next]_vars
  PROVE  DirsTidy' /\ (DirHasRoom => TreeStep)
<1> DEFINE Good == DirsTidy' /\ (DirHasRoom => TreeStep)
<1>1. Shown /\ Shown'
  <2>1. Shown
    BY ShownIs
  <2>2. TypeOK' /\ FsSound' => Shown'
    BY ShownIs, PTL
  <2> QED
    BY <2>1, <2>2
<1>2. CASE UNCHANGED vars
  <2>1. Stays /\ FilesKept /\ curInode' = curInode
    BY <1>2 DEF vars, Stays, FilesKept, LogInode, RecipeOf, Tree, TreeRecs, Store
  <2> QED
    BY <1>1, <2>1, LookStep
<1>3. CASE ReadDir
  BY <1>1, <1>3, ReadDirSane, LookStep DEF Sane
<1>4. ASSUME NEW path \in Paths, GetAttr(path) PROVE Good
  BY <1>1, <1>4, GetAttrSane, LookStep DEF Sane
<1>5. ASSUME NEW path \in Paths, Access(path) PROVE Good
  <2>1. FilesKept /\ Stays
    BY <1>5, AccessSane DEF Sane
  <2>2. \/ curInode' = curInode
        \/ \E name : HasName(CurDir, name) /\ curInode'.id = IdOf(CurDir, name)
    BY <1>5, AccessSane
  <2>3. CASE curInode' = curInode
    BY <1>1, <2>1, <2>3, LookStep
  <2>4. ASSUME NEW name, HasName(CurDir, name), curInode'.id = IdOf(CurDir, name)
        PROVE  DirsTidy' /\ TreeStep
    BY <1>1, <2>1, <2>4, EnterStep
  <2> QED
    BY <2>2, <2>3, <2>4
<1>6. ASSUME NEW name \in Names, Mkdir(name) PROVE Good
  BY <1>1, <1>6, MkdirStep
<1>7. ASSUME NEW name \in Names, Create(name) PROVE Good
  BY <1>1, <1>7, CreateStep
<1>8. ASSUME NEW name \in Names, Unlink(name) \/ Rmdir(name) PROVE Good
  BY <1>1, <1>8, RemoveStep DEF Unlink, Rmdir
<1>9. ASSUME NEW name \in Names, NEW n \in 1 .. RecipeNum, Read(name, n) PROVE Good
  BY <1>1, <1>9, ReadSane, LookStep DEF Sane
<1>10. ASSUME NEW name \in Names, NEW b \in Blocks, NEW d \in Data, Write(name, b, d) PROVE Good
  BY <1>1, <1>10, WriteStep
<1>11. ASSUME NEW name \in Names, NEW new \in Names, Rename(name, new) PROVE Good
  BY <1>1, <1>11, RenameStep
<1> HIDE DEF Good
<1>12. Good
  BY <1>2, <1>3, <1>4, <1>5, <1>6, <1>7, <1>8, <1>9, <1>10, <1>11 DEF Next, Good
<1> QED
  BY <1>12 DEF Good

\* lfs_init makes the tree that has a root.
LEMMA InitTree == Init => DirsTidy /\ Abstract!Init
<1> SUFFICES ASSUME Init PROVE DirsTidy /\ Abstract!Init
  OBVIOUS
<1>1. Shown /\ OnlyRoot
  BY InitType, InitSound, ShownIs
<1>2. nInode = 1 /\ curInode.id = 1
  BY DEF Init, NewDir, ZeroInode
<1>3. 1 \in InodeIds
  BY LfsAssumption DEF InodeIds
<1>4. Tidy(TreeRecs[1]) /\ Range(TreeRecs[1]) = {Record("..", 1), Record(".", 1)}
  BY <1>1, <1>3, NewDirTidy DEF OnlyRoot
<1>5. DirsTidy
  BY <1>1, <1>4 DEF Shown, OnlyRoot
<1>6. TreeDirs = [i \in {1} |-> {Record("..", 1), Record(".", 1)}]
  BY <1>1, <1>4, <1>5 DEF Shown, OnlyRoot
<1>7. TreeFiles = [i \in {} |-> Abstract!EmptyFile]
  BY <1>1 DEF Shown, OnlyRoot, TreeFiles
<1> QED
  BY <1>2, <1>5, <1>6, <1>7 DEF Abstract!Init, Abstract!NewDir, Abstract!Entry, Record

-----------------------------------------------------------------------------
(* The theorems. *)

\* Every directory in the log keeps its records in one segment, without a gap
\* and without a name twice: dir_commit_changes may cut a directory off, but what
\* open_cur_dir counts is what is there.
THEOREM DirectoriesAreTidy ==
  ASSUME ~EmptyReads, ~RenameOnto
  PROVE  Spec => []DirsTidy
<1>1. Init => DirsTidy
  BY InitTree
<1>2. TypeOK /\ FsSound /\ Agrees /\ (TypeOK /\ FsSound)' /\ DirsTidy /\ [Next]_vars => DirsTidy'
  BY NextTree
<1> QED
  BY <1>1, <1>2, AllHolds, PTL DEF Spec

\* As long as no name is added to a directory that is full, the handlers do to the
\* tree in the log what module FileTree says: a step of it each, or none.
THEOREM TreeImplemented ==
  ASSUME ~EmptyReads, ~RenameOnto
  PROVE  Spec /\ []DirHasRoom => ImplementsTree
<1>1. Init => Abstract!Init
  BY InitTree
<1>2. TypeOK /\ FsSound /\ Agrees /\ (TypeOK /\ FsSound)' /\ DirsTidy /\ DirHasRoom
        /\ [Next]_vars => TreeStep
  BY NextTree
<1> QED
  BY <1>1, <1>2, AllHolds, DirectoriesAreTidy, PTL
  DEF Spec, ImplementsTree, Abstract!Spec, TreeStep

-----------------------------------------------------------------------------
(* What the tree gives, and does not need room for. *)

\* The entries of a directory are what open_cur_dir sees of its records.
LEMMA EntriesAre ==
  ASSUME TypeOK, FsSound
  PROVE  /\ DOMAIN TreeDirs = Dirs(Tree)
         /\ \A i \in Dirs(Tree) :
              LET dir == OpenRecords(TreeRecs[i])
              IN  /\ TreeDirs[i] = Range(dir)
                  /\ dir \in Seq(DirRecord) /\ Len(dir) \in 2 .. Len(TreeRecs[i])
                  /\ \A k \in 1 .. Len(dir) : dir[k] = TreeRecs[i][k]
<1>1. DOMAIN TreeDirs = Dirs(Tree) /\ LiveDirs = Dirs(Tree)
  BY ShownIs DEF Shown, TreeDirs
<1>2. ASSUME NEW i \in Dirs(Tree)
      PROVE  TreeDirs[i] = Range(OpenRecords(TreeRecs[i])) /\ WellFormed(TreeRecs[i])
  <2>1. i \in Live /\ LogInode(i) = Tree[i]
    BY LiveIs DEF Dirs
  <2>2. RecordsOf(i) = OpenRecords(TreeRecs[i])
    BY <2>1, TreeFacts DEF RecordsOf
  <2> QED
    BY <1>1, <2>2, TreeFacts DEF TreeDirs
<1> QED
  BY <1>1, <1>2, OpenedPart

\* Every name leads to something, which has no other name.
LEMMA NamesLeadEverywhere ==
  ASSUME TypeOK, FsSound, DirsTidy
  PROVE  Abstract!NamesSound
<1>1. /\ DOMAIN TreeDirs = Dirs(Tree) /\ DOMAIN TreeFiles = Files(Tree)
      /\ \A i \in Dirs(Tree) : /\ TreeDirs[i] = Range(TreeRecs[i])
                               /\ TreeRecs[i] \in Seq(DirRecord) /\ Tidy(TreeRecs[i])
  BY ShownIs, EntriesAre DEF Shown, TreeFiles
<1>2. /\ \A i \in Dirs(Tree) : DirSound(Tree, TreeRecs, i) /\ i \in DOMAIN Tree
      /\ ListedOnce(TreeRecs) /\ DOMAIN TreeRecs = Dirs(Tree)
      /\ DOMAIN Tree \subseteq Nat \ {0}
      /\ \A i \in DOMAIN Tree : i \in Dirs(Tree) \cup Files(Tree)
  BY FsParts, TreeFacts DEF TreeSound, Dirs, Files
<1>3. ASSUME NEW i \in Dirs(Tree), NEW e \in TreeDirs[i], e.name \in Names
      PROVE  \E k \in Places(TreeRecs[i]) :
               /\ e = TreeRecs[i][k] /\ k \in DOMAIN TreeRecs[i] /\ e.id \in DOMAIN Tree
               /\ e = Record(e.name, e.id)
               /\ e.id \in Dirs(Tree) => ParentIn(TreeRecs, e.id) = i
  <2>1. PICK k \in DOMAIN TreeRecs[i] : e = TreeRecs[i][k]
    BY <1>1, RangeIs
  <2>2. DOMAIN TreeRecs[i] = 1 .. Len(TreeRecs[i]) /\ Len(TreeRecs[i]) \in Nat
    BY <1>1
  <2>3. k # 1 /\ k # 2
    <3>1. DirSound(Tree, TreeRecs, i)
      BY <1>2
    <3>2. TreeRecs[i][1].name = ".." /\ TreeRecs[i][2].name = "."
      BY <3>1 DEF DirSound
    <3> QED
      BY <1>3, <2>1, <3>2, NotNames, Zenon
  <2>4. k \in Places(TreeRecs[i])
    BY <2>2, <2>3 DEF Places
  <2>5. e # Hole
    BY <1>3, NotNames, HoleIs, Zenon
  <2>6. e.id \in DOMAIN Tree /\ (e.id \in Dirs(Tree) => ParentIn(TreeRecs, e.id) = i)
    BY <1>2, <2>1, <2>4, <2>5 DEF DirSound
  <2>7. e = Record(e.name, e.id)
    BY <1>1, <2>1, RecordAt
  <2> QED
    BY <2>1, <2>4, <2>6, <2>7
<1> SUFFICES ASSUME NEW i \in Dirs(Tree), NEW e \in TreeDirs[i], e.name \in Names
             PROVE  /\ e.id \in Dirs(Tree) \cup Files(Tree)
                    /\ \A j \in Dirs(Tree) : \A f \in TreeDirs[j] :
                         f.name \in Names /\ (f.id = e.id \/ (i = j /\ f.name = e.name))
                           => i = j /\ e = f
                    /\ e.id \in Dirs(Tree) => Record("..", i) \in TreeDirs[e.id]
  BY <1>1 DEF Abstract!NamesSound, Abstract!Entry, Record
<1>4. PICK k \in Places(TreeRecs[i]) :
               /\ e = TreeRecs[i][k] /\ k \in DOMAIN TreeRecs[i] /\ e.id \in DOMAIN Tree
               /\ e = Record(e.name, e.id)
               /\ e.id \in Dirs(Tree) => ParentIn(TreeRecs, e.id) = i
  BY <1>3
<1>5. ASSUME NEW j \in Dirs(Tree), NEW f \in TreeDirs[j], f.name \in Names,
             f.id = e.id \/ (i = j /\ f.name = e.name)
      PROVE  i = j /\ e = f
  <2>1. PICK l \in Places(TreeRecs[j]) : f = TreeRecs[j][l] /\ l \in DOMAIN TreeRecs[j]
    BY <1>3, <1>5
  <2>2. CASE f.id = e.id
    <3>1. e.id # 0
      BY <1>2, <1>4
    <3>2. i = j /\ k = l
      BY <1>2, <1>4, <2>1, <2>2, <3>1 DEF ListedOnce
    <3> QED
      BY <1>4, <2>1, <3>2
  <2>3. CASE i = j /\ f.name = e.name
    <3>1. k = l
      BY <1>1, <1>4, <2>1, <2>3 DEF Tidy
    <3> QED
      BY <1>4, <2>1, <2>3, <3>1
  <2> QED
    BY <1>5, <2>2, <2>3
<1>6. ASSUME e.id \in Dirs(Tree) PROVE Record("..", i) \in TreeDirs[e.id]
  <2> DEFINE recs == TreeRecs[e.id]
  <2>1. recs \in Seq(DirRecord) /\ DirSound(Tree, TreeRecs, e.id)
    BY <1>1, <1>2, <1>6
  <2>2. Len(recs) \in Nat /\ Len(recs) >= 2 /\ recs[1].name = ".."
    BY <2>1 DEF DirSound
  <2>3. recs[1].id = i
    BY <1>4, <1>6 DEF ParentIn
  <2>4. 1 \in DOMAIN recs
    BY <2>1, <2>2
  <2>5. recs[1] = Record("..", i)
    BY <2>1, <2>2, <2>3, <2>4, RecordAt
  <2> QED
    BY <1>1, <1>6, <2>4, <2>5, RangeIs
<1> QED
  BY <1>2, <1>4, <1>5, <1>6

\* The way up of the invariant is one in the tree.
LEMMA RootedInLog ==
  ASSUME TypeOK, FsSound
  PROVE  Abstract!CwdRooted
<1> DEFINE c == curInode.id
<1>1. PICK way \in SUBSET (1 .. c) : WayUp(TreeRecs, c, way)
  BY FsParts DEF CurSound
<1>2. /\ \A i \in Dirs(Tree) : DirSound(Tree, TreeRecs, i)
      /\ DOMAIN TreeRecs = Dirs(Tree) /\ Dirs(Tree) \subseteq Nat
  BY FsParts, TreeFacts DEF TreeSound, Dirs
<1> HIDE DEF c
<1>3. {1, c} \subseteq way /\ way \subseteq Dirs(Tree)
  BY <1>1, <1>2 DEF WayUp
<1>4. ASSUME NEW i \in way \ {1}
      PROVE  \E p \in way : /\ p < i /\ Record("..", p) \in TreeDirs[i]
                            /\ \E name \in Names : Record(name, i) \in TreeDirs[p]
  <2> DEFINE p == ParentIn(TreeRecs, i)
             up == OpenRecords(TreeRecs[p])
             at == OpenRecords(TreeRecs[i])
  <2>1. i \in Dirs(Tree) /\ i \in Nat /\ p \in way /\ p \in Dirs(Tree) /\ Lists(TreeRecs[p], i)
    BY <1>1, <1>2, <1>3 DEF WayUp
  <2>2. TreeRecs[i][1].name = ".." /\ TreeRecs[i][1].id = p /\ p \in 1 .. i /\ p # i
    BY <1>2, <2>1 DEF DirSound, ParentIn
  <2>3. /\ TreeDirs[i] = Range(at) /\ at \in Seq(DirRecord)
        /\ 1 \in DOMAIN at /\ at[1] = TreeRecs[i][1]
    BY <2>1, EntriesAre
  <2>4. Record("..", p) \in TreeDirs[i]
    BY <2>2, <2>3, RangeIs, RecordAt
  <2>5. PICK k \in Places(up) : TreeRecs[p][k].name \in Names /\ TreeRecs[p][k].id = i
    BY <2>1 DEF Lists
  <2>6. /\ TreeDirs[p] = Range(up) /\ up \in Seq(DirRecord)
        /\ k \in DOMAIN up /\ up[k] = TreeRecs[p][k]
    <3>1. /\ TreeDirs[p] = Range(up) /\ up \in Seq(DirRecord)
          /\ \A l \in 1 .. Len(up) : up[l] = TreeRecs[p][l]
      BY <2>1, EntriesAre, Zenon
    <3> HIDE DEF p, up
    <3>2. k \in 1 .. Len(up) /\ DOMAIN up = 1 .. Len(up)
      BY <3>1 DEF Places
    <3> QED
      BY <3>1, <3>2
  <2>7. Record(TreeRecs[p][k].name, i) \in TreeDirs[p]
    BY <2>5, <2>6, RangeIs, RecordAt
  <2>8. p < i
    BY <2>1, <2>2
  <2> HIDE DEF p, up, at
  <2> QED
    BY <2>1, <2>4, <2>5, <2>7, <2>8
<1> QED
  BY <1>3, <1>4, EntriesAre DEF Abstract!CwdRooted, Abstract!Entry, Record, c

\* Nothing in the tree dangles, in any directory: each name leads to a live inode
\* that has no other name, and ".." to where a directory is listed, even when names
\* are added to a directory that is full.
THEOREM NoNameDangles ==
  ASSUME ~EmptyReads, ~RenameOnto
  PROVE  Spec => []Abstract!NamesSound
<1>1. TypeOK /\ FsSound /\ DirsTidy => Abstract!NamesSound
  BY NamesLeadEverywhere
<1> QED
  BY <1>1, AllHolds, DirectoriesAreTidy, PTL

\* From the current directory up to the root each directory is listed in the next,
\* whatever is renamed: lfs_rmdir never takes away what cur_inode stands on.
THEOREM CurrentDirectoryStays ==
  ASSUME ~EmptyReads
  PROVE  Spec => []Abstract!CwdRooted
<1>1. TypeOK /\ FsSound => Abstract!CwdRooted
  BY RootedInLog
<1> QED
  BY <1>1, AllHolds, PTL

-----------------------------------------------------------------------------
(* The current path. *)

\* PathSound speaks of TreeRecs.
PathLeads(way) ==
  /\ way \in [0 .. Len(curPath) -> Dirs(Tree)]
  /\ LeadsAlong(TreeRecs, curPath, way) /\ way[Len(curPath)] = curInode.id

PathFound == parPath = ParentPath(curPath) /\ \E way : PathLeads(way)

LEMMA PathIs == PathSound <=> PathFound
  BY DEF PathSound, PathFound, PathLeads, TreeRecs, Tree, Records

\* What becomes of directories as young as the current one, or younger, does not
\* matter to cur_path: it leads there through older ones.
LEMMA PathKept ==
  ASSUME TypeOK, PathSound, UNCHANGED <<curPath, parPath>>, curInode'.id = curInode.id,
         curInode.id \in Dirs(Tree'),
         \A i \in Dirs(Tree) : i < curInode.id => i \in Dirs(Tree') /\ TreeRecs'[i] = TreeRecs[i]
  PROVE  PathSound'
<1> DEFINE n == Len(curPath)
           c == curInode.id
<1>1. n \in Nat
  BY DEF TypeOK
<1>2. PICK way : PathLeads(way)
  BY PathIs DEF PathFound
<1>3. /\ way \in [0 .. n -> Dirs(Tree)] /\ way[0] = 1 /\ way[n] = c
      /\ \A k \in 1 .. n : LET dir == OpenRecords(TreeRecs[way[k - 1]])
                           IN  HasName(dir, curPath[k]) /\ way[k] = IdOf(dir, curPath[k])
      /\ \A k, l \in 0 .. n : k < l => way[k] < way[l]
  BY <1>2 DEF PathLeads, LeadsAlong
<1> HIDE DEF n, c
<1>4. \A k \in 0 .. n : k < n => way[k] \in Dirs(Tree') /\ TreeRecs'[way[k]] = TreeRecs[way[k]]
  BY <1>1, <1>3 DEF c
<1>5. way \in [0 .. n -> Dirs(Tree')]
  <2>1. \A k \in 0 .. n : way[k] \in Dirs(Tree')
    BY <1>1, <1>3, <1>4 DEF c
  <2> QED
    BY <1>3, <2>1
<1>6. \A k \in 1 .. n : LET dir == OpenRecords(TreeRecs'[way[k - 1]])
                        IN  HasName(dir, curPath[k]) /\ way[k] = IdOf(dir, curPath[k])
  <2> SUFFICES ASSUME NEW k \in 1 .. n
               PROVE  LET dir == OpenRecords(TreeRecs'[way[k - 1]])
                      IN  HasName(dir, curPath[k]) /\ way[k] = IdOf(dir, curPath[k])
    OBVIOUS
  <2>1. k - 1 \in 0 .. n /\ k - 1 < n
    BY <1>1
  <2>2. TreeRecs'[way[k - 1]] = TreeRecs[way[k - 1]]
    BY <1>4, <2>1
  <2> QED
    BY <1>3, <2>2
<1>7. LeadsAlong(TreeRecs', curPath, way)
  BY <1>3, <1>5, <1>6 DEF LeadsAlong, n
<1>8. PathLeads(way)'
  BY <1>3, <1>5, <1>7 DEF PathLeads, n, c
<1>9. PathFound'
  BY <1>8, PathIs DEF PathFound, ParentPath
<1> QED
  BY <1>9, PathIs, PTL

\* par_path leads to the directory that ".." names.
LEMMA ParentLeads ==
  ASSUME TypeOK, FsSound, PathSound, curPath # <<>>
  PROVE  \E up : /\ up \in [0 .. Len(parPath) -> Dirs(Tree)]
                 /\ LeadsAlong(TreeRecs, parPath, up)
                 /\ up[Len(parPath)] = IdOf(CurDir, "..")
<1> DEFINE n == Len(curPath)
           c == curInode.id
<1>1. n \in Nat /\ curPath \in Seq(Names) /\ parPath = ParentPath(curPath)
  BY PathIs DEF TypeOK, PathFound
<1>2. n # 0 /\ parPath = SubSeq(curPath, 1, n - 1)
  BY <1>1 DEF ParentPath
<1>3. /\ Len(parPath) = n - 1 /\ n - 1 \in Nat
      /\ \A k \in 1 .. n - 1 : parPath[k] = curPath[k]
  <2> DEFINE m == n - 1
  <2>1. m \in Nat /\ m <= Len(curPath) /\ parPath = SubSeq(curPath, 1, m)
    BY <1>1, <1>2
  <2> HIDE DEF m
  <2>2. Len(parPath) = m /\ \A k \in 1 .. m : parPath[k] = curPath[k]
    BY <1>1, <2>1
  <2> QED
    BY <2>1, <2>2 DEF m
<1>4. PICK way : PathLeads(way)
  BY PathIs DEF PathFound
<1>5. /\ way \in [0 .. n -> Dirs(Tree)] /\ way[0] = 1 /\ way[n] = c
      /\ \A k \in 1 .. n : LET dir == OpenRecords(TreeRecs[way[k - 1]])
                           IN  HasName(dir, curPath[k]) /\ way[k] = IdOf(dir, curPath[k])
      /\ \A k, l \in 0 .. n : k < l => way[k] < way[l]
  BY <1>4 DEF PathLeads, LeadsAlong
<1>6. IdOf(CurDir, "..") = way[n - 1]
  <2>1. n - 1 \in 0 .. n /\ n \in 1 .. n
    BY <1>1, <1>2
  <2>2. way[n - 1] \in Dirs(Tree) /\ curPath[n] \in Names
    <3>1. way[n - 1] \in Dirs(Tree)
      <4> DEFINE m == n - 1
      <4>1. m \in 0 .. n /\ way \in [0 .. n -> Dirs(Tree)]
        BY <1>5, <2>1
      <4> HIDE DEF m, n, c
      <4>2. way[m] \in Dirs(Tree)
        BY <4>1
      <4> QED
        BY <4>2 DEF m
    <3>2. curPath[n] \in Names
      BY <1>1, <2>1
    <3> QED
      BY <3>1, <3>2
  <2>3. c \in Dirs(Tree) /\ ParentIn(TreeRecs, c) = way[n - 1]
    <3> DEFINE above == way[n - 1]
               name  == curPath[n]
    <3>1. /\ HasName(OpenRecords(TreeRecs[above]), name)
          /\ c = IdOf(OpenRecords(TreeRecs[above]), name)
      BY <1>5, <2>1
    <3>2. above \in Dirs(Tree) /\ name \in Names /\ c \in Dirs(Tree)
      BY <2>2, CurFacts
    <3> HIDE DEF above, name, c
    <3>3. ParentIn(TreeRecs, c) = above
      BY <3>1, <3>2, NamedChild
    <3> QED
      BY <3>2, <3>3 DEF above
  <2> QED
    BY <2>3, NamesLead DEF ParentIn
<1> HIDE DEF n, c
<1> PICK up : up = [k \in 0 .. n - 1 |-> way[k]]
  OBVIOUS
<1>7. /\ up \in [0 .. n - 1 -> Dirs(Tree)] /\ up[0] = 1 /\ up[n - 1] = way[n - 1]
      /\ \A k \in 1 .. n - 1 : up[k] = way[k] /\ up[k - 1] = way[k - 1]
      /\ \A k, l \in 0 .. n - 1 : k < l => up[k] < up[l]
  BY <1>1, <1>2, <1>5
<1>8. LeadsAlong(TreeRecs, parPath, up)
  <2>1. \A k \in 1 .. n - 1 : k \in 1 .. n
    BY <1>1
  <2> QED
    BY <1>3, <1>5, <1>7, <2>1 DEF LeadsAlong
<1> QED
  BY <1>3, <1>6, <1>7, <1>8

\* lfs_access of the parent takes the last component off,
LEMMA PathUp ==
  ASSUME TypeOK, FsSound, PathSound, Stays, parPath # curPath,
         curPath' = parPath, parPath' = ParentPath(parPath),
         curInode'.id = IdOf(CurDir, "..")
  PROVE  PathSound'
<1>1. curPath # <<>>
  BY PathIs DEF PathFound, ParentPath
<1>2. PICK up : /\ up \in [0 .. Len(parPath) -> Dirs(Tree)]
                /\ LeadsAlong(TreeRecs, parPath, up)
                /\ up[Len(parPath)] = IdOf(CurDir, "..")
  BY <1>1, ParentLeads
<1>3. PathLeads(up)'
  BY <1>2 DEF PathLeads, Stays
<1>4. PathFound'
  BY <1>3 DEF PathFound, ParentPath
<1> QED
  BY <1>4, PathIs, PTL

\* and that of a directory in the current one appends its name.
LEMMA PathDown ==
  ASSUME TypeOK, FsSound, PathSound, Stays, NEW path \in Paths, path # <<>>,
         ParentPath(path) = curPath, HasName(CurDir, FileName(path)),
         curPath' = path, parPath' = curPath,
         curInode'.id = IdOf(CurDir, FileName(path)), curInode'.id \in Dirs(Tree)
  PROVE  PathSound'
<1> DEFINE n == Len(curPath)
           c == curInode.id
           i == IdOf(CurDir, FileName(path))
<1>1. path \in Seq(Names) /\ n \in Nat
  <2>1. PICK m \in 0 .. MaxDepth : path \in [1 .. m -> Names]
    BY DEF Paths
  <2>2. MaxDepth \in Nat
    BY LfsAssumption
  <2>3. curPath \in Seq(Names)
    BY DEF TypeOK
  <2> QED
    BY <2>1, <2>2, <2>3
<1>2. /\ Len(path) = n + 1 /\ FileName(path) = path[n + 1] /\ path[n + 1] \in Names
      /\ \A k \in 1 .. n : curPath[k] = path[k]
  <2>1. Len(path) \in Nat \ {0} /\ curPath = SubSeq(path, 1, Len(path) - 1)
    BY <1>1 DEF ParentPath
  <2> DEFINE m == Len(path) - 1
  <2>2. m \in Nat /\ m <= Len(path) /\ curPath = SubSeq(path, 1, m)
    BY <2>1
  <2> HIDE DEF m
  <2>3. Len(curPath) = m /\ \A k \in 1 .. m : curPath[k] = path[k]
    BY <1>1, <2>2
  <2> QED
    BY <1>1, <2>1, <2>3 DEF FileName, m
<1>3. PICK way : PathLeads(way)
  BY PathIs DEF PathFound
<1>4. /\ way \in [0 .. n -> Dirs(Tree)] /\ way[0] = 1 /\ way[n] = c
      /\ \A k \in 1 .. n : LET dir == OpenRecords(TreeRecs[way[k - 1]])
                           IN  HasName(dir, curPath[k]) /\ way[k] = IdOf(dir, curPath[k])
      /\ \A k, l \in 0 .. n : k < l => way[k] < way[l]
  BY <1>3 DEF PathLeads, LeadsAlong
<1>5. i > c /\ i \in Dirs(Tree) /\ curInode'.id = i /\ CurDir = OpenRecords(TreeRecs[c])
  BY <1>2, NamesLead DEF CurDir
<1>6. Dirs(Tree) \subseteq Nat
  BY TreeFacts DEF Dirs
<1>7. i = IdOf(CurDir, path[n + 1]) /\ HasName(CurDir, path[n + 1])
  BY <1>2
<1> HIDE DEF n, c, i
<1> PICK down : down = [k \in 0 .. n + 1 |-> IF k = n + 1 THEN i ELSE way[k]]
  OBVIOUS
<1>8. /\ down \in [0 .. n + 1 -> Dirs(Tree)] /\ down[0] = 1 /\ down[n + 1] = i
      /\ \A k \in 0 .. n : down[k] = way[k] /\ k < n + 1
  BY <1>1, <1>4, <1>5
<1>9. \A k, l \in 0 .. n + 1 : k < l => down[k] < down[l]
  <2>1. \A k \in 0 .. n : way[k] < i
    <3>1. \A k \in 0 .. n : k # n => way[k] < way[n]
      BY <1>1, <1>4
    <3>2. way[n] < i /\ way[n] \in Nat /\ i \in Nat
      BY <1>1, <1>4, <1>5, <1>6
    <3>3. \A k \in 0 .. n : way[k] \in Nat
      BY <1>4, <1>6
    <3> QED
      BY <3>1, <3>2, <3>3
  <2>2. \A k \in 0 .. n + 1 : k = n + 1 \/ k \in 0 .. n
    BY <1>1
  <2> QED
    BY <1>1, <1>4, <1>8, <2>1, <2>2
<1>10. LeadsAlong(TreeRecs, path, down)
  <2>1. \A k \in 1 .. n + 1 : LET dir == OpenRecords(TreeRecs[down[k - 1]])
                              IN  HasName(dir, path[k]) /\ down[k] = IdOf(dir, path[k])
    <3>1. ASSUME NEW k \in 1 .. n
          PROVE  LET dir == OpenRecords(TreeRecs[down[k - 1]])
                 IN  HasName(dir, path[k]) /\ down[k] = IdOf(dir, path[k])
      <4>1. k \in 0 .. n /\ k - 1 \in 0 .. n
        BY <1>1
      <4> QED
        BY <1>2, <1>4, <1>8, <4>1
    <3>2. /\ (n + 1) - 1 = n /\ down[n] = c
          /\ \A k \in 1 .. n + 1 : k = n + 1 \/ k \in 1 .. n
      BY <1>1, <1>4, <1>8
    <3> QED
      BY <1>5, <1>7, <1>8, <3>1, <3>2
  <2> QED
    BY <1>2, <1>8, <1>9, <2>1 DEF LeadsAlong
<1>11. PathLeads(down)'
  <2>1. Len(curPath') = n + 1 /\ Dirs(Tree') = Dirs(Tree) /\ TreeRecs' = TreeRecs
    BY <1>2 DEF Stays
  <2>2. curInode'.id = down[n + 1]
    BY <1>5, <1>8
  <2> QED
    BY <1>8, <1>10, <2>1, <2>2 DEF PathLeads
<1>12. PathFound'
  BY <1>11 DEF PathFound, ParentPath
<1> QED
  BY <1>12, PathIs, PTL

\* Handlers that stay in the current directory leave cur_path right: when they look,
LEMMA PathStays ==
  ASSUME TypeOK, FsSound, PathSound, Stays, UNCHANGED <<curInode, curPath, parPath>>
  PROVE  PathSound'
<1>1. Dirs(Tree') = Dirs(Tree) /\ TreeRecs' = TreeRecs /\ curInode.id \in Dirs(Tree')
  BY CurFacts DEF Stays
<1> QED
  BY <1>1, PathKept

\* when they relist it,
LEMMA PathRelists ==
  ASSUME TypeOK, FsSound, PathSound, UNCHANGED <<curPath, parPath>>,
         NEW dir, NEW gone, NEW born, Relists(dir, gone, born),
         \A i \in gone \cup born : i > curInode.id
  PROVE  PathSound'
<1> DEFINE c == curInode.id
<1>1. c \in Nat /\ \A i \in Dirs(Tree) : i \in Nat /\ i \in DOMAIN Tree
  BY CurFacts, TreeFacts DEF Dirs
<1>2. curInode'.id = c /\ c \in Dirs(Tree')
  BY DEF Relists
<1>3. ASSUME NEW i \in Dirs(Tree), i < c
      PROVE  i \in Dirs(Tree') /\ TreeRecs'[i] = TreeRecs[i]
  <2>1. i \notin gone \cup born /\ i # c /\ i \in DOMAIN Tree
    BY <1>1, <1>3
  <2>2. i \in DOMAIN Tree' /\ Tree'[i] = Tree[i]
    BY <2>1 DEF Relists
  <2>3. i \in Dirs(Tree')
    BY <2>2 DEF Dirs
  <2> QED
    BY <2>1, <2>3 DEF Relists
<1> QED
  BY <1>2, <1>3, PathKept

\* and when they move a file.
LEMMA PathMoves ==
  ASSUME TypeOK, FsSound, PathSound, UNCHANGED <<curPath, parPath>>,
         NEW i \in Files(Tree), NEW r, Moves(i, r)
  PROVE  PathSound'
<1>1. /\ DOMAIN Tree' = DOMAIN Tree /\ TreeRecs' = TreeRecs /\ curInode' = curInode
      /\ \A j \in DOMAIN Tree : j # i => Tree'[j] = Tree[j]
  BY DEF Moves
<1>2. \A j \in Dirs(Tree) : j \in Dirs(Tree')
  BY <1>1 DEF Dirs, Files
<1> QED
  BY <1>1, <1>2, CurFacts, PathKept

\* Every step of the file system, if directories are entered one at a time.
LEMMA NextPath ==
  ASSUME ~EmptyReads, ~DeepPaths, TypeOK, FsSound, Agrees, PathSound, TypeOK', FsSound',
         [Next]_vars
  PROVE  PathSound'
<1>1. CASE UNCHANGED vars
  <2>1. Stays /\ UNCHANGED <<curInode, curPath, parPath>>
    BY <1>1 DEF vars, Stays, Tree, TreeRecs, Store
  <2> QED
    BY <2>1, PathStays
<1>2. CASE ReadDir
  BY <1>2, ReadDirSane, PathStays DEF ReadDir
<1>3. ASSUME NEW path \in Paths, GetAttr(path) PROVE PathSound'
  BY <1>3, GetAttrSane, PathStays DEF GetAttr
<1>4. ASSUME NEW path \in Paths, Access(path) PROVE PathSound'
  <2>1. /\ Stays
        /\ \/ UNCHANGED <<curInode, curPath, parPath>>
           \/ /\ path = parPath /\ path # curPath
              /\ HasName(CurDir, "..") /\ curInode'.id = IdOf(CurDir, "..")
              /\ curPath' = path /\ parPath' = ParentPath(path)
           \/ /\ path # parPath /\ FileName(path) \in Names
              /\ HasName(CurDir, FileName(path))
              /\ curInode'.id = IdOf(CurDir, FileName(path))
              /\ curPath' = path /\ parPath' = curPath
    BY <1>4, AccessSane
  <2>2. CASE UNCHANGED <<curInode, curPath, parPath>>
    BY <2>1, <2>2, PathStays
  <2>3. CASE /\ path = parPath /\ path # curPath
             /\ HasName(CurDir, "..") /\ curInode'.id = IdOf(CurDir, "..")
             /\ curPath' = path /\ parPath' = ParentPath(path)
    BY <2>1, <2>3, PathUp
  <2>4. CASE /\ path # parPath /\ FileName(path) \in Names
             /\ HasName(CurDir, FileName(path))
             /\ curInode'.id = IdOf(CurDir, FileName(path))
             /\ curPath' = path /\ parPath' = curPath
    <3>1. path # <<>> /\ ParentPath(path) = curPath
      BY <1>4, <2>4 DEF Access, Steps
    <3>2. curInode'.id \in Dirs(Tree)
      <4>1. TypeOK' /\ FsSound' => Shown'
        BY ShownIs, PTL
      <4> QED
        BY <2>1, <4>1 DEF Shown, Stays
    <3> QED
      BY <2>1, <2>4, <3>1, <3>2, PathDown
  <2> QED
    BY <2>1, <2>2, <2>3, <2>4
<1>5. ASSUME NEW name \in Names, Mkdir(name) PROVE PathSound'
  <2>1. Relists(AddEntry(CurDir, name, nInode + 1), {}, {nInode + 1})
    BY <1>5, MkdirSane
  <2>2. UNCHANGED <<curPath, parPath>>
    BY <1>5 DEF Mkdir
  <2>3. nInode + 1 > curInode.id
    BY NewNumber DEF TypeOK
  <2> QED
    BY <2>1, <2>2, <2>3, PathRelists
<1>6. ASSUME NEW name \in Names, Create(name) PROVE PathSound'
  <2>1. \/ Stays /\ curInode' = curInode
        \/ Relists(AddEntry(CurDir, name, nInode + 1), {}, {nInode + 1})
    BY <1>6, CreateSane
  <2>2. UNCHANGED <<curPath, parPath>>
    BY <1>6 DEF Create
  <2>3. nInode + 1 > curInode.id
    BY NewNumber DEF TypeOK
  <2> QED
    BY <2>1, <2>2, <2>3, PathStays, PathRelists
<1>7. ASSUME NEW name \in Names, RemoveName(name) PROVE PathSound'
  <2>1. \/ Stays /\ curInode' = curInode
        \/ /\ HasName(CurDir, name)
           /\ Relists(RemoveEntry(CurDir, name), {IdOf(CurDir, name)}, {})
    BY <1>7, RemoveNameSane
  <2>2. UNCHANGED <<curPath, parPath>>
    BY <1>7 DEF RemoveName
  <2>3. HasName(CurDir, name) => IdOf(CurDir, name) > curInode.id
    BY NamesLead
  <2> QED
    BY <2>1, <2>2, <2>3, PathStays, PathRelists
<1>8. ASSUME NEW name \in Names, NEW n \in 1 .. RecipeNum, Read(name, n) PROVE PathSound'
  BY <1>8, ReadSane, PathStays DEF Read
<1>9. ASSUME NEW name \in Names, NEW b \in Blocks, NEW d \in Data, Write(name, b, d)
      PROVE  PathSound'
  <2>1. \/ Stays /\ curInode' = curInode
        \/ \E i \in Files(Tree) : \E r : Moves(i, r)
    BY <1>9, WriteSane
  <2>2. UNCHANGED <<curPath, parPath>>
    BY <1>9 DEF Write
  <2> QED
    BY <2>1, <2>2, PathStays, PathMoves
<1>10. ASSUME NEW old \in Names, NEW new \in Names, Rename(old, new) PROVE PathSound'
  <2>1. \/ Stays /\ curInode' = curInode
        \/ Relists(ChangeEntry(CurDir, old, new), {}, {})
    BY <1>10, RenameSane
  <2>2. UNCHANGED <<curPath, parPath>>
    BY <1>10 DEF Rename
  <2> QED
    BY <2>1, <2>2, PathStays, PathRelists
<1> QED
  BY <1>1, <1>2, <1>3, <1>4, <1>5, <1>6, <1>7, <1>8, <1>9, <1>10 DEF Next, Unlink, Rmdir

\* lfs_init starts in the root.
LEMMA InitPath == Init => PathSound
<1> SUFFICES ASSUME Init PROVE PathSound
  OBVIOUS
<1>1. TypeOK /\ FsSound
  BY InitType, InitSound
<1>2. curPath = <<>> /\ parPath = <<>> /\ curInode.id = 1
  BY DEF Init, NewDir, ZeroInode
<1> DEFINE way == [k \in 0 .. 0 |-> 1]
<1>3. 1 \in Dirs(Tree)
  BY <1>1, <1>2, CurFacts
<1>4. way \in [0 .. 0 -> Dirs(Tree)] /\ way[0] = 1 /\ DOMAIN way = 0 .. 0
  BY <1>3
<1> HIDE DEF way
<1>5. LeadsAlong(TreeRecs, <<>>, way)
  BY <1>4 DEF LeadsAlong
<1>6. PathLeads(way)
  BY <1>2, <1>4, <1>5 DEF PathLeads
<1> QED
  BY <1>2, <1>6, PathIs DEF PathFound, ParentPath

\* What a path designates is where a way along it ends.
LEMMA WalkIs ==
  ASSUME NEW path \in Seq(Names), NEW way, DOMAIN way = 0 .. Len(path),
         way = [k \in 0 .. Len(path) |-> way[k]], way[0] = 1,
         \A k \in 1 .. Len(path) : way[k] = Child(way[k - 1], path[k])
  PROVE  Designates(path) = way[Len(path)]
<1> DEFINE n == Len(path)
           Walks(f) == f = [k \in 0 .. n |-> IF k = 0 THEN 1 ELSE Child(f[k - 1], path[k])]
           walk == CHOOSE f : Walks(f)
<1>1. n \in Nat
  OBVIOUS
<1>2. Designates(path) = walk[n]
  BY Zenon DEF Designates
<1>3. Walks(way)
  <2>1. \A k \in 0 .. n : way[k] = IF k = 0 THEN 1 ELSE Child(way[k - 1], path[k])
    BY <1>1
  <2> QED
    BY <2>1
<1>4. Walks(walk)
  BY <1>3, Zenon
<1> HIDE DEF walk, n
<1>5. walk[0] = 1 /\ \A k \in 1 .. n : walk[k] = Child(walk[k - 1], path[k])
  BY <1>1, <1>4
<1>6. walk[n] = way[n]
  <2> DEFINE T == {k \in Nat : k \in 0 .. n => walk[k] = way[k]}
  <2>1. 0 \in T
    BY <1>5
  <2>2. ASSUME NEW k \in Nat, k \in T PROVE k + 1 \in T
    <3> SUFFICES ASSUME k + 1 \in 0 .. n PROVE walk[k + 1] = way[k + 1]
      OBVIOUS
    <3>1. k + 1 \in 1 .. n /\ (k + 1) - 1 = k /\ walk[k] = way[k]
      BY <1>1, <2>2
    <3> QED
      BY <1>5, <3>1 DEF n
  <2> HIDE DEF T
  <2>3. n \in T
    BY <1>1, <2>1, <2>2, SetInduction
  <2> QED
    BY <1>1, <2>3 DEF T
<1> QED
  BY <1>2, <1>6 DEF n

\* The ways of the invariant are those that Designates walks.
LEMMA LeadsWhere ==
  ASSUME TypeOK, FsSound, NEW path \in Seq(Names),
         NEW way \in [0 .. Len(path) -> Dirs(Tree)], LeadsAlong(TreeRecs, path, way)
  PROVE  Designates(path) = way[Len(path)]
<1>1. ASSUME NEW i \in Dirs(Tree), NEW name, HasName(OpenRecords(TreeRecs[i]), name)
      PROVE  Child(i, name) = IdOf(OpenRecords(TreeRecs[i]), name)
  <2>1. i \in Live /\ LogInode(i) = Tree[i]
    BY LiveIs DEF Dirs
  <2>2. RecordsOf(i) = OpenRecords(TreeRecs[i])
    BY <2>1, TreeFacts DEF RecordsOf
  <2> QED
    BY <1>1, <2>1, <2>2 DEF Child
<1>2. ASSUME NEW k \in 1 .. Len(path) PROVE way[k] = Child(way[k - 1], path[k])
  <2>1. k - 1 \in 0 .. Len(path)
    OBVIOUS
  <2>2. way[k - 1] \in Dirs(Tree)
    BY <2>1
  <2> QED
    BY <1>1, <2>2 DEF LeadsAlong
<1>3. DOMAIN way = 0 .. Len(path) /\ way = [k \in 0 .. Len(path) |-> way[k]] /\ way[0] = 1
  BY DEF LeadsAlong
<1> QED
  BY <1>2, <1>3, WalkIs

\* Where cur_path leads, cur_inode is, and where par_path leads, its "..".
LEMMA PathSays == TypeOK /\ FsSound /\ PathSound => CwdIsPath
<1> SUFFICES ASSUME TypeOK, FsSound, PathSound PROVE CwdIsPath
  OBVIOUS
<1>1. curPath \in Seq(Names) /\ parPath \in Seq(Names) /\ parPath = ParentPath(curPath)
  BY PathIs DEF TypeOK, PathFound
<1>2. PICK way : PathLeads(way)
  BY PathIs DEF PathFound
<1>3. curInode.id = Designates(curPath)
  BY <1>1, <1>2, LeadsWhere DEF PathLeads
<1>4. IdOf(CurDir, "..") = Designates(parPath)
  <2>1. CASE curPath # <<>>
    BY <1>1, <2>1, ParentLeads, LeadsWhere
  <2>2. CASE curPath = <<>>
    <3>1. parPath = <<>>
      BY <1>1, <2>2 DEF ParentPath
    <3>2. curInode.id = 1
      BY <1>2, <2>2 DEF PathLeads, LeadsAlong
    <3>3. DirSound(Tree, TreeRecs, 1)
      BY <3>2, CurFacts, FsParts DEF TreeSound
    <3>4. TreeRecs[1][1].id = 1
      BY <3>3 DEF DirSound
    <3> QED
      BY <1>3, <2>2, <3>1, <3>2, <3>4, NamesLead
  <2> QED
    BY <2>1, <2>2
<1> QED
  BY <1>1, <1>3, <1>4, CurFacts DEF CwdIsPath

\* cur_path leads to the current directory, through directories each made after
\* the one it is in: names are taken from directories that a handler changes, and
\* paths compared, but never to lead elsewhere.
THEOREM PathAgrees ==
  ASSUME ~EmptyReads, ~DeepPaths
  PROVE  Spec => []PathSound
<1>1. Init => PathSound
  BY InitPath
<1>2. TypeOK /\ FsSound /\ Agrees /\ (TypeOK /\ FsSound)' /\ PathSound /\ [Next]_vars => PathSound'
  BY NextPath
<1> QED
  BY <1>1, <1>2, AllHolds, PTL DEF Spec

\* Entered one at a time, directories are where cur_path and par_path say:
\* lfs_access sets cur_inode by a last component and the paths by comparison, and no
\* handler takes away or renames what is above the current directory.
THEOREM CwdIsWhereThePathLeads ==
  ASSUME ~EmptyReads, ~DeepPaths
  PROVE  Spec => []CwdIsPath
<1>1. TypeOK /\ FsSound /\ PathSound => CwdIsPath
  BY PathSays
<1> QED
  BY <1>1, AllHolds, PathAgrees, PTL
=============================================================================
