--------------------------- MODULE FileTreeProofs ---------------------------
(***************************************************************************)
(* Theorems about the tree of module FileTree, for every value of the      *)
(* constants: names never dangle and the current directory is never cut    *)
(* off, although rmdir removes directories that are not empty.             *)
(***************************************************************************)
EXTENDS FileTree, TLAPS

\* Numbers grow from a directory to what it lists, "." leads to itself, and ".."
\* leads to one place that is not younger.
Ordered ==
  \A i \in DOMAIN dirs :
    /\ \A e \in dirs[i] : /\ e.name \in Names => e.id > i
                          /\ e.name = "." => e.id = i
                          /\ e.name = ".." => e.id <= i
    /\ \A e, f \in dirs[i] : e.name = ".." /\ f.name = ".." => e.id = f.id

\* A way up from the current directory.
Way(way, ds, c) ==
  /\ way \subseteq 1 .. c /\ {1, c} \subseteq way /\ way \subseteq DOMAIN ds
  /\ \A i \in way \ {1} : \E p \in way :
       /\ p < i /\ Entry("..", p) \in ds[i]
       /\ \E name \in Names : Entry(name, i) \in ds[p]

TreeInv == TypeOK /\ Ordered /\ NamesSound /\ CwdRooted

Rooted == \E way : Way(way, dirs, cwd)

LEMMA CwdRootedIs == CwdRooted <=> Rooted
<1>1. SUFFICES ASSUME CwdRooted PROVE Rooted
  <2>1. ASSUME NEW way, Way(way, dirs, cwd) PROVE CwdRooted
    <3>1. way \in SUBSET (1 .. cwd)
      BY <2>1 DEF Way
    <3> QED
      BY <2>1, <3>1, Zenon DEF CwdRooted, Way
  <2> QED
    BY <2>1 DEF Rooted
<1>2. PICK way \in SUBSET (1 .. cwd) :
         /\ {1, cwd} \subseteq way /\ way \subseteq DOMAIN dirs
         /\ \A i \in way \ {1} : \E p \in way :
              /\ p < i /\ Entry("..", p) \in dirs[i]
              /\ \E name \in Names : Entry(name, i) \in dirs[p]
  BY <1>1 DEF CwdRooted
<1>3. way \subseteq 1 .. cwd
  BY <1>2
<1>4. Way(way, dirs, cwd)
  BY <1>2, <1>3 DEF Way
<1> QED
  BY <1>4 DEF Rooted

-----------------------------------------------------------------------------
\* What Put and Drop do to a function.
LEMMA PutIs ==
  ASSUME NEW f, NEW x, NEW y
  PROVE  /\ DOMAIN Put(f, x, y) = DOMAIN f \cup {x}
         /\ Put(f, x, y)[x] = y
         /\ \A z \in DOMAIN f : z # x => Put(f, x, y)[z] = f[z]
  BY DEF Put

LEMMA DropIs ==
  ASSUME NEW f, NEW x
  PROVE  /\ DOMAIN Drop(f, x) = DOMAIN f \ {x}
         /\ \A z \in DOMAIN f : z # x => Drop(f, x)[z] = f[z]
  BY DEF Drop, Restrict

\* Entries are told apart by name and number.
EntryType == [name : Names \cup {"..", "."}, id : 1 .. last]

LEMMA EntryIs ==
  ASSUME TypeOK, NEW i \in DOMAIN dirs, NEW e \in dirs[i]
  PROVE  /\ e \in EntryType /\ e = Entry(e.name, e.id)
         /\ i \in 1 .. last
  BY DEF TypeOK, EntryType, Entry

\* The types are kept.
LEMMA InitType == Init => TypeOK
  BY FileTreeAssumption DEF Init, TypeOK, NewDir, Entry

\* A new number for what is made under a name, or without one.
Makes(name) ==
  LET n == last + 1
  IN  /\ last' = n /\ cwd' = cwd
      /\ DOMAIN dirs \subseteq DOMAIN dirs' /\ DOMAIN dirs' \subseteq DOMAIN dirs \cup {n}
      /\ DOMAIN files \subseteq DOMAIN files' /\ DOMAIN files' \subseteq DOMAIN files \cup {n}
      /\ n \in DOMAIN dirs' \cup DOMAIN files'
      /\ \A i \in DOMAIN dirs : i # cwd => dirs'[i] = dirs[i]
      /\ \/ dirs'[cwd] = dirs[cwd]
         \/ dirs'[cwd] = dirs[cwd] \cup {Entry(name, n)} /\ ~InUse(name)
      /\ n \in DOMAIN dirs' => dirs'[n] = NewDir(cwd, n)

LEMMA MkdirMakes ==
  ASSUME TypeOK, NEW name \in Names, Mkdir(name)
  PROVE  TypeOK' /\ Makes(name)
<1> DEFINE n    == last + 1
           here == IF InUse(name) THEN {} ELSE {Entry(name, n)}
           ds   == [dirs EXCEPT ![cwd] = @ \cup here]
<1>1. /\ last \in 1 .. MaxId /\ n \in 1 .. MaxId /\ n \notin DOMAIN dirs
      /\ n \notin DOMAIN files /\ last' = n /\ cwd' = cwd /\ files' = files
      /\ cwd \in DOMAIN dirs /\ DOMAIN dirs \subseteq 1 .. last
      /\ MaxId \in Nat
  BY FileTreeAssumption DEF TypeOK, Mkdir
<1>2. /\ DOMAIN ds = DOMAIN dirs /\ ds[cwd] = dirs[cwd] \cup here
      /\ \A i \in DOMAIN dirs : i # cwd => ds[i] = dirs[i]
  BY <1>1
<1>3. dirs' = Put(ds, n, NewDir(cwd, n))
  BY Zenon DEF Mkdir
<1> HIDE DEF ds
<1>4. /\ DOMAIN dirs' = DOMAIN dirs \cup {n} /\ dirs'[n] = NewDir(cwd, n)
      /\ \A i \in DOMAIN dirs : dirs'[i] = ds[i]
  BY <1>1, <1>2, <1>3 DEF Put
<1>5. dirs'[cwd] = dirs[cwd] \cup here
  BY <1>1, <1>2, <1>4
<1>6. Makes(name)
  BY <1>1, <1>2, <1>4, <1>5 DEF Makes
<1>7. ASSUME NEW i \in DOMAIN dirs'
      PROVE  dirs'[i] \subseteq [name : Names \cup {"..", "."}, id : 1 .. n]
  <2>1. \A j \in DOMAIN dirs : dirs[j] \subseteq [name : Names \cup {"..", "."}, id : 1 .. n]
    BY <1>1, EntryIs DEF EntryType
  <2>2. here \subseteq [name : Names \cup {"..", "."}, id : 1 .. n]
    BY <1>1 DEF Entry
  <2>3. NewDir(cwd, n) \subseteq [name : Names \cup {"..", "."}, id : 1 .. n]
    BY <1>1 DEF NewDir, Entry
  <2> QED
    BY <1>1, <1>2, <1>4, <1>5, <2>1, <2>2, <2>3
<1> QED
  BY <1>1, <1>4, <1>6, <1>7 DEF TypeOK

LEMMA CreateMakes ==
  ASSUME TypeOK, NEW name \in Names, Create(name)
  PROVE  TypeOK' /\ Makes(name)
<1> DEFINE n == last + 1
<1>1. /\ last \in 1 .. MaxId /\ n \in 1 .. MaxId /\ n \notin DOMAIN dirs
      /\ n \notin DOMAIN files /\ last' = n /\ cwd' = cwd
      /\ cwd \in DOMAIN dirs /\ DOMAIN dirs \subseteq 1 .. last
      /\ DOMAIN files \subseteq 1 .. last /\ ~InUse(name) /\ MaxId \in Nat
  BY FileTreeAssumption DEF TypeOK, Create
<1>2. /\ dirs' = [dirs EXCEPT ![cwd] = @ \cup {Entry(name, n)}]
      /\ files' = Put(files, n, EmptyFile)
  BY DEF Create
<1>3. /\ DOMAIN dirs' = DOMAIN dirs /\ dirs'[cwd] = dirs[cwd] \cup {Entry(name, n)}
      /\ \A i \in DOMAIN dirs : i # cwd => dirs'[i] = dirs[i]
  BY <1>1, <1>2
<1>4. /\ DOMAIN files' = DOMAIN files \cup {n} /\ files'[n] = EmptyFile
      /\ \A i \in DOMAIN files : files'[i] = files[i]
  BY <1>1, <1>2 DEF Put
<1>5. Makes(name)
  BY <1>1, <1>3, <1>4 DEF Makes
<1>6. ASSUME NEW i \in DOMAIN dirs'
      PROVE  dirs'[i] \subseteq [name : Names \cup {"..", "."}, id : 1 .. n]
  <2>1. \A j \in DOMAIN dirs : dirs[j] \subseteq [name : Names \cup {"..", "."}, id : 1 .. n]
    BY <1>1, EntryIs DEF EntryType
  <2>2. Entry(name, n) \in [name : Names \cup {"..", "."}, id : 1 .. n]
    BY <1>1 DEF Entry
  <2> QED
    BY <1>1, <1>3, <2>1, <2>2
<1>7. files' \in [DOMAIN files' -> [Blocks -> Contents \cup {NoContent}]]
  <2>1. EmptyFile \in [Blocks -> Contents \cup {NoContent}]
    BY DEF EmptyFile
  <2>2. \A i \in DOMAIN files' : files'[i] \in [Blocks -> Contents \cup {NoContent}]
    BY <1>4, <2>1 DEF TypeOK
  <2>3. files' = [i \in DOMAIN files' |-> files'[i]]
    BY <1>2 DEF Put
  <2> QED
    BY <2>2, <2>3
<1> QED
  BY <1>1, <1>3, <1>4, <1>5, <1>6, <1>7 DEF TypeOK

\* The entries after something was made: those before it, and the new one.
LEMMA MadeEntries ==
  ASSUME TypeOK, NEW name \in Names, Makes(name), NEW i \in DOMAIN dirs', NEW e \in dirs'[i]
  PROVE  \/ i \in DOMAIN dirs /\ e \in dirs[i]
         \/ i = cwd /\ e = Entry(name, last + 1) /\ ~InUse(name)
         \/ i = last + 1 /\ e \in NewDir(cwd, last + 1)
  BY DEF Makes, TypeOK

LEMMA MakesOrdered ==
  ASSUME TypeOK, Ordered, NEW name \in Names, Makes(name)
  PROVE  Ordered'
<1> DEFINE n == last + 1
<1>1. cwd \in 1 .. last /\ last \in Nat /\ name # ".." /\ name # "."
  BY FileTreeAssumption DEF TypeOK
<1>2. ".." \notin Names /\ "." \notin Names
  BY FileTreeAssumption
<1>3. \A i \in DOMAIN dirs : i < n
  BY DEF TypeOK
<1> SUFFICES ASSUME NEW i \in DOMAIN dirs'
             PROVE  /\ \A e \in dirs'[i] : /\ e.name \in Names => e.id > i
                                           /\ e.name = "." => e.id = i
                                           /\ e.name = ".." => e.id <= i
                    /\ \A e, f \in dirs'[i] : e.name = ".." /\ f.name = ".." => e.id = f.id
  BY DEF Ordered
<1>4. CASE i = n
  <2>1. \A e \in dirs'[i] : \/ e.name = ".." /\ e.id = cwd
                            \/ e.name = "." /\ e.id = n
    BY <1>4 DEF Makes, NewDir, Entry
  <2> QED
    BY <1>1, <1>2, <1>4, <2>1
<1>5. CASE i # n
  <2>1. i \in DOMAIN dirs
    BY <1>5 DEF Makes
  <2>2. \A e \in dirs'[i] : e \in dirs[i] \/ (i = cwd /\ e.name = name /\ e.id = n)
    BY <1>5, <2>1, MadeEntries DEF Entry
  <2> QED
    BY <1>1, <1>3, <2>1, <2>2 DEF Ordered
<1> QED
  BY <1>4, <1>5

LEMMA MakesNames ==
  ASSUME TypeOK, NamesSound, NEW name \in Names, Makes(name)
  PROVE  NamesSound'
<1> DEFINE n == last + 1
<1>1. ".." \notin Names /\ "." \notin Names
  BY FileTreeAssumption
<1>2. \A j \in DOMAIN dirs : \A f \in dirs[j] : f.id \in 1 .. last /\ f.id # n
  BY EntryIs DEF TypeOK, EntryType
<1>3. ASSUME NEW j \in DOMAIN dirs', NEW f \in dirs'[j], f.name \in Names
      PROVE  \/ j \in DOMAIN dirs /\ f \in dirs[j]
             \/ /\ j = cwd /\ f = Entry(name, n) /\ ~InUse(name)
                /\ f.name = name /\ f.id = n
  BY <1>1, <1>3, MadeEntries DEF NewDir, Entry
<1>4. \A f \in dirs[cwd] : ~InUse(name) => f.name # name
  BY DEF InUse
<1> SUFFICES ASSUME NEW i \in DOMAIN dirs', NEW e \in dirs'[i], e.name \in Names
             PROVE  /\ e.id \in DOMAIN dirs' \cup DOMAIN files'
                    /\ \A j \in DOMAIN dirs' : \A f \in dirs'[j] :
                         f.name \in Names /\ (f.id = e.id \/ (i = j /\ f.name = e.name))
                           => i = j /\ e = f
                    /\ e.id \in DOMAIN dirs' => Entry("..", i) \in dirs'[e.id]
  BY DEF NamesSound
<1>5. e.id \in DOMAIN dirs' \cup DOMAIN files'
  BY <1>3 DEF Makes, NamesSound
<1>6. ASSUME NEW j \in DOMAIN dirs', NEW f \in dirs'[j], f.name \in Names,
             f.id = e.id \/ (i = j /\ f.name = e.name)
      PROVE  i = j /\ e = f
  <2>1. CASE i \in DOMAIN dirs /\ e \in dirs[i] /\ j \in DOMAIN dirs /\ f \in dirs[j]
    BY <1>6, <2>1 DEF NamesSound
  <2>2. CASE i = cwd /\ e = Entry(name, n) /\ e.id = n /\ e.name = name /\ ~InUse(name)
    BY <1>2, <1>3, <1>4, <1>6, <2>2
  <2>3. CASE j = cwd /\ f = Entry(name, n) /\ f.id = n /\ f.name = name /\ ~InUse(name)
    BY <1>2, <1>3, <1>4, <1>6, <2>3
  <2> QED
    BY <1>3, <1>6, <2>1, <2>2, <2>3
<1>7. ASSUME e.id \in DOMAIN dirs' PROVE Entry("..", i) \in dirs'[e.id]
  <2>1. CASE i \in DOMAIN dirs /\ e \in dirs[i]
    <3>1. e.id \in DOMAIN dirs
      BY <1>2, <1>7, <2>1 DEF Makes
    <3>2. Entry("..", i) \in dirs[e.id]
      BY <2>1, <3>1 DEF NamesSound
    <3>3. dirs[e.id] \subseteq dirs'[e.id]
      BY <3>1 DEF Makes
    <3> QED
      BY <3>2, <3>3
  <2>2. CASE i = cwd /\ e.id = n
    BY <1>7, <2>2 DEF Makes, NewDir
  <2> QED
    BY <1>3, <2>1, <2>2
<1> QED
  BY <1>5, <1>6, <1>7

\* A way up stays one if the directories on it list what they listed.
LEMMA WayKept ==
  ASSUME NEW way, NEW c, Way(way, dirs, c), way \subseteq DOMAIN dirs', cwd' = c,
         \A i \in way : \A e \in dirs[i] :
           (i # c \/ e.name \notin Names) => e \in dirs'[i],
         c \in Nat, ".." \notin Names
  PROVE  CwdRooted'
<1>1. ASSUME NEW i \in way \ {1}
      PROVE  \E p \in way : /\ p < i /\ Entry("..", p) \in dirs'[i]
                            /\ \E name \in Names : Entry(name, i) \in dirs'[p]
  <2>1. PICK p \in way : /\ p < i /\ Entry("..", p) \in dirs[i]
                         /\ \E name \in Names : Entry(name, i) \in dirs[p]
    BY <1>1 DEF Way
  <2>2. Entry("..", p) \in dirs'[i]
    BY <2>1 DEF Entry
  <2>3. p # c
    BY <2>1 DEF Way
  <2> QED
    BY <2>1, <2>2, <2>3
<1>2. Way(way, dirs', cwd')
  BY <1>1 DEF Way
<1>3. CwdRooted' <=> Rooted'
  BY CwdRootedIs, PTL
<1> QED
  BY <1>2, <1>3 DEF Rooted

LEMMA MakesRooted ==
  ASSUME TypeOK, CwdRooted, NEW name \in Names, Makes(name)
  PROVE  CwdRooted'
<1>1. PICK way : Way(way, dirs, cwd)
  BY CwdRootedIs DEF Rooted
<1>2. way \subseteq DOMAIN dirs /\ cwd \in Nat /\ cwd' = cwd /\ ".." \notin Names
  BY <1>1, FileTreeAssumption DEF Way, TypeOK, Makes
<1>3. \A i \in DOMAIN dirs : dirs[i] \subseteq dirs'[i]
  BY DEF Makes
<1>4. way \subseteq DOMAIN dirs'
  BY <1>2 DEF Makes
<1> QED
  BY <1>1, <1>2, <1>3, <1>4, WayKept

-----------------------------------------------------------------------------
\* The first state.
LEMMA InitSound == Init => Ordered /\ NamesSound /\ CwdRooted
<1> SUFFICES ASSUME Init PROVE Ordered /\ NamesSound /\ CwdRooted
  OBVIOUS
<1>1. ".." \notin Names /\ "." \notin Names
  BY FileTreeAssumption
<1>2. DOMAIN dirs = {1} /\ dirs[1] = {Entry("..", 1), Entry(".", 1)} /\ cwd = 1
  BY DEF Init, NewDir
<1>3. \A i \in DOMAIN dirs : \A e \in dirs[i] : i = 1 /\ e.id = 1 /\ e.name \notin Names
  BY <1>1, <1>2 DEF Entry
<1>4. Way({1}, dirs, cwd)
  BY <1>2 DEF Way
<1>5. CwdRooted
  BY <1>4, CwdRootedIs DEF Rooted
<1> QED
  BY <1>3, <1>5 DEF Ordered, NamesSound

-----------------------------------------------------------------------------
\* What is left after an entry was removed.
LEMMA RemoveDoes ==
  ASSUME TypeOK, Ordered, NEW e \in dirs[cwd], Remove(e)
  PROVE  /\ cwd' = cwd /\ last' = last /\ e.name \in Names /\ e.id > cwd
         /\ DOMAIN dirs' = DOMAIN dirs \ {e.id}
         /\ DOMAIN files' = DOMAIN files \ {e.id}
         /\ \A i \in DOMAIN dirs' : i # cwd => dirs'[i] = dirs[i]
         /\ dirs'[cwd] = dirs[cwd] \ {e}
         /\ \A i \in DOMAIN files' : files'[i] = files[i]
<1> DEFINE ds == [dirs EXCEPT ![cwd] = @ \ {e}]
<1>1. cwd \in DOMAIN dirs /\ cwd' = cwd /\ last' = last /\ e.name \in Names
  BY DEF TypeOK, Remove
<1>2. e.id > cwd /\ e.id \in Nat /\ cwd \in Nat
  BY <1>1, EntryIs DEF Ordered, EntryType
<1>3. DOMAIN ds = DOMAIN dirs /\ ds[cwd] = dirs[cwd] \ {e}
      /\ \A i \in DOMAIN dirs : i # cwd => ds[i] = dirs[i]
  BY <1>1
<1>4. dirs' = Drop(ds, e.id) /\ files' = Drop(files, e.id)
  BY Zenon DEF Remove
<1> HIDE DEF ds
<1>5. /\ DOMAIN dirs' = DOMAIN dirs \ {e.id}
      /\ \A i \in DOMAIN dirs' : dirs'[i] = ds[i]
  BY <1>3, <1>4 DEF Drop, Restrict
<1>6. /\ DOMAIN files' = DOMAIN files \ {e.id}
      /\ \A i \in DOMAIN files' : files'[i] = files[i]
  BY <1>4 DEF Drop, Restrict
<1>7. cwd \in DOMAIN dirs'
  BY <1>1, <1>2, <1>5
<1> QED
  BY <1>1, <1>2, <1>3, <1>5, <1>6, <1>7

LEMMA RemoveKeeps ==
  ASSUME TypeOK, Ordered, NamesSound, NEW e \in dirs[cwd], Remove(e)
  PROVE  TypeOK' /\ Ordered' /\ NamesSound'
<1>1. /\ cwd' = cwd /\ last' = last /\ e.name \in Names /\ e.id > cwd
      /\ DOMAIN dirs' = DOMAIN dirs \ {e.id}
      /\ DOMAIN files' = DOMAIN files \ {e.id}
      /\ \A i \in DOMAIN dirs' : i # cwd => dirs'[i] = dirs[i]
      /\ dirs'[cwd] = dirs[cwd] \ {e}
      /\ \A i \in DOMAIN files' : files'[i] = files[i]
  BY RemoveDoes
<1>2. cwd \in DOMAIN dirs /\ cwd \in Nat /\ cwd \in DOMAIN dirs'
  BY <1>1 DEF TypeOK
<1>3. \A i \in DOMAIN dirs' : i \in DOMAIN dirs /\ dirs'[i] \subseteq dirs[i]
  BY <1>1
<1>4. files' = Drop(files, e.id)
  BY DEF Remove
<1>5. files' \in [DOMAIN files' -> [Blocks -> Contents \cup {NoContent}]]
  BY <1>1, <1>4 DEF TypeOK, Drop, Restrict
<1>6. TypeOK'
  <2>1. \A i \in DOMAIN dirs' : dirs'[i] \subseteq [name : Names \cup {"..", "."}, id : 1 .. last']
    BY <1>1, <1>3 DEF TypeOK
  <2> QED
    BY <1>1, <1>2, <1>5, <2>1 DEF TypeOK
<1>7. Ordered'
  <2>1. ASSUME NEW i \in DOMAIN dirs'
        PROVE  /\ \A f \in dirs'[i] : /\ f.name \in Names => f.id > i
                                      /\ f.name = "." => f.id = i
                                      /\ f.name = ".." => f.id <= i
               /\ \A f, g \in dirs'[i] : f.name = ".." /\ g.name = ".." => f.id = g.id
    BY <1>3 DEF Ordered
  <2> QED
    BY <2>1 DEF Ordered
<1>8. ASSUME NEW i \in DOMAIN dirs', NEW f \in dirs'[i], f.name \in Names
      PROVE  /\ f.id \in DOMAIN dirs' \cup DOMAIN files'
             /\ \A j \in DOMAIN dirs' : \A g \in dirs'[j] :
                  g.name \in Names /\ (g.id = f.id \/ (i = j /\ g.name = f.name))
                    => i = j /\ f = g
             /\ f.id \in DOMAIN dirs' => Entry("..", i) \in dirs'[f.id]
  <2>1. i \in DOMAIN dirs /\ f \in dirs[i]
    BY <1>3
  <2>2. ~(i = cwd /\ f = e)
    BY <1>1
  <2>3. f.id # e.id
    BY <1>1, <1>2, <1>8, <2>1, <2>2 DEF NamesSound
  <2>4. f.id \in DOMAIN dirs' \cup DOMAIN files'
    BY <1>1, <1>8, <2>1, <2>3 DEF NamesSound
  <2>5. \A j \in DOMAIN dirs' : \A g \in dirs'[j] :
          g.name \in Names /\ (g.id = f.id \/ (i = j /\ g.name = f.name)) => i = j /\ f = g
    BY <1>3, <1>8, <2>1 DEF NamesSound
  <2>6. ASSUME f.id \in DOMAIN dirs' PROVE Entry("..", i) \in dirs'[f.id]
    <3>1. Entry("..", i) \in dirs[f.id]
      BY <1>3, <1>8, <2>1, <2>6 DEF NamesSound
    <3>2. Entry("..", i) # e
      BY <1>1, FileTreeAssumption DEF Entry
    <3> QED
      BY <1>1, <2>6, <3>1, <3>2
  <2> QED
    BY <2>4, <2>5, <2>6
<1>9. NamesSound'
  BY <1>8 DEF NamesSound
<1> QED
  BY <1>6, <1>7, <1>9

LEMMA RemoveRooted ==
  ASSUME TypeOK, Ordered, CwdRooted, NEW e \in dirs[cwd], Remove(e)
  PROVE  CwdRooted'
<1>1. PICK way : Way(way, dirs, cwd)
  BY CwdRootedIs DEF Rooted
<1>2. /\ cwd' = cwd /\ e.name \in Names /\ e.id > cwd
      /\ DOMAIN dirs' = DOMAIN dirs \ {e.id}
      /\ \A i \in DOMAIN dirs' : i # cwd => dirs'[i] = dirs[i]
      /\ dirs'[cwd] = dirs[cwd] \ {e}
  BY RemoveDoes
<1>3. cwd \in Nat /\ ".." \notin Names /\ way \subseteq 1 .. cwd /\ way \subseteq DOMAIN dirs
  BY <1>1, FileTreeAssumption DEF Way, TypeOK
<1>4. way \subseteq DOMAIN dirs'
  BY <1>2, <1>3
<1>5. \A i \in way : \A f \in dirs[i] : (i # cwd \/ f.name \notin Names) => f \in dirs'[i]
  BY <1>2, <1>4
<1> QED
  BY <1>1, <1>2, <1>3, <1>4, <1>5, WayKept

-----------------------------------------------------------------------------
\* A new name for what an entry leads to.
LEMMA RenameDoes ==
  ASSUME TypeOK, NEW e \in dirs[cwd], NEW new \in Names, Rename(e, new)
  PROVE  /\ cwd' = cwd /\ last' = last /\ files' = files /\ DOMAIN dirs' = DOMAIN dirs
         /\ e.name \in Names /\ e \in EntryType /\ Entry(new, e.id) \in EntryType
         /\ \A i \in DOMAIN dirs : i # cwd => dirs'[i] = dirs[i]
         /\ dirs'[cwd] = (dirs[cwd] \ {e}) \cup {Entry(new, e.id)}
         /\ \A f \in dirs[cwd] : f.name # new
<1>1. cwd \in DOMAIN dirs
  BY DEF TypeOK
<1>2. e \in EntryType /\ Entry(new, e.id) \in EntryType
  BY <1>1, EntryIs DEF EntryType, Entry
<1>3. dirs' = [dirs EXCEPT ![cwd] = (@ \ {e}) \cup {Entry(new, e.id)}]
  BY DEF Rename
<1> QED
  BY <1>1, <1>2, <1>3 DEF Rename, InUse

LEMMA RenameKeeps ==
  ASSUME TypeOK, Ordered, NamesSound, NEW e \in dirs[cwd], NEW new \in Names, Rename(e, new)
  PROVE  TypeOK' /\ Ordered' /\ NamesSound'
<1> DEFINE r == Entry(new, e.id)
<1>1. /\ cwd' = cwd /\ last' = last /\ files' = files /\ DOMAIN dirs' = DOMAIN dirs
      /\ e.name \in Names /\ e \in EntryType /\ r \in EntryType
      /\ \A i \in DOMAIN dirs : i # cwd => dirs'[i] = dirs[i]
      /\ dirs'[cwd] = (dirs[cwd] \ {e}) \cup {r}
      /\ \A f \in dirs[cwd] : f.name # new
  BY RenameDoes
<1>2. cwd \in DOMAIN dirs /\ r.name = new /\ r.id = e.id
  BY DEF TypeOK, Entry
<1>3. ".." \notin Names /\ "." \notin Names
  BY FileTreeAssumption
<1> HIDE DEF r
<1>4. ASSUME NEW i \in DOMAIN dirs', NEW f \in dirs'[i]
      PROVE  i \in DOMAIN dirs /\ ((f \in dirs[i] /\ ~(i = cwd /\ f = e)) \/ (i = cwd /\ f = r))
  BY <1>1
<1>5. TypeOK'
  <2>1. \A i \in DOMAIN dirs' : dirs'[i] \subseteq [name : Names \cup {"..", "."}, id : 1 .. last']
    BY <1>1, <1>4 DEF TypeOK, EntryType
  <2> QED
    BY <1>1, <1>2, <2>1 DEF TypeOK
<1>6. Ordered'
  <2>1. e.id > cwd
    BY <1>1, <1>2 DEF Ordered
  <2>2. ASSUME NEW i \in DOMAIN dirs'
        PROVE  /\ \A f \in dirs'[i] : /\ f.name \in Names => f.id > i
                                      /\ f.name = "." => f.id = i
                                      /\ f.name = ".." => f.id <= i
               /\ \A f, g \in dirs'[i] : f.name = ".." /\ g.name = ".." => f.id = g.id
    BY <1>2, <1>3, <1>4, <2>1 DEF Ordered
  <2> QED
    BY <2>2 DEF Ordered
<1>7. ASSUME NEW i \in DOMAIN dirs', NEW f \in dirs'[i], f.name \in Names
      PROVE  /\ f.id \in DOMAIN dirs' \cup DOMAIN files'
             /\ \A j \in DOMAIN dirs' : \A g \in dirs'[j] :
                  g.name \in Names /\ (g.id = f.id \/ (i = j /\ g.name = f.name))
                    => i = j /\ f = g
             /\ f.id \in DOMAIN dirs' => Entry("..", i) \in dirs'[f.id]
  <2>1. PICK f0 \in dirs[i] : /\ i \in DOMAIN dirs /\ f0.name \in Names /\ f0.id = f.id
                              /\ \/ f = f0 /\ ~(i = cwd /\ f = e)
                                 \/ i = cwd /\ f0 = e /\ f = r
    BY <1>1, <1>2, <1>4, <1>7
  <2>2. f.id \in DOMAIN dirs' \cup DOMAIN files'
    BY <1>1, <2>1 DEF NamesSound
  <2>3. ASSUME NEW j \in DOMAIN dirs', NEW g \in dirs'[j], g.name \in Names,
               g.id = f.id \/ (i = j /\ g.name = f.name)
        PROVE  i = j /\ f = g
    <3>1. PICK g0 \in dirs[j] : /\ j \in DOMAIN dirs /\ g0.name \in Names /\ g0.id = g.id
                                /\ \/ g = g0 /\ ~(j = cwd /\ g = e)
                                   \/ j = cwd /\ g0 = e /\ g = r
      BY <1>1, <1>2, <1>4, <2>3
    <3>2. CASE g.id = f.id
      <4>1. i = j /\ f0 = g0
        BY <2>1, <3>1, <3>2 DEF NamesSound
      <4> QED
        BY <2>1, <3>1, <4>1
    <3>3. CASE i = j /\ g.name = f.name
      BY <1>1, <1>2, <2>1, <3>1, <3>3 DEF NamesSound
    <3> QED
      BY <2>3, <3>2, <3>3
  <2>4. ASSUME f.id \in DOMAIN dirs' PROVE Entry("..", i) \in dirs'[f.id]
    <3>1. Entry("..", i) \in dirs[f.id]
      BY <1>1, <2>1, <2>4 DEF NamesSound
    <3>2. Entry("..", i) # e
      BY <1>1, <1>3 DEF Entry
    <3> QED
      BY <1>1, <2>4, <3>1, <3>2
  <2> QED
    BY <2>2, <2>3, <2>4
<1>8. NamesSound'
  BY <1>7 DEF NamesSound
<1> QED
  BY <1>5, <1>6, <1>8

LEMMA RenameRooted ==
  ASSUME TypeOK, CwdRooted, NEW e \in dirs[cwd], NEW new \in Names, Rename(e, new)
  PROVE  CwdRooted'
<1>1. PICK way : Way(way, dirs, cwd)
  BY CwdRootedIs DEF Rooted
<1>2. /\ cwd' = cwd /\ DOMAIN dirs' = DOMAIN dirs /\ e.name \in Names
      /\ \A i \in DOMAIN dirs : i # cwd => dirs'[i] = dirs[i]
      /\ dirs[cwd] \ {e} \subseteq dirs'[cwd]
  BY RenameDoes
<1>3. cwd \in Nat /\ ".." \notin Names /\ way \subseteq DOMAIN dirs
  BY <1>1, FileTreeAssumption DEF Way, TypeOK
<1>4. \A i \in way : \A f \in dirs[i] : (i # cwd \/ f.name \notin Names) => f \in dirs'[i]
  BY <1>2, <1>3
<1> QED
  BY <1>1, <1>2, <1>3, <1>4, WayKept

-----------------------------------------------------------------------------
\* Writes leave the tree alone.
LEMMA WriteKeeps ==
  ASSUME TypeOK, NEW e,
         LoseBlocks(e) \/ \E b \in Blocks, d \in Contents : Write(e, b, d)
  PROVE  /\ TypeOK' /\ UNCHANGED <<dirs, cwd, last>> /\ DOMAIN files' = DOMAIN files
<1>1. UNCHANGED <<dirs, cwd, last>> /\ e.id \in DOMAIN files
  BY DEF Write, LoseBlocks
<1>2. ASSUME NEW b \in Blocks, NEW d \in Contents, Write(e, b, d)
      PROVE  TypeOK' /\ DOMAIN files' = DOMAIN files
  <2>1. files' = [files EXCEPT ![e.id] = [files[e.id] EXCEPT ![b] = d]]
    BY <1>2 DEF Write
  <2>2. [files[e.id] EXCEPT ![b] = d] \in [Blocks -> Contents \cup {NoContent}]
    BY <1>1 DEF TypeOK
  <2> QED
    BY <1>1, <2>1, <2>2 DEF TypeOK
<1>3. CASE LoseBlocks(e)
  <2>1. files' = [files EXCEPT ![e.id] = EmptyFile]
    BY <1>3 DEF LoseBlocks
  <2>2. EmptyFile \in [Blocks -> Contents \cup {NoContent}]
    BY DEF EmptyFile
  <2> QED
    BY <1>1, <2>1, <2>2 DEF TypeOK
<1> QED
  BY <1>1, <1>2, <1>3

LEMMA SameNames ==
  ASSUME Ordered, NamesSound, UNCHANGED dirs, DOMAIN files' = DOMAIN files
  PROVE  Ordered' /\ NamesSound'
<1>1. Ordered'
  BY DEF Ordered
<1>2. ASSUME NEW i \in DOMAIN dirs', NEW e \in dirs'[i], e.name \in Names
      PROVE  /\ e.id \in DOMAIN dirs' \cup DOMAIN files'
             /\ \A j \in DOMAIN dirs' : \A f \in dirs'[j] :
                  f.name \in Names /\ (f.id = e.id \/ (i = j /\ f.name = e.name))
                    => i = j /\ e = f
             /\ e.id \in DOMAIN dirs' => Entry("..", i) \in dirs'[e.id]
  BY <1>2 DEF NamesSound
<1> QED
  BY <1>1, <1>2 DEF NamesSound

-----------------------------------------------------------------------------
\* Entering a directory: the way up grows by it, stays, or is cut above it.
LEMMA EnterRooted ==
  ASSUME TypeOK, Ordered, NamesSound, CwdRooted, NEW e \in dirs[cwd], Enter(e)
  PROVE  CwdRooted'
<1>1. PICK way : Way(way, dirs, cwd)
  BY CwdRootedIs DEF Rooted
<1>2. cwd' = e.id /\ dirs' = dirs /\ e.id \in DOMAIN dirs
  BY DEF Enter
<1>3. cwd \in DOMAIN dirs /\ cwd \in Nat /\ cwd >= 1 /\ e.id \in Nat /\ e.id >= 1
  BY <1>2 DEF TypeOK
<1>4. e.name \in Names \cup {"..", "."} /\ e = Entry(e.name, e.id)
  BY <1>3, EntryIs DEF EntryType
<1>5. /\ way \subseteq 1 .. cwd /\ {1, cwd} \subseteq way /\ way \subseteq DOMAIN dirs
      /\ \A i \in way \ {1} : \E p \in way :
           /\ p < i /\ Entry("..", p) \in dirs[i]
           /\ \E name \in Names : Entry(name, i) \in dirs[p]
  BY <1>1 DEF Way
<1>6. \E w : Way(w, dirs, e.id)
  <2>1. CASE e.name \in Names
    <3>1. e.id > cwd
      BY <1>3, <2>1 DEF Ordered
    <3>2. Entry("..", cwd) \in dirs[e.id]
      BY <1>2, <1>3, <2>1 DEF NamesSound
    <3>3. way \cup {e.id} \subseteq 1 .. e.id /\ {1, e.id} \subseteq way \cup {e.id}
      <4>1. \A i \in way : i \in 1 .. e.id
        BY <1>3, <1>5, <3>1
      <4>2. e.id \in 1 .. e.id /\ 1 \in way
        BY <1>3, <1>5
      <4> QED
        BY <4>1, <4>2
    <3>4. ASSUME NEW i \in (way \cup {e.id}) \ {1}
          PROVE  \E p \in way \cup {e.id} :
                   /\ p < i /\ Entry("..", p) \in dirs[i]
                   /\ \E name \in Names : Entry(name, i) \in dirs[p]
      <4>1. CASE i = e.id
        <5>1. cwd \in way /\ cwd < i /\ Entry("..", cwd) \in dirs[i]
          BY <1>3, <1>5, <3>1, <3>2, <4>1
        <5>2. Entry(e.name, i) \in dirs[cwd]
          BY <1>4, <4>1
        <5> QED
          BY <2>1, <5>1, <5>2
      <4>2. CASE i # e.id
        <5>1. i \in way \ {1}
          BY <3>4, <4>2
        <5> QED
          BY <1>5, <5>1
      <4> QED
        BY <4>1, <4>2
    <3>5. Way(way \cup {e.id}, dirs, e.id)
      BY <1>2, <1>5, <3>3, <3>4 DEF Way
    <3> QED
      BY <3>5
  <2>2. CASE e.name = "."
    BY <1>1, <1>3, <2>2 DEF Ordered
  <2>3. CASE e.name = ".." /\ cwd = 1
    <3>1. e.id = 1
      BY <1>3, <2>3 DEF Ordered
    <3> QED
      BY <1>1, <2>3, <3>1
  <2>4. CASE e.name = ".." /\ cwd # 1
    <3>1. PICK p \in way : p < cwd /\ Entry("..", p) \in dirs[cwd]
      BY <1>5, <2>4
    <3>2. e.id = p
      BY <1>3, <2>4, <3>1 DEF Ordered, Entry
    <3> DEFINE w == way \cap (1 .. p)
    <3>3. w \subseteq 1 .. p /\ {1, p} \subseteq w /\ w \subseteq DOMAIN dirs
      BY <1>3, <1>5, <3>1, <3>2
    <3>4. ASSUME NEW i \in w \ {1}
          PROVE  \E q \in w : /\ q < i /\ Entry("..", q) \in dirs[i]
                              /\ \E name \in Names : Entry(name, i) \in dirs[q]
      <4>1. PICK q \in way : /\ q < i /\ Entry("..", q) \in dirs[i]
                             /\ \E name \in Names : Entry(name, i) \in dirs[q]
        BY <1>5, <3>4
      <4>2. q \in 1 .. p
        BY <1>3, <1>5, <3>2, <3>4, <4>1
      <4> QED
        BY <4>1, <4>2
    <3>5. Way(w, dirs, p)
      BY <3>3, <3>4 DEF Way
    <3> QED
      BY <3>2, <3>5
  <2> QED
    BY <1>4, <2>1, <2>2, <2>3, <2>4
<1>7. Rooted'
  BY <1>2, <1>6 DEF Rooted
<1>8. CwdRooted' <=> Rooted'
  BY CwdRootedIs, PTL
<1> QED
  BY <1>7, <1>8

\* Nothing that CwdRooted reads has changed.
LEMMA SameRooted ==
  ASSUME CwdRooted, UNCHANGED <<dirs, cwd>>
  PROVE  CwdRooted'
BY DEF CwdRooted

-----------------------------------------------------------------------------
\* The invariant holds at first and through every operation.
LEMMA TreeInvInit == Init => TreeInv
BY InitType, InitSound DEF TreeInv

LEMMA TreeInvStep == TreeInv /\ [Next]_vars => TreeInv'
<1> SUFFICES ASSUME TreeInv, [Next]_vars PROVE TreeInv'
  OBVIOUS
<1> USE DEF TreeInv
<1>1. ASSUME UNCHANGED vars PROVE TreeInv'
  <2>1. UNCHANGED <<dirs, files, cwd, last>>
    BY <1>1 DEF vars
  <2>2. TypeOK'
    BY <2>1 DEF TypeOK
  <2> QED
    BY <2>1, <2>2, SameNames, SameRooted
<1>2. ASSUME NEW name \in Names, Mkdir(name) \/ Create(name) PROVE TreeInv'
  <2>1. TypeOK' /\ Makes(name)
    BY <1>2, MkdirMakes, CreateMakes
  <2> QED
    BY <2>1, MakesOrdered, MakesNames, MakesRooted
<1>3. ASSUME NEW e \in dirs[cwd], Enter(e) PROVE TreeInv'
  <2>1. UNCHANGED <<dirs, files, last>> /\ cwd' = e.id /\ e.id \in DOMAIN dirs
    BY <1>3 DEF Enter
  <2>2. TypeOK'
    BY <2>1 DEF TypeOK
  <2> QED
    BY <1>3, <2>1, <2>2, SameNames, EnterRooted
<1>4. ASSUME NEW e \in dirs[cwd], Remove(e) PROVE TreeInv'
  BY <1>4, RemoveKeeps, RemoveRooted
<1>5. ASSUME NEW e \in dirs[cwd], NEW new \in Names, Rename(e, new) PROVE TreeInv'
  BY <1>5, RenameKeeps, RenameRooted
<1>6. ASSUME NEW e \in dirs[cwd],
             LoseBlocks(e) \/ \E b \in Blocks, d \in Contents : Write(e, b, d)
      PROVE  TreeInv'
  <2>1. TypeOK' /\ UNCHANGED <<dirs, cwd, last>> /\ DOMAIN files' = DOMAIN files
    BY <1>6, WriteKeeps
  <2> QED
    BY <2>1, SameNames, SameRooted
<1> QED
  BY <1>1, <1>2, <1>3, <1>4, <1>5, <1>6 DEF Next, Look

LEMMA TreeInvAlways == Spec => []TreeInv
BY TreeInvInit, TreeInvStep, PTL DEF Spec

\* The numbers, entries and blocks of the tree have their types, and the current
\* directory is one that exists.
THEOREM TreeTyped == Spec => []TypeOK
<1>1. TreeInv => TypeOK
  BY DEF TreeInv
<1> QED
  BY <1>1, TreeInvAlways, PTL

\* Whatever lfs_rmdir leaves behind and lfs_mkdir makes without a name, no name
\* dangles, nothing has two names, and ".." leads to where a directory is listed.
THEOREM NamesNeverDangle == Spec => []NamesSound
<1>1. TreeInv => NamesSound
  BY DEF TreeInv
<1> QED
  BY <1>1, TreeInvAlways, PTL

\* lfs_rmdir looks neither for entries nor for the current directory, and yet the
\* way from cur_inode up to the root is never broken.
THEOREM CurrentDirectoryRooted == Spec => []CwdRooted
<1>1. TreeInv => CwdRooted
  BY DEF TreeInv
<1> QED
  BY <1>1, TreeInvAlways, PTL
=============================================================================
