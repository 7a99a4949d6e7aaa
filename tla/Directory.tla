----------------------------- MODULE Directory -----------------------------
(***************************************************************************)
(* Directory contents in memory: the dir_t operations of src/directory.c   *)
(* on a sequence of records [name, id].                                    *)
(***************************************************************************)
EXTENDS Integers, Sequences, SequencesExt

CONSTANTS Names,       \* file names other than "." and ".."
          RecPerSeg    \* NUM_OF_RECORD_PER_SEG (15)

ASSUME DirectoryAssumption ==
  /\ RecPerSeg \in Nat /\ RecPerSeg >= 2
  /\ Names \cap {"..", ".", ""} = {}

\* The empty name is that of a zeroed record.
AllNames == Names \cup {"..", ".", ""}
Hole == [name |-> "", id |-> 0]

Matches(dir, name) == {i \in DOMAIN dir : dir[i].name = name}

\* get_inode_id_from_filename: the id in the first record of that name.
HasName(dir, name) == Matches(dir, name) # {}
IdOf(dir, name) == dir[Min(Matches(dir, name))].id

\* dir_add_entry: a name that is already there is refused, and no caller looks
\* at the result.
AddEntry(dir, name, id) ==
  IF HasName(dir, name) THEN dir
                        ELSE Append(dir, [name |-> name, id |-> id])

\* dir_change_entry: the first record of that name; the new name is not looked
\* for.
ChangeEntry(dir, old, new) ==
  [dir EXCEPT ![Min(Matches(dir, old))].name = new]

\* Mutant of RemoveEntry: the zeroed record is not closed up.
RemoveEntryOpen(dir, name) ==
  [i \in DOMAIN dir |-> IF i \in Matches(dir, name) THEN Hole ELSE dir[i]]

\* dir_remove_entry: every record of that name is zeroed, then the last of them
\* is closed up.
RemoveEntry(dir, name) ==
  LET gone    == Matches(dir, name)
      cleared == [i \in DOMAIN dir |-> IF i \in gone THEN Hole ELSE dir[i]]
  IN  [i \in 1 .. Len(dir) - 1 |->
         IF i < Max(gone) THEN cleared[i] ELSE cleared[i + 1]]

\* open_cur_dir on the records of one segment: it counts the records that have
\* a name and takes that many from the front.
OpenRecords(recs) ==
  SubSeq(recs, 1, Cardinality({i \in DOMAIN recs : recs[i].name # ""}))
=============================================================================
