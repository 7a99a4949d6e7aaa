--------------------------- MODULE LogFileProofs ---------------------------
(***************************************************************************)
(* Where 32-bit addresses lead, for every size of the log that they cover. *)
(***************************************************************************)
EXTENDS LogFile, TLAPS

\* A number that is in range is its own remainder.
LEMMA SmallMod ==
  ASSUME NEW n \in Nat, NEW x \in 0 .. n - 1
  PROVE  x % n = x
  BY Z3T(30)

\* Below the last container that 32 bits can address, nothing wraps around.
LEMMA EncodeSmall ==
  ASSUME NEW c \in Nat, c + 1 < Wrap, NEW s \in 0 .. SegNum - 1
  PROVE  /\ Encode(c, s) = 8 * c + s + 1
         /\ Place(c) = 8 * c + 1
         /\ Encode(c, s) # 0
<1> DEFINE n == 8 * Wrap
<1>1. n \in Nat /\ c \in Nat
  BY LogFileAssumption
<1>2. 8 * c + s + 1 \in 0 .. n - 1 /\ 8 * c + 0 + 1 \in 0 .. n - 1
  BY LogFileAssumption DEF SegNum
<1>3. (8 * c + s + 1) % n = 8 * c + s + 1 /\ (8 * c + 0 + 1) % n = 8 * c + 0 + 1
  BY <1>1, <1>2, SmallMod
<1> QED
  BY <1>2, <1>3 DEF Encode, Place, SegNum

\* Addresses decode to what they encode (dir_commit_changes, lfs_create and
\* lfs_write on the one side, open_cur_dir, get_inode_from_inode_id, lfs_read and
\* lfs_write on the other), if they are below the last container.
THEOREM DecodeInverts ==
  ASSUME NEW c \in Nat, c + 1 < Wrap, NEW s \in 0 .. SegNum - 1
  PROVE  CidOf(Encode(c, s)) = c /\ SegOf(Encode(c, s)) = s
<1> DEFINE n == 8 * Wrap
           a == Encode(c, s) - 1
<1>1. n \in Nat /\ a = 8 * c + s /\ a \in 0 .. n - 1
  BY EncodeSmall, LogFileAssumption DEF SegNum
<1>2. a % n = a
  BY <1>1, SmallMod
<1> HIDE DEF a
<1>3. a \div 8 = c /\ a % 8 = s
  BY <1>1 DEF SegNum
<1> QED
  BY <1>2, <1>3 DEF CidOf, SegOf, SegNum, a

-----------------------------------------------------------------------------
\* What is in memory and in the log file.
MemRight == \A s \in 0 .. off - 1 : mem[s] = Here(id, s)
FileRight ==
  \A c \in 0 .. id - 1, s \in 0 .. SegNum - 1 :
    c \notin lost => file[Place(c) + s] = Here(c, s)
LogInv == TypeOK /\ MemRight /\ FileRight

\* lfs_init establishes it.
LEMMA InitInv == Init => LogInv
<1> SUFFICES ASSUME Init PROVE LogInv
  OBVIOUS
<1>1. Nothing \in Stamps /\ \A s \in 0 .. 2 : Here(0, s) \in Stamps
  BY LogFileAssumption DEF Stamps, Nothing, Here, SegNum
<1>2. TypeOK
  BY <1>1, LogFileAssumption DEF Init, TypeOK, SegNum
<1>3. MemRight
  BY DEF Init, MemRight, SegNum
<1>4. FileRight
  BY DEF Init, FileRight
<1> QED
  BY <1>2, <1>3, <1>4 DEF LogInv

\* Filling a segment that is not the last.
LEMMA AddInv ==
  ASSUME LogInv, Add
  PROVE  LogInv'
<1>1. Here(id, off) \in Stamps
  BY LogFileAssumption DEF LogInv, TypeOK, Stamps, Here, SegNum
<1>2. TypeOK'
  BY <1>1 DEF LogInv, TypeOK, Add, SegNum
<1>3. MemRight'
  BY DEF LogInv, TypeOK, MemRight, Add, SegNum
<1>4. FileRight'
  BY DEF LogInv, FileRight, Add
<1> QED
  BY <1>2, <1>3, <1>4 DEF LogInv

\* Filling the last one, and writing the container out, to a place that it shares
\* with no other container.
LEMMA AddLastInv ==
  ASSUME MaxId + 1 < Wrap, LogInv, AddLast
  PROVE  LogInv'
<1> DEFINE segs == [mem EXCEPT ![off] = Here(id, off)]
<1>1. /\ id \in Nat /\ id < MaxId /\ id' = id + 1 /\ MaxId \in Nat /\ Wrap \in Nat
      /\ off = 7 /\ off' = 1 /\ mem' = Zeroed(id + 1)
  BY LogFileAssumption DEF LogInv, TypeOK, AddLast, SegNum
<1>2. PICK n \in Outcomes :
         /\ file' = PWrite(id, segs, n)
         /\ lost' = IF n = SegNum THEN lost ELSE lost \cup {id}
  BY DEF AddLast
<1>3. n \in 0 .. 8 /\ Nothing \in Stamps
  BY LogFileAssumption DEF SegNum, Stamps, Nothing, Here
<1>4. \A c \in 0 .. id : c \in Nat /\ c + 1 < Wrap /\ Place(c) = 8 * c + 1
  BY <1>1, EncodeSmall DEF SegNum
<1>5. segs \in [0 .. 7 -> Stamps]
  <2>1. Here(id, off) \in Stamps
    BY <1>1 DEF Stamps, Here, SegNum
  <2> QED
    BY <2>1 DEF LogInv, TypeOK, SegNum
<1>6. \A s \in 0 .. 7 : segs[s] = Here(id, s)
  BY <1>1 DEF LogInv, TypeOK, MemRight, SegNum
<1>7. /\ file \in [0 .. 8 * Wrap -> Stamps]
      /\ file' = [b \in 0 .. 8 * Wrap |->
                    IF b \in 8 * id + 1 .. 8 * id + n THEN segs[b - (8 * id + 1)]
                                                      ELSE file[b]]
  <2>1. file \in [0 .. 8 * Wrap -> Stamps] /\ DOMAIN file = 0 .. 8 * Wrap
    BY DEF LogInv, TypeOK, SegNum
  <2>2. Place(id) = 8 * id + 1 /\ Place(id) + n - 1 = 8 * id + n
    BY <1>1, <1>3, <1>4
  <2> QED
    BY <1>2, <2>1, <2>2 DEF PWrite
<1> HIDE DEF segs
<1>8. TypeOK'
  <2>1. mem' \in [0 .. SegNum - 1 -> Stamps]
    <3>1. Here(id + 1, 0) \in Stamps
      BY <1>1 DEF Stamps, Here, SegNum
    <3> QED
      BY <1>1, <1>3, <3>1 DEF Zeroed
  <2>2. file' \in [0 .. SegNum * Wrap -> Stamps]
    <3>1. ASSUME NEW b \in 8 * id + 1 .. 8 * id + n PROVE segs[b - (8 * id + 1)] \in Stamps
      BY <1>1, <1>3, <1>5
    <3> QED
      BY <1>7, <3>1 DEF SegNum
  <2>3. lost' \subseteq 0 .. MaxId
    BY <1>1, <1>2 DEF LogInv, TypeOK
  <2> QED
    BY <1>1, <2>1, <2>2, <2>3 DEF TypeOK, SegNum
<1>9. MemRight'
  BY <1>1 DEF MemRight, Zeroed, SegNum
<1>10. FileRight'
  <2> SUFFICES ASSUME NEW c \in 0 .. id, NEW s \in 0 .. 7, c \notin lost'
               PROVE  file'[Place(c) + s] = Here(c, s)
    BY <1>1 DEF FileRight, SegNum
  <2>1. Place(c) = 8 * c + 1 /\ 8 * c + 1 + s \in 0 .. 8 * Wrap
    BY <1>1, <1>4
  <2>2. CASE c = id
    <3>1. n = 8
      BY <1>2, <2>2 DEF SegNum
    <3>2. file'[8 * id + 1 + s] = segs[s]
      <4>1. 8 * id + 1 + s \in 8 * id + 1 .. 8 * id + n
        BY <1>1, <3>1
      <4>2. 8 * id + 1 + s - (8 * id + 1) = s
        BY <1>1
      <4> QED
        BY <1>7, <2>1, <2>2, <4>1, <4>2
    <3> QED
      BY <1>6, <2>1, <2>2, <3>2
  <2>3. CASE c < id
    <3>1. c \in 0 .. id - 1 /\ c \notin lost
      BY <1>1, <1>2, <2>3
    <3>2. file[8 * c + 1 + s] = Here(c, s)
      BY <2>1, <3>1 DEF LogInv, FileRight, SegNum
    <3>3. 8 * c + 1 + s \notin 8 * id + 1 .. 8 * id + n
      BY <1>1, <2>3
    <3> QED
      BY <1>7, <2>1, <3>2, <3>3
  <2> QED
    BY <1>1, <2>2, <2>3
<1> QED
  BY <1>8, <1>9, <1>10 DEF LogInv

\* The invariant of the log file, if it is not begun beyond the addresses.
LEMMA LogFileInv ==
  ASSUME MaxId + 1 < Wrap
  PROVE  Spec => []LogInv
<1>1. LogInv /\ [Next]_vars => LogInv'
  <2>1. ASSUME LogInv, UNCHANGED vars PROVE LogInv'
    BY <2>1 DEF LogInv, TypeOK, MemRight, FileRight, vars
  <2> QED
    BY <2>1, AddInv, AddLastInv DEF Next
<1> QED
  BY <1>1, InitInv, PTL DEF Spec

\* The blocks of the log file and of buf_container, and its seg_offset, are what
\* they are declared to be.
THEOREM LogFileTyped ==
  ASSUME MaxId + 1 < Wrap
  PROVE  Spec => []TypeOK
<1>1. LogInv => TypeOK
  BY DEF LogInv
<1> QED
  BY <1>1, LogFileInv, PTL

\* As long as the log stays below the last container that 32 bits can address, the
\* address of a segment leads back to it, unless pwrite did not write its
\* container; a failed pwrite spoils no other container.
THEOREM AddressesLead ==
  ASSUME MaxId + 1 < Wrap
  PROVE  Spec => []Leads
<1>1. LogInv => Leads
  <2> SUFFICES ASSUME LogInv, NEW w \in Filled, w.cid \notin lost
               PROVE  Fetch(Encode(w.cid, w.seg)) = w
    BY DEF Leads
  <2>1. /\ w \in [cid : 0 .. id, seg : 1 .. 7] /\ id \in Nat /\ id <= MaxId
        /\ w.cid = id => w.seg < off
    BY LogFileAssumption DEF Filled, LogInv, TypeOK, SegNum
  <2>2. w.cid \in Nat /\ w.cid + 1 < Wrap /\ w.seg \in 0 .. SegNum - 1
    BY <2>1, LogFileAssumption DEF SegNum
  <2>3. /\ Encode(w.cid, w.seg) # 0
        /\ CidOf(Encode(w.cid, w.seg)) = w.cid /\ SegOf(Encode(w.cid, w.seg)) = w.seg
    BY <2>2, EncodeSmall, DecodeInverts
  <2>4. Here(w.cid, w.seg) = w
    BY <2>1 DEF Here
  <2>5. CASE w.cid = id
    <3>1. mem[w.seg] = Here(id, w.seg)
      BY <2>1, <2>5 DEF LogInv, TypeOK, MemRight
    <3> QED
      BY <2>3, <2>4, <2>5, <3>1 DEF Fetch
  <2>6. CASE w.cid # id
    <3>1. file[Place(w.cid) + w.seg] = Here(w.cid, w.seg)
      BY <2>1, <2>2, <2>6 DEF LogInv, FileRight
    <3> QED
      BY <2>3, <2>4, <2>6, <3>1 DEF Fetch
  <2> QED
    BY <2>5, <2>6
<1> QED
  BY <1>1, LogFileInv, PTL
=============================================================================
