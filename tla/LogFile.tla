------------------------------ MODULE LogFile ------------------------------
(***************************************************************************)
(* The log file, block by block, and the 32-bit addresses of segments that *)
(* src/directory.c and src/lfs.c compute.  Module Container takes an       *)
(* address as the container and segment that it decodes to, and a place in *)
(* the log file for every container; this module says when that is right.  *)
(*                                                                         *)
(* Addresses are multiples of 4K and are counted in blocks here: 2^32      *)
(* bytes are 8 * Wrap blocks.  A segment is told apart by where it was put *)
(* first, the container and the place in it.                               *)
(***************************************************************************)
EXTENDS Integers

CONSTANTS Wrap,      \* containers that 32 bits can address (131072)
          Outcomes,  \* numbers of blocks that a pwrite may write
          MaxId      \* bounds the containers that are begun

SegNum == 8  \* c_container_seg_num

ASSUME LogFileAssumption ==
  /\ Wrap \in Nat \ {0} /\ MaxId \in Nat
  /\ Outcomes \subseteq 0 .. SegNum

VARIABLES id, off,  \* container_id and seg_offset of buf_container
          mem,      \* the segments of buf_container
          file,     \* the blocks of the log file
          lost      \* history: containers that pwrite did not write whole

vars == <<id, off, mem, file, lost>>

-----------------------------------------------------------------------------
Addresses == 0 .. SegNum * Wrap - 1

\* Mutant of Encode: the first block of the file is not counted.
EncodeNoBlock(c, s) == (SegNum * c + s) % (SegNum * Wrap)

\* The address of segment s of container c.
Encode(c, s) == (SegNum * c + s + 1) % (SegNum * Wrap)

\* Where container_write and container_read find a container in the file.
Place(c) == Encode(c, 0)

\* The container and the segment that an address decodes to.
CidOf(a) == ((a - 1) % (SegNum * Wrap)) \div SegNum
SegOf(a) == ((a - 1) % (SegNum * Wrap)) % SegNum

Here(c, s) == [cid |-> c, seg |-> s]
Nothing == Here(0, -1)

\* What a look-up at an address finds: nothing at address 0, which stands for "no
\* inode" and "no recipe", else a segment in memory or in the log file.
Fetch(a) ==
  IF a = 0 THEN Nothing
  ELSE IF CidOf(a) = id THEN mem[SegOf(a)]
  ELSE file[Place(CidOf(a)) + SegOf(a)]

-----------------------------------------------------------------------------
Zeroed(c) == [s \in 0 .. SegNum - 1 |-> IF s = 0 THEN Here(c, 0) ELSE Nothing]

\* lfs_init: the log file of zeros, and container 0 with the root directory.
Init ==
  /\ id = 0 /\ off = 3 /\ lost = {}
  /\ mem = [s \in 0 .. SegNum - 1 |-> IF s < 3 THEN Here(0, s) ELSE Nothing]
  /\ file = [b \in 0 .. SegNum * Wrap |-> Nothing]

\* pwrite of a container at its place, n blocks of it.
PWrite(c, segs, n) ==
  [b \in DOMAIN file |->
     IF b \in Place(c) .. Place(c) + n - 1 THEN segs[b - Place(c)] ELSE file[b]]

\* container_add_seg: fill one segment that is not the last.
Add ==
  /\ off + 1 < SegNum /\ off' = off + 1
  /\ mem' = [mem EXCEPT ![off] = Here(id, off)]
  /\ UNCHANGED <<id, file, lost>>

\* Mutant of AddLast: seg_offset is not reset.
AddLastNoReset ==
  /\ off + 1 = SegNum /\ off' = off + 1
  /\ id < MaxId /\ id' = id + 1
  /\ mem' = Zeroed(id + 1)
  /\ \E n \in Outcomes :
       /\ file' = PWrite(id, [mem EXCEPT ![off] = Here(id, off)], n)
       /\ lost' = IF n = SegNum THEN lost ELSE lost \cup {id}

\* container_add_seg of the last segment, with container_write: the result of
\* pwrite is not looked at.
AddLast ==
  /\ off + 1 = SegNum /\ off' = 1
  /\ id < MaxId /\ id' = id + 1
  /\ mem' = Zeroed(id + 1)
  /\ \E n \in Outcomes :
       /\ file' = PWrite(id, [mem EXCEPT ![off] = Here(id, off)], n)
       /\ lost' = IF n = SegNum THEN lost ELSE lost \cup {id}

Next == Add \/ AddLast

Spec == Init /\ [][Next]_vars

-----------------------------------------------------------------------------
Stamps == [cid : 0 .. MaxId, seg : -1 .. SegNum - 1]

\* The type invariant.
TypeOK ==
  /\ id \in 0 .. MaxId /\ off \in 1 .. SegNum - 1
  /\ mem \in [0 .. SegNum - 1 -> Stamps]
  /\ file \in [0 .. SegNum * Wrap -> Stamps]
  /\ lost \subseteq 0 .. MaxId

\* The segments that container_add_seg has filled.
Filled == {w \in [cid : 0 .. id, seg : 1 .. SegNum - 1] : w.cid = id => w.seg < off}

\* The address that was computed for a segment leads back to it, for as long as
\* the file system runs, unless pwrite did not write its container: no other
\* container is ever written over it, and a failed pwrite spoils no other.
Leads == \A w \in Filled : w.cid \notin lost => Fetch(Encode(w.cid, w.seg)) = w
=============================================================================
