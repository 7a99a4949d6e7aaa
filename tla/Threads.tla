------------------------------ MODULE Threads ------------------------------
(***************************************************************************)
(* Handlers of src/lfs.c in several threads.  main calls fuse_main, which  *)
(* starts a thread for every request that arrives while others are served  *)
(* unless the option -s is given, and nothing in the program locks.        *)
(*                                                                         *)
(* Three calls, a step for every statement that touches shared memory, two *)
(* for an increment: what lfs_create does for the inode it makes, what     *)
(* lfs_write does for a block, and get_inode_from_inode_id.  A call of     *)
(* memcpy, memset, pread, pwrite, HASH_FIND or HASH_ADD is one step, and   *)
(* so is an address that is computed.  The segments for directories and    *)
(* recipes are added by the same calls of container_add_seg and left out,  *)
(* as is the header.                                                       *)
(***************************************************************************)
EXTENDS Integers, FiniteSetsExt

CONSTANTS Mutators,      \* threads that serve lfs_create and lfs_write
          Lookers,       \* threads that look inodes up
          Data,          \* contents of a block
          SegNum,        \* c_container_seg_num = c_container_blk_num
          MaxInode,      \* bounds nInode
          MaxContainer   \* bounds buf.id

ASSUME ThreadsAssumption ==
  /\ Mutators \cap Lookers = {}
  /\ SegNum \in Nat /\ SegNum >= 4
  /\ MaxInode \in Nat \ {0} /\ MaxContainer \in Nat \ {0}

VARIABLES buf, next,     \* buf_container and next_container_id
          cur,           \* cur_container
          disk,          \* the log file: container id -> segments, if written
          imap, nInode,  \* imap->records, n_inode
          ns,            \* the contents in lfs_namespace
          pc, my,        \* where a thread is, and its local variables
          made           \* history: files whose lfs_create has returned

vars == <<buf, next, cur, disk, imap, nInode, ns, pc, my, made>>

-----------------------------------------------------------------------------
Threads == Mutators \cup Lookers
SegIds == 1 .. SegNum - 1
ContainerIds == 0 .. MaxContainer - 1

Zero == [kind |-> "zero"]
InodeSeg(n) == [kind |-> "inode", n |-> n]
BlockSeg(d) == [kind |-> "data", d |-> d]
DirSeg == [kind |-> "dir"]
ZeroSegs == [s \in SegIds |-> Zero]
At(c, s) == [cid |-> c, seg |-> s]
NoAddr == At(MaxContainer, 0)

\* lfs_init, after which cur_container is a copy of buf_container.
RootSegs == [ZeroSegs EXCEPT ![1] = InodeSeg(1), ![2] = DirSeg]
Init ==
  /\ buf = [id |-> 0, off |-> 3, seg |-> RootSegs] /\ next = 0
  /\ cur = [id |-> 0, seg |-> RootSegs]
  /\ disk = [c \in {} |-> ZeroSegs]
  /\ nInode = 1
  /\ imap = [n \in 1 .. MaxInode |-> IF n = 1 THEN [id |-> 1, addr |-> At(0, 1)]
                                              ELSE [id |-> 0, addr |-> NoAddr]]
  /\ ns = {}
  /\ pc = [t \in Threads |-> "idle"]
  /\ my = [t \in Threads |-> [n |-> 0, item |-> Zero, load |-> 0, addr |-> NoAddr]]
  /\ made = {1}

\* Thread t goes from one place to the next.
Goes(t, from, to) == pc[t] = from /\ pc' = [pc EXCEPT ![t] = to]

\* The container being filled and the inode map are left alone.
SameLog == UNCHANGED <<buf, next, cur, disk, ns>>
SameMap == UNCHANGED <<imap, nInode>>

-----------------------------------------------------------------------------
(* lfs_create: the number, the slot of the inode map, the inode. *)

StartCreate(t) ==
  /\ Goes(t, "idle", "count")
  /\ nInode + Cardinality(Mutators) <= MaxInode /\ buf.id + 3 < MaxContainer
  /\ UNCHANGED my /\ SameMap /\ SameLog /\ UNCHANGED made

\* lfs_info->n_inode++ in two steps.
LoadCount(t) ==
  /\ Goes(t, "count", "counted")
  /\ my' = [my EXCEPT ![t].load = nInode]
  /\ SameMap /\ SameLog /\ UNCHANGED made

StoreCount(t) ==
  /\ Goes(t, "counted", "number")
  /\ nInode' = my[t].load + 1
  /\ UNCHANGED <<imap, my, made>> /\ SameLog

TakeNumber(t) ==
  /\ Goes(t, "number", "slot")
  /\ my' = [my EXCEPT ![t].n = nInode, ![t].item = InodeSeg(nInode)]
  /\ SameMap /\ SameLog /\ UNCHANGED made

\* The index of the slot is read again for each of its fields.
SetSlotId(t) ==
  /\ Goes(t, "slot", "address")
  /\ imap' = [imap EXCEPT ![nInode].id = my[t].n]
  /\ UNCHANGED <<nInode, my, made>> /\ SameLog

\* Mutant of SetSlotAddr: the address of the segment after it.
SetSlotAddrNext(t) ==
  /\ Goes(t, "address", "check")
  /\ imap' = [imap EXCEPT ![nInode].addr = At(buf.id, buf.off + 1)]
  /\ UNCHANGED <<nInode, my, made>> /\ SameLog

SetSlotAddr(t) ==
  /\ Goes(t, "address", "check")
  /\ imap' = [imap EXCEPT ![nInode].addr = At(buf.id, buf.off)]
  /\ UNCHANGED <<nInode, my, made>> /\ SameLog

-----------------------------------------------------------------------------
(* lfs_write: the block, if the namespace does not know it. *)

StartWrite(t, d) ==
  /\ Goes(t, "idle", "find")
  /\ d \in ns \/ buf.id + 3 < MaxContainer
  /\ my' = [my EXCEPT ![t].n = 0, ![t].item = BlockSeg(d)]
  /\ SameMap /\ SameLog /\ UNCHANGED made

Find(t) ==
  /\ Goes(t, "find", IF my[t].item.d \in ns THEN "idle" ELSE "file")
  /\ UNCHANGED <<my, made>> /\ SameMap /\ SameLog

File(t) ==
  /\ Goes(t, "file", "check")
  /\ ns' = ns \cup {my[t].item.d}
  /\ UNCHANGED <<buf, next, cur, disk, my, made>> /\ SameMap

-----------------------------------------------------------------------------
(* container_add_seg of my[t].item to buf_container. *)

SameButBuf == UNCHANGED <<next, cur, disk, ns>> /\ SameMap

\* The call returns, and lfs_create with it.
Returns(t) ==
  made' = IF my[t].n = 0 THEN made ELSE made \cup {my[t].n}

Check(t) ==
  LET refused == buf.off >= SegNum
  IN  /\ Goes(t, "check", IF refused THEN "idle" ELSE "copy")
      /\ IF refused THEN Returns(t) ELSE UNCHANGED made
      /\ UNCHANGED <<buf, my>> /\ SameButBuf

\* memcpy at the seg_offset of now; behind the buffer it changes memory that is
\* not modelled.
Copy(t) ==
  /\ Goes(t, "copy", "step")
  /\ buf' = [buf EXCEPT !.seg = [s \in SegIds |-> IF s = buf.off THEN my[t].item
                                                                 ELSE @[s]]]
  /\ UNCHANGED <<my, made>> /\ SameButBuf

\* container->seg_offset += 1 in two steps.
LoadOffset(t) ==
  /\ Goes(t, "step", "stepped")
  /\ my' = [my EXCEPT ![t].load = buf.off]
  /\ UNCHANGED <<buf, made>> /\ SameButBuf

\* Mutant of StoreOffset: the segment is counted twice.
StoreOffsetTwice(t) ==
  /\ Goes(t, "stepped", "compare")
  /\ buf' = [buf EXCEPT !.off = my[t].load + 2]
  /\ UNCHANGED <<my, made>> /\ SameButBuf

StoreOffset(t) ==
  /\ Goes(t, "stepped", "compare")
  /\ buf' = [buf EXCEPT !.off = my[t].load + 1]
  /\ UNCHANGED <<my, made>> /\ SameButBuf

\* Mutant of Compare: full one segment too late.
CompareLate(t) ==
  \E off \in {buf.off, my[t].load + 1} :
    LET full == off = SegNum + 1
    IN  /\ Goes(t, "compare", IF full THEN "write" ELSE "idle")
        /\ IF full THEN UNCHANGED made ELSE Returns(t)
        /\ UNCHANGED <<buf, my>> /\ SameButBuf

\* Mutant of Compare: a full container is cleared without being written.
CompareForgets(t) ==
  \E off \in {buf.off, my[t].load + 1} :
    LET full == off = SegNum
    IN  /\ Goes(t, "compare", IF full THEN "clear" ELSE "idle")
        /\ IF full THEN UNCHANGED made ELSE Returns(t)
        /\ UNCHANGED <<buf, my>> /\ SameButBuf

\* seg_offset == c_container_seg_num: of the value in memory, or of the one that a
\* compiler has kept in a register.
Compare(t) ==
  \E off \in {buf.off, my[t].load + 1} :
    LET full == off = SegNum
    IN  /\ Goes(t, "compare", IF full THEN "write" ELSE "idle")
        /\ IF full THEN UNCHANGED made ELSE Returns(t)
        /\ UNCHANGED <<buf, my>> /\ SameButBuf

\* container_write, and next_container_id.
WriteOut(t) ==
  /\ Goes(t, "write", "clear")
  /\ disk' = [c \in DOMAIN disk \cup {buf.id} |-> IF c = buf.id THEN buf.seg ELSE disk[c]]
  /\ next' = buf.id + 1
  /\ UNCHANGED <<buf, cur, ns, my, made>> /\ SameMap

\* memset, of the container id too.
Clear(t) ==
  /\ Goes(t, "clear", "name")
  /\ buf' = [buf EXCEPT !.id = 0, !.seg = ZeroSegs]
  /\ UNCHANGED <<my, made>> /\ SameButBuf

SetId(t) ==
  /\ Goes(t, "name", "reset")
  /\ buf' = [buf EXCEPT !.id = next]
  /\ UNCHANGED <<my, made>> /\ SameButBuf

Reset(t) ==
  /\ Goes(t, "reset", "idle") /\ Returns(t)
  /\ buf' = [buf EXCEPT !.off = 1]
  /\ UNCHANGED my /\ SameButBuf

-----------------------------------------------------------------------------
(* get_inode_from_inode_id of a file that was made.  (dir_get_inode calls  *)
(* open_cur_dir before it, which does not trust the cur_container that     *)
(* lfs_init has left.)                                                     *)

StartLook(t, n) ==
  /\ Goes(t, "idle", "map")
  /\ n \in made
  /\ my' = [my EXCEPT ![t].n = n, ![t].item = Zero]
  /\ SameMap /\ SameLog /\ UNCHANGED made

LookInMap(t) ==
  LET slots == {i \in DOMAIN imap : imap[i].id = my[t].n}
      addr  == IF slots = {} THEN NoAddr ELSE imap[Min(slots)].addr
  IN  /\ Goes(t, "map", IF addr = NoAddr THEN "idle" ELSE "which")
      /\ my' = [my EXCEPT ![t].addr = addr]
      /\ SameMap /\ SameLog /\ UNCHANGED made

Which(t) ==
  LET cid == my[t].addr.cid
  IN  /\ Goes(t, "which", IF cid = buf.id THEN "in buf"
                          ELSE IF cid = cur.id THEN "in cur" ELSE "read")
      /\ UNCHANGED <<my, made>> /\ SameMap /\ SameLog

Read(t) ==
  LET cid == my[t].addr.cid
  IN  /\ Goes(t, "read", "in cur")
      /\ cur' = IF cid \in DOMAIN disk THEN [id |-> cid, seg |-> disk[cid]]
                                       ELSE [id |-> 0, seg |-> ZeroSegs]
      /\ UNCHANGED <<buf, next, disk, ns, my, made>> /\ SameMap

\* The header and what follows the buffer hold no inode.
Seg(c, s) == IF s \in SegIds THEN c.seg[s] ELSE Zero

CopyOut(t) ==
  /\ \/ /\ Goes(t, "in buf", "found")
        /\ my' = [my EXCEPT ![t].item = Seg(buf, my[t].addr.seg)]
     \/ /\ Goes(t, "in cur", "found")
        /\ my' = [my EXCEPT ![t].item = Seg(cur, my[t].addr.seg)]
  /\ SameMap /\ SameLog /\ UNCHANGED made

LookReturns(t) ==
  /\ Goes(t, "found", "idle")
  /\ UNCHANGED <<my, made>> /\ SameMap /\ SameLog

-----------------------------------------------------------------------------
Start(t) ==
  \/ t \in Mutators /\ StartCreate(t)
  \/ t \in Mutators /\ \E d \in Data : StartWrite(t, d)
  \/ t \in Lookers /\ \E n \in 1 .. MaxInode : StartLook(t, n)

Continue(t) ==
  \/ LoadCount(t) \/ StoreCount(t) \/ TakeNumber(t) \/ SetSlotId(t) \/ SetSlotAddr(t)
  \/ Find(t) \/ File(t)
  \/ Check(t) \/ Copy(t) \/ LoadOffset(t) \/ StoreOffset(t) \/ Compare(t)
  \/ WriteOut(t) \/ Clear(t) \/ SetId(t) \/ Reset(t)
  \/ LookInMap(t) \/ Which(t) \/ Read(t) \/ CopyOut(t) \/ LookReturns(t)

Next == \E t \in Threads : Start(t) \/ Continue(t)

\* The scheduler runs every thread; requests need not arrive.
Fairness == \A t \in Threads : WF_vars(Continue(t))

Spec == Init /\ [][Next]_vars /\ Fairness

-----------------------------------------------------------------------------
Segments == {Zero, DirSeg} \cup {InodeSeg(n) : n \in 1 .. MaxInode}
                           \cup {BlockSeg(d) : d \in Data}
Addr == [cid : 0 .. MaxContainer, seg : 0 .. SegNum]
Places == {"idle", "count", "counted", "number", "slot", "address", "find", "file",
           "check", "copy", "step", "stepped", "compare", "write", "clear", "name",
           "reset", "map", "which", "in buf", "in cur", "read", "found"}

\* The type invariant, for one mutator.
TypeOK ==
  /\ buf \in [id : ContainerIds, off : 1 .. SegNum, seg : [SegIds -> Segments]]
  /\ next \in ContainerIds
  /\ cur \in [id : ContainerIds, seg : [SegIds -> Segments]]
  /\ DOMAIN disk \subseteq ContainerIds
  /\ disk \in [DOMAIN disk -> [SegIds -> Segments]]
  /\ imap \in [1 .. MaxInode -> [id : 0 .. MaxInode, addr : Addr]]
  /\ nInode \in 1 .. MaxInode
  /\ ns \subseteq Data
  /\ pc \in [Threads -> Places]
  /\ my \in [Threads -> [n : 0 .. MaxInode, item : Segments, load : 0 .. MaxInode + SegNum,
                         addr : Addr]]
  /\ made \subseteq 1 .. MaxInode

\* An address has a segment, in the log file or else in memory.
InLog(a, item) ==
  /\ a.seg \in SegIds
  /\ IF a.cid \in DOMAIN disk THEN disk[a.cid][a.seg] = item
                              ELSE a.cid = buf.id /\ buf.seg[a.seg] = item

\* "update inode map about the new created file inode" (lfs_create): when a file
\* has been made, and at every moment afterwards, in the middle of a flush too, the
\* map leads to its inode, although the address goes into the map before the
\* segment is filled.
MadeIsLogged == \A n \in made : imap[n].id = n /\ InLog(imap[n].addr, InodeSeg(n))

\* "no duplicated seg" (lfs_write): what is added then is not in the log yet, and so
\* no content is there twice.
OncePerContent ==
  \A d \in Data :
    Cardinality({a \in [cid : ContainerIds, seg : SegIds] : InLog(a, BlockSeg(d))}) <= 1

\* "container is full, write to disk" (container_add_seg): a full container does
\* not stay so, or else every later segment is refused.
FullIsWritten == buf.off >= SegNum ~> buf.off < SegNum

\* An inode that the map names gets into the log.
MapLeads ==
  \A n \in 1 .. MaxInode :
    imap[n].id = n ~> InLog(imap[n].addr, InodeSeg(n))

\* "get inode from inode id by looking up in the inode map"
\* (get_inode_from_inode_id): a look-up of a file that has been made finds its inode.
LooksRight ==
  \A t \in Lookers : pc[t] = "found" => my[t].item = InodeSeg(my[t].n)

\* "required container is in disk, load it to mem" (get_inode_from_inode_id): what
\* is then copied out comes from that container.
LoadedIsThere ==
  \A t \in Lookers : pc[t] = "in cur" /\ my[t].addr.cid \in DOMAIN disk =>
    cur.id = my[t].addr.cid
=============================================================================
