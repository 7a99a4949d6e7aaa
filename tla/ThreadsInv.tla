----------------------------- MODULE ThreadsInv -----------------------------
(***************************************************************************)
(* The inductive invariant of module Threads for one thread t that serves  *)
(* lfs_create and lfs_write: what holds between any two of its statements. *)
(* (With two such threads it does not hold: see the violations of          *)
(* MadeIsLogged and OncePerContent.)                                       *)
(***************************************************************************)
EXTENDS Threads

\* Where a look-up is, and where the other calls are.
LookPlaces == {"idle", "map", "which", "in buf", "in cur", "read", "found"}
WorkPlaces == (Places \ LookPlaces) \cup {"idle"}

\* In container_add_seg: before the segment is counted, and in the flush.
Filling  == {"check", "copy", "step", "stepped"}
Flushing == {"write", "clear", "name", "reset"}
Adding   == Filling \cup {"compare"} \cup Flushing

LogAddr == [cid : ContainerIds, seg : SegIds]

\* The containers before next_container_id are in the log file.  buf_container is
\* the one after them but, in a flush, from pwrite until it gets its new id: then
\* it has the id of one that was written.
LogSound(t) ==
  /\ DOMAIN disk = 0 .. next - 1
  /\ IF pc[t] \in {"clear", "name"} THEN buf.id \in DOMAIN disk ELSE buf.id = next
  /\ pc[t] \notin Flushing \cup {"compare"} => buf.off < SegNum
  /\ pc[t] \in Flushing => buf.off = SegNum
  /\ pc[t] \in {"name", "reset"} => buf.seg = ZeroSegs

\* What the thread has in its local variables.
LocalsSound(t) ==
  LET n     == my[t].n
      item  == my[t].item
      block == n = 0 /\ \E d \in Data : item = BlockSeg(d)
      inode == n = nInode /\ item = InodeSeg(n)
  IN  /\ pc[t] \in {"find", "file"} => block
      /\ pc[t] = "file" => item.d \notin ns
      /\ pc[t] \in {"slot", "address"} => inode
      /\ pc[t] \in Adding => block \/ inode
      /\ pc[t] = "counted" => my[t].load = nInode
      /\ pc[t] = "stepped" => my[t].load = buf.off
      /\ pc[t] = "compare" => my[t].load + 1 = buf.off

\* Bound: there is room for the number and for one more container.
RoomSound(t) ==
  /\ pc[t] \in {"count", "counted"} => nInode < MaxInode
  /\ pc[t] = "find" /\ my[t].item.d \notin ns => next + 1 < MaxContainer
  /\ pc[t] \notin {"idle", "find", "clear", "name", "reset"} => next + 1 < MaxContainer

\* The map leads to inode n, in a segment that will not be filled again.
Led(n) ==
  /\ imap[n].id = n /\ InLog(imap[n].addr, InodeSeg(n))
  /\ imap[n].addr.cid \in DOMAIN disk \/ imap[n].addr.seg < buf.off

\* It does for the files that were made, and for the one being made once its
\* segment has been counted.  Until then its address is that of the next segment.
MapSound(t) ==
  LET n == my[t].n
  IN  /\ made \subseteq 1 .. nInode /\ \A k \in made : Led(k)
      /\ pc[t] \in {"number", "slot", "address"} => nInode \notin made
      /\ pc[t] = "address" => imap[nInode].id = nInode
      /\ pc[t] \in Filling /\ n # 0 => imap[n] = [id |-> n, addr |-> At(buf.id, buf.off)]
      /\ pc[t] \in {"step", "stepped"} => buf.seg[buf.off] = my[t].item
      /\ pc[t] \in {"compare"} \cup Flushing /\ n # 0 => Led(n)

\* A content is in the log once, and the namespace knows it; it knows the one that
\* is being added too, although that is not in the log before memcpy.
BlocksSound(t) ==
  /\ \A d \in Data, a \in LogAddr : InLog(a, BlockSeg(d)) => d \in ns
  /\ \A d \in Data, a, b \in LogAddr :
       InLog(a, BlockSeg(d)) /\ InLog(b, BlockSeg(d)) => a = b
  /\ pc[t] \in {"check", "copy"} /\ my[t].n = 0 =>
       my[t].item.d \in ns /\ \A a \in LogAddr : ~InLog(a, my[t].item)

ThreadsSound ==
  /\ \A t \in Lookers : pc[t] \in LookPlaces
  /\ \A t \in Mutators :
       /\ pc[t] \in WorkPlaces
       /\ LogSound(t) /\ LocalsSound(t) /\ RoomSound(t)
       /\ MapSound(t) /\ BlocksSound(t)
=============================================================================
