--------------------------- MODULE ThreadsProofs ---------------------------
(***************************************************************************)
(* Theorems about module Threads, for every value of the constants but one *)
(* thread that serves lfs_create and lfs_write: interleaved with any       *)
(* number of look-ups, its files stay in the log, between any two of its   *)
(* statements.  TLC shows that this fails with two such threads.           *)
(***************************************************************************)
EXTENDS ThreadsInv, TLAPS, FiniteSetTheorems, WellFoundedInduction

\* The invariant for the one thread.
WorkSound(m) ==
  /\ TypeOK
  /\ \A t \in Lookers : pc[t] \in LookPlaces
  /\ pc[m] \in WorkPlaces
  /\ LogSound(m) /\ LocalsSound(m) /\ RoomSound(m)
  /\ MapSound(m) /\ BlocksSound(m)

Locals == [n : 0 .. MaxInode, item : Segments, load : 0 .. MaxInode + SegNum, addr : Addr]

-----------------------------------------------------------------------------
(* Preliminaries. *)

\* It is the invariant of module ThreadsInv.
LEMMA WorkSoundIs ==
  ASSUME NEW m, Mutators = {m}
  PROVE  WorkSound(m) <=> TypeOK /\ ThreadsSound
  BY DEF WorkSound, ThreadsSound

\* Where the threads are after one of them has gone on.
LEMMA PcAfter ==
  ASSUME NEW m, Mutators = {m}, TypeOK, NEW from, NEW to \in Places, Goes(m, from, to)
  PROVE  /\ pc[m] = from /\ pc'[m] = to /\ pc' \in [Threads -> Places]
         /\ \A t \in Lookers : pc'[t] = pc[t]
<1>1. m \in Threads /\ Lookers \subseteq Threads /\ m \notin Lookers
  BY ThreadsAssumption DEF Threads
<1> QED
  BY <1>1 DEF Goes, TypeOK

\* The types of the parts of the state.
LEMMA Parts ==
  ASSUME NEW m, Mutators = {m}, TypeOK
  PROVE  /\ m \in Threads /\ pc[m] \in Places /\ my \in [Threads -> Locals] /\ my[m] \in Locals
         /\ my[m].n \in 0 .. MaxInode /\ my[m].item \in Segments
         /\ my[m].load \in 0 .. MaxInode + SegNum /\ my[m].addr \in Addr
         /\ buf.id \in ContainerIds /\ buf.off \in 1 .. SegNum
         /\ buf.seg \in [SegIds -> Segments]
         /\ buf = [id |-> buf.id, off |-> buf.off, seg |-> buf.seg]
         /\ next \in ContainerIds /\ nInode \in 1 .. MaxInode
         /\ SegNum \in Nat /\ SegNum >= 4 /\ MaxInode \in Nat /\ MaxContainer \in Nat
         /\ \A c \in ContainerIds : c \in Nat
         /\ \A s \in SegIds : s \in Nat
<1>1. m \in Threads
  BY DEF Threads
<1>2. my \in [Threads -> Locals]
  BY DEF TypeOK, Locals
<1>3. my[m] \in Locals
  BY <1>1, <1>2
<1>4. /\ my[m].n \in 0 .. MaxInode /\ my[m].item \in Segments
      /\ my[m].load \in 0 .. MaxInode + SegNum /\ my[m].addr \in Addr
  BY <1>3 DEF Locals
<1>5. /\ buf.id \in ContainerIds /\ buf.off \in 1 .. SegNum
      /\ buf.seg \in [SegIds -> Segments]
      /\ buf = [id |-> buf.id, off |-> buf.off, seg |-> buf.seg]
  BY DEF TypeOK
<1>6. /\ SegNum \in Nat /\ SegNum >= 4 /\ MaxInode \in Nat /\ MaxContainer \in Nat
      /\ \A c \in ContainerIds : c \in Nat
      /\ \A s \in SegIds : s \in Nat
  BY ThreadsAssumption DEF ContainerIds, SegIds
<1>7. pc[m] \in Places /\ next \in ContainerIds /\ nInode \in 1 .. MaxInode
  BY <1>1 DEF TypeOK
<1> QED
  BY <1>1, <1>2, <1>3, <1>4, <1>5, <1>6, <1>7, Zenon

\* Only the thread itself has moved and changed its variables.
LEMMA TypeKept ==
  ASSUME TypeOK, SameMap, SameLog, made' = made,
         pc' \in [Threads -> Places], my' \in [Threads -> Locals]
  PROVE  TypeOK'
  BY DEF TypeOK, SameMap, SameLog, Locals

\* Three kinds of segments, and the empty one.
LEMMA SegmentKinds ==
  /\ \A n : InodeSeg(n) # Zero /\ InodeSeg(n) # DirSeg
  /\ \A d : BlockSeg(d) # Zero /\ BlockSeg(d) # DirSeg
  /\ \A n, d : InodeSeg(n) # BlockSeg(d)
  /\ \A d, e : BlockSeg(d) = BlockSeg(e) => d = e
  /\ \A d : BlockSeg(d).d = d
  /\ \A d \in Data : BlockSeg(d) \in Segments
  /\ \A n \in 1 .. MaxInode : InodeSeg(n) \in Segments
<1>1. /\ \A n : InodeSeg(n).kind = "inode"
      /\ \A d : BlockSeg(d).kind = "data" /\ BlockSeg(d).d = d
      /\ Zero.kind = "zero" /\ DirSeg.kind = "dir"
  BY DEF InodeSeg, BlockSeg, Zero, DirSeg
<1> QED
  BY <1>1 DEF Segments

-----------------------------------------------------------------------------
(* The statements of lfs_create. *)

\* What a statement that leaves the log and the map alone has to show.
LEMMA SameAround ==
  ASSUME SameLog, SameMap, made' = made
  PROVE  /\ \A a, item : InLog(a, item)' <=> InLog(a, item)
         /\ \A n : Led(n)' <=> Led(n)
  BY DEF SameLog, SameMap, InLog, Led

LEMMA StartCreateSound ==
  ASSUME NEW m, Mutators = {m}, WorkSound(m), StartCreate(m)
  PROVE  WorkSound(m)'
<1>1. TypeOK /\ m \in Threads
  BY Parts DEF WorkSound
<1>2. /\ pc[m] = "idle" /\ pc'[m] = "count" /\ pc' \in [Threads -> Places]
      /\ \A t \in Lookers : pc'[t] = pc[t]
  BY <1>1, PcAfter DEF StartCreate, Places
<1>3. SameLog /\ SameMap /\ made' = made /\ my' = my
  BY DEF StartCreate
<1>4. nInode < MaxInode /\ next + 1 < MaxContainer
  <2>1. Cardinality(Mutators) = 1
    BY FS_Singleton
  <2>2. buf.id = next
    BY <1>2 DEF WorkSound, LogSound
  <2> QED
    BY <1>1, <2>1, <2>2, Parts DEF StartCreate
<1>5. TypeOK'
  BY <1>1, <1>2, <1>3, Parts, TypeKept
<1>6. LogSound(m)'
  BY <1>2, <1>3 DEF WorkSound, LogSound, SameLog, Flushing
<1>7. LocalsSound(m)'
  BY <1>2, <1>3 DEF WorkSound, LocalsSound, Adding, Filling, Flushing
<1>8. RoomSound(m)'
  BY <1>2, <1>3, <1>4 DEF RoomSound, SameLog, SameMap
<1>9. MapSound(m)'
  BY <1>2, <1>3, SameAround DEF WorkSound, MapSound, SameLog, SameMap, Filling, Flushing
<1>10. BlocksSound(m)'
  BY <1>2, <1>3, SameAround DEF WorkSound, BlocksSound, SameLog
<1> QED
  BY <1>2, <1>5, <1>6, <1>7, <1>8, <1>9, <1>10 DEF WorkSound, WorkPlaces, Places, LookPlaces

\* The local variables after an assignment.
LEMMA LoadSet ==
  ASSUME NEW m, Mutators = {m}, TypeOK, NEW x \in 0 .. MaxInode + SegNum,
         my' = [my EXCEPT ![m].load = x]
  PROVE  /\ my' \in [Threads -> Locals]
         /\ my'[m].n = my[m].n /\ my'[m].item = my[m].item /\ my'[m].load = x
<1>1. my \in [Threads -> Locals] /\ m \in Threads
  BY Parts
<1> QED
  BY <1>1 DEF Locals

LEMMA ItemSet ==
  ASSUME NEW m, Mutators = {m}, TypeOK, NEW k \in 0 .. MaxInode, NEW item \in Segments,
         my' = [my EXCEPT ![m].n = k, ![m].item = item]
  PROVE  /\ my' \in [Threads -> Locals]
         /\ my'[m].n = k /\ my'[m].item = item /\ my'[m].load = my[m].load
<1>1. my \in [Threads -> Locals] /\ m \in Threads
  BY Parts
<1> QED
  BY <1>1 DEF Locals

LEMMA LoadCountSound ==
  ASSUME NEW m, Mutators = {m}, WorkSound(m), LoadCount(m)
  PROVE  WorkSound(m)'
<1>1. TypeOK /\ m \in Threads
  BY Parts DEF WorkSound
<1>2. /\ pc[m] = "count" /\ pc'[m] = "counted" /\ pc' \in [Threads -> Places]
      /\ \A t \in Lookers : pc'[t] = pc[t]
  BY <1>1, PcAfter DEF LoadCount, Places
<1>3. SameLog /\ SameMap /\ made' = made
  BY DEF LoadCount
<1>4. /\ my' \in [Threads -> Locals]
      /\ my'[m].n = my[m].n /\ my'[m].item = my[m].item /\ my'[m].load = nInode
  <2>1. nInode \in 0 .. MaxInode + SegNum
    BY <1>1, Parts
  <2> QED
    BY <1>1, <2>1, LoadSet DEF LoadCount
<1>5. TypeOK'
  BY <1>1, <1>2, <1>3, <1>4, TypeKept
<1>6. LogSound(m)'
  BY <1>2, <1>3 DEF WorkSound, LogSound, SameLog, Flushing
<1>7. LocalsSound(m)'
  BY <1>2, <1>3, <1>4 DEF LocalsSound, Adding, Filling, Flushing, SameMap
<1>8. RoomSound(m)'
  BY <1>2, <1>3 DEF WorkSound, RoomSound, SameLog, SameMap
<1>9. MapSound(m)'
  BY <1>2, <1>3, SameAround DEF WorkSound, MapSound, SameLog, SameMap, Filling, Flushing
<1>10. BlocksSound(m)'
  BY <1>2, <1>3, SameAround DEF WorkSound, BlocksSound, SameLog
<1> QED
  BY <1>2, <1>5, <1>6, <1>7, <1>8, <1>9, <1>10 DEF WorkSound, WorkPlaces, Places, LookPlaces

LEMMA StoreCountSound ==
  ASSUME NEW m, Mutators = {m}, WorkSound(m), StoreCount(m)
  PROVE  WorkSound(m)'
<1>1. TypeOK /\ m \in Threads
  BY Parts DEF WorkSound
<1>2. /\ pc[m] = "counted" /\ pc'[m] = "number" /\ pc' \in [Threads -> Places]
      /\ \A t \in Lookers : pc'[t] = pc[t]
  BY <1>1, PcAfter DEF StoreCount, Places
<1>3. SameLog /\ imap' = imap /\ my' = my /\ made' = made
  BY DEF StoreCount
<1>4. nInode' = nInode + 1 /\ nInode < MaxInode /\ nInode' \in 1 .. MaxInode
  BY <1>1, <1>2, Parts DEF WorkSound, LocalsSound, RoomSound, StoreCount
<1>5. TypeOK'
  BY <1>1, <1>2, <1>3, <1>4 DEF TypeOK, SameLog
<1>6. LogSound(m)'
  BY <1>2, <1>3 DEF WorkSound, LogSound, SameLog, Flushing
<1>7. LocalsSound(m)'
  BY <1>2 DEF LocalsSound, Adding, Filling, Flushing
<1>8. RoomSound(m)'
  BY <1>2, <1>3 DEF WorkSound, RoomSound, SameLog
<1>9. MapSound(m)'
  <2>1. \A k : Led(k)' <=> Led(k)
    BY <1>3 DEF SameLog, InLog, Led
  <2>2. made \subseteq 1 .. nInode /\ nInode \in Nat
    BY <1>1, Parts DEF WorkSound, MapSound
  <2>3. made' \subseteq 1 .. nInode' /\ nInode' \notin made'
    BY <1>3, <1>4, <2>2
  <2> QED
    BY <1>2, <1>3, <2>1, <2>3 DEF WorkSound, MapSound, Filling, Flushing
<1>10. BlocksSound(m)'
  <2>1. \A a, item : InLog(a, item)' <=> InLog(a, item)
    BY <1>3 DEF SameLog, InLog
  <2> QED
    BY <1>2, <1>3, <2>1 DEF WorkSound, BlocksSound, SameLog
<1> QED
  BY <1>2, <1>5, <1>6, <1>7, <1>8, <1>9, <1>10 DEF WorkSound, WorkPlaces, Places, LookPlaces

LEMMA TakeNumberSound ==
  ASSUME NEW m, Mutators = {m}, WorkSound(m), TakeNumber(m)
  PROVE  WorkSound(m)'
<1>1. TypeOK /\ m \in Threads
  BY Parts DEF WorkSound
<1>2. /\ pc[m] = "number" /\ pc'[m] = "slot" /\ pc' \in [Threads -> Places]
      /\ \A t \in Lookers : pc'[t] = pc[t]
  BY <1>1, PcAfter DEF TakeNumber, Places
<1>3. SameLog /\ SameMap /\ made' = made
  BY DEF TakeNumber
<1>4. /\ my' \in [Threads -> Locals]
      /\ my'[m].n = nInode /\ my'[m].item = InodeSeg(nInode)
  <2>1. nInode \in 0 .. MaxInode /\ InodeSeg(nInode) \in Segments
    BY <1>1, Parts, SegmentKinds
  <2> QED
    BY <1>1, <2>1, ItemSet DEF TakeNumber
<1>5. TypeOK'
  BY <1>1, <1>2, <1>3, <1>4, TypeKept
<1>6. LogSound(m)'
  BY <1>2, <1>3 DEF WorkSound, LogSound, SameLog, Flushing
<1>7. LocalsSound(m)'
  BY <1>2, <1>3, <1>4 DEF LocalsSound, Adding, Filling, Flushing, SameMap
<1>8. RoomSound(m)'
  BY <1>2, <1>3 DEF WorkSound, RoomSound, SameLog, SameMap
<1>9. MapSound(m)'
  BY <1>2, <1>3, SameAround DEF WorkSound, MapSound, SameLog, SameMap, Filling, Flushing
<1>10. BlocksSound(m)'
  BY <1>2, <1>3, SameAround DEF WorkSound, BlocksSound, SameLog
<1> QED
  BY <1>2, <1>5, <1>6, <1>7, <1>8, <1>9, <1>10 DEF WorkSound, WorkPlaces, Places, LookPlaces

\* The slot of an inode that has not been made.
LEMMA SlotSet ==
  ASSUME NEW m, Mutators = {m}, TypeOK, MapSound(m), nInode \notin made,
         NEW slot \in [id : 0 .. MaxInode, addr : Addr],
         imap' = [imap EXCEPT ![nInode] = slot], SameLog, nInode' = nInode, made' = made
  PROVE  /\ imap' \in [1 .. MaxInode -> [id : 0 .. MaxInode, addr : Addr]]
         /\ imap'[nInode] = slot
         /\ made' \subseteq 1 .. nInode' /\ \A k \in made' : Led(k)'
<1>1. nInode \in 1 .. MaxInode /\ imap \in [1 .. MaxInode -> [id : 0 .. MaxInode, addr : Addr]]
  BY DEF TypeOK
<1>2. \A k \in made : imap'[k] = imap[k]
  BY <1>1 DEF TypeOK
<1>3. ASSUME NEW k \in made PROVE Led(k)'
  <2>1. Led(k)
    BY DEF MapSound
  <2> QED
    BY <1>2, <2>1 DEF Led, InLog, SameLog
<1> QED
  BY <1>1, <1>3 DEF MapSound

LEMMA SetSlotIdSound ==
  ASSUME NEW m, Mutators = {m}, WorkSound(m), SetSlotId(m)
  PROVE  WorkSound(m)'
<1>1. TypeOK /\ m \in Threads
  BY Parts DEF WorkSound
<1>2. /\ pc[m] = "slot" /\ pc'[m] = "address" /\ pc' \in [Threads -> Places]
      /\ \A t \in Lookers : pc'[t] = pc[t]
  BY <1>1, PcAfter DEF SetSlotId, Places
<1>3. SameLog /\ nInode' = nInode /\ my' = my /\ made' = made
  BY DEF SetSlotId
<1>4. my[m].n = nInode /\ nInode \notin made
  BY <1>2 DEF WorkSound, LocalsSound, MapSound
<1> DEFINE slot == [imap[nInode] EXCEPT !.id = my[m].n]
<1>5. /\ imap' = [imap EXCEPT ![nInode] = slot]
      /\ slot \in [id : 0 .. MaxInode, addr : Addr] /\ slot.id = nInode
  BY <1>1, <1>4 DEF SetSlotId, TypeOK
<1> HIDE DEF slot
<1>6. /\ imap' \in [1 .. MaxInode -> [id : 0 .. MaxInode, addr : Addr]]
      /\ imap'[nInode] = slot
      /\ made' \subseteq 1 .. nInode' /\ \A k \in made' : Led(k)'
  BY <1>1, <1>3, <1>4, <1>5, SlotSet DEF WorkSound
<1>7. TypeOK'
  BY <1>1, <1>2, <1>3, <1>6 DEF TypeOK, SameLog
<1>8. LogSound(m)'
  BY <1>2, <1>3 DEF WorkSound, LogSound, SameLog, Flushing
<1>9. LocalsSound(m)'
  BY <1>2, <1>3 DEF WorkSound, LocalsSound, Adding, Filling, Flushing
<1>10. RoomSound(m)'
  BY <1>2, <1>3 DEF WorkSound, RoomSound, SameLog
<1>11. MapSound(m)'
  BY <1>2, <1>3, <1>4, <1>5, <1>6 DEF MapSound, Filling, Flushing
<1>12. BlocksSound(m)'
  <2>1. \A a, item : InLog(a, item)' <=> InLog(a, item)
    BY <1>3 DEF SameLog, InLog
  <2> QED
    BY <1>2, <1>3, <2>1 DEF WorkSound, BlocksSound, SameLog
<1> QED
  BY <1>2, <1>7, <1>8, <1>9, <1>10, <1>11, <1>12
  DEF WorkSound, WorkPlaces, Places, LookPlaces

LEMMA SetSlotAddrSound ==
  ASSUME NEW m, Mutators = {m}, WorkSound(m), SetSlotAddr(m)
  PROVE  WorkSound(m)'
<1>1. TypeOK /\ m \in Threads
  BY Parts DEF WorkSound
<1>2. /\ pc[m] = "address" /\ pc'[m] = "check" /\ pc' \in [Threads -> Places]
      /\ \A t \in Lookers : pc'[t] = pc[t]
  BY <1>1, PcAfter DEF SetSlotAddr, Places
<1>3. SameLog /\ nInode' = nInode /\ my' = my /\ made' = made
  BY DEF SetSlotAddr
<1>4. /\ my[m].n = nInode /\ my[m].item = InodeSeg(nInode) /\ nInode \notin made
      /\ imap[nInode].id = nInode
  BY <1>2 DEF WorkSound, LocalsSound, MapSound
<1> DEFINE slot == [imap[nInode] EXCEPT !.addr = At(buf.id, buf.off)]
<1>5. /\ imap' = [imap EXCEPT ![nInode] = slot]
      /\ slot \in [id : 0 .. MaxInode, addr : Addr]
      /\ slot = [id |-> nInode, addr |-> At(buf.id, buf.off)]
  <2>1. At(buf.id, buf.off) \in Addr
    BY <1>1, Parts DEF At, Addr, ContainerIds
  <2> QED
    BY <1>1, <1>4, <2>1 DEF SetSlotAddr, TypeOK
<1> HIDE DEF slot
<1>6. /\ imap' \in [1 .. MaxInode -> [id : 0 .. MaxInode, addr : Addr]]
      /\ imap'[nInode] = slot
      /\ made' \subseteq 1 .. nInode' /\ \A k \in made' : Led(k)'
  BY <1>1, <1>3, <1>4, <1>5, SlotSet DEF WorkSound
<1>7. TypeOK'
  BY <1>1, <1>2, <1>3, <1>6 DEF TypeOK, SameLog
<1>8. LogSound(m)'
  BY <1>2, <1>3 DEF WorkSound, LogSound, SameLog, Flushing
<1>9. LocalsSound(m)'
  BY <1>2, <1>3, <1>4 DEF LocalsSound, Adding, Filling, Flushing
<1>10. RoomSound(m)'
  BY <1>2, <1>3 DEF WorkSound, RoomSound, SameLog
<1>11. MapSound(m)'
  BY <1>2, <1>3, <1>4, <1>5, <1>6 DEF MapSound, Filling, Flushing, SameLog
<1>12. BlocksSound(m)'
  <2>1. \A a, item : InLog(a, item)' <=> InLog(a, item)
    BY <1>3 DEF SameLog, InLog
  <2>2. my'[m].n # 0
    BY <1>1, <1>3, <1>4, Parts
  <2> QED
    BY <1>2, <1>3, <2>1, <2>2 DEF WorkSound, BlocksSound, SameLog
<1> QED
  BY <1>2, <1>7, <1>8, <1>9, <1>10, <1>11, <1>12
  DEF WorkSound, WorkPlaces, Places, LookPlaces

-----------------------------------------------------------------------------
(* The statements of lfs_write. *)

LEMMA StartWriteSound ==
  ASSUME NEW m, Mutators = {m}, WorkSound(m), NEW d \in Data, StartWrite(m, d)
  PROVE  WorkSound(m)'
<1>1. TypeOK /\ m \in Threads
  BY Parts DEF WorkSound
<1>2. /\ pc[m] = "idle" /\ pc'[m] = "find" /\ pc' \in [Threads -> Places]
      /\ \A t \in Lookers : pc'[t] = pc[t]
  BY <1>1, PcAfter DEF StartWrite, Places
<1>3. SameLog /\ SameMap /\ made' = made
  BY DEF StartWrite
<1>4. /\ my' \in [Threads -> Locals] /\ my'[m].n = 0 /\ my'[m].item = BlockSeg(d)
  <2>1. 0 \in 0 .. MaxInode
    BY <1>1, Parts
  <2>2. BlockSeg(d) \in Segments
    BY SegmentKinds, Zenon
  <2>3. my' = [my EXCEPT ![m].n = 0, ![m].item = BlockSeg(d)]
    BY Zenon DEF StartWrite
  <2> QED
    BY <1>1, <2>1, <2>2, <2>3, ItemSet, Zenon
<1>5. TypeOK'
  BY <1>1, <1>2, <1>3, <1>4, TypeKept
<1>6. LogSound(m)'
  BY <1>2, <1>3 DEF WorkSound, LogSound, SameLog, Flushing
<1>7. LocalsSound(m)'
  BY <1>2, <1>4 DEF LocalsSound, Adding, Filling, Flushing
<1>8. RoomSound(m)'
  <2>1. d \in ns \/ next + 1 < MaxContainer
    <3>1. buf.id = next
      BY <1>2 DEF WorkSound, LogSound
    <3> QED
      BY <1>1, <3>1, Parts DEF StartWrite
  <2>2. my'[m].item.d = d
    BY <1>4, SegmentKinds
  <2> QED
    BY <1>2, <1>3, <2>1, <2>2 DEF RoomSound, SameLog
<1>9. MapSound(m)'
  BY <1>2, <1>3, SameAround DEF WorkSound, MapSound, SameLog, SameMap, Filling, Flushing
<1>10. BlocksSound(m)'
  BY <1>2, <1>3, SameAround DEF WorkSound, BlocksSound, SameLog
<1> QED
  BY <1>2, <1>5, <1>6, <1>7, <1>8, <1>9, <1>10 DEF WorkSound, WorkPlaces, Places, LookPlaces

LEMMA FindSound ==
  ASSUME NEW m, Mutators = {m}, WorkSound(m), Find(m)
  PROVE  WorkSound(m)'
<1> DEFINE to == IF my[m].item.d \in ns THEN "idle" ELSE "file"
<1>1. TypeOK /\ m \in Threads
  BY Parts DEF WorkSound
<1>2. /\ pc[m] = "find" /\ pc'[m] = to /\ pc' \in [Threads -> Places]
      /\ \A t \in Lookers : pc'[t] = pc[t]
  BY <1>1, PcAfter DEF Find, Places
<1>3. SameLog /\ SameMap /\ made' = made /\ my' = my
  BY DEF Find
<1>4. TypeOK'
  BY <1>1, <1>2, <1>3, Parts, TypeKept
<1>5. LogSound(m)'
  BY <1>2, <1>3 DEF WorkSound, LogSound, SameLog, Flushing
<1>6. LocalsSound(m)'
  BY <1>2, <1>3 DEF WorkSound, LocalsSound, Adding, Filling, Flushing, SameLog
<1>7. RoomSound(m)'
  BY <1>2, <1>3 DEF WorkSound, RoomSound, SameLog
<1>8. MapSound(m)'
  BY <1>2, <1>3, SameAround DEF WorkSound, MapSound, SameLog, SameMap, Filling, Flushing
<1>9. BlocksSound(m)'
  BY <1>2, <1>3, SameAround DEF WorkSound, BlocksSound, SameLog
<1> QED
  BY <1>2, <1>4, <1>5, <1>6, <1>7, <1>8, <1>9 DEF WorkSound, WorkPlaces, Places, LookPlaces

LEMMA FileSound ==
  ASSUME NEW m, Mutators = {m}, WorkSound(m), File(m)
  PROVE  WorkSound(m)'
<1>1. TypeOK /\ m \in Threads
  BY Parts DEF WorkSound
<1>2. /\ pc[m] = "file" /\ pc'[m] = "check" /\ pc' \in [Threads -> Places]
      /\ \A t \in Lookers : pc'[t] = pc[t]
  BY <1>1, PcAfter DEF File, Places
<1>3. /\ UNCHANGED <<buf, next, cur, disk, my, made>> /\ SameMap
      /\ ns' = ns \cup {my[m].item.d}
  BY DEF File
<1>4. PICK d \in Data : my[m].item = BlockSeg(d)
  BY <1>2 DEF WorkSound, LocalsSound
<1>5. my[m].n = 0 /\ d \notin ns /\ ns' = ns \cup {d}
  BY <1>2, <1>3, <1>4, SegmentKinds DEF WorkSound, LocalsSound
<1>6. TypeOK'
  BY <1>1, <1>2, <1>3, <1>5 DEF TypeOK, SameMap
<1>7. LogSound(m)'
  BY <1>2, <1>3 DEF WorkSound, LogSound, Flushing
<1>8. LocalsSound(m)'
  BY <1>2, <1>3, <1>4, <1>5 DEF LocalsSound, Adding, Filling, Flushing
<1>9. RoomSound(m)'
  BY <1>2, <1>3 DEF WorkSound, RoomSound
<1>10. \A a, item : InLog(a, item)' <=> InLog(a, item)
  BY <1>3 DEF InLog
<1>11. MapSound(m)'
  <2>1. \A k : Led(k)' <=> Led(k)
    BY <1>3, <1>10 DEF Led, SameMap
  <2> QED
    BY <1>2, <1>3, <1>5, <2>1 DEF WorkSound, MapSound, SameMap, Filling, Flushing
<1>12. BlocksSound(m)'
  <2>1. \A a \in LogAddr : ~InLog(a, BlockSeg(d))
    BY <1>5 DEF WorkSound, BlocksSound
  <2> QED
    BY <1>2, <1>3, <1>4, <1>5, <1>10, <2>1, SegmentKinds DEF WorkSound, BlocksSound
<1> QED
  BY <1>2, <1>6, <1>7, <1>8, <1>9, <1>11, <1>12 DEF WorkSound, WorkPlaces, Places, LookPlaces

-----------------------------------------------------------------------------
(* The statements of container_add_seg. *)

LEMMA CheckSound ==
  ASSUME NEW m, Mutators = {m}, WorkSound(m), Check(m)
  PROVE  WorkSound(m)'
<1>1. TypeOK /\ m \in Threads
  BY Parts DEF WorkSound
<1>2. pc[m] = "check"
  BY DEF Check, Goes
<1>3. ~(buf.off >= SegNum)
  BY <1>1, <1>2, Parts DEF WorkSound, LogSound, Flushing
<1>4. Goes(m, "check", "copy") /\ SameMap /\ SameLog /\ my' = my /\ made' = made
  BY <1>3 DEF Check, SameButBuf, SameLog
<1>5. /\ pc'[m] = "copy" /\ pc' \in [Threads -> Places]
      /\ \A t \in Lookers : pc'[t] = pc[t]
  BY <1>1, <1>4, PcAfter DEF Places
<1>6. TypeOK'
  BY <1>1, <1>4, <1>5, Parts, TypeKept
<1>7. LogSound(m)'
  BY <1>2, <1>4, <1>5 DEF WorkSound, LogSound, SameLog, Flushing
<1>8. LocalsSound(m)'
  BY <1>2, <1>4, <1>5 DEF WorkSound, LocalsSound, Adding, Filling, Flushing, SameMap
<1>9. RoomSound(m)'
  BY <1>2, <1>4, <1>5 DEF WorkSound, RoomSound, SameLog
<1>10. MapSound(m)'
  BY <1>2, <1>4, <1>5, SameAround
  DEF WorkSound, MapSound, SameLog, SameMap, Filling, Flushing
<1>11. BlocksSound(m)'
  BY <1>2, <1>4, <1>5, SameAround DEF WorkSound, BlocksSound, SameLog
<1> QED
  BY <1>5, <1>6, <1>7, <1>8, <1>9, <1>10, <1>11 DEF WorkSound, WorkPlaces, Places, LookPlaces

\* The log after memcpy: the segment at the end of buf_container is the new one,
\* and the others are as they were.
LEMMA CopyShape ==
  ASSUME NEW m, Mutators = {m}, WorkSound(m), Copy(m)
  PROVE  /\ UNCHANGED <<next, cur, disk, ns, my, made>> /\ SameMap
         /\ buf'.id = buf.id /\ buf'.off = buf.off /\ buf'.seg[buf.off] = my[m].item
         /\ buf'.seg \in [SegIds -> Segments]
         /\ buf' = [id |-> buf'.id, off |-> buf'.off, seg |-> buf'.seg]
         /\ buf.id \notin DOMAIN disk /\ buf.off \in SegIds
         /\ \A a : a # At(buf.id, buf.off) /\ a = At(a.cid, a.seg) =>
              \A item : InLog(a, item)' <=> InLog(a, item)
         /\ \A item : InLog(At(buf.id, buf.off), item)' <=> item = my[m].item
<1>1. TypeOK /\ pc[m] = "copy"
  BY DEF WorkSound, Copy, Goes
<1>2. /\ buf.id = next /\ DOMAIN disk = 0 .. next - 1 /\ buf.off < SegNum
  BY <1>1 DEF WorkSound, LogSound, Flushing
<1>3. /\ buf' = [buf EXCEPT !.seg = [s \in SegIds |-> IF s = buf.off THEN my[m].item
                                                                     ELSE buf.seg[s]]]
      /\ UNCHANGED <<next, cur, disk, ns, my, made>> /\ SameMap
  BY DEF Copy, SameButBuf
<1>4. buf.id \notin DOMAIN disk /\ buf.off \in SegIds
  BY <1>1, <1>2, Parts DEF SegIds
<1>5. /\ buf'.id = buf.id /\ buf'.off = buf.off /\ buf'.seg[buf.off] = my[m].item
      /\ buf'.seg \in [SegIds -> Segments]
      /\ buf' = [id |-> buf'.id, off |-> buf'.off, seg |-> buf'.seg]
      /\ \A s \in SegIds : s # buf.off => buf'.seg[s] = buf.seg[s]
  BY <1>1, <1>3, <1>4, Parts
<1>6. ASSUME NEW a, a # At(buf.id, buf.off), a = At(a.cid, a.seg), NEW item
      PROVE  InLog(a, item)' <=> InLog(a, item)
  <2>1. a.cid # buf.id \/ a.seg # buf.off
    BY <1>6
  <2> QED
    BY <1>3, <1>5, <2>1 DEF InLog
<1>7. \A item : InLog(At(buf.id, buf.off), item)' <=> item = my[m].item
  BY <1>3, <1>4, <1>5 DEF InLog, At
<1> QED
  BY <1>3, <1>4, <1>5, <1>6, <1>7

LEMMA CopySound ==
  ASSUME NEW m, Mutators = {m}, WorkSound(m), Copy(m)
  PROVE  WorkSound(m)'
<1>1. TypeOK /\ m \in Threads
  BY Parts DEF WorkSound
<1>2. /\ pc[m] = "copy" /\ pc'[m] = "step" /\ pc' \in [Threads -> Places]
      /\ \A t \in Lookers : pc'[t] = pc[t]
  BY <1>1, PcAfter DEF Copy, Places
<1>3. /\ UNCHANGED <<next, cur, disk, ns, my, made>> /\ SameMap
      /\ buf'.id = buf.id /\ buf'.off = buf.off /\ buf'.seg[buf.off] = my[m].item
      /\ buf'.seg \in [SegIds -> Segments]
      /\ buf' = [id |-> buf'.id, off |-> buf'.off, seg |-> buf'.seg]
      /\ buf.id \notin DOMAIN disk
  BY CopyShape
<1>4. /\ \A a : a # At(buf.id, buf.off) /\ a = At(a.cid, a.seg) =>
           \A item : InLog(a, item)' <=> InLog(a, item)
      /\ \A item : InLog(At(buf.id, buf.off), item)' <=> item = my[m].item
  BY CopyShape
<1>5. TypeOK'
  BY <1>1, <1>2, <1>3, Parts DEF TypeOK, SameMap
<1>6. LogSound(m)'
  BY <1>2, <1>3 DEF WorkSound, LogSound, Flushing
<1>7. LocalsSound(m)'
  BY <1>2, <1>3 DEF WorkSound, LocalsSound, Adding, Filling, Flushing, SameMap
<1>8. RoomSound(m)'
  BY <1>2, <1>3 DEF WorkSound, RoomSound
<1>9. MapSound(m)'
  <2>1. ASSUME NEW k \in made PROVE Led(k)'
    <3>1. k \in 1 .. MaxInode /\ Led(k)
      BY <1>1 DEF WorkSound, MapSound, TypeOK
    <3>2. imap[k].addr = At(imap[k].addr.cid, imap[k].addr.seg) /\ imap[k].addr.seg \in Nat
      BY <1>1, <3>1 DEF TypeOK, Addr, At
    <3>3. imap[k].addr # At(buf.id, buf.off)
      BY <1>1, <1>3, <3>1, Parts DEF Led, At
    <3>4. InLog(imap[k].addr, InodeSeg(k))'
      BY <1>3, <1>4, <3>1, <3>2, <3>3 DEF Led, SameMap
    <3> QED
      BY <1>3, <3>1, <3>4 DEF Led, SameMap
  <2> QED
    BY <1>2, <1>3, <2>1 DEF WorkSound, MapSound, SameMap, Filling, Flushing
<1>10. BlocksSound(m)'
  <2>1. \A a \in LogAddr : a = At(a.cid, a.seg)
    BY DEF LogAddr, At
  <2>2. ASSUME NEW d \in Data, NEW a \in LogAddr, InLog(a, BlockSeg(d))'
        PROVE  IF my[m].item = BlockSeg(d) THEN a = At(buf.id, buf.off)
                                           ELSE InLog(a, BlockSeg(d))
    <3>1. CASE a = At(buf.id, buf.off)
      <4>1. InLog(At(buf.id, buf.off), BlockSeg(d))'
        BY <1>3, <2>2, <3>1 DEF InLog
      <4> QED
        BY <1>4, <3>1, <4>1
    <3>2. CASE a # At(buf.id, buf.off)
      <4>1. InLog(a, BlockSeg(d))
        BY <1>4, <2>1, <2>2, <3>2
      <4>2. my[m].item # BlockSeg(d)
        BY <1>2, <4>1, SegmentKinds
        DEF WorkSound, BlocksSound, LocalsSound, Adding, Filling
      <4> QED
        BY <4>1, <4>2
    <3> QED
      BY <3>1, <3>2
  <2>3. ASSUME NEW d \in Data, my[m].item = BlockSeg(d) PROVE d \in ns
    <3>1. my[m].n = 0
      BY <1>2, <2>3, SegmentKinds DEF WorkSound, LocalsSound, Adding, Filling
    <3> QED
      BY <1>2, <2>3, <3>1, SegmentKinds DEF WorkSound, BlocksSound
  <2> QED
    BY <1>2, <1>3, <2>2, <2>3 DEF WorkSound, BlocksSound
<1> QED
  BY <1>2, <1>5, <1>6, <1>7, <1>8, <1>9, <1>10 DEF WorkSound, WorkPlaces, Places, LookPlaces

LEMMA LoadOffsetSound ==
  ASSUME NEW m, Mutators = {m}, WorkSound(m), LoadOffset(m)
  PROVE  WorkSound(m)'
<1>1. TypeOK /\ m \in Threads
  BY Parts DEF WorkSound
<1>2. /\ pc[m] = "step" /\ pc'[m] = "stepped" /\ pc' \in [Threads -> Places]
      /\ \A t \in Lookers : pc'[t] = pc[t]
  BY <1>1, PcAfter DEF LoadOffset, Places
<1>3. SameLog /\ SameMap /\ made' = made
  BY DEF LoadOffset, SameButBuf, SameLog
<1>4. /\ my' \in [Threads -> Locals]
      /\ my'[m].n = my[m].n /\ my'[m].item = my[m].item /\ my'[m].load = buf.off
  <2>1. buf.off \in 0 .. MaxInode + SegNum
    BY <1>1, Parts
  <2> QED
    BY <1>1, <2>1, LoadSet DEF LoadOffset
<1>5. TypeOK'
  BY <1>1, <1>2, <1>3, <1>4, TypeKept
<1>6. LogSound(m)'
  BY <1>2, <1>3 DEF WorkSound, LogSound, SameLog, Flushing
<1>7. LocalsSound(m)'
  BY <1>2, <1>3, <1>4
  DEF WorkSound, LocalsSound, Adding, Filling, Flushing, SameMap, SameLog
<1>8. RoomSound(m)'
  BY <1>2, <1>3 DEF WorkSound, RoomSound, SameLog, SameMap
<1>9. MapSound(m)'
  BY <1>2, <1>3, <1>4, SameAround
  DEF WorkSound, MapSound, SameLog, SameMap, Filling, Flushing
<1>10. BlocksSound(m)'
  BY <1>2, <1>3, SameAround DEF WorkSound, BlocksSound, SameLog
<1> QED
  BY <1>2, <1>5, <1>6, <1>7, <1>8, <1>9, <1>10 DEF WorkSound, WorkPlaces, Places, LookPlaces

\* The segment is counted: from now on it will not be filled again.
LEMMA StoreOffsetSound ==
  ASSUME NEW m, Mutators = {m}, WorkSound(m), StoreOffset(m)
  PROVE  WorkSound(m)'
<1>1. TypeOK /\ m \in Threads
  BY Parts DEF WorkSound
<1>2. /\ pc[m] = "stepped" /\ pc'[m] = "compare" /\ pc' \in [Threads -> Places]
      /\ \A t \in Lookers : pc'[t] = pc[t]
  BY <1>1, PcAfter DEF StoreOffset, Places
<1>3. /\ UNCHANGED <<next, cur, disk, ns, my, made>> /\ SameMap
      /\ buf' = [buf EXCEPT !.off = my[m].load + 1]
  BY DEF StoreOffset, SameButBuf
<1>4. my[m].load = buf.off /\ buf.off < SegNum /\ buf.id = next
  BY <1>2 DEF WorkSound, LocalsSound, LogSound, Flushing
<1>5. /\ buf'.id = buf.id /\ buf'.off = buf.off + 1 /\ buf'.seg = buf.seg
      /\ buf' = [id |-> buf'.id, off |-> buf'.off, seg |-> buf'.seg]
  BY <1>1, <1>3, <1>4, Parts
<1>6. buf'.off \in 1 .. SegNum /\ buf.off \in SegIds
  BY <1>1, <1>4, <1>5, Parts DEF SegIds
<1>7. TypeOK'
  BY <1>1, <1>2, <1>3, <1>5, <1>6, Parts DEF TypeOK, SameMap
<1>8. LogSound(m)'
  BY <1>2, <1>3, <1>5 DEF WorkSound, LogSound, Flushing
<1>9. LocalsSound(m)'
  BY <1>2, <1>3, <1>4, <1>5
  DEF WorkSound, LocalsSound, Adding, Filling, Flushing, SameMap
<1>10. RoomSound(m)'
  BY <1>2, <1>3 DEF WorkSound, RoomSound
<1>11. \A a, item : InLog(a, item)' <=> InLog(a, item)
  BY <1>3, <1>5 DEF InLog
<1>12. MapSound(m)'
  <2>1. ASSUME NEW k, Led(k), k \in 1 .. MaxInode PROVE Led(k)'
    <3>1. imap[k].addr.seg \in Nat
      BY <1>1, <2>1 DEF TypeOK, Addr
    <3> QED
      BY <1>1, <1>3, <1>5, <1>11, <2>1, <3>1, Parts DEF Led, SameMap
  <2>2. \A k \in made : Led(k)'
    BY <1>1, <2>1 DEF WorkSound, MapSound, TypeOK
  <2>3. my[m].n # 0 => Led(my[m].n)'
    <3> DEFINE n == my[m].n
    <3> SUFFICES ASSUME n # 0 PROVE Led(n)'
      OBVIOUS
    <3>1. /\ imap[n] = [id |-> n, addr |-> At(buf.id, buf.off)]
          /\ buf.seg[buf.off] = my[m].item /\ my[m].item = InodeSeg(n)
      BY <1>2 DEF WorkSound, MapSound, LocalsSound, Adding, Filling
    <3>2. next \notin DOMAIN disk
      BY <1>1, <1>2, Parts DEF WorkSound, LogSound
    <3>3. InLog(imap[n].addr, InodeSeg(n)) /\ imap[n].addr.seg = buf.off
      BY <1>4, <1>6, <3>1, <3>2 DEF InLog, At
    <3>4. buf.off < buf'.off
      BY <1>1, <1>5, Parts
    <3>5. n' = n /\ imap' = imap
      BY <1>3 DEF SameMap
    <3> HIDE DEF n
    <3>6. InLog(imap[n].addr, InodeSeg(n))'
      BY <1>11, <3>3, <3>5
    <3> QED
      BY <3>1, <3>3, <3>4, <3>5, <3>6 DEF Led
  <2> QED
    BY <1>2, <1>3, <2>2, <2>3 DEF WorkSound, MapSound, SameMap, Filling, Flushing
<1>13. BlocksSound(m)'
  BY <1>2, <1>3, <1>11 DEF WorkSound, BlocksSound
<1> QED
  BY <1>2, <1>7, <1>8, <1>9, <1>10, <1>12, <1>13 DEF WorkSound, WorkPlaces, Places, LookPlaces

\* The call returns: the file that was being made has been made.
LEMMA MadeNow ==
  ASSUME NEW m, Mutators = {m}, WorkSound(m), pc[m] \in {"compare"} \cup Flushing, Returns(m)
  PROVE  /\ made' \subseteq 1 .. nInode /\ made' \subseteq 1 .. MaxInode
         /\ \A k \in made' : Led(k)
<1>1. /\ made \subseteq 1 .. nInode /\ \A k \in made : Led(k)
      /\ my[m].n # 0 => Led(my[m].n)
  BY DEF WorkSound, MapSound
<1>2. my[m].n # 0 => my[m].n = nInode
  BY DEF WorkSound, LocalsSound, Adding
<1>3. nInode \in 1 .. MaxInode /\ MaxInode \in Nat
  BY Parts DEF WorkSound
<1>4. CASE my[m].n = 0
  BY <1>1, <1>3, <1>4 DEF Returns
<1>5. CASE my[m].n # 0
  <2>1. made' = made \cup {nInode} /\ Led(nInode)
    BY <1>1, <1>2, <1>5 DEF Returns
  <2>2. made' \subseteq 1 .. nInode
    BY <1>1, <1>3, <2>1
  <2>3. 1 .. nInode \subseteq 1 .. MaxInode
    BY <1>3
  <2>4. \A k \in made' : Led(k)
    BY <1>1, <2>1, Zenon
  <2> QED
    BY <2>2, <2>3, <2>4
<1> QED
  BY <1>4, <1>5

LEMMA CompareSound ==
  ASSUME NEW m, Mutators = {m}, WorkSound(m), Compare(m)
  PROVE  WorkSound(m)'
<1>1. TypeOK /\ m \in Threads
  BY Parts DEF WorkSound
<1>2. PICK off \in {buf.off, my[m].load + 1} :
        /\ Goes(m, "compare", IF off = SegNum THEN "write" ELSE "idle")
        /\ IF off = SegNum THEN UNCHANGED made ELSE Returns(m)
        /\ UNCHANGED <<buf, my>> /\ SameButBuf
  BY DEF Compare
<1>3. /\ pc[m] = "compare" /\ pc'[m] = (IF off = SegNum THEN "write" ELSE "idle")
      /\ pc' \in [Threads -> Places]
      /\ \A t \in Lookers : pc'[t] = pc[t]
  BY <1>1, <1>2, PcAfter DEF Places
<1>4. SameLog /\ SameMap /\ my' = my
  BY <1>2 DEF SameButBuf, SameLog
<1>5. off = buf.off
  BY <1>2, <1>3 DEF WorkSound, LocalsSound
<1>6. /\ made' \subseteq 1 .. nInode /\ made' \subseteq 1 .. MaxInode
      /\ \A k \in made' : Led(k)
  <2>1. CASE off = SegNum
    BY <1>1, <1>2, <2>1 DEF WorkSound, MapSound, TypeOK
  <2>2. CASE off # SegNum
    BY <1>2, <1>3, <2>2, MadeNow
  <2> QED
    BY <2>1, <2>2
<1>7. TypeOK'
  BY <1>1, <1>3, <1>4, <1>6 DEF TypeOK, SameMap, SameLog
<1>8. LogSound(m)'
  BY <1>1, <1>3, <1>4, <1>5, Parts DEF WorkSound, LogSound, SameLog, Flushing
<1>9. LocalsSound(m)'
  BY <1>3, <1>4 DEF WorkSound, LocalsSound, Adding, Filling, Flushing, SameMap
<1>10. RoomSound(m)'
  BY <1>3, <1>4 DEF WorkSound, RoomSound, SameLog
<1>11. /\ \A a, item : InLog(a, item)' <=> InLog(a, item)
       /\ \A k : Led(k)' <=> Led(k)
  BY <1>4 DEF SameLog, SameMap, InLog, Led
<1>12. MapSound(m)'
  BY <1>3, <1>4, <1>6, <1>11 DEF WorkSound, MapSound, SameLog, SameMap, Filling, Flushing
<1>13. BlocksSound(m)'
  BY <1>3, <1>4, <1>11 DEF WorkSound, BlocksSound, SameLog
<1> QED
  BY <1>3, <1>7, <1>8, <1>9, <1>10, <1>12, <1>13 DEF WorkSound, WorkPlaces, Places, LookPlaces

-----------------------------------------------------------------------------
(* The flush.  Where a container is kept changes, its contents do not. *)

LEMMA WriteOutSound ==
  ASSUME NEW m, Mutators = {m}, WorkSound(m), WriteOut(m)
  PROVE  WorkSound(m)'
<1>1. TypeOK /\ m \in Threads
  BY Parts DEF WorkSound
<1>2. /\ pc[m] = "write" /\ pc'[m] = "clear" /\ pc' \in [Threads -> Places]
      /\ \A t \in Lookers : pc'[t] = pc[t]
  BY <1>1, PcAfter DEF WriteOut, Places
<1>3. /\ UNCHANGED <<buf, cur, ns, my, made>> /\ SameMap
      /\ disk' = [c \in DOMAIN disk \cup {buf.id} |-> IF c = buf.id THEN buf.seg ELSE disk[c]]
      /\ next' = buf.id + 1
  BY DEF WriteOut
<1>4. /\ buf.id = next /\ DOMAIN disk = 0 .. next - 1 /\ next \in Nat
      /\ next + 1 < MaxContainer
  BY <1>1, <1>2, Parts DEF WorkSound, LogSound, RoomSound
<1>5. DOMAIN disk' = 0 .. next' - 1 /\ next' \in ContainerIds /\ buf.id \in DOMAIN disk'
  BY <1>1, <1>3, <1>4, Parts DEF ContainerIds
<1>6. \A a, item : InLog(a, item)' <=> InLog(a, item)
  <2>1. buf.id \notin DOMAIN disk
    BY <1>4
  <2> QED
    BY <1>3, <2>1 DEF InLog
<1>7. TypeOK'
  <2>1. /\ DOMAIN disk' = DOMAIN disk \cup {buf.id}
        /\ disk' \in [DOMAIN disk' -> [SegIds -> Segments]]
        /\ DOMAIN disk' \subseteq ContainerIds
    BY <1>1, <1>3, Parts DEF TypeOK
  <2> QED
    BY <1>1, <1>2, <1>3, <1>5, <2>1 DEF TypeOK, SameMap
<1>8. LogSound(m)'
  BY <1>2, <1>3, <1>5 DEF WorkSound, LogSound, Flushing
<1>9. LocalsSound(m)'
  BY <1>2, <1>3 DEF WorkSound, LocalsSound, Adding, Filling, Flushing, SameMap
<1>10. RoomSound(m)'
  BY <1>2 DEF RoomSound
<1>11. MapSound(m)'
  <2>1. \A k : Led(k) => Led(k)'
    BY <1>3, <1>6 DEF Led, SameMap
  <2> QED
    BY <1>2, <1>3, <2>1 DEF WorkSound, MapSound, SameMap, Filling, Flushing
<1>12. BlocksSound(m)'
  BY <1>2, <1>3, <1>6 DEF WorkSound, BlocksSound
<1> QED
  BY <1>2, <1>7, <1>8, <1>9, <1>10, <1>11, <1>12
  DEF WorkSound, WorkPlaces, Places, LookPlaces

LEMMA ClearSound ==
  ASSUME NEW m, Mutators = {m}, WorkSound(m), Clear(m)
  PROVE  WorkSound(m)'
<1>1. TypeOK /\ m \in Threads
  BY Parts DEF WorkSound
<1>2. /\ pc[m] = "clear" /\ pc'[m] = "name" /\ pc' \in [Threads -> Places]
      /\ \A t \in Lookers : pc'[t] = pc[t]
  BY <1>1, PcAfter DEF Clear, Places
<1>3. /\ UNCHANGED <<next, cur, disk, ns, my, made>> /\ SameMap
      /\ buf' = [buf EXCEPT !.id = 0, !.seg = ZeroSegs]
  BY DEF Clear, SameButBuf
<1>4. /\ buf'.id = 0 /\ buf'.off = buf.off /\ buf'.seg = ZeroSegs
      /\ buf' = [id |-> buf'.id, off |-> buf'.off, seg |-> buf'.seg]
  BY <1>1, <1>3, Parts
<1>5. buf.id \in DOMAIN disk /\ buf'.id \in DOMAIN disk
  BY <1>1, <1>2, <1>4, Parts DEF WorkSound, LogSound
<1>6. 0 \in ContainerIds /\ ZeroSegs \in [SegIds -> Segments]
  BY ThreadsAssumption DEF ContainerIds, ZeroSegs, Segments
<1>7. \A a, item : InLog(a, item)' <=> InLog(a, item)
  BY <1>3, <1>5 DEF InLog
<1>8. TypeOK'
  BY <1>1, <1>2, <1>3, <1>4, <1>6, Parts DEF TypeOK, SameMap
<1>9. LogSound(m)'
  BY <1>2, <1>3, <1>4, <1>5 DEF WorkSound, LogSound, Flushing
<1>10. LocalsSound(m)'
  BY <1>2, <1>3 DEF WorkSound, LocalsSound, Adding, Filling, Flushing, SameMap
<1>11. RoomSound(m)'
  BY <1>2 DEF RoomSound
<1>12. MapSound(m)'
  <2>1. \A k : Led(k) => Led(k)'
    BY <1>3, <1>4, <1>7 DEF Led, SameMap
  <2> QED
    BY <1>2, <1>3, <2>1 DEF WorkSound, MapSound, SameMap, Filling, Flushing
<1>13. BlocksSound(m)'
  BY <1>2, <1>3, <1>7 DEF WorkSound, BlocksSound
<1> QED
  BY <1>2, <1>8, <1>9, <1>10, <1>11, <1>12, <1>13
  DEF WorkSound, WorkPlaces, Places, LookPlaces

\* The cleared segments of buf_container hold neither an inode nor a block.
LEMMA NothingInZeros ==
  ASSUME buf.seg = ZeroSegs
  PROVE  \A a, item : item # Zero /\ InLog(a, item) => a.cid \in DOMAIN disk
  BY DEF InLog, ZeroSegs

LEMMA SetIdSound ==
  ASSUME NEW m, Mutators = {m}, WorkSound(m), SetId(m)
  PROVE  WorkSound(m)'
<1>1. TypeOK /\ m \in Threads
  BY Parts DEF WorkSound
<1>2. /\ pc[m] = "name" /\ pc'[m] = "reset" /\ pc' \in [Threads -> Places]
      /\ \A t \in Lookers : pc'[t] = pc[t]
  BY <1>1, PcAfter DEF SetId, Places
<1>3. /\ UNCHANGED <<next, cur, disk, ns, my, made>> /\ SameMap
      /\ buf' = [buf EXCEPT !.id = next]
  BY DEF SetId, SameButBuf
<1>4. /\ buf'.id = next /\ buf'.off = buf.off /\ buf'.seg = buf.seg
      /\ buf' = [id |-> buf'.id, off |-> buf'.off, seg |-> buf'.seg]
      /\ buf.seg = ZeroSegs
  BY <1>1, <1>2, <1>3, Parts DEF WorkSound, LogSound
<1>5. \A a, item : item # Zero => (InLog(a, item)' <=> InLog(a, item))
  <2>1. ASSUME NEW a, NEW item, item # Zero, InLog(a, item)
        PROVE  InLog(a, item)'
    BY <1>3, <1>4, <2>1, NothingInZeros DEF InLog
  <2>2. ASSUME NEW a, NEW item, item # Zero, InLog(a, item)'
        PROVE  InLog(a, item)
    BY <1>3, <1>4, <2>2 DEF InLog, ZeroSegs
  <2> QED
    BY <2>1, <2>2
<1>6. TypeOK'
  BY <1>1, <1>2, <1>3, <1>4, Parts DEF TypeOK, SameMap
<1>7. LogSound(m)'
  BY <1>2, <1>3, <1>4 DEF WorkSound, LogSound, Flushing
<1>8. LocalsSound(m)'
  BY <1>2, <1>3 DEF WorkSound, LocalsSound, Adding, Filling, Flushing, SameMap
<1>9. RoomSound(m)'
  BY <1>2 DEF RoomSound
<1>10. MapSound(m)'
  <2>1. \A k : Led(k) => Led(k)'
    BY <1>3, <1>4, <1>5, SegmentKinds DEF Led, SameMap
  <2> QED
    BY <1>2, <1>3, <2>1 DEF WorkSound, MapSound, SameMap, Filling, Flushing
<1>11. BlocksSound(m)'
  BY <1>2, <1>3, <1>5, SegmentKinds DEF WorkSound, BlocksSound
<1> QED
  BY <1>2, <1>6, <1>7, <1>8, <1>9, <1>10, <1>11
  DEF WorkSound, WorkPlaces, Places, LookPlaces

LEMMA ResetSound ==
  ASSUME NEW m, Mutators = {m}, WorkSound(m), Reset(m)
  PROVE  WorkSound(m)'
<1>1. TypeOK /\ m \in Threads
  BY Parts DEF WorkSound
<1>2. /\ pc[m] = "reset" /\ pc'[m] = "idle" /\ pc' \in [Threads -> Places]
      /\ \A t \in Lookers : pc'[t] = pc[t]
  BY <1>1, PcAfter DEF Reset, Places
<1>3. /\ UNCHANGED <<next, cur, disk, ns, my>> /\ SameMap /\ Returns(m)
      /\ buf' = [buf EXCEPT !.off = 1]
  BY DEF Reset, SameButBuf
<1>4. /\ buf'.id = buf.id /\ buf'.off = 1 /\ buf'.seg = buf.seg
      /\ buf' = [id |-> buf'.id, off |-> buf'.off, seg |-> buf'.seg]
      /\ buf.seg = ZeroSegs /\ 1 < SegNum /\ 1 \in 1 .. SegNum
  BY <1>1, <1>2, <1>3, Parts DEF WorkSound, LogSound
<1>5. \A a, item : InLog(a, item)' <=> InLog(a, item)
  BY <1>3, <1>4 DEF InLog
<1>6. /\ made' \subseteq 1 .. nInode /\ made' \subseteq 1 .. MaxInode
      /\ \A k \in made' : Led(k)
  BY <1>2, <1>3, MadeNow DEF Flushing
<1>7. TypeOK'
  BY <1>1, <1>2, <1>3, <1>4, <1>6, Parts DEF TypeOK, SameMap
<1>8. LogSound(m)'
  BY <1>2, <1>3, <1>4 DEF WorkSound, LogSound, Flushing
<1>9. LocalsSound(m)'
  BY <1>2 DEF LocalsSound, Adding, Filling, Flushing
<1>10. RoomSound(m)'
  BY <1>2 DEF RoomSound
<1>11. MapSound(m)'
  <2>1. \A k : Led(k) => Led(k)'
    BY <1>3, <1>4, <1>5, NothingInZeros, SegmentKinds DEF Led, SameMap
  <2> QED
    BY <1>2, <1>3, <1>6, <2>1 DEF MapSound, SameMap, Filling, Flushing
<1>12. BlocksSound(m)'
  BY <1>2, <1>3, <1>5 DEF WorkSound, BlocksSound
<1> QED
  BY <1>2, <1>7, <1>8, <1>9, <1>10, <1>11, <1>12
  DEF WorkSound, WorkPlaces, Places, LookPlaces

-----------------------------------------------------------------------------
(* The look-ups: they read what the one thread writes, and write nothing   *)
(* that it reads.                                                          *)

\* A step of look-up t, which may load cur_container.
LooksOn(m, t) ==
  /\ \E from, to \in LookPlaces : Goes(t, from, to)
  /\ my' \in [Threads -> Locals] /\ my'[m] = my[m]
  /\ cur' \in [id : ContainerIds, seg : [SegIds -> Segments]]
  /\ UNCHANGED <<buf, next, disk, ns, made>> /\ SameMap

LEMMA LooksOnSound ==
  ASSUME NEW m, Mutators = {m}, WorkSound(m), NEW t \in Lookers, LooksOn(m, t)
  PROVE  WorkSound(m)'
<1>1. TypeOK /\ m \in Threads /\ t \in Threads /\ t # m
  BY Parts, ThreadsAssumption DEF WorkSound, Threads
<1>2. PICK from \in LookPlaces, to \in LookPlaces : Goes(t, from, to)
  BY DEF LooksOn
<1>3. to \in Places
  BY <1>2 DEF LookPlaces, Places
<1>4. /\ pc' \in [Threads -> Places] /\ pc'[m] = pc[m]
      /\ \A u \in Lookers : pc'[u] \in LookPlaces
  BY <1>1, <1>2, <1>3 DEF Goes, TypeOK, WorkSound, Threads
<1>5. /\ buf' = buf /\ next' = next /\ disk' = disk /\ ns' = ns /\ made' = made
      /\ imap' = imap /\ nInode' = nInode /\ my'[m] = my[m]
  BY DEF LooksOn, SameMap
<1>6. TypeOK'
  BY <1>1, <1>4, <1>5 DEF LooksOn, TypeOK, Locals
<1>7. /\ \A a, item : InLog(a, item)' <=> InLog(a, item)
      /\ \A n : Led(n)' <=> Led(n)
  BY <1>5 DEF InLog, Led
<1>8. LogSound(m)'
  BY <1>4, <1>5 DEF WorkSound, LogSound
<1>9. LocalsSound(m)'
  BY <1>4, <1>5 DEF WorkSound, LocalsSound
<1>10. RoomSound(m)'
  BY <1>4, <1>5 DEF WorkSound, RoomSound
<1>11. MapSound(m)'
  BY <1>4, <1>5, <1>7 DEF WorkSound, MapSound
<1>12. BlocksSound(m)'
  BY <1>4, <1>5, <1>7 DEF WorkSound, BlocksSound
<1> QED
  BY <1>4, <1>6, <1>8, <1>9, <1>10, <1>11, <1>12 DEF WorkSound

\* The local variables of the others are left alone.
LEMMA OtherLocals ==
  ASSUME NEW m, Mutators = {m}, TypeOK, NEW t \in Lookers, NEW new \in Locals,
         my' = [my EXCEPT ![t] = new]
  PROVE  my' \in [Threads -> Locals] /\ my'[m] = my[m]
<1>1. t \in Threads /\ t # m /\ my \in [Threads -> Locals] /\ m \in Threads
  BY Parts, ThreadsAssumption DEF Threads
<1> QED
  BY <1>1

\* Where a look-up is decides which of the steps it takes.
LEMMA LookSteps ==
  ASSUME NEW t, pc[t] \in LookPlaces, Continue(t)
  PROVE  LookInMap(t) \/ Which(t) \/ Read(t) \/ CopyOut(t) \/ LookReturns(t)
  BY DEF Continue, LookPlaces, Goes, LoadCount, StoreCount, TakeNumber, SetSlotId,
         SetSlotAddr, Find, File, Check, Copy, LoadOffset, StoreOffset, Compare,
         WriteOut, Clear, SetId, Reset

LEMMA WorkSteps ==
  ASSUME NEW t, pc[t] \in WorkPlaces, Continue(t)
  PROVE  \/ LoadCount(t) \/ StoreCount(t) \/ TakeNumber(t) \/ SetSlotId(t)
         \/ SetSlotAddr(t) \/ Find(t) \/ File(t) \/ Check(t) \/ Copy(t)
         \/ LoadOffset(t) \/ StoreOffset(t) \/ Compare(t)
         \/ WriteOut(t) \/ Clear(t) \/ SetId(t) \/ Reset(t)
  BY DEF Continue, WorkPlaces, Places, LookPlaces, Goes, LookInMap, Which, Read, CopyOut,
         LookReturns

\* A set of numbers has a least element, which Min chooses.
LEMMA LeastOf ==
  ASSUME NEW S, S \subseteq Nat, S # {}
  PROVE  Min(S) \in S
<1>1. \E x \in S : \A y \in S : ~(<<y, x>> \in OpToRel(<, Nat))
  BY NatLessThanWellFounded, WFMin, Zenon
<1>2. OpToRel(<, Nat) = {p \in Nat \X Nat : p[1] < p[2]}
  BY Zenon DEF OpToRel
<1>3. PICK x \in S : \A y \in S : ~(<<y, x>> \in {p \in Nat \X Nat : p[1] < p[2]})
  BY <1>1, <1>2, Zenon
<1>4. ASSUME NEW y \in S PROVE x <= y
  <2>1. <<y, x>> \in Nat \X Nat /\ <<y, x>>[1] = y /\ <<y, x>>[2] = x
    OBVIOUS
  <2>2. ~(y < x)
    BY <1>3, <2>1, Zenon
  <2> QED
    BY <2>2
<1>5. \E z \in S : \A y \in S : z <= y
  BY <1>4
<1> QED
  BY <1>5, Zenon DEF Min

\* A look-up keeps the invariant, whichever of its steps it takes.
LEMMA StartLookSound ==
  ASSUME NEW m, Mutators = {m}, WorkSound(m), NEW t \in Lookers, NEW n \in 1 .. MaxInode,
         StartLook(t, n)
  PROVE  WorkSound(m)'
<1>1. TypeOK /\ t \in Threads /\ my \in [Threads -> Locals] /\ MaxInode \in Nat
  BY Parts DEF WorkSound, Threads
<1> DEFINE new == [my[t] EXCEPT !.n = n, !.item = Zero]
<1>2. my' = [my EXCEPT ![t] = new] /\ new \in Locals
  <2>1. my[t] \in Locals /\ Zero \in Segments /\ n \in 0 .. MaxInode
    BY <1>1 DEF Segments
  <2> QED
    BY <1>1, <2>1 DEF StartLook, Locals
<1> HIDE DEF new
<1>3. my' \in [Threads -> Locals] /\ my'[m] = my[m]
  BY <1>1, <1>2, OtherLocals
<1> QED
  BY <1>1, <1>3, LooksOnSound DEF LooksOn, StartLook, LookPlaces, SameLog, TypeOK

LEMMA LookInMapSound ==
  ASSUME NEW m, Mutators = {m}, WorkSound(m), NEW t \in Lookers, LookInMap(t)
  PROVE  WorkSound(m)'
<1>1. TypeOK /\ t \in Threads /\ my \in [Threads -> Locals]
  BY Parts DEF WorkSound, Threads
<1> DEFINE slots == {i \in DOMAIN imap : imap[i].id = my[t].n}
           addr  == IF slots = {} THEN NoAddr ELSE imap[Min(slots)].addr
           new   == [my[t] EXCEPT !.addr = addr]
<1>2. addr \in Addr
  <2>1. imap \in [1 .. MaxInode -> [id : 0 .. MaxInode, addr : Addr]]
    BY <1>1 DEF TypeOK
  <2>2. slots \subseteq 1 .. MaxInode
    BY <2>1
  <2>3. slots # {} => Min(slots) \in 1 .. MaxInode
    <3>1. slots \subseteq Nat
      BY <2>2, ThreadsAssumption
    <3> HIDE DEF slots
    <3> QED
      BY <2>2, <3>1, LeastOf
  <2>4. NoAddr \in Addr
    BY ThreadsAssumption DEF NoAddr, At, Addr
  <2> HIDE DEF slots
  <2> QED
    BY <2>1, <2>3, <2>4
<1>3. /\ my' = [my EXCEPT ![t] = new]
      /\ Goes(t, "map", IF addr = NoAddr THEN "idle" ELSE "which")
  BY DEF LookInMap
<1>4. \E from, to \in LookPlaces : Goes(t, from, to)
  BY <1>3, Zenon DEF LookPlaces
<1> HIDE DEF addr
<1>5. new \in Locals
  BY <1>1, <1>2 DEF Locals
<1> HIDE DEF new
<1>6. my' \in [Threads -> Locals] /\ my'[m] = my[m]
  BY <1>1, <1>3, <1>5, OtherLocals
<1>7. SameMap /\ SameLog /\ made' = made
  BY DEF LookInMap
<1> QED
  BY <1>1, <1>4, <1>6, <1>7, LooksOnSound DEF LooksOn, SameLog, TypeOK

LEMMA WhichSound ==
  ASSUME NEW m, Mutators = {m}, WorkSound(m), NEW t \in Lookers, Which(t)
  PROVE  WorkSound(m)'
<1>1. TypeOK /\ my \in [Threads -> Locals]
  BY Parts DEF WorkSound
<1>2. \E from, to \in LookPlaces : Goes(t, from, to)
  BY DEF Which, LookPlaces
<1> QED
  BY <1>1, <1>2, LooksOnSound DEF LooksOn, Which, SameLog, TypeOK

LEMMA ReadSound ==
  ASSUME NEW m, Mutators = {m}, WorkSound(m), NEW t \in Lookers, Read(t)
  PROVE  WorkSound(m)'
<1>1. TypeOK /\ my \in [Threads -> Locals]
  BY Parts DEF WorkSound
<1>2. \E from, to \in LookPlaces : Goes(t, from, to)
  BY DEF Read, LookPlaces
<1>3. cur' \in [id : ContainerIds, seg : [SegIds -> Segments]]
  <2>1. ZeroSegs \in [SegIds -> Segments] /\ 0 \in ContainerIds
    BY ThreadsAssumption DEF ZeroSegs, Segments, ContainerIds
  <2>2. \A c \in DOMAIN disk : c \in ContainerIds /\ disk[c] \in [SegIds -> Segments]
    BY <1>1 DEF TypeOK
  <2> QED
    BY <2>1, <2>2 DEF Read
<1> QED
  BY <1>1, <1>2, <1>3, LooksOnSound DEF LooksOn, Read

LEMMA CopyOutSound ==
  ASSUME NEW m, Mutators = {m}, WorkSound(m), NEW t \in Lookers, CopyOut(t)
  PROVE  WorkSound(m)'
<1>1. TypeOK /\ t \in Threads /\ my \in [Threads -> Locals]
  BY Parts DEF WorkSound, Threads
<1>2. \E from, to \in LookPlaces : Goes(t, from, to)
  BY DEF CopyOut, LookPlaces
<1>3. PICK item \in Segments : my' = [my EXCEPT ![t].item = item]
  <2>1. \A s : Seg(buf, s) \in Segments /\ Seg(cur, s) \in Segments
    BY <1>1 DEF TypeOK, Seg, Segments
  <2> QED
    BY <2>1 DEF CopyOut
<1> DEFINE new == [my[t] EXCEPT !.item = item]
<1>4. my' = [my EXCEPT ![t] = new] /\ new \in Locals
  BY <1>1, <1>3 DEF Locals
<1> HIDE DEF new
<1>5. my' \in [Threads -> Locals] /\ my'[m] = my[m]
  BY <1>1, <1>4, OtherLocals
<1> QED
  BY <1>1, <1>2, <1>5, LooksOnSound DEF LooksOn, CopyOut, SameLog, TypeOK

LEMMA LookReturnsSound ==
  ASSUME NEW m, Mutators = {m}, WorkSound(m), NEW t \in Lookers, LookReturns(t)
  PROVE  WorkSound(m)'
<1>1. TypeOK /\ my \in [Threads -> Locals]
  BY Parts DEF WorkSound
<1>2. \E from, to \in LookPlaces : Goes(t, from, to)
  BY DEF LookReturns, LookPlaces
<1> QED
  BY <1>1, <1>2, LooksOnSound DEF LooksOn, LookReturns, SameLog, TypeOK

-----------------------------------------------------------------------------
(* The invariant. *)

LEMMA InitWork ==
  ASSUME NEW m, Mutators = {m}, Init
  PROVE  WorkSound(m)
<1>1. m \in Threads /\ Lookers \subseteq Threads
  BY DEF Threads
<1>2. /\ SegNum \in Nat /\ SegNum >= 4 /\ MaxInode \in Nat \ {0} /\ MaxContainer \in Nat \ {0}
      /\ 0 \in ContainerIds /\ 1 \in SegIds /\ 2 \in SegIds
  BY ThreadsAssumption DEF ContainerIds, SegIds
<1>3. /\ RootSegs \in [SegIds -> Segments] /\ RootSegs[1] = InodeSeg(1)
      /\ \A s \in SegIds : \A d : RootSegs[s] # BlockSeg(d)
  BY <1>2, SegmentKinds DEF RootSegs, ZeroSegs, Segments
<1>4. pc[m] = "idle" /\ \A t \in Lookers : pc[t] = "idle"
  BY <1>1 DEF Init
<1>5. DOMAIN disk = {} /\ buf.id = 0 /\ buf.off = 3 /\ buf.seg = RootSegs /\ next = 0
  BY DEF Init
<1>6. TypeOK
  <2>1. buf \in [id : ContainerIds, off : 1 .. SegNum, seg : [SegIds -> Segments]]
    BY <1>2, <1>3 DEF Init
  <2>2. cur \in [id : ContainerIds, seg : [SegIds -> Segments]]
    BY <1>2, <1>3 DEF Init
  <2>3. DOMAIN disk \subseteq ContainerIds /\ disk \in [DOMAIN disk -> [SegIds -> Segments]]
    BY DEF Init
  <2>4. imap \in [1 .. MaxInode -> [id : 0 .. MaxInode, addr : Addr]]
    BY <1>2 DEF Init, Addr, At, NoAddr
  <2>5. my \in [Threads -> [n : 0 .. MaxInode, item : Segments, load : 0 .. MaxInode + SegNum,
                            addr : Addr]]
    BY <1>2 DEF Init, Addr, At, NoAddr, Segments
  <2>6. pc \in [Threads -> Places]
    BY DEF Init, Places
  <2>7. next \in ContainerIds /\ nInode \in 1 .. MaxInode /\ ns \subseteq Data
        /\ made \subseteq 1 .. MaxInode
    BY <1>2 DEF Init
  <2> QED
    BY <2>1, <2>2, <2>3, <2>4, <2>5, <2>6, <2>7 DEF TypeOK
<1>7. LogSound(m)
  BY <1>2, <1>4, <1>5 DEF LogSound, Flushing
<1>8. LocalsSound(m) /\ RoomSound(m)
  BY <1>4 DEF LocalsSound, RoomSound, Adding, Filling, Flushing
<1>9. MapSound(m)
  <2>1. imap[1].id = 1 /\ imap[1].addr.cid = 0 /\ imap[1].addr.seg = 1
    BY <1>2 DEF Init, At
  <2>2. Led(1)
    BY <1>2, <1>3, <1>5, <2>1 DEF Led, InLog
  <2>3. made = {1} /\ nInode = 1
    BY DEF Init
  <2> QED
    BY <1>4, <2>2, <2>3 DEF MapSound, Filling, Flushing
<1>10. BlocksSound(m)
  <2>1. \A d \in Data, a \in LogAddr : ~InLog(a, BlockSeg(d))
    BY <1>3, <1>5 DEF InLog
  <2> QED
    BY <1>4, <2>1 DEF BlocksSound
<1> QED
  BY <1>4, <1>6, <1>7, <1>8, <1>9, <1>10 DEF WorkSound, WorkPlaces, LookPlaces

LEMMA StillWork ==
  ASSUME NEW m, WorkSound(m), UNCHANGED vars
  PROVE  WorkSound(m)'
<1>1. /\ buf' = buf /\ next' = next /\ cur' = cur /\ disk' = disk /\ ns' = ns
      /\ made' = made /\ imap' = imap /\ nInode' = nInode /\ my' = my /\ pc' = pc
  BY DEF vars
<1>2. TypeOK'
  BY <1>1 DEF TypeOK, WorkSound
<1>3. /\ \A a, item : InLog(a, item)' <=> InLog(a, item)
      /\ \A n : Led(n)' <=> Led(n)
  BY <1>1 DEF InLog, Led
<1>4. LogSound(m)' /\ LocalsSound(m)' /\ RoomSound(m)'
  BY <1>1 DEF WorkSound, LogSound, LocalsSound, RoomSound
<1>5. MapSound(m)'
  BY <1>1, <1>3 DEF WorkSound, MapSound
<1>6. BlocksSound(m)'
  BY <1>1, <1>3 DEF WorkSound, BlocksSound
<1> QED
  BY <1>1, <1>2, <1>4, <1>5, <1>6 DEF WorkSound

LEMMA NextWork ==
  ASSUME NEW m, Mutators = {m}, WorkSound(m), [Next]_vars
  PROVE  WorkSound(m)'
<1>1. CASE UNCHANGED vars
  BY <1>1, StillWork
<1>2. CASE Next
  <2>1. PICK t \in Threads : Start(t) \/ Continue(t)
    BY <1>2 DEF Next
  <2>2. \/ t \in Lookers /\ t # m
        \/ t = m /\ m \in Mutators /\ m \notin Lookers
    BY <2>1, ThreadsAssumption DEF Threads
  <2>3. CASE t \in Lookers /\ t # m
    <3>1. pc[t] \in LookPlaces
      BY <2>3 DEF WorkSound
    <3>2. CASE Start(t)
      <4>1. PICK n \in 1 .. MaxInode : StartLook(t, n)
        BY <2>3, <3>2 DEF Start
      <4> QED
        BY <2>3, <4>1, StartLookSound
    <3>3. CASE Continue(t)
      <4>1. LookInMap(t) \/ Which(t) \/ Read(t) \/ CopyOut(t) \/ LookReturns(t)
        BY <3>1, <3>3, LookSteps
      <4> QED
        BY <2>3, <4>1, LookInMapSound, WhichSound, ReadSound, CopyOutSound,
           LookReturnsSound
    <3> QED
      BY <2>1, <3>2, <3>3
  <2>4. CASE t = m /\ m \in Mutators /\ m \notin Lookers
    <3>1. pc[m] \in WorkPlaces
      BY DEF WorkSound
    <3>2. CASE Start(m)
      BY <2>4, <3>2, StartCreateSound, StartWriteSound DEF Start
    <3>3. CASE Continue(m)
      <4>1. \/ LoadCount(m) \/ StoreCount(m) \/ TakeNumber(m) \/ SetSlotId(m)
            \/ SetSlotAddr(m) \/ Find(m) \/ File(m) \/ Check(m) \/ Copy(m)
            \/ LoadOffset(m) \/ StoreOffset(m) \/ Compare(m)
            \/ WriteOut(m) \/ Clear(m) \/ SetId(m) \/ Reset(m)
        BY <3>1, <3>3, WorkSteps
      <4> QED
        BY <4>1, LoadCountSound, StoreCountSound, TakeNumberSound, SetSlotIdSound,
           SetSlotAddrSound, FindSound, FileSound, CheckSound, CopySound, LoadOffsetSound,
           StoreOffsetSound, CompareSound, WriteOutSound, ClearSound, SetIdSound, ResetSound
    <3> QED
      BY <2>1, <2>4, <3>2, <3>3
  <2> QED
    BY <2>2, <2>3, <2>4
<1> QED
  BY <1>1, <1>2

LEMMA WorkHolds ==
  ASSUME NEW m, Mutators = {m}
  PROVE  Spec => []WorkSound(m)
<1>1. Init => WorkSound(m)
  BY InitWork
<1>2. WorkSound(m) /\ [Next]_vars => WorkSound(m)'
  BY NextWork
<1> QED
  BY <1>1, <1>2, PTL DEF Spec

-----------------------------------------------------------------------------
(* The theorems.  One thread serves lfs_create and lfs_write, any number   *)
(* serves look-ups between its statements.                                 *)

\* Nothing that container_add_seg and lfs_create compute leaves its range: the offset
\* stays within the container, the number of inodes within the map.
THEOREM ThreadsTyped ==
  ASSUME NEW m, Mutators = {m}
  PROVE  Spec => []TypeOK
<1>1. WorkSound(m) => TypeOK
  BY DEF WorkSound
<1> QED
  BY <1>1, WorkHolds, PTL

\* What holds between any two statements of the thread: module ThreadsInv.
THEOREM StatementsAgree ==
  ASSUME NEW m, Mutators = {m}
  PROVE  Spec => []ThreadsSound
<1>1. WorkSound(m) => ThreadsSound
  BY WorkSoundIs
<1> QED
  BY <1>1, WorkHolds, PTL

\* The map leads to the inode of every file that lfs_create has made, at every moment
\* afterwards: while a segment is filled but not counted, and in every step of the
\* flush of container_add_seg, when the container is in the file, in memory, or both.
THEOREM MadeStaysLogged ==
  ASSUME NEW m, Mutators = {m}
  PROVE  Spec => []MadeIsLogged
<1>1. WorkSound(m) => MadeIsLogged
  BY DEF WorkSound, MapSound, Led, MadeIsLogged
<1> QED
  BY <1>1, WorkHolds, PTL
=============================================================================
