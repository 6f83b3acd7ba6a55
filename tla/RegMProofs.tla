----------------------------- MODULE RegMProofs -----------------------------
(***************************************************************************)
(* The space accounting of the register manager, for every number of       *)
(* volumes, callers, sizes and every block size: SpaceInv is inductive, so *)
(* no byte of a volume ever has two owners.                                *)
(***************************************************************************)
EXTENDS RegM, BlkAddrProofs, FiniteSetTheorems

-----------------------------------------------------------------------------
(* Positions of the extents that the handlers build.                       *)

\* Positions of a record with natural address fields are naturals, and its size is
\* the distance between them.
LEMMA Positions ==
    ASSUME NEW x, x.BeginIndex \in Nat, x.BeginOffset \in Nat,
           x.EndIndex \in Nat, x.EndOffset \in Nat
    PROVE  /\ BeginPos(x) \in Nat /\ EndPos(x) \in Nat
           /\ calc_object_size(x) = EndPos(x) - BeginPos(x)
<1>1. x.BeginIndex * BlkSize \in Nat /\ x.EndIndex * BlkSize \in Nat BY SizeAssumption
<1> QED BY <1>1 DEF BeginPos, EndPos, get_oid_begin_pos, get_oid_end_pos,
                    calc_object_size, get_oid_size

\* The tail that AllocateBlks cuts off a chip.
LEMMA TailFacts ==
    ASSUME NEW d \in Chip, NEW a \in Nat, a <= EndPos(d)
    PROVE  /\ TailOf(d, a) \in Extent
           /\ TailOf(d, a).VolumeId = d.VolumeId
           /\ BeginPos(TailOf(d, a)) = EndPos(d) - a
           /\ EndPos(TailOf(d, a)) = EndPos(d)
           /\ TailOf(d, a).BeginOffset < BlkSize
           /\ TailOf(d, a).EndOffset = d.EndOffset
<1>1. d.EndIndex \in Nat /\ d.EndOffset \in Nat /\ d.VolumeId \in Nat BY DEF Chip
<1>2. get_oid_begin_pos(d.EndIndex, d.EndOffset) = EndPos(d)
  BY DEF EndPos, get_oid_begin_pos, get_oid_end_pos
<1>3. BeginPos(d) \in Nat /\ EndPos(d) \in Nat BY Positions DEF Chip
<1>4. get_oid_begin_pos(d.EndIndex, d.EndOffset) + (-a) >= 0 /\ -a \in Int BY <1>2, <1>3
<1> DEFINE i == get_blk_index3(d.EndIndex, d.EndOffset, -a)
           o == get_blk_end_offset3(d.EndIndex, d.EndOffset, -a)
<1>5. /\ i \in Nat /\ o \in 0 .. (BlkSize - 1)
      /\ get_blk_end_offset(get_oid_end_pos3(d.EndIndex, d.EndOffset, -a)) = o
      /\ get_oid_begin_pos(i, o) = EndPos(d) - a
  BY <1>1, <1>2, <1>3, <1>4, PairMoved
<1> HIDE DEF i, o
<1>6. TailOf(d, a) = [VolumeId |-> d.VolumeId, BeginIndex |-> i, BeginOffset |-> o,
                      EndIndex |-> d.EndIndex, EndOffset |-> d.EndOffset]
  BY <1>5 DEF TailOf, i
<1>7. o \in Nat /\ o < BlkSize BY <1>5, SizeAssumption
<1> QED BY <1>1, <1>5, <1>6, <1>7 DEF Extent, BeginPos, EndPos

\* Locking a chip keeps its addresses.
LEMMA LockedFacts ==
    ASSUME NEW d \in Chip, NEW a \in Nat
    PROVE  /\ LockedForm(d, a) \in Chip
           /\ LockedForm(d, a).VolumeId = d.VolumeId
           /\ BeginPos(LockedForm(d, a)) = BeginPos(d)
           /\ EndPos(LockedForm(d, a)) = EndPos(d)
           /\ LockedForm(d, a).BeginOffset = d.BeginOffset
           /\ LockedForm(d, a).EndOffset = d.EndOffset
           /\ LockedForm(d, a).Size = d.Size - a
           /\ LockedForm(d, a).Lock = TRUE
<1>1. /\ LockedForm(d, a).VolumeId = d.VolumeId
      /\ LockedForm(d, a).BeginIndex = d.BeginIndex
      /\ LockedForm(d, a).BeginOffset = d.BeginOffset
      /\ LockedForm(d, a).EndIndex = d.EndIndex
      /\ LockedForm(d, a).EndOffset = d.EndOffset
      /\ LockedForm(d, a).Size = d.Size - a
  BY DEF LockedForm, Chip
<1>2. LockedForm(d, a).Lock = TRUE BY DEF LockedForm, Chip
<1>3. LockedForm(d, a) \in Chip
  <2>1. d.Size - a \in Int BY DEF Chip
  <2> QED BY <2>1, Zenon DEF LockedForm, Chip
<1> QED BY <1>1, <1>2, <1>3 DEF BeginPos, EndPos

\* What is left of a chip ends where the tail begins.
LEMMA ShrunkFacts ==
    ASSUME NEW d \in Chip, NEW a \in Nat, a <= EndPos(d)
    PROVE  /\ Shrunk(d, a) \in Chip
           /\ Shrunk(d, a).VolumeId = d.VolumeId
           /\ BeginPos(Shrunk(d, a)) = BeginPos(d)
           /\ EndPos(Shrunk(d, a)) = EndPos(d) - a
           /\ Shrunk(d, a).BeginOffset = d.BeginOffset
           /\ Shrunk(d, a).EndOffset < BlkSize
           /\ Shrunk(d, a).Size = d.Size - a
           /\ Shrunk(d, a).Lock = FALSE
<1> DEFINE t == TailOf(d, a)
<1>1. t \in Extent /\ BeginPos(t) = EndPos(d) - a /\ t.BeginOffset < BlkSize BY TailFacts
<1>2. t.BeginIndex \in Nat /\ t.BeginOffset \in Nat BY <1>1 DEF Extent
<1> HIDE DEF t
<1>3. Shrunk(d, a) = [d EXCEPT !.Size = @ - a, !.Lock = FALSE,
                               !.EndIndex = t.BeginIndex, !.EndOffset = t.BeginOffset]
  BY DEF Shrunk, t
<1>4. Shrunk(d, a).EndIndex = t.BeginIndex /\ Shrunk(d, a).EndOffset = t.BeginOffset
  BY <1>3 DEF Chip
<1>5. EndPos(Shrunk(d, a)) = BeginPos(t)
  BY <1>4 DEF BeginPos, EndPos, get_oid_begin_pos, get_oid_end_pos
<1>6. /\ Shrunk(d, a).VolumeId = d.VolumeId
      /\ Shrunk(d, a).BeginIndex = d.BeginIndex
      /\ Shrunk(d, a).BeginOffset = d.BeginOffset
      /\ Shrunk(d, a).Size = d.Size - a
  BY <1>3 DEF Chip
<1>7. Shrunk(d, a).Lock = FALSE BY <1>3 DEF Chip
<1>8. Shrunk(d, a) \in Chip
  <2>1. d.Size - a \in Int BY DEF Chip
  <2> QED BY <1>2, <1>3, <2>1, Zenon DEF Chip
<1> QED BY <1>1, <1>2, <1>4, <1>5, <1>6, <1>7, <1>8 DEF BeginPos

\* An extent cut from a volume begins at CurPosition.
LEMMA FreshFacts ==
    ASSUME NEW v \in Nat, NEW curp \in Nat, NEW a \in Nat
    PROVE  /\ FreshExtent(v, curp, a) \in Extent
           /\ FreshExtent(v, curp, a).VolumeId = v
           /\ BeginPos(FreshExtent(v, curp, a)) = curp
           /\ EndPos(FreshExtent(v, curp, a)) = curp + a
           /\ FreshExtent(v, curp, a).BeginOffset < BlkSize
           /\ FreshExtent(v, curp, a).EndOffset < BlkSize
<1>1. curp + a \in Nat OBVIOUS
<1> DEFINE i == get_blk_index(curp)
           o == get_blk_end_offset(curp)
           j == get_blk_index(curp + a)
           q == get_blk_end_offset(curp + a)
<1>2. /\ i \in Nat /\ o \in 0 .. (BlkSize - 1) /\ get_blk_begin_offset(curp) = o
      /\ get_oid_begin_pos(i, o) = curp
  BY PairOfPos
<1>3. /\ j \in Nat /\ q \in 0 .. (BlkSize - 1) /\ get_oid_begin_pos(j, q) = curp + a
  BY <1>1, PairOfPos
<1>4. o \in Nat /\ q \in Nat /\ o < BlkSize /\ q < BlkSize BY <1>2, <1>3, SizeAssumption
<1>5. FreshExtent(v, curp, a) = [VolumeId |-> v, BeginIndex |-> i, BeginOffset |-> o,
                                 EndIndex |-> j, EndOffset |-> q]
  BY <1>2 DEF FreshExtent
<1>6. get_oid_end_pos(j, q) = curp + a BY <1>3 DEF get_oid_end_pos, get_oid_begin_pos
<1> HIDE DEF i, o, j, q
<1> QED BY <1>2, <1>3, <1>4, <1>5, <1>6 DEF Extent, BeginPos, EndPos

\* The part that ResizeObject, DeleteObject and CompleteObject give back, and the
\* part that is kept, meet at the cut.
LEMMA SuffixFacts ==
    ASSUME NEW x \in Extent, NEW newPos \in Nat, BeginPos(x) + newPos <= EndPos(x)
    PROVE  /\ SuffixOf(x, newPos) \in Extent
           /\ SuffixOf(x, newPos).VolumeId = x.VolumeId
           /\ BeginPos(SuffixOf(x, newPos)) = BeginPos(x) + newPos
           /\ EndPos(SuffixOf(x, newPos)) = EndPos(x)
           /\ SuffixOf(x, newPos).BeginOffset < BlkSize
           /\ SuffixOf(x, newPos).EndOffset < BlkSize
<1> DEFINE n == calc_object_size(x)
           i == get_blk_index3(x.BeginIndex, x.BeginOffset, newPos)
           o == get_blk_end_offset3(x.BeginIndex, x.BeginOffset, newPos)
           j == get_blk_index3(x.BeginIndex, x.BeginOffset, n)
           q == get_blk_end_offset3(x.BeginIndex, x.BeginOffset, n)
<1>1. x.BeginIndex \in Nat /\ x.BeginOffset \in Nat /\ x.VolumeId \in Nat BY DEF Extent
<1>2. BeginPos(x) \in Nat /\ EndPos(x) \in Nat /\ n = EndPos(x) - BeginPos(x)
  BY Positions DEF Extent
<1>3. n \in Int /\ BeginPos(x) + n = EndPos(x) /\ BeginPos(x) + newPos >= 0 BY <1>2
<1>4. BeginPos(x) = get_oid_begin_pos(x.BeginIndex, x.BeginOffset) BY DEF BeginPos
<1> HIDE DEF n
<1>5. i \in Nat /\ o \in 0 .. (BlkSize - 1) /\ get_oid_begin_pos(i, o) = BeginPos(x) + newPos
  BY <1>1, <1>3, <1>4, PairMoved
<1>6. j \in Nat /\ q \in 0 .. (BlkSize - 1) /\ get_oid_begin_pos(j, q) = EndPos(x)
  BY <1>1, <1>2, <1>3, <1>4, PairMoved
<1>7. get_oid_end_pos(j, q) = EndPos(x) BY <1>6 DEF get_oid_end_pos, get_oid_begin_pos
<1>8. SuffixOf(x, newPos) = [VolumeId |-> x.VolumeId, BeginIndex |-> i, BeginOffset |-> o,
                             EndIndex |-> j, EndOffset |-> q]
  BY DEF SuffixOf, n
<1> HIDE DEF i, o, j, q
<1>9. o \in Nat /\ q \in Nat /\ o < BlkSize /\ q < BlkSize BY <1>5, <1>6, SizeAssumption
<1> QED BY <1>1, <1>5, <1>6, <1>7, <1>8, <1>9 DEF Extent, BeginPos, EndPos

LEMMA PrefixFacts ==
    ASSUME NEW x \in Extent, NEW newPos \in Nat, newPos # 0, x.BeginOffset < BlkSize
    PROVE  /\ PrefixOf(x, newPos) \in Extent
           /\ PrefixOf(x, newPos).VolumeId = x.VolumeId
           /\ BeginPos(PrefixOf(x, newPos)) = BeginPos(x)
           /\ EndPos(PrefixOf(x, newPos)) = BeginPos(x) + newPos
           /\ PrefixOf(x, newPos).BeginOffset < BlkSize
           /\ PrefixOf(x, newPos).EndOffset < BlkSize
<1> DEFINE i == get_blk_index3(x.BeginIndex, x.BeginOffset, newPos)
           o == get_blk_end_offset3(x.BeginIndex, x.BeginOffset, newPos)
<1>1. x.BeginIndex \in Nat /\ x.BeginOffset \in Nat /\ BeginPos(x) \in Nat
  BY Positions DEF Extent
<1>2. BeginPos(x) = get_oid_begin_pos(x.BeginIndex, x.BeginOffset)
      /\ BeginPos(x) + newPos >= 0 /\ newPos \in Int
  BY <1>1 DEF BeginPos
<1>3. i \in Nat /\ o \in 0 .. (BlkSize - 1) /\ get_oid_begin_pos(i, o) = BeginPos(x) + newPos
  BY <1>1, <1>2, PairMoved
<1>4. PrefixOf(x, newPos) = [x EXCEPT !.EndIndex = i, !.EndOffset = o] BY DEF PrefixOf
<1>5. get_oid_end_pos(i, o) = BeginPos(x) + newPos
  BY <1>3 DEF get_oid_end_pos, get_oid_begin_pos
<1> HIDE DEF i, o
<1>6. o \in Nat /\ o < BlkSize BY <1>3, SizeAssumption
<1> QED BY <1>1, <1>3, <1>4, <1>5, <1>6 DEF Extent, BeginPos, EndPos

-----------------------------------------------------------------------------
(* Steps that move no space.                                               *)

\* The space invariants only depend on the chips, the extents and CurPosition.
LEMMA SpaceUntouched ==
    ASSUME SpaceInv, UNCHANGED <<chipCol, work, hold>>,
           \A v \in VolumeIds :
               /\ volumeCol'[v].CurPosition + volumeCol'[v].Reserved
                     = volumeCol'[v].BlkCount * BlkSize
               /\ volumeCol[v].exists =>
                     /\ volumeCol'[v].exists
                     /\ volumeCol'[v].CurPosition = volumeCol[v].CurPosition
    PROVE  NoSharedSpace' /\ SpaceIsHandedOut' /\ ChipsWellFormed'
<1>1. NoSharedSpace' BY DEF SpaceInv, NoSharedSpace
<1>2. ChipsWellFormed' BY DEF SpaceInv, ChipsWellFormed, WellFormed
<1>3. ASSUME NEW x, HandedOut(x) PROVE HandedOut(x)'
  BY <1>3 DEF HandedOut
<1>4. SpaceIsHandedOut' BY <1>3 DEF SpaceInv, SpaceIsHandedOut
<1> QED BY <1>1, <1>2, <1>4

\* Without a change to the volumes either.
LEMMA VolumesUntouched ==
    ASSUME SpaceInv, UNCHANGED <<volumeCol, chipCol, work, hold>>
    PROVE  NoSharedSpace' /\ SpaceIsHandedOut' /\ ChipsWellFormed'
<1>1. \A v \in VolumeIds : volumeCol'[v].CurPosition + volumeCol'[v].Reserved
                              = volumeCol'[v].BlkCount * BlkSize
  BY DEF SpaceInv, SpaceIsHandedOut
<1> QED BY <1>1, SpaceUntouched

LEMMA RegisterVolumeStep ==
    ASSUME SpaceInv, NEW v \in VolumeIds, NEW n \in BlkCounts, RegisterVolume(v, n)
    PROVE  SpaceInv'
<1>1. n \in Nat /\ n * BlkSize \in Nat BY RegMAssumption, SizeAssumption
<1>2. volumeCol' \in [VolumeIds -> Volume]
  <2>1. CASE ~volumeCol[v].exists
    <3>1. [exists |-> TRUE, BlkCount |-> n, CurPosition |-> 0,
           Reserved |-> n * BlkSize, isOnline |-> FALSE] \in Volume
      BY <1>1 DEF Volume
    <3> QED BY <2>1, <3>1 DEF RegisterVolume, SpaceInv, TypeOK
  <2>2. CASE volumeCol[v].exists
    BY <2>2 DEF RegisterVolume, SpaceInv, TypeOK
  <2> QED BY <2>1, <2>2
<1>3. TypeOK'
  BY <1>1, <1>2 DEF RegisterVolume, SpaceInv, TypeOK, queueVars, handlerVars
<1>4. \A u \in VolumeIds :
          /\ volumeCol'[u].CurPosition + volumeCol'[u].Reserved
                = volumeCol'[u].BlkCount * BlkSize
          /\ volumeCol[u].exists =>
                /\ volumeCol'[u].exists
                /\ volumeCol'[u].CurPosition = volumeCol[u].CurPosition
  <2>1. CASE volumeCol[v].exists
    BY <1>1, <2>1 DEF RegisterVolume, SpaceInv, SpaceIsHandedOut, TypeOK
  <2>2. CASE ~volumeCol[v].exists
    <3>1. volumeCol' = [volumeCol EXCEPT ![v] =
              [exists |-> TRUE, BlkCount |-> n, CurPosition |-> 0,
               Reserved |-> n * BlkSize, isOnline |-> FALSE]]
      BY <2>2 DEF RegisterVolume
    <3>2. 0 + n * BlkSize = n * BlkSize BY <1>1, SizeAssumption
    <3> QED BY <2>2, <3>1, <3>2 DEF SpaceInv, SpaceIsHandedOut, TypeOK
  <2> QED BY <2>1, <2>2
<1>5. NoSharedSpace' /\ SpaceIsHandedOut' /\ ChipsWellFormed'
  BY <1>4, SpaceUntouched DEF RegisterVolume, handlerVars
<1>6. LockedChipIsMine' /\ HandlerLocals'
  BY DEF RegisterVolume, SpaceInv, LockedChipIsMine, MyChip, HandlerLocals, LocalsOf, handlerVars
<1> QED BY <1>3, <1>5, <1>6 DEF SpaceInv

LEMMA RegisterOnlineStep ==
    ASSUME SpaceInv, NEW v \in VolumeIds, NEW online \in BOOLEAN,
           volumeCol' = [volumeCol EXCEPT ![v].isOnline = online],
           rebuild' \in [Rebuilders -> {"idle", "wanted", "reading"}],
           register' \subseteq VolumeIds,
           unsure' \subseteq VolumeIds,
           UNCHANGED <<chipCol, queue, qlock, found, device, handlerVars>>
    PROVE  SpaceInv'
<1>1. volumeCol' \in [VolumeIds -> Volume]
  <2>1. volumeCol[v] \in Volume BY DEF SpaceInv, TypeOK
  <2>2. [volumeCol[v] EXCEPT !.isOnline = online] \in Volume BY <2>1, Zenon DEF Volume
  <2> QED BY <2>2 DEF SpaceInv, TypeOK
<1>2. TypeOK' BY <1>1 DEF SpaceInv, TypeOK, handlerVars
<1>3. \A u \in VolumeIds :
          /\ volumeCol'[u].CurPosition = volumeCol[u].CurPosition
          /\ volumeCol'[u].Reserved = volumeCol[u].Reserved
          /\ volumeCol'[u].BlkCount = volumeCol[u].BlkCount
  BY DEF SpaceInv, TypeOK, Volume
<1>4. \A u \in VolumeIds : volumeCol'[u].exists = volumeCol[u].exists
  BY DEF SpaceInv, TypeOK, Volume
<1>5. NoSharedSpace' /\ SpaceIsHandedOut' /\ ChipsWellFormed'
  BY <1>3, <1>4, SpaceUntouched DEF handlerVars, SpaceInv, SpaceIsHandedOut
<1>6. LockedChipIsMine' /\ HandlerLocals'
  BY DEF SpaceInv, LockedChipIsMine, MyChip, HandlerLocals, LocalsOf, handlerVars
<1> QED BY <1>2, <1>5, <1>6 DEF SpaceInv

\* A command of an administrator, whether it is answered or fails.
Command(v) ==
    \E a \in Admins, online \in AdminCmds :
        ManageMessage(a, v, online) \/ ManageMessageFails(a, v, online)

\* The other handlers stay where they are.
OthersKeep(c) ==
    \A e \in Callers \ {c} : /\ pc'[e] = pc[e] /\ req'[e] = req[e] /\ doc'[e] = doc[e]
                              /\ work'[e] = work[e] /\ hold'[e] = hold[e]

\* A step of one handler that is not a step away from a locked chip keeps the locks.
LEMMA LocksKept ==
    ASSUME SpaceInv, NEW c \in Callers, OthersKeep(c), pc'[c] # "shrink",
           \A e \in Callers \ {c} : pc[e] = "shrink" => MyChip(e) \in chipCol'
    PROVE  LockedChipIsMine'
<1>1. \A e \in Callers \ {c} : MyChip(e)' = MyChip(e) BY DEF OthersKeep, MyChip
<1> QED BY <1>1 DEF SpaceInv, LockedChipIsMine, OthersKeep

LEMMA LocalsKept ==
    ASSUME SpaceInv, NEW c \in Callers, OthersKeep(c), LocalsOf(c)'
    PROVE  HandlerLocals'
BY DEF SpaceInv, HandlerLocals, LocalsOf, OthersKeep

\* A step of one handler that touches no document and no extent.
LEMMA QuietStep ==
    ASSUME SpaceInv, NEW c \in Callers, OthersKeep(c), TypeOK',
           UNCHANGED <<volumeCol, chipCol, work, hold>>,
           pc'[c] # "shrink", LocalsOf(c)'
    PROVE  SpaceInv'
<1>1. \A e \in Callers \ {c} : pc[e] = "shrink" => MyChip(e) \in chipCol'
  BY DEF SpaceInv, LockedChipIsMine
<1>2. LockedChipIsMine' BY <1>1, LocksKept
<1>3. HandlerLocals' BY LocalsKept
<1>4. NoSharedSpace' /\ SpaceIsHandedOut' /\ ChipsWellFormed' BY VolumesUntouched
<1> QED BY <1>2, <1>3, <1>4 DEF SpaceInv

\* The rebuild of the queue.
LEMMA RebuildStep ==
    ASSUME SpaceInv, NEW r \in Rebuilders,
           RebuildRead(r) \/ RebuildWrite(r) \/ RebuildFails(r)
    PROVE  SpaceInv'
<1>1. ASSUME NEW part \in SUBSET found, queue' \in Orders(part)
      PROVE  queue' \in Seq(VolumeIds)
  <2>1. part \in SUBSET VolumeIds BY DEF SpaceInv, TypeOK
  <2>2. Cardinality(part) \in Nat
    BY <2>1, FS_Subset, FS_CardinalityType, RegMAssumption
  <2>3. queue' \in [1 .. Cardinality(part) -> VolumeIds] BY <1>1, <2>1 DEF Orders
  <2> QED BY <2>2, <2>3
<1>2. queue' \in Seq(VolumeIds)
  <2>1. queue \in Seq(VolumeIds) BY DEF SpaceInv, TypeOK
  <2>2. queue' = queue \/ \E part \in SUBSET found : queue' \in Orders(part)
    BY DEF RebuildRead, RebuildWrite, RebuildFails
  <2> QED BY <1>1, <2>1, <2>2
<1>3. qlock' \in {"free"} \cup Rebuilders /\ found' \subseteq VolumeIds /\ unsure' \subseteq VolumeIds
  BY DEF RebuildRead, RebuildWrite, RebuildFails, OnlineVolumes, SpaceInv, TypeOK
<1>4. rebuild' \in [Rebuilders -> {"idle", "wanted", "reading"}]
  BY DEF RebuildRead, RebuildWrite, RebuildFails, SpaceInv, TypeOK
<1>5. UNCHANGED <<volumeCol, chipCol, nodeVars, handlerVars>>
  BY DEF RebuildRead, RebuildWrite, RebuildFails
<1>6. TypeOK' BY <1>2, <1>3, <1>4, <1>5 DEF SpaceInv, TypeOK, nodeVars, handlerVars
<1>7. NoSharedSpace' /\ SpaceIsHandedOut' /\ ChipsWellFormed'
  BY <1>5, VolumesUntouched DEF handlerVars
<1>8. LockedChipIsMine' /\ HandlerLocals'
  BY <1>5 DEF SpaceInv, LockedChipIsMine, MyChip, HandlerLocals, LocalsOf, handlerVars
<1> QED BY <1>6, <1>7, <1>8 DEF SpaceInv

-----------------------------------------------------------------------------
(* AllocateBlks: the steps that only move the handler.                     *)

LEMMA CallAllocateBlksStep ==
    ASSUME SpaceInv, NEW c \in Callers, NEW size \in Sizes, CallAllocateBlks(c, size)
    PROVE  SpaceInv'
<1>1. size \in Nat \ {0} BY RegMAssumption
<1>2. data_align(size) \in Nat /\ data_align(size) >= size BY <1>1, DataAlign
<1>3. req' \in [Callers -> Request]
  BY <1>2 DEF CallAllocateBlks, SpaceInv, TypeOK, Request
<1>4. TypeOK'
  BY <1>3 DEF CallAllocateBlks, SpaceInv, TypeOK, States, queueVars, nodeVars
<1>5. req'[c].alloc_size > 0
  BY <1>1, <1>2 DEF CallAllocateBlks, SpaceInv, TypeOK, Request
<1>6. LocalsOf(c)'
  BY <1>5 DEF CallAllocateBlks, SpaceInv, TypeOK, HandlerLocals, LocalsOf
<1>7. OthersKeep(c) /\ pc'[c] # "shrink"
  BY DEF CallAllocateBlks, OthersKeep, SpaceInv, TypeOK
<1> QED BY <1>4, <1>6, <1>7, QuietStep DEF CallAllocateBlks

\* The walk along the queue keeps the size that was asked for.
LEMMA WalkStep ==
    ASSUME SpaceInv, NEW c \in Callers,
           \/ NoChipFits(c) \/ GetVolumeCount(c) \/ GetVolumeId(c)
           \/ GetVolumeIdOfEmpty(c) \/ ReserveMisses(c) \/ NoSpace(c)
    PROVE  SpaceInv'
<1>1. req[c] \in Request /\ req \in [Callers -> Request] /\ pc \in [Callers -> States]
      /\ queue \in Seq(VolumeIds) /\ VolumeIds \subseteq Nat
  BY RegMAssumption DEF SpaceInv, TypeOK
<1>2. queue' \in Seq(VolumeIds)
  <2>1. CASE GetVolumeId(c) BY <1>1, <2>1 DEF GetVolumeId
  <2>2. CASE ~GetVolumeId(c)
    BY <1>1, <2>2 DEF NoChipFits, GetVolumeCount, GetVolumeIdOfEmpty, ReserveMisses,
                      NoSpace, queueVars
  <2> QED BY <2>1, <2>2
<1>3. req' \in [Callers -> Request] /\ req'[c].alloc_size = req[c].alloc_size
  <2>1. CASE GetVolumeCount(c)
    <3>1. Len(queue) \in Nat BY <1>1
    <3> QED BY <1>1, <2>1, <3>1 DEF GetVolumeCount, Request
  <2>2. CASE GetVolumeId(c)
    <3>1. Head(queue) \in Nat BY <1>1, <2>2 DEF GetVolumeId
    <3> QED BY <1>1, <2>2, <3>1 DEF GetVolumeId, Request
  <2>3. CASE GetVolumeIdOfEmpty(c)
    <3>1. PICK v \in VolumeIds \cup {0} : req' = [req EXCEPT ![c].volumeId = v]
      BY <2>3 DEF GetVolumeIdOfEmpty
    <3>2. v \in Nat BY <1>1
    <3> QED BY <1>1, <3>1, <3>2 DEF Request
  <2>4. CASE ReserveMisses(c)
    <3>1. req[c].loopCount \in Nat /\ req[c].loopCount > 0
      BY <1>1, <2>4 DEF ReserveMisses, SpaceInv, HandlerLocals, LocalsOf, Request
    <3>2. req[c].loopCount - 1 \in Nat BY <3>1
    <3> QED BY <1>1, <2>4, <3>2 DEF ReserveMisses, Request
  <2>5. CASE NoChipFits(c) \/ NoSpace(c)
    BY <1>1, <2>5 DEF NoChipFits, NoSpace
  <2> QED BY <2>1, <2>2, <2>3, <2>4, <2>5
<1>4. UNCHANGED <<volumeCol, chipCol, qlock, found, rebuild, unsure, nodeVars, doc, work,
                 hold>>
  BY DEF NoChipFits, GetVolumeCount, GetVolumeId, GetVolumeIdOfEmpty, ReserveMisses,
         NoSpace, queueVars
<1>5. /\ pc' \in [Callers -> States]
      /\ pc[c] \in {"chip", "count", "loop", "reserve"}
      /\ pc'[c] \in {"count", "loop", "reserve", "nospace"}
      /\ \A e \in Callers \ {c} : pc'[e] = pc[e] /\ req'[e] = req[e]
  BY <1>1 DEF NoChipFits, GetVolumeCount, GetVolumeId, GetVolumeIdOfEmpty, ReserveMisses,
              NoSpace, States
<1>6. ASSUME pc'[c] = "reserve" PROVE req'[c].loopCount > 0
  <2>1. GetVolumeId(c) \/ GetVolumeIdOfEmpty(c)
    BY <1>1, <1>6 DEF NoChipFits, GetVolumeCount, ReserveMisses, NoSpace
  <2>2. req[c].loopCount > 0 /\ \E u : req' = [req EXCEPT ![c].volumeId = u]
    BY <2>1 DEF GetVolumeId, GetVolumeIdOfEmpty
  <2> QED BY <1>1, <2>2 DEF Request
<1>7. TypeOK' BY <1>2, <1>3, <1>4, <1>5 DEF SpaceInv, TypeOK, nodeVars
<1>8. LocalsOf(c)'
  BY <1>3, <1>4, <1>5, <1>6 DEF SpaceInv, HandlerLocals, LocalsOf
<1>9. OthersKeep(c) /\ pc'[c] # "shrink" BY <1>4, <1>5 DEF OthersKeep
<1> QED BY <1>4, <1>7, <1>8, <1>9, QuietStep

-----------------------------------------------------------------------------
(* Steps that move space.                                                  *)

\* What an owner of space is: nothing, or bytes of a volume.
Owner(x) ==
    \/ x = NoExtent
    \/ /\ x.VolumeId \in VolumeIds
       /\ BeginPos(x) \in Nat /\ EndPos(x) \in Nat
       /\ BeginPos(x) < EndPos(x)

LEMMA NoExtentFacts ==
    /\ NoExtent \in Extent
    /\ NoExtent.VolumeId = 0 /\ BeginPos(NoExtent) = 0 /\ EndPos(NoExtent) = 0
    /\ NoExtent.BeginOffset < BlkSize /\ NoExtent.EndOffset < BlkSize
    /\ \A x : Owner(x) => Apart(x, NoExtent)
<1>1. NoExtent \in Extent /\ NoExtent.VolumeId = 0 BY DEF NoExtent, Extent
<1>2. BeginPos(NoExtent) = 0 /\ EndPos(NoExtent) = 0
  BY SizeAssumption DEF NoExtent, BeginPos, EndPos, get_oid_begin_pos, get_oid_end_pos
<1>3. NoExtent.BeginOffset < BlkSize /\ NoExtent.EndOffset < BlkSize
  BY SizeAssumption DEF NoExtent
<1>4. ASSUME NEW x, Owner(x) PROVE Apart(x, NoExtent)
  <2>1. CASE x = NoExtent BY <1>2, <2>1 DEF Apart
  <2>2. CASE x.VolumeId \in VolumeIds BY <1>1, <2>2, RegMAssumption DEF Apart
  <2> QED BY <1>4, <2>1, <2>2 DEF Owner
<1> QED BY <1>1, <1>2, <1>3, <1>4

\* All the chips and extents are owners.
LEMMA Owners ==
    ASSUME SpaceInv
    PROVE  /\ \A x \in chipCol : Owner(x) /\ x # NoExtent
           /\ \A c \in Callers : Owner(work[c]) /\ Owner(hold[c])
<1>1. \A x \in chipCol : BeginPos(x) \in Nat /\ EndPos(x) \in Nat
  BY Positions DEF SpaceInv, TypeOK, Chip
<1>2. \A c \in Callers : /\ BeginPos(work[c]) \in Nat /\ EndPos(work[c]) \in Nat
                         /\ BeginPos(hold[c]) \in Nat /\ EndPos(hold[c]) \in Nat
  <2>1. \A x \in Extent : BeginPos(x) \in Nat /\ EndPos(x) \in Nat
    BY Positions DEF Extent
  <2> QED BY <2>1 DEF SpaceInv, TypeOK
<1>3. \A x \in chipCol : HandedOut(x) BY DEF SpaceInv, SpaceIsHandedOut
<1>4. \A x : HandedOut(x) => x # NoExtent
  BY NoExtentFacts, RegMAssumption DEF HandedOut
<1> QED BY <1>1, <1>2, <1>3, <1>4 DEF SpaceInv, SpaceIsHandedOut, HandedOut, Owner

\* A part of z is apart from whatever z is apart from ...
LEMMA ApartPart ==
    ASSUME NEW t, NEW z, NEW y, Owner(t), Apart(t, z),
           y.VolumeId = z.VolumeId,
           BeginPos(z) \in Nat, EndPos(z) \in Nat, BeginPos(y) \in Nat, EndPos(y) \in Nat,
           BeginPos(z) <= BeginPos(y), EndPos(y) <= EndPos(z)
    PROVE  Apart(t, y)
<1>1. BeginPos(t) \in Nat /\ EndPos(t) \in Nat BY NoExtentFacts DEF Owner
<1> QED BY <1>1 DEF Apart

\* ... and so is the union of two that meet.
LEMMA ApartJoin ==
    ASSUME NEW t, NEW w, NEW z, NEW y, Owner(t), Apart(t, w), Apart(t, z),
           y.VolumeId \in VolumeIds, w.VolumeId = y.VolumeId, z.VolumeId = y.VolumeId,
           BeginPos(w) \in Nat, EndPos(w) \in Nat, BeginPos(z) \in Nat, EndPos(z) \in Nat,
           EndPos(w) = BeginPos(z),
           BeginPos(y) = BeginPos(w), EndPos(y) = EndPos(z)
    PROVE  Apart(t, y)
<1>1. CASE t = NoExtent BY <1>1, NoExtentFacts, RegMAssumption DEF Apart
<1>2. CASE t # NoExtent BY <1>2 DEF Apart, Owner
<1> QED BY <1>1, <1>2

\* The volumes only hand out more.
VolumesGrow ==
    \A v \in VolumeIds :
        /\ volumeCol'[v].CurPosition + volumeCol'[v].Reserved
              = volumeCol'[v].BlkCount * BlkSize
        /\ volumeCol[v].exists =>
              /\ volumeCol'[v].exists
              /\ volumeCol'[v].CurPosition >= volumeCol[v].CurPosition

LEMMA VolumesKept == ASSUME SpaceInv, UNCHANGED volumeCol PROVE VolumesGrow
<1>1. \A v \in VolumeIds : volumeCol[v].CurPosition \in Nat BY DEF SpaceInv, TypeOK, Volume
<1> QED BY <1>1 DEF SpaceInv, SpaceIsHandedOut, VolumesGrow

\* One handler exchanges the chips in Rem, its work and its hold for the chips in
\* Add, a new work and a new hold.
Move(c, Rem, Add) ==
    /\ OthersKeep(c) /\ VolumesGrow
    /\ chipCol' = (chipCol \ Rem) \cup Add
    /\ \A t \in chipCol \ Rem, y \in Add \cup {work'[c], hold'[c]} : Apart(t, y)
    /\ \A e \in Callers \ {c}, y \in Add \cup {work'[c], hold'[c]} :
          Apart(work[e], y) /\ Apart(hold[e], y)
    /\ \A x, y \in Add : x # y => Apart(x, y)
    /\ \A x \in Add : Apart(x, work'[c]) /\ Apart(x, hold'[c])
    /\ Apart(work'[c], hold'[c])
    /\ \A y \in Add : HandedOut(y)' /\ WellFormed(y)
    /\ work'[c] # NoExtent => HandedOut(work[c])'
    /\ hold'[c] # NoExtent => HandedOut(hold[c])'

LEMMA MoveSpace ==
    ASSUME SpaceInv, TypeOK', LockedChipIsMine', NEW c \in Callers, LocalsOf(c)',
           NEW Rem, NEW Add, Move(c, Rem, Add)
    PROVE  SpaceInv'
<1> USE DEF Move
<1>1. \A x, y : Apart(x, y) <=> Apart(y, x) BY DEF Apart
<1>2. /\ \A x, y \in chipCol : x # y => Apart(x, y)
      /\ \A x \in chipCol, e \in Callers : Apart(x, work[e]) /\ Apart(x, hold[e])
      /\ \A e, d \in Callers : /\ Apart(work[e], hold[d])
                               /\ e # d => Apart(work[e], work[d]) /\ Apart(hold[e], hold[d])
  BY DEF SpaceInv, NoSharedSpace
<1>3. \A e \in Callers \ {c} : work'[e] = work[e] /\ hold'[e] = hold[e] BY DEF OthersKeep
<1>4. \A x, y \in chipCol' : x # y => Apart(x, y) BY <1>1, <1>2
<1>5. \A x \in chipCol', e \in Callers : Apart(x, work'[e]) /\ Apart(x, hold'[e])
  BY <1>1, <1>2, <1>3
<1>6. \A e, d \in Callers :
          /\ Apart(work'[e], hold'[d])
          /\ e # d => Apart(work'[e], work'[d]) /\ Apart(hold'[e], hold'[d])
  BY <1>1, <1>2, <1>3
<1>7. NoSharedSpace' BY <1>4, <1>5, <1>6 DEF NoSharedSpace
<1>8. ASSUME NEW x, HandedOut(x), EndPos(x) \in Nat PROVE HandedOut(x)'
  <2>1. /\ volumeCol[x.VolumeId].CurPosition \in Nat
        /\ volumeCol'[x.VolumeId].CurPosition \in Nat
    BY <1>8 DEF HandedOut, SpaceInv, TypeOK, Volume
  <2> QED BY <1>8, <2>1 DEF HandedOut, VolumesGrow
<1>9. /\ \A x \in chipCol : HandedOut(x) /\ EndPos(x) \in Nat
      /\ \A e \in Callers : /\ work[e] # NoExtent => HandedOut(work[e]) /\ EndPos(work[e]) \in Nat
                            /\ hold[e] # NoExtent => HandedOut(hold[e]) /\ EndPos(hold[e]) \in Nat
  BY Owners DEF SpaceInv, SpaceIsHandedOut, Owner
<1>10. \A x \in chipCol' : HandedOut(x)' BY <1>8, <1>9
<1>11. \A e \in Callers : /\ work'[e] # NoExtent => HandedOut(work[e])'
                          /\ hold'[e] # NoExtent => HandedOut(hold[e])'
  <2>1. ASSUME NEW e \in Callers \ {c}, work'[e] # NoExtent PROVE HandedOut(work[e])'
    <3>1. HandedOut(work[e]) /\ EndPos(work[e]) \in Nat BY <1>3, <1>9, <2>1
    <3>2. /\ work'[e].VolumeId = work[e].VolumeId /\ BeginPos(work'[e]) = BeginPos(work[e])
          /\ EndPos(work'[e]) = EndPos(work[e])
      BY <1>3
    <3> QED BY <1>8, <3>1, <3>2 DEF HandedOut
  <2>2. ASSUME NEW e \in Callers \ {c}, hold'[e] # NoExtent PROVE HandedOut(hold[e])'
    <3>1. HandedOut(hold[e]) /\ EndPos(hold[e]) \in Nat BY <1>3, <1>9, <2>2
    <3>2. /\ hold'[e].VolumeId = hold[e].VolumeId /\ BeginPos(hold'[e]) = BeginPos(hold[e])
          /\ EndPos(hold'[e]) = EndPos(hold[e])
      BY <1>3
    <3> QED BY <1>8, <3>1, <3>2 DEF HandedOut
  <2>3. ASSUME NEW e \in Callers
        PROVE  /\ work'[e] # NoExtent => HandedOut(work[e])'
               /\ hold'[e] # NoExtent => HandedOut(hold[e])'
    <3>1. CASE e = c BY <3>1
    <3>2. CASE e # c BY <3>2, <2>1, <2>2
    <3> QED BY <3>1, <3>2
  <2> QED BY <2>3
<1>12. SpaceIsHandedOut' BY <1>10, <1>11 DEF SpaceIsHandedOut, VolumesGrow
<1>13. ChipsWellFormed' BY DEF SpaceInv, ChipsWellFormed, WellFormed
<1>14. HandlerLocals' BY LocalsKept
<1> QED BY <1>7, <1>12, <1>13, <1>14 DEF SpaceInv

\* m is a chip of the collection with the addresses of d, and d is large enough for a.
Cuttable(d, a, m) ==
    /\ d \in Chip /\ a \in Nat /\ a > 0
    /\ m \in chipCol /\ m.Lock = TRUE /\ m.VolumeId = d.VolumeId
    /\ BeginPos(m) = BeginPos(d) /\ EndPos(m) = EndPos(d)
    /\ d.BeginOffset < BlkSize /\ d.EndOffset < BlkSize
    /\ d.Size = EndPos(d) - BeginPos(d) /\ a <= d.Size
    /\ BeginPos(d) \in Nat /\ EndPos(d) \in Nat /\ a <= EndPos(d)

\* The chip a handler has locked, and the chip as it read it.
LEMMA LockedChip ==
    ASSUME SpaceInv, NEW c \in Callers, pc[c] = "shrink"
    PROVE  Cuttable(doc[c], req[c].alloc_size, MyChip(c))
<1>1. doc[c] \in Chip /\ req[c].alloc_size \in Nat /\ req[c].alloc_size > 0
  BY DEF SpaceInv, TypeOK, Request, HandlerLocals, LocalsOf
<1>2. MyChip(c) \in chipCol BY DEF SpaceInv, LockedChipIsMine
<1>3. /\ MyChip(c).VolumeId = doc[c].VolumeId /\ MyChip(c).Lock = TRUE
      /\ BeginPos(MyChip(c)) = BeginPos(doc[c]) /\ EndPos(MyChip(c)) = EndPos(doc[c])
      /\ MyChip(c).BeginOffset = doc[c].BeginOffset /\ MyChip(c).EndOffset = doc[c].EndOffset
  BY <1>1, LockedFacts DEF MyChip
<1>4. doc[c].BeginOffset < BlkSize /\ doc[c].EndOffset < BlkSize
  BY <1>2, <1>3 DEF SpaceInv, ChipsWellFormed, WellFormed
<1>5. BeginPos(doc[c]) \in Nat /\ EndPos(doc[c]) \in Nat
      /\ calc_object_size(doc[c]) = EndPos(doc[c]) - BeginPos(doc[c])
  BY <1>1, Positions DEF Chip
<1>6. doc[c].Size = calc_object_size(doc[c]) /\ req[c].alloc_size <= doc[c].Size
  BY DEF SpaceInv, HandlerLocals, LocalsOf
<1> QED BY <1>1, <1>2, <1>3, <1>4, <1>5, <1>6 DEF Cuttable

LEMMA LockChipStep ==
    ASSUME SpaceInv, NEW c \in Callers, NEW d \in chipCol, LockChip(c, d)
    PROVE  SpaceInv'
<1> PICK a : a = req[c].alloc_size OBVIOUS
<1> PICK l : l = LockedForm(d, a) OBVIOUS
<1>1. d \in Chip /\ a \in Nat /\ a > 0 /\ d.Size \in Int /\ d.Size >= a /\ ~d.Lock
  BY DEF LockChip, SpaceInv, TypeOK, Request, Chip, HandlerLocals, LocalsOf
<1>2. /\ l \in Chip /\ l.VolumeId = d.VolumeId
      /\ BeginPos(l) = BeginPos(d) /\ EndPos(l) = EndPos(d)
      /\ l.BeginOffset = d.BeginOffset /\ l.EndOffset = d.EndOffset
      /\ l.Size = d.Size - a /\ l.Lock = TRUE
  BY <1>1, LockedFacts
<1>3. /\ BeginPos(d) \in Nat /\ EndPos(d) \in Nat /\ BeginPos(d) < EndPos(d)
      /\ calc_object_size(d) = EndPos(d) - BeginPos(d) /\ HandedOut(d)
      /\ d.Size = calc_object_size(d)
      /\ d.BeginOffset < BlkSize /\ d.EndOffset < BlkSize
  BY <1>1, Positions DEF SpaceInv, SpaceIsHandedOut, HandedOut, ChipsWellFormed, WellFormed, Chip
<1>4. calc_object_size(l) = EndPos(d) - BeginPos(d) BY <1>2, Positions DEF Chip
<1>5. /\ chipCol' = (chipCol \ {d}) \cup {l} /\ doc' = [doc EXCEPT ![c] = d]
      /\ pc' = [pc EXCEPT ![c] = "shrink"] /\ pc[c] = "chip"
      /\ UNCHANGED <<volumeCol, queueVars, nodeVars, req, work, hold>>
  BY DEF LockChip
<1>6. TypeOK'
  BY <1>1, <1>2, <1>5 DEF SpaceInv, TypeOK, States, queueVars, nodeVars
<1>7. OthersKeep(c) /\ VolumesGrow
  BY <1>5, VolumesKept DEF SpaceInv, TypeOK, OthersKeep
<1>8. doc'[c] = d /\ pc'[c] = "shrink" BY <1>5 DEF SpaceInv, TypeOK
<1>9. LocalsOf(c)'
  BY <1>1, <1>3, <1>5, <1>8 DEF SpaceInv, HandlerLocals, LocalsOf
<1>10. LockedChipIsMine'
  <2>1. MyChip(c)' = l BY <1>5, <1>8 DEF MyChip
  <2>2. ASSUME NEW e \in Callers \ {c}, pc[e] = "shrink"
        PROVE  /\ MyChip(e)' = MyChip(e) /\ MyChip(e) \in chipCol'
               /\ MyChip(e) # l
    <3>1. MyChip(e)' = MyChip(e) BY <1>7 DEF OthersKeep, MyChip
    <3>2. MyChip(e) \in chipCol /\ MyChip(e).Lock = TRUE BY <2>2, LockedChip DEF Cuttable
    <3>3. MyChip(e) # d BY <1>1, <3>2
    <3>4. Apart(MyChip(e), d) BY <3>2, <3>3 DEF SpaceInv, NoSharedSpace
    <3>5. MyChip(e) # l BY <1>2, <1>3, <3>4 DEF Apart
    <3> QED BY <1>5, <3>1, <3>2, <3>3, <3>5
  <2>3. \A e \in Callers \ {c} : pc'[e] = pc[e] BY <1>7 DEF OthersKeep
  <2>4. \A e, f \in Callers \ {c} : pc[e] = "shrink" /\ pc[f] = "shrink" /\ f # e =>
            MyChip(e) # MyChip(f)
    BY DEF SpaceInv, LockedChipIsMine
  <2>5. l \in chipCol' BY <1>5
  <2> QED BY <2>1, <2>2, <2>3, <2>4, <2>5 DEF LockedChipIsMine
<1>11. WellFormed(l) BY <1>1, <1>2, <1>3, <1>4 DEF WellFormed
<1>12. HandedOut(l)' BY <1>2, <1>3, <1>5 DEF HandedOut
<1>13. /\ \A t \in chipCol \ {d} : Apart(t, l)
       /\ \A e \in Callers : Apart(work[e], l) /\ Apart(hold[e], l)
       /\ \A e \in Callers : Apart(l, work[e]) /\ Apart(l, hold[e])
  <2>1. \A t : (Apart(t, d) => Apart(t, l)) /\ (Apart(d, t) => Apart(l, t) /\ Apart(t, l))
    BY <1>2 DEF Apart
  <2> QED BY <2>1 DEF SpaceInv, NoSharedSpace
<1>14. /\ work'[c] # NoExtent => HandedOut(work[c])'
       /\ hold'[c] # NoExtent => HandedOut(hold[c])'
  BY <1>5 DEF SpaceInv, SpaceIsHandedOut, HandedOut
<1>15. work'[c] = work[c] /\ hold'[c] = hold[c] BY <1>5
<1>16. /\ \A t \in chipCol \ {d}, y \in {l} \cup {work'[c], hold'[c]} : Apart(t, y)
       /\ \A e \in Callers \ {c}, y \in {l} \cup {work'[c], hold'[c]} :
              Apart(work[e], y) /\ Apart(hold[e], y)
       /\ Apart(work'[c], hold'[c])
  <2>1. \A x, y : Apart(x, y) <=> Apart(y, x) BY DEF Apart
  <2> QED BY <1>13, <1>15, <2>1 DEF SpaceInv, NoSharedSpace
<1>17. \A x \in {l} : Apart(x, work'[c]) /\ Apart(x, hold'[c]) BY <1>13, <1>15
<1>18. \A y \in {l} : HandedOut(y)' /\ WellFormed(y) BY <1>11, <1>12
<1>19. \A x, y \in {l} : x # y => Apart(x, y) OBVIOUS
<1>20. Move(c, {d}, {l})
  BY <1>5, <1>7, <1>14, <1>16, <1>17, <1>18, <1>19 DEF Move
<1> QED BY <1>6, <1>9, <1>10, <1>20, MoveSpace

\* Who is apart from m is apart from y.
PartOf(y, m) == \A z : Owner(z) /\ Apart(z, m) => Apart(z, y)

\* The tail a handler is about to cut off its chip.
LEMMA TailOfMine ==
    ASSUME SpaceInv, NEW d, NEW a, NEW m, Cuttable(d, a, m), NEW t, t = TailOf(d, a)
    PROVE  /\ t \in Extent /\ HandedOut(t) /\ t # NoExtent /\ Owner(t)
           /\ t.BeginOffset < BlkSize /\ t.EndOffset < BlkSize
           /\ t.VolumeId = d.VolumeId /\ BeginPos(t) = EndPos(d) - a
           /\ PartOf(t, m)
<1>1. /\ d \in Chip /\ a \in Nat /\ a > 0 /\ m \in chipCol
      /\ m.VolumeId = d.VolumeId /\ BeginPos(m) = BeginPos(d) /\ EndPos(m) = EndPos(d)
      /\ d.EndOffset < BlkSize /\ a <= d.Size /\ d.Size = EndPos(d) - BeginPos(d)
      /\ BeginPos(d) \in Nat /\ EndPos(d) \in Nat /\ a <= EndPos(d)
  BY DEF Cuttable
<1>2. /\ t \in Extent /\ t.VolumeId = d.VolumeId /\ BeginPos(t) = EndPos(d) - a
      /\ EndPos(t) = EndPos(d) /\ t.BeginOffset < BlkSize /\ t.EndOffset = d.EndOffset
  BY <1>1, TailFacts
<1>3. HandedOut(m) BY <1>1 DEF SpaceInv, SpaceIsHandedOut
<1>4. BeginPos(t) \in Nat /\ EndPos(t) \in Nat /\ BeginPos(t) < EndPos(t) BY <1>1, <1>2
<1>5. HandedOut(t) BY <1>1, <1>2, <1>3, <1>4 DEF HandedOut
<1>6. t # NoExtent BY <1>4, NoExtentFacts
<1>7. Owner(t) BY <1>4, <1>5 DEF Owner, HandedOut
<1>8. BeginPos(m) <= BeginPos(t) /\ EndPos(t) <= EndPos(m) BY <1>1, <1>2
<1>9. ASSUME NEW z, Owner(z), Apart(z, m) PROVE Apart(z, t)
  BY <1>1, <1>2, <1>4, <1>8, <1>9, ApartPart
<1> QED BY <1>1, <1>2, <1>5, <1>6, <1>7, <1>9 DEF PartOf

\* The rest of the chip is what the tail leaves.
LEMMA RestOfMine ==
    ASSUME SpaceInv, NEW d, NEW a, NEW m, Cuttable(d, a, m), d.Size - a > 0,
           NEW r, r = Shrunk(d, a), NEW t, t = TailOf(d, a)
    PROVE  /\ r \in Chip /\ HandedOut(r) /\ Owner(r) /\ WellFormed(r) /\ Apart(r, t)
           /\ PartOf(r, m)
<1>1. /\ d \in Chip /\ a \in Nat /\ a > 0 /\ m \in chipCol
      /\ m.VolumeId = d.VolumeId /\ BeginPos(m) = BeginPos(d) /\ EndPos(m) = EndPos(d)
      /\ d.BeginOffset < BlkSize /\ a <= d.Size /\ d.Size = EndPos(d) - BeginPos(d)
      /\ BeginPos(d) \in Nat /\ EndPos(d) \in Nat /\ a <= EndPos(d)
  BY DEF Cuttable
<1>2. /\ r \in Chip /\ r.VolumeId = d.VolumeId /\ BeginPos(r) = BeginPos(d)
      /\ EndPos(r) = EndPos(d) - a /\ r.BeginOffset = d.BeginOffset
      /\ r.EndOffset < BlkSize /\ r.Size = d.Size - a /\ r.Lock = FALSE
  BY <1>1, ShrunkFacts
<1>3. calc_object_size(r) = EndPos(r) - BeginPos(r) BY <1>2, Positions DEF Chip
<1>4. WellFormed(r) BY <1>1, <1>2, <1>3 DEF WellFormed
<1>5. EndPos(r) \in Nat /\ BeginPos(r) < EndPos(r) /\ EndPos(r) <= EndPos(m)
  BY <1>1, <1>2
<1>6. HandedOut(m) /\ volumeCol[m.VolumeId].CurPosition \in Nat
  BY <1>1 DEF SpaceInv, SpaceIsHandedOut, HandedOut, TypeOK, Volume
<1>7. HandedOut(r) BY <1>1, <1>2, <1>5, <1>6 DEF HandedOut
<1>8. Owner(r) BY <1>1, <1>2, <1>5, <1>6 DEF Owner, HandedOut
<1>9. Apart(r, t)
  <2>1. BeginPos(t) = EndPos(d) - a BY TailOfMine
  <2> QED BY <1>1, <1>2, <2>1 DEF Apart
<1>10. ASSUME NEW z, Owner(z), Apart(z, m) PROVE Apart(z, r)
  BY <1>1, <1>2, <1>5, <1>10, ApartPart
<1> QED BY <1>2, <1>4, <1>7, <1>8, <1>9, <1>10 DEF PartOf

\* The handler keeps the tail t of chip m, and the collection what is in Add.
Cut(c, m, t, Add) ==
    /\ pc[c] = "shrink" /\ m \in chipCol
    /\ chipCol' = (chipCol \ {m}) \cup Add
    /\ \A e \in Callers \ {c} : pc[e] = "shrink" => MyChip(e) # m
    /\ HandedOut(t) /\ t # NoExtent /\ Owner(t) /\ PartOf(t, m)
    /\ t.BeginOffset < BlkSize /\ t.EndOffset < BlkSize
    /\ \A x, y \in Add : x = y
    /\ \A y \in Add : HandedOut(y) /\ WellFormed(y) /\ Apart(y, t) /\ Owner(y) /\ PartOf(y, m)
    /\ TypeOK' /\ OthersKeep(c) /\ UNCHANGED volumeCol
    /\ work'[c] = t /\ hold'[c] = hold[c] /\ pc'[c] = "reply"

LEMMA CutStep ==
    ASSUME SpaceInv, NEW c \in Callers, NEW m, NEW t, NEW Add, Cut(c, m, t, Add)
    PROVE  SpaceInv'
<1> USE DEF Cut
<1>5. hold'[c] = NoExtent BY DEF SpaceInv, HandlerLocals, LocalsOf
<1>6. LocalsOf(c)' BY <1>5, NoExtentFacts DEF LocalsOf
<1>7. ASSUME NEW e \in Callers \ {c}, pc[e] = "shrink" PROVE MyChip(e) \in chipCol'
  BY <1>7 DEF SpaceInv, LockedChipIsMine
<1>8. LockedChipIsMine' BY <1>5, <1>7, LocksKept
<1>9. VolumesGrow BY VolumesKept
<1>11. \A z \in chipCol \ {m} : Owner(z) /\ Apart(z, m)
  BY Owners DEF SpaceInv, NoSharedSpace
<1>12. \A x, y : Apart(x, y) <=> Apart(y, x) BY DEF Apart
<1>13. \A e \in Callers : /\ Owner(work[e]) /\ Apart(work[e], m)
                          /\ Owner(hold[e]) /\ Apart(hold[e], m)
  BY <1>12, Owners DEF SpaceInv, NoSharedSpace
<1>14. \A z \in chipCol \ {m}, y \in Add \cup {work'[c], hold'[c]} : Apart(z, y)
  BY <1>5, <1>11, NoExtentFacts DEF PartOf
<1>15. \A e \in Callers \ {c}, y \in Add \cup {work'[c], hold'[c]} :
          Apart(work[e], y) /\ Apart(hold[e], y)
  BY <1>5, <1>13, NoExtentFacts DEF PartOf
<1>16. \A x \in Add : Apart(x, work'[c]) /\ Apart(x, hold'[c])
  BY <1>5, NoExtentFacts
<1>17. Apart(work'[c], hold'[c]) BY <1>5, NoExtentFacts
<1>18. work'[c] # NoExtent => HandedOut(work[c])' BY <1>5 DEF HandedOut
<1>19. hold'[c] # NoExtent => HandedOut(hold[c])' BY <1>5
<1>20. \A x, y \in Add : x # y => Apart(x, y) OBVIOUS
<1>21. \A y \in Add : HandedOut(y)' /\ WellFormed(y) BY DEF HandedOut
<1>22. Move(c, {m}, Add)
  BY <1>9, <1>14, <1>15, <1>16, <1>17, <1>18, <1>19, <1>20, <1>21 DEF Move
<1> QED BY <1>6, <1>8, <1>22, MoveSpace

LEMMA ShrinkChipStep ==
    ASSUME SpaceInv, NEW c \in Callers, ShrinkChip(c) PROVE SpaceInv'
<1>1. pc[c] = "shrink" /\ doc[c].Size - req[c].alloc_size > 0 BY DEF ShrinkChip
<1>2. PICK d, a, m : /\ d = doc[c] /\ a = req[c].alloc_size /\ m = MyChip(c)
                     /\ Cuttable(d, a, m) /\ d.Size - a > 0
  BY <1>1, LockedChip
<1>3. PICK t, r : t = TailOf(d, a) /\ r = Shrunk(d, a) OBVIOUS
<1>4. m \in chipCol /\ Cuttable(d, a, m) /\ d.Size - a > 0 BY <1>2 DEF Cuttable
<1>5. /\ chipCol' = (chipCol \ {m}) \cup {r}
      /\ work' = [work EXCEPT ![c] = t]
      /\ doc' = [doc EXCEPT ![c] = NoChip]
      /\ pc' = [pc EXCEPT ![c] = "reply"]
      /\ UNCHANGED <<volumeCol, queueVars, nodeVars, req, hold>>
  BY <1>2, <1>3, <1>4 DEF ShrinkChip, MyChip
<1>6. \A e \in Callers \ {c} : pc[e] = "shrink" => MyChip(e) # m
  BY <1>1, <1>2 DEF SpaceInv, LockedChipIsMine
<1>7. /\ t \in Extent /\ HandedOut(t) /\ t # NoExtent /\ Owner(t)
      /\ t.BeginOffset < BlkSize /\ t.EndOffset < BlkSize
      /\ PartOf(t, m)
  BY <1>3, <1>4, TailOfMine
<1>8. /\ r \in Chip /\ HandedOut(r) /\ Owner(r) /\ WellFormed(r) /\ Apart(r, t)
      /\ PartOf(r, m)
  BY <1>3, <1>4, RestOfMine
<1>9. /\ \A x, y \in {r} : x = y
      /\ \A y \in {r} : /\ HandedOut(y) /\ WellFormed(y) /\ Apart(y, t) /\ Owner(y)
                        /\ PartOf(y, m)
  BY <1>8
<1>10. /\ TypeOK' /\ OthersKeep(c) /\ UNCHANGED volumeCol
       /\ work'[c] = t /\ hold'[c] = hold[c] /\ pc'[c] = "reply"
  <2>1. NoChip \in Chip BY DEF NoChip, Chip
  <2>2. chipCol' \subseteq Chip BY <1>5, <1>8 DEF SpaceInv, TypeOK
  <2>3. TypeOK' BY <1>5, <1>7, <2>1, <2>2 DEF SpaceInv, TypeOK, States, queueVars, nodeVars
  <2>4. OthersKeep(c) BY <1>5 DEF SpaceInv, TypeOK, OthersKeep
  <2> QED BY <1>5, <2>3, <2>4 DEF SpaceInv, TypeOK
<1>11. Cut(c, m, t, {r})
  BY <1>1, <1>4, <1>5, <1>6, <1>7, <1>9, <1>10 DEF Cut
<1> QED BY <1>11, CutStep

LEMMA DeleteChipStep ==
    ASSUME SpaceInv, NEW c \in Callers, DeleteChip(c) PROVE SpaceInv'
<1>1. pc[c] = "shrink" BY DEF DeleteChip
<1>2. PICK d, a, m : /\ d = doc[c] /\ a = req[c].alloc_size /\ m = MyChip(c)
                     /\ Cuttable(d, a, m)
  BY <1>1, LockedChip
<1>3. PICK t : t = TailOf(d, a) OBVIOUS
<1>4. m \in chipCol /\ Cuttable(d, a, m) BY <1>2 DEF Cuttable
<1>5. /\ chipCol' = (chipCol \ {m}) \cup {}
      /\ work' = [work EXCEPT ![c] = t]
      /\ doc' = [doc EXCEPT ![c] = NoChip]
      /\ pc' = [pc EXCEPT ![c] = "reply"]
      /\ UNCHANGED <<volumeCol, queueVars, nodeVars, req, hold>>
  BY <1>2, <1>3 DEF DeleteChip, MyChip
<1>6. \A e \in Callers \ {c} : pc[e] = "shrink" => MyChip(e) # m
  BY <1>1, <1>2 DEF SpaceInv, LockedChipIsMine
<1>7. /\ t \in Extent /\ HandedOut(t) /\ t # NoExtent /\ Owner(t)
      /\ t.BeginOffset < BlkSize /\ t.EndOffset < BlkSize
      /\ PartOf(t, m)
  BY <1>3, <1>4, TailOfMine
<1>8. /\ TypeOK' /\ OthersKeep(c) /\ UNCHANGED volumeCol
      /\ work'[c] = t /\ hold'[c] = hold[c] /\ pc'[c] = "reply"
  <2>1. NoChip \in Chip BY DEF NoChip, Chip
  <2>2. chipCol' \subseteq Chip BY <1>5 DEF SpaceInv, TypeOK
  <2>3. TypeOK' BY <1>5, <1>7, <2>1, <2>2 DEF SpaceInv, TypeOK, States, queueVars, nodeVars
  <2>4. OthersKeep(c) BY <1>5 DEF SpaceInv, TypeOK, OthersKeep
  <2> QED BY <1>5, <2>3, <2>4 DEF SpaceInv, TypeOK
<1>9. Cut(c, m, t, {})
  BY <1>1, <1>4, <1>5, <1>6, <1>7, <1>8 DEF Cut
<1> QED BY <1>9, CutStep

\* The handler takes the unlocked chips in Rem and ends up with work w and hold h.
Exchange(c, Rem, w, h) ==
    /\ chipCol' = chipCol \ Rem /\ \A x \in Rem : ~x.Lock
    /\ TypeOK' /\ OthersKeep(c) /\ VolumesGrow /\ LocalsOf(c)' /\ pc'[c] # "shrink"
    /\ work'[c] = w /\ hold'[c] = h /\ Apart(w, h)
    /\ \A z \in chipCol \ Rem : Apart(z, w) /\ Apart(z, h)
    /\ \A e \in Callers \ {c} : /\ Apart(work[e], w) /\ Apart(work[e], h)
                               /\ Apart(hold[e], w) /\ Apart(hold[e], h)
    /\ w # NoExtent => HandedOut(w)'
    /\ h # NoExtent => HandedOut(h)'

LEMMA ExchangeStep ==
    ASSUME SpaceInv, NEW c \in Callers, NEW Rem, NEW w, NEW h, Exchange(c, Rem, w, h)
    PROVE  SpaceInv'
<1> USE DEF Exchange
<1>1. ASSUME NEW e \in Callers \ {c}, pc[e] = "shrink" PROVE MyChip(e) \in chipCol'
  <2>1. MyChip(e) \in chipCol /\ MyChip(e).Lock = TRUE BY <1>1, LockedChip DEF Cuttable
  <2> QED BY <2>1
<1>2. LockedChipIsMine' BY <1>1, LocksKept
<1>3. chipCol' = (chipCol \ Rem) \cup {} OBVIOUS
<1>4. \A z \in chipCol \ Rem, y \in {} \cup {work'[c], hold'[c]} : Apart(z, y) OBVIOUS
<1>5. \A e \in Callers \ {c}, y \in {} \cup {work'[c], hold'[c]} :
          Apart(work[e], y) /\ Apart(hold[e], y)
  OBVIOUS
<1>6. Apart(work'[c], hold'[c]) OBVIOUS
<1>7. /\ work'[c] # NoExtent => HandedOut(work[c])'
      /\ hold'[c] # NoExtent => HandedOut(hold[c])'
  BY DEF HandedOut
<1>8. OthersKeep(c) /\ TypeOK' /\ LocalsOf(c)' /\ VolumesGrow OBVIOUS
<1>9. Move(c, Rem, {}) BY <1>3, <1>4, <1>5, <1>6, <1>7, <1>8 DEF Move
<1> QED BY <1>2, <1>8, <1>9, MoveSpace

LEMMA ReserveStep ==
    ASSUME SpaceInv, NEW c \in Callers, NEW v \in VolumeIds, Reserve(c, v) PROVE SpaceInv'
<1>1. PICK a, p : a = req[c].alloc_size /\ p = volumeCol[v].CurPosition OBVIOUS
<1>2. PICK w : w = FreshExtent(v, p, a) OBVIOUS
<1>3. /\ pc[c] = "reserve" /\ volumeCol[v].exists /\ volumeCol[v].Reserved >= a
      /\ volumeCol' = [volumeCol EXCEPT ![v].CurPosition = @ + a, ![v].Reserved = @ - a]
      /\ work' = [work EXCEPT ![c] = w] /\ pc' = [pc EXCEPT ![c] = "reply"]
      /\ UNCHANGED <<chipCol, queueVars, nodeVars, req, doc, hold>>
  BY <1>1, <1>2 DEF Reserve
<1>4. a \in Nat /\ a > 0 /\ hold[c] = NoExtent
  BY <1>1, <1>3 DEF SpaceInv, TypeOK, Request, HandlerLocals, LocalsOf
<1>5. volumeCol[v] \in Volume /\ p \in Nat /\ v \in Nat
  BY <1>1, RegMAssumption DEF SpaceInv, TypeOK, Volume
<1>6. /\ w \in Extent /\ w.VolumeId = v /\ BeginPos(w) = p /\ EndPos(w) = p + a
      /\ w.BeginOffset < BlkSize /\ w.EndOffset < BlkSize
  BY <1>2, <1>4, <1>5, FreshFacts
<1>7. PICK u : u = [volumeCol[v] EXCEPT !.CurPosition = @ + a, !.Reserved = @ - a] OBVIOUS
<1>8. /\ volumeCol[v].CurPosition + a \in Nat /\ volumeCol[v].Reserved - a \in Nat
      /\ volumeCol[v].Reserved \in Nat /\ volumeCol[v].CurPosition \in Nat
      /\ volumeCol[v].BlkCount \in Nat
  BY <1>3, <1>4, <1>5 DEF Volume
<1>9. u \in Volume BY <1>5, <1>7, <1>8, Zenon DEF Volume
<1>10. /\ u.CurPosition = p + a /\ u.Reserved = volumeCol[v].Reserved - a
       /\ u.BlkCount = volumeCol[v].BlkCount
  BY <1>1, <1>5, <1>7 DEF Volume
<1>11. u.exists BY <1>3, <1>5, <1>7 DEF Volume
<1>12. volumeCol' = [volumeCol EXCEPT ![v] = u] BY <1>3, <1>7
<1>13. /\ volumeCol' \in [VolumeIds -> Volume] /\ volumeCol'[v] = u
       /\ \A x \in VolumeIds \ {v} : volumeCol'[x] = volumeCol[x]
  BY <1>9, <1>12 DEF SpaceInv, TypeOK
<1>14. VolumesGrow
  <2>1. u.CurPosition + u.Reserved = u.BlkCount * BlkSize
    <3>1. volumeCol[v].CurPosition + volumeCol[v].Reserved = volumeCol[v].BlkCount * BlkSize
      BY DEF SpaceInv, SpaceIsHandedOut
    <3> QED BY <1>1, <1>4, <1>8, <1>10, <3>1
  <2>2. u.CurPosition >= volumeCol[v].CurPosition BY <1>1, <1>4, <1>8, <1>10
  <2>3. \A x \in VolumeIds : volumeCol[x].CurPosition \in Nat BY DEF SpaceInv, TypeOK, Volume
  <2> QED BY <1>11, <1>13, <2>1, <2>2, <2>3 DEF VolumesGrow, SpaceInv, SpaceIsHandedOut
<1>15. TypeOK' BY <1>3, <1>6, <1>13 DEF SpaceInv, TypeOK, States, queueVars, nodeVars
<1>16. OthersKeep(c) /\ work'[c] = w /\ hold'[c] = NoExtent /\ pc'[c] = "reply"
  BY <1>3, <1>4 DEF SpaceInv, TypeOK, OthersKeep
<1>17. LocalsOf(c)' BY <1>6, <1>16, NoExtentFacts DEF LocalsOf
<1>18. Owner(w) BY <1>4, <1>5, <1>6 DEF Owner
<1>19. HandedOut(w)' BY <1>4, <1>5, <1>6, <1>10, <1>11, <1>13 DEF HandedOut
<1>20. \A z : HandedOut(z) \/ z = NoExtent => Apart(z, w)
  <2>1. \A z : HandedOut(z) => Apart(z, w) BY <1>1, <1>6 DEF HandedOut, Apart
  <2>2. Apart(NoExtent, w) BY <1>18, NoExtentFacts DEF Apart
  <2> QED BY <2>1, <2>2
<1>21. /\ \A z \in chipCol : Apart(z, w) /\ Apart(z, NoExtent)
       /\ \A e \in Callers : /\ Apart(work[e], w) /\ Apart(work[e], NoExtent)
                             /\ Apart(hold[e], w) /\ Apart(hold[e], NoExtent)
  BY <1>20, Owners, NoExtentFacts DEF SpaceInv, SpaceIsHandedOut
<1>22. Apart(w, NoExtent) BY <1>18, NoExtentFacts
<1>23. Exchange(c, {}, w, NoExtent)
  BY <1>3, <1>14, <1>15, <1>16, <1>17, <1>19, <1>21, <1>22 DEF Exchange
<1> QED BY <1>23, ExchangeStep

LEMMA ReplyStep ==
    ASSUME SpaceInv, NEW c \in Callers, Reply(c) PROVE SpaceInv'
<1>1. PICK w : w = work[c] OBVIOUS
<1>2. /\ pc[c] \in {"reply", "nospace"} /\ hold[c] = NoExtent
      /\ hold' = [hold EXCEPT ![c] = w] /\ work' = [work EXCEPT ![c] = NoExtent]
      /\ req' = [req EXCEPT ![c] = NoRequest] /\ pc' = [pc EXCEPT ![c] = "idle"]
      /\ UNCHANGED <<volumeCol, chipCol, queueVars, nodeVars, doc>>
  BY <1>1 DEF Reply, SpaceInv, HandlerLocals, LocalsOf
<1>3. w \in Extent /\ w.BeginOffset < BlkSize /\ w.EndOffset < BlkSize
  BY <1>1 DEF SpaceInv, TypeOK, HandlerLocals, LocalsOf
<1>4. NoRequest \in Request BY DEF NoRequest, Request
<1>5. TypeOK'
  BY <1>2, <1>3, <1>4, NoExtentFacts DEF SpaceInv, TypeOK, States, queueVars, nodeVars
<1>6. OthersKeep(c) /\ work'[c] = NoExtent /\ hold'[c] = w /\ pc'[c] = "idle"
  BY <1>2 DEF SpaceInv, TypeOK, OthersKeep
<1>7. LocalsOf(c)' BY <1>3, <1>6, NoExtentFacts DEF LocalsOf
<1>8. VolumesGrow BY <1>2, VolumesKept
<1>9. w # NoExtent => HandedOut(w)' BY <1>1, <1>2 DEF SpaceInv, SpaceIsHandedOut, HandedOut
<1>10. Owner(w) BY <1>1, Owners
<1>11. Apart(NoExtent, w) BY <1>10, NoExtentFacts DEF Apart
<1>12. /\ \A z \in chipCol : Apart(z, w) /\ Apart(z, NoExtent)
       /\ \A e \in Callers \ {c} : /\ Apart(work[e], w) /\ Apart(work[e], NoExtent)
                                   /\ Apart(hold[e], w) /\ Apart(hold[e], NoExtent)
  <2>1. \A x, y : Apart(x, y) <=> Apart(y, x) BY DEF Apart
  <2> QED BY <1>1, <2>1, Owners, NoExtentFacts DEF SpaceInv, NoSharedSpace
<1>13. Exchange(c, {}, NoExtent, w)
  BY <1>2, <1>5, <1>6, <1>7, <1>8, <1>9, <1>11, <1>12 DEF Exchange
<1> QED BY <1>13, ExchangeStep

-----------------------------------------------------------------------------
(* AddBlkChip.                                                             *)

LEMMA CallAddBlkChipStep ==
    ASSUME SpaceInv, NEW c \in Callers, NEW newPos \in Nat, CallAddBlkChip(c, newPos)
    PROVE  SpaceInv'
<1>1. PICK x : x = hold[c] OBVIOUS
<1>2. PICK w, h : w = SuffixOf(x, newPos) /\ h = PrefixOf(x, newPos) OBVIOUS
<1>3. /\ pc[c] = "idle" /\ x # NoExtent /\ newPos < calc_object_size(x)
      /\ work' = [work EXCEPT ![c] = w] /\ hold' = [hold EXCEPT ![c] = h]
      /\ pc' = [pc EXCEPT ![c] = "forward"]
      /\ UNCHANGED <<volumeCol, chipCol, queueVars, nodeVars, req, doc>>
  BY <1>1, <1>2 DEF CallAddBlkChip
<1>4. /\ x \in Extent /\ HandedOut(x) /\ Owner(x)
      /\ x.BeginOffset < BlkSize /\ x.EndOffset < BlkSize
  BY <1>1, <1>3, Owners
  DEF SpaceInv, TypeOK, SpaceIsHandedOut, HandlerLocals, LocalsOf
<1>5. /\ BeginPos(x) \in Nat /\ EndPos(x) \in Nat
      /\ calc_object_size(x) = EndPos(x) - BeginPos(x)
  BY <1>4, Positions DEF Extent
<1>6. BeginPos(x) + newPos < EndPos(x) BY <1>3, <1>5
<1>7. /\ w \in Extent /\ w.VolumeId = x.VolumeId
      /\ BeginPos(w) = BeginPos(x) + newPos /\ EndPos(w) = EndPos(x)
      /\ w.BeginOffset < BlkSize /\ w.EndOffset < BlkSize
  BY <1>2, <1>4, <1>5, <1>6, SuffixFacts
<1>8. \/ h = NoExtent
      \/ /\ h \in Extent /\ h.VolumeId = x.VolumeId
         /\ BeginPos(h) = BeginPos(x) /\ EndPos(h) = BeginPos(x) + newPos
         /\ h.BeginOffset < BlkSize /\ h.EndOffset < BlkSize /\ newPos # 0
  <2>1. CASE newPos = 0 BY <1>2, <2>1 DEF PrefixOf
  <2>2. CASE newPos # 0 BY <1>2, <1>4, <2>2, PrefixFacts
  <2> QED BY <2>1, <2>2
<1>9. h \in Extent /\ h.BeginOffset < BlkSize /\ h.EndOffset < BlkSize
  BY <1>8, NoExtentFacts
<1>10. TypeOK' BY <1>3, <1>7, <1>9 DEF SpaceInv, TypeOK, States, queueVars, nodeVars
<1>11. OthersKeep(c) /\ work'[c] = w /\ hold'[c] = h /\ pc'[c] = "forward"
  BY <1>3 DEF SpaceInv, TypeOK, OthersKeep
<1>12. BeginPos(w) \in Nat /\ EndPos(w) \in Nat /\ BeginPos(w) < EndPos(w)
  BY <1>5, <1>6, <1>7
<1>13. w # NoExtent BY <1>12, NoExtentFacts
<1>14. LocalsOf(c)' BY <1>7, <1>9, <1>11, <1>13 DEF LocalsOf
<1>15. VolumesGrow BY <1>3, VolumesKept
<1>16. HandedOut(w)' BY <1>3, <1>4, <1>7, <1>12 DEF HandedOut
<1>17. ASSUME h # NoExtent PROVE HandedOut(h)'
  <2>1. volumeCol[x.VolumeId].CurPosition \in Nat
    BY <1>4 DEF HandedOut, SpaceInv, TypeOK, Volume
  <2>2. EndPos(h) <= volumeCol[x.VolumeId].CurPosition /\ BeginPos(h) < EndPos(h)
    BY <1>4, <1>5, <1>6, <1>8, <1>17, <2>1 DEF HandedOut
  <2> QED BY <1>3, <1>4, <1>8, <1>17, <2>2 DEF HandedOut
<1>18. Owner(w) BY <1>4, <1>7, <1>12 DEF Owner, HandedOut
<1>19. Apart(w, h)
  <2>1. CASE h = NoExtent BY <2>1, <1>18, NoExtentFacts
  <2>2. CASE h # NoExtent BY <2>2, <1>5, <1>7, <1>8 DEF Apart
  <2> QED BY <2>1, <2>2
<1>20. ASSUME NEW z, Owner(z), Apart(z, x) PROVE Apart(z, w) /\ Apart(z, h)
  <2>1. Apart(z, w) BY <1>5, <1>7, <1>12, <1>20, ApartPart
  <2>2. CASE h = NoExtent BY <2>1, <2>2, <1>20, NoExtentFacts
  <2>3. CASE h # NoExtent
    <3>1. /\ h.VolumeId = x.VolumeId /\ BeginPos(h) \in Nat /\ EndPos(h) \in Nat
          /\ BeginPos(x) <= BeginPos(h) /\ EndPos(h) <= EndPos(x)
      BY <1>5, <1>6, <1>8, <2>3
    <3> QED BY <1>5, <1>20, <2>1, <3>1, ApartPart
  <2> QED BY <2>1, <2>2, <2>3
<1>21. \A z \in chipCol : Owner(z) /\ Apart(z, x)
  BY <1>1, Owners DEF SpaceInv, NoSharedSpace
<1>22. \A e \in Callers \ {c} : /\ Owner(work[e]) /\ Apart(work[e], x)
                                /\ Owner(hold[e]) /\ Apart(hold[e], x)
  BY <1>1, Owners DEF SpaceInv, NoSharedSpace
<1>23. Exchange(c, {}, w, h)
  BY <1>3, <1>10, <1>11, <1>14, <1>15, <1>16, <1>17, <1>19, <1>20, <1>21, <1>22
  DEF Exchange
<1> QED BY <1>23, ExchangeStep

\* Two extents that meet are merged into y, and the chip d leaves the collection.
LEMMA MergeStep ==
    ASSUME SpaceInv, NEW c \in Callers, NEW d \in chipCol, ~d.Lock, NEW w, w = work[c],
           pc[c] \in {"forward", "backward"}, d.VolumeId = w.VolumeId,
           NEW y \in Extent, y.VolumeId = w.VolumeId,
           \/ /\ EndPos(w) = BeginPos(d)
              /\ BeginPos(y) = BeginPos(w) /\ EndPos(y) = EndPos(d)
           \/ /\ EndPos(d) = BeginPos(w)
              /\ BeginPos(y) = BeginPos(d) /\ EndPos(y) = EndPos(w),
           y.BeginOffset < BlkSize, y.EndOffset < BlkSize,
           chipCol' = chipCol \ {d}, work' = [work EXCEPT ![c] = y],
           UNCHANGED <<volumeCol, queueVars, nodeVars, pc, req, doc, hold>>
    PROVE  SpaceInv'
<1>1. w # NoExtent BY DEF SpaceInv, HandlerLocals, LocalsOf
<1>2. HandedOut(w) /\ Owner(w) /\ HandedOut(d) /\ Owner(d) /\ d # NoExtent
  BY <1>1, Owners DEF SpaceInv, SpaceIsHandedOut
<1>3. /\ BeginPos(w) \in Nat /\ EndPos(w) \in Nat /\ BeginPos(w) < EndPos(w)
      /\ BeginPos(d) \in Nat /\ EndPos(d) \in Nat /\ BeginPos(d) < EndPos(d)
      /\ w.VolumeId \in VolumeIds
  BY <1>1, <1>2 DEF Owner
<1>4. BeginPos(y) \in Nat /\ EndPos(y) \in Nat /\ BeginPos(y) < EndPos(y) BY <1>3
<1>5. y # NoExtent BY <1>4, NoExtentFacts
<1>6. TypeOK' BY DEF SpaceInv, TypeOK, queueVars, nodeVars
<1>7. /\ OthersKeep(c) /\ work'[c] = y /\ hold'[c] = hold[c] /\ pc'[c] = pc[c]
      /\ doc'[c] = doc[c] /\ req'[c] = req[c]
  BY DEF SpaceInv, TypeOK, OthersKeep
<1>8. LocalsOf(c)' BY <1>5, <1>7 DEF SpaceInv, HandlerLocals, LocalsOf
<1>9. VolumesGrow BY VolumesKept
<1>10. HandedOut(y)' BY <1>2, <1>3, <1>4 DEF HandedOut
<1>11. hold[c] # NoExtent => HandedOut(hold[c])' BY DEF SpaceInv, SpaceIsHandedOut, HandedOut
<1>12. ASSUME NEW z, Owner(z), Apart(z, w), Apart(z, d) PROVE Apart(z, y)
  BY <1>3, <1>12, ApartJoin
<1>13. \A s, t : Apart(s, t) <=> Apart(t, s) BY DEF Apart
<1>14. \A z \in chipCol \ {d} : Apart(z, y) /\ Apart(z, hold[c])
  BY <1>12, <1>13, Owners DEF SpaceInv, NoSharedSpace
<1>15. \A e \in Callers \ {c} : /\ Apart(work[e], y) /\ Apart(work[e], hold[c])
                                /\ Apart(hold[e], y) /\ Apart(hold[e], hold[c])
  BY <1>12, <1>13, Owners DEF SpaceInv, NoSharedSpace
<1>16. Apart(y, hold[c]) BY <1>12, <1>13, Owners DEF SpaceInv, NoSharedSpace
<1>17. PICK h : h = hold[c] OBVIOUS
<1>18. h # NoExtent => HandedOut(h)' BY <1>7, <1>11, <1>17 DEF HandedOut
<1>19. Exchange(c, {d}, y, h)
  <2>1. pc'[c] # "shrink" BY <1>7
  <2>2. work'[c] = y /\ hold'[c] = h /\ Apart(y, h) BY <1>7, <1>16, <1>17
  <2>3. /\ \A z \in chipCol \ {d} : Apart(z, y) /\ Apart(z, h)
        /\ \A e \in Callers \ {c} : /\ Apart(work[e], y) /\ Apart(work[e], h)
                                    /\ Apart(hold[e], y) /\ Apart(hold[e], h)
    BY <1>14, <1>15, <1>17
  <2> QED BY <1>6, <1>7, <1>8, <1>9, <1>10, <1>18, <2>1, <2>2, <2>3 DEF Exchange
<1> QED BY <1>19, ExchangeStep

\* The end that MergeForward computes from the sizes is the end of the chip.
LEMMA ForwardFacts ==
    ASSUME SpaceInv, NEW c \in Callers, NEW d \in chipCol, MergeForward(c, d)
    PROVE  \E y \in Extent :
              /\ y.VolumeId = d.VolumeId /\ d.VolumeId = work[c].VolumeId
              /\ pc[c] = "forward" /\ ~d.Lock
              /\ EndPos(work[c]) = BeginPos(d)
              /\ BeginPos(y) = BeginPos(work[c]) /\ EndPos(y) = EndPos(d)
              /\ y.BeginOffset < BlkSize /\ y.EndOffset < BlkSize
              /\ chipCol' = chipCol \ {d} /\ work' = [work EXCEPT ![c] = y]
              /\ UNCHANGED <<volumeCol, queueVars, nodeVars, pc, req, doc, hold>>
<1>1. PICK w : w = work[c] OBVIOUS
<1>2. PICK size : size = calc_object_size(w) + d.Size OBVIOUS
<1>3. PICK i, o : /\ i = get_blk_index3(w.BeginIndex, w.BeginOffset, size)
                  /\ o = get_blk_end_offset3(w.BeginIndex, w.BeginOffset, size)
  OBVIOUS
<1>4. PICK y : y = [w EXCEPT !.EndOffset = o, !.EndIndex = i] OBVIOUS
<1>5. /\ pc[c] = "forward" /\ d.VolumeId = w.VolumeId /\ ~d.Lock
      /\ d.BeginOffset = w.EndOffset /\ d.BeginIndex = w.EndIndex
      /\ chipCol' = chipCol \ {d}
      /\ work' = [work EXCEPT ![c] = y]
      /\ UNCHANGED <<volumeCol, queueVars, nodeVars, pc, req, doc, hold>>
  BY <1>1, <1>2, <1>3, <1>4 DEF MergeForward, SpaceInv, TypeOK
<1>6. /\ w \in Extent /\ w.BeginOffset < BlkSize
      /\ d \in Chip /\ d.Size = calc_object_size(d)
  BY <1>1, <1>5 DEF SpaceInv, TypeOK, HandlerLocals, LocalsOf, ChipsWellFormed, WellFormed
<1>7. /\ BeginPos(w) \in Nat /\ EndPos(w) \in Nat /\ BeginPos(d) \in Nat /\ EndPos(d) \in Nat
      /\ calc_object_size(w) = EndPos(w) - BeginPos(w)
      /\ calc_object_size(d) = EndPos(d) - BeginPos(d)
  BY <1>6, Positions DEF Extent, Chip
<1>8. EndPos(w) = BeginPos(d)
  BY <1>5 DEF BeginPos, EndPos, get_oid_begin_pos, get_oid_end_pos
<1>9. size \in Int /\ BeginPos(w) + size = EndPos(d) BY <1>2, <1>6, <1>7, <1>8
<1>10. /\ w.BeginIndex \in Nat /\ w.BeginOffset \in Nat
       /\ BeginPos(w) = get_oid_begin_pos(w.BeginIndex, w.BeginOffset)
  BY <1>6 DEF Extent, BeginPos
<1>11. i \in Nat /\ o \in 0 .. (BlkSize - 1) /\ get_oid_begin_pos(i, o) = EndPos(d)
  <2>1. get_oid_begin_pos(w.BeginIndex, w.BeginOffset) + size >= 0 BY <1>7, <1>9, <1>10
  <2> QED BY <1>3, <1>9, <1>10, <2>1, PairMoved
<1>12. o \in Nat /\ o < BlkSize BY <1>11, SizeAssumption
<1>13. /\ y \in Extent /\ y.VolumeId = w.VolumeId
       /\ y.BeginIndex = w.BeginIndex /\ y.BeginOffset = w.BeginOffset
       /\ y.EndIndex = i /\ y.EndOffset = o
  BY <1>4, <1>6, <1>11, <1>12 DEF Extent
<1>14. BeginPos(y) = BeginPos(w) /\ EndPos(y) = EndPos(d)
  BY <1>11, <1>13 DEF BeginPos, EndPos, get_oid_begin_pos, get_oid_end_pos
<1>15. y.BeginOffset < BlkSize /\ y.EndOffset < BlkSize BY <1>6, <1>12, <1>13
<1> QED BY <1>1, <1>5, <1>8, <1>13, <1>14, <1>15

LEMMA MergeForwardStep ==
    ASSUME SpaceInv, NEW c \in Callers, NEW d \in chipCol, MergeForward(c, d)
    PROVE  SpaceInv'
BY ForwardFacts, MergeStep

LEMMA BackwardFacts ==
    ASSUME SpaceInv, NEW c \in Callers, NEW d \in chipCol, MergeBackward(c, d)
    PROVE  \E y \in Extent :
              /\ y.VolumeId = d.VolumeId /\ d.VolumeId = work[c].VolumeId
              /\ pc[c] = "backward" /\ ~d.Lock
              /\ EndPos(d) = BeginPos(work[c])
              /\ BeginPos(y) = BeginPos(d) /\ EndPos(y) = EndPos(work[c])
              /\ y.BeginOffset < BlkSize /\ y.EndOffset < BlkSize
              /\ chipCol' = chipCol \ {d} /\ work' = [work EXCEPT ![c] = y]
              /\ UNCHANGED <<volumeCol, queueVars, nodeVars, pc, req, doc, hold>>
<1>1. PICK w : w = work[c] OBVIOUS
<1>2. PICK y : y = [w EXCEPT !.BeginIndex = d.BeginIndex, !.BeginOffset = d.BeginOffset]
  OBVIOUS
<1>3. /\ pc[c] = "backward" /\ d.VolumeId = w.VolumeId /\ ~d.Lock
      /\ d.EndOffset = w.BeginOffset /\ d.EndIndex = w.BeginIndex
      /\ chipCol' = chipCol \ {d}
      /\ work' = [work EXCEPT ![c] = y]
      /\ UNCHANGED <<volumeCol, queueVars, nodeVars, pc, req, doc, hold>>
  BY <1>1, <1>2 DEF MergeBackward, SpaceInv, TypeOK
<1>4. /\ w \in Extent /\ w.EndOffset < BlkSize /\ d \in Chip /\ d.BeginOffset < BlkSize
  BY <1>1 DEF SpaceInv, TypeOK, HandlerLocals, LocalsOf, ChipsWellFormed, WellFormed
<1>5. EndPos(d) = BeginPos(w)
  BY <1>3 DEF BeginPos, EndPos, get_oid_begin_pos, get_oid_end_pos
<1>6. d.BeginIndex \in Nat /\ d.BeginOffset \in Nat BY <1>4 DEF Chip
<1>7. /\ y \in Extent /\ y.VolumeId = w.VolumeId
      /\ y.BeginIndex = d.BeginIndex /\ y.BeginOffset = d.BeginOffset
      /\ y.EndIndex = w.EndIndex /\ y.EndOffset = w.EndOffset
  BY <1>2, <1>4, <1>6 DEF Extent
<1>8. BeginPos(y) = BeginPos(d) /\ EndPos(y) = EndPos(w) BY <1>7 DEF BeginPos, EndPos
<1>9. y.BeginOffset < BlkSize /\ y.EndOffset < BlkSize BY <1>4, <1>7
<1> QED BY <1>1, <1>3, <1>5, <1>7, <1>8, <1>9

LEMMA MergeBackwardStep ==
    ASSUME SpaceInv, NEW c \in Callers, NEW d \in chipCol, MergeBackward(c, d)
    PROVE  SpaceInv'
BY BackwardFacts, MergeStep

\* The loops end.
LEMMA DoneStep ==
    ASSUME SpaceInv, NEW c \in Callers, ForwardDone(c) \/ BackwardDone(c) PROVE SpaceInv'
<1>1. /\ pc[c] \in {"forward", "backward"} /\ pc'[c] \in {"backward", "insert"}
      /\ pc' \in [Callers -> States] /\ \A e \in Callers \ {c} : pc'[e] = pc[e]
  BY DEF ForwardDone, BackwardDone, SpaceInv, TypeOK, States
<1>2. UNCHANGED <<volumeCol, chipCol, queueVars, nodeVars, req, doc, work, hold>>
  BY DEF ForwardDone, BackwardDone
<1>3. TypeOK' BY <1>1, <1>2 DEF SpaceInv, TypeOK, queueVars, nodeVars
<1>4. LocalsOf(c)' BY <1>1, <1>2 DEF SpaceInv, HandlerLocals, LocalsOf
<1>5. OthersKeep(c) /\ pc'[c] # "shrink" BY <1>1, <1>2 DEF OthersKeep
<1> QED BY <1>2, <1>3, <1>4, <1>5, QuietStep

LEMMA InsertChipStep ==
    ASSUME SpaceInv, NEW c \in Callers, InsertChip(c) PROVE SpaceInv'
<1>1. PICK w : w = work[c] OBVIOUS
<1>2. PICK d : d = ChipOf(w, calc_object_size(w)) OBVIOUS
<1>3. /\ pc[c] = "insert" /\ chipCol' = (chipCol \ {}) \cup {d}
      /\ work' = [work EXCEPT ![c] = NoExtent] /\ pc' = [pc EXCEPT ![c] = "idle"]
      /\ UNCHANGED <<volumeCol, queueVars, nodeVars, req, doc, hold>>
  BY <1>1, <1>2 DEF InsertChip
<1>4. /\ w \in Extent /\ w # NoExtent /\ HandedOut(w) /\ Owner(w)
      /\ w.BeginOffset < BlkSize /\ w.EndOffset < BlkSize
  BY <1>1, <1>3, Owners
  DEF SpaceInv, TypeOK, SpaceIsHandedOut, HandlerLocals, LocalsOf
<1>5. /\ BeginPos(w) \in Nat /\ EndPos(w) \in Nat
      /\ calc_object_size(w) = EndPos(w) - BeginPos(w)
  BY <1>4, Positions DEF Extent
<1>6. calc_object_size(w) \in Int BY <1>5
<1>7. /\ d \in Chip /\ d.VolumeId = w.VolumeId
      /\ d.BeginIndex = w.BeginIndex /\ d.BeginOffset = w.BeginOffset
      /\ d.EndIndex = w.EndIndex /\ d.EndOffset = w.EndOffset
      /\ d.Size = calc_object_size(w)
  BY <1>2, <1>4, <1>6 DEF ChipOf, Chip, Extent
<1>8. ~d.Lock BY <1>2 DEF ChipOf
<1>9. BeginPos(d) = BeginPos(w) /\ EndPos(d) = EndPos(w) BY <1>7 DEF BeginPos, EndPos
<1>10. calc_object_size(d) = calc_object_size(w) BY <1>7 DEF calc_object_size
<1>11. WellFormed(d) BY <1>4, <1>7, <1>8, <1>10 DEF WellFormed
<1>12. HandedOut(d)' BY <1>3, <1>4, <1>7, <1>9 DEF HandedOut
<1>13. Owner(d) BY <1>4, <1>5, <1>7, <1>9 DEF Owner, HandedOut
<1>14. TypeOK' BY <1>3, <1>7, NoExtentFacts DEF SpaceInv, TypeOK, States, queueVars, nodeVars
<1>15. OthersKeep(c) /\ work'[c] = NoExtent /\ hold'[c] = hold[c] /\ pc'[c] = "idle"
  BY <1>3 DEF SpaceInv, TypeOK, OthersKeep
<1>16. LocalsOf(c)' BY <1>15, NoExtentFacts DEF SpaceInv, HandlerLocals, LocalsOf
<1>17. \A e \in Callers \ {c} : pc[e] = "shrink" => MyChip(e) \in chipCol'
  BY <1>3 DEF SpaceInv, LockedChipIsMine
<1>18. LockedChipIsMine' BY <1>15, <1>17, LocksKept
<1>19. VolumesGrow BY <1>3, VolumesKept
<1>20. \A z : (Apart(z, w) \/ Apart(w, z)) => Apart(z, d) /\ Apart(d, z)
  BY <1>7, <1>9 DEF Apart
<1>21. \A z \in chipCol : Apart(z, d) /\ Apart(z, NoExtent) /\ Apart(z, hold[c])
  BY <1>1, <1>20, Owners, NoExtentFacts DEF SpaceInv, NoSharedSpace
<1>22. \A e \in Callers \ {c} :
          /\ Apart(work[e], d) /\ Apart(work[e], NoExtent) /\ Apart(work[e], hold[c])
          /\ Apart(hold[e], d) /\ Apart(hold[e], NoExtent) /\ Apart(hold[e], hold[c])
  BY <1>1, <1>20, Owners, NoExtentFacts DEF SpaceInv, NoSharedSpace
<1>23. Apart(d, NoExtent) /\ Apart(d, hold[c])
  BY <1>1, <1>13, <1>20, NoExtentFacts DEF SpaceInv, NoSharedSpace
<1>24. Apart(NoExtent, hold[c]) BY Owners, NoExtentFacts DEF Apart
<1>25. hold'[c] # NoExtent => HandedOut(hold[c])'
  BY <1>3 DEF SpaceInv, SpaceIsHandedOut, HandedOut
<1>26. Move(c, {}, {d})
  BY <1>3, <1>11, <1>12, <1>15, <1>19, <1>21, <1>22, <1>23, <1>24, <1>25 DEF Move
<1> QED BY <1>14, <1>16, <1>18, <1>26, MoveSpace

-----------------------------------------------------------------------------
(* Failures: what a handler had in its hands belongs to nobody any more.   *)

LEMMA HandlerFailsStep ==
    ASSUME SpaceInv, NEW c \in Callers, HandlerFails(c) PROVE SpaceInv'
<1>1. PICK h : h = hold[c] OBVIOUS
<1>2. /\ pc' = [pc EXCEPT ![c] = "idle"] /\ req' = [req EXCEPT ![c] = NoRequest]
      /\ doc' = [doc EXCEPT ![c] = NoChip] /\ work' = [work EXCEPT ![c] = NoExtent]
      /\ UNCHANGED <<volumeCol, chipCol, queueVars, nodeVars, hold>>
  BY DEF HandlerFails
<1>3. NoRequest \in Request /\ NoChip \in Chip BY DEF NoRequest, Request, NoChip, Chip
<1>4. TypeOK' BY <1>2, <1>3, NoExtentFacts DEF SpaceInv, TypeOK, States, queueVars, nodeVars
<1>5. OthersKeep(c) /\ work'[c] = NoExtent /\ hold'[c] = h /\ pc'[c] = "idle"
  BY <1>1, <1>2 DEF SpaceInv, TypeOK, OthersKeep
<1>6. LocalsOf(c)' BY <1>1, <1>5, NoExtentFacts DEF SpaceInv, HandlerLocals, LocalsOf
<1>7. VolumesGrow BY <1>2, VolumesKept
<1>8. h # NoExtent => HandedOut(h)' BY <1>1, <1>2 DEF SpaceInv, SpaceIsHandedOut, HandedOut
<1>9. Apart(NoExtent, h) BY <1>1, Owners, NoExtentFacts DEF Apart
<1>10. /\ \A z \in chipCol : Apart(z, NoExtent) /\ Apart(z, h)
       /\ \A e \in Callers \ {c} : /\ Apart(work[e], NoExtent) /\ Apart(work[e], h)
                                   /\ Apart(hold[e], NoExtent) /\ Apart(hold[e], h)
  BY <1>1, Owners, NoExtentFacts DEF SpaceInv, NoSharedSpace
<1>11. Exchange(c, {}, NoExtent, h)
  BY <1>2, <1>4, <1>5, <1>6, <1>7, <1>8, <1>9, <1>10 DEF Exchange
<1> QED BY <1>11, ExchangeStep

LEMMA CrashStep == ASSUME SpaceInv, Crash PROVE SpaceInv'
<1>1. \A c \in Callers : /\ pc'[c] = "idle" /\ work'[c] = NoExtent /\ hold'[c] = hold[c]
  BY DEF Crash
<1>2. NoRequest \in Request /\ NoChip \in Chip BY DEF NoRequest, Request, NoChip, Chip
<1>3. <<>> \in Seq(VolumeIds) OBVIOUS
<1>4. TypeOK' BY <1>2, <1>3, NoExtentFacts DEF Crash, SpaceInv, TypeOK, States
<1>5. NoSharedSpace'
  <2>1. \A x : Owner(x) => Apart(x, NoExtent) /\ Apart(NoExtent, x)
    BY NoExtentFacts DEF Apart
  <2>2. Apart(NoExtent, NoExtent) BY NoExtentFacts DEF Apart
  <2>3. \A x, y \in chipCol' : x # y => Apart(x, y)
    BY DEF Crash, SpaceInv, NoSharedSpace
  <2>4. \A x \in chipCol', c \in Callers : Apart(x, work'[c]) /\ Apart(x, hold'[c])
    BY <1>1, <2>1, Owners DEF Crash, SpaceInv, NoSharedSpace
  <2>5. \A c, d \in Callers :
            /\ Apart(work'[c], hold'[d])
            /\ c # d => Apart(work'[c], work'[d]) /\ Apart(hold'[c], hold'[d])
    BY <1>1, <2>1, <2>2, Owners DEF SpaceInv, NoSharedSpace
  <2> QED BY <2>3, <2>4, <2>5 DEF NoSharedSpace
<1>6. SpaceIsHandedOut'
  BY <1>1 DEF Crash, SpaceInv, SpaceIsHandedOut, HandedOut
<1>7. ChipsWellFormed' BY DEF Crash, SpaceInv, ChipsWellFormed, WellFormed
<1>8. LockedChipIsMine' BY <1>1 DEF LockedChipIsMine
<1>9. HandlerLocals' BY <1>1, NoExtentFacts DEF SpaceInv, HandlerLocals, LocalsOf
<1> QED BY <1>4, <1>5, <1>6, <1>7, <1>8, <1>9 DEF SpaceInv

-----------------------------------------------------------------------------
(* The theorems.                                                           *)

LEMMA InitInv == Init => SpaceInv
<1> SUFFICES ASSUME Init PROVE SpaceInv OBVIOUS
<1> USE DEF Init
<1>1. NoRequest \in Request /\ NoChip \in Chip BY DEF NoRequest, Request, NoChip, Chip
<1>2. TypeOK
  <2>1. [exists |-> FALSE, BlkCount |-> 0, CurPosition |-> 0, Reserved |-> 0,
         isOnline |-> FALSE] \in Volume
    BY DEF Volume
  <2>2. <<>> \in Seq(VolumeIds) OBVIOUS
  <2> QED BY <1>1, <2>1, <2>2, NoExtentFacts DEF TypeOK, States
<1>3. NoSharedSpace
  <2>1. Apart(NoExtent, NoExtent) BY NoExtentFacts DEF Apart
  <2> QED BY <2>1 DEF NoSharedSpace
<1>4. SpaceIsHandedOut BY SizeAssumption DEF SpaceIsHandedOut
<1>5. ChipsWellFormed /\ LockedChipIsMine BY DEF ChipsWellFormed, LockedChipIsMine
<1>6. HandlerLocals BY NoExtentFacts DEF HandlerLocals, LocalsOf
<1> QED BY <1>2, <1>3, <1>4, <1>5, <1>6 DEF SpaceInv

\* Every step of RegM keeps SpaceInv.
LEMMA NextInv == SpaceInv /\ [Next]_vars => SpaceInv'
<1> SUFFICES ASSUME SpaceInv, [Next]_vars PROVE SpaceInv' OBVIOUS
<1>1. ASSUME NEW v \in VolumeIds, NEW n \in BlkCounts, RegisterVolume(v, n) PROVE SpaceInv'
  BY <1>1, RegisterVolumeStep
<1>2. ASSUME NEW v \in VolumeIds, RegisterOnline(v) PROVE SpaceInv'
  <2>1. /\ volumeCol' = [volumeCol EXCEPT ![v].isOnline = TRUE]
        /\ rebuild' \in [Rebuilders -> {"idle", "wanted", "reading"}]
        /\ register' \subseteq VolumeIds /\ unsure' \subseteq VolumeIds
        /\ UNCHANGED <<chipCol, queue, qlock, found, device, handlerVars>>
    BY <1>2 DEF RegisterOnline, SpaceInv, TypeOK, queueVars
  <2> QED BY <2>1, RegisterOnlineStep
<1>3. ASSUME NEW v \in VolumeIds, Command(v) PROVE SpaceInv'
  <2>1. PICK a \in Admins, online \in AdminCmds :
            ManageMessage(a, v, online) \/ ManageMessageFails(a, v, online)
    BY <1>3 DEF Command
  <2>2. /\ volumeCol' = [volumeCol EXCEPT ![v].isOnline = online]
        /\ rebuild' \in [Rebuilders -> {"idle", "wanted", "reading"}]
        /\ register' \subseteq VolumeIds /\ unsure' \subseteq VolumeIds
        /\ UNCHANGED <<chipCol, queue, qlock, found, device, handlerVars>>
    BY <2>1 DEF ManageMessage, ManageMessageFails, SpaceInv, TypeOK, nodeVars
  <2>3. online \in BOOLEAN BY RegMAssumption
  <2> QED BY <2>2, <2>3, RegisterOnlineStep
<1>4. ASSUME NEW r \in Rebuilders,
             RebuildRead(r) \/ RebuildWrite(r) \/ RebuildFails(r)
      PROVE SpaceInv'
  BY <1>4, RebuildStep
<1>5. ASSUME NEW c \in Callers, NEW size \in Sizes, CallAllocateBlks(c, size) PROVE SpaceInv'
  BY <1>5, CallAllocateBlksStep
<1>6. ASSUME NEW c \in Callers, NEW newPos \in SizesOf(hold[c]), CallAddBlkChip(c, newPos)
      PROVE SpaceInv'
  <2>1. calc_object_size(hold[c]) = EndPos(hold[c]) - BeginPos(hold[c])
        /\ EndPos(hold[c]) \in Nat /\ BeginPos(hold[c]) \in Nat
    <3>1. hold[c] \in Extent BY DEF SpaceInv, TypeOK
    <3> QED BY <3>1, Positions DEF Extent
  <2>2. newPos \in Nat BY <2>1 DEF SizesOf
  <2> QED BY <1>6, <2>2, CallAddBlkChipStep
<1>7. ASSUME NEW c \in Callers, AllocateStep(c) PROVE SpaceInv'
  <2>1. ASSUME NEW d \in chipCol, LockChip(c, d) PROVE SpaceInv' BY <2>1, LockChipStep
  <2>2. ASSUME NEW v \in VolumeIds, Reserve(c, v) PROVE SpaceInv' BY <2>2, ReserveStep
  <2>3. ASSUME ShrinkChip(c) PROVE SpaceInv' BY <2>3, ShrinkChipStep
  <2>4. ASSUME DeleteChip(c) PROVE SpaceInv' BY <2>4, DeleteChipStep
  <2>5. ASSUME \/ NoChipFits(c) \/ GetVolumeCount(c) \/ GetVolumeId(c)
               \/ GetVolumeIdOfEmpty(c) \/ ReserveMisses(c) \/ NoSpace(c)
        PROVE  SpaceInv'
    BY <2>5, WalkStep
  <2>6. ASSUME Reply(c) PROVE SpaceInv' BY <2>6, ReplyStep
  <2> QED BY <1>7, <2>1, <2>2, <2>3, <2>4, <2>5, <2>6 DEF AllocateStep
<1>8. ASSUME NEW c \in Callers, AddStep(c) PROVE SpaceInv'
  <2>1. ASSUME NEW d \in chipCol, MergeForward(c, d) PROVE SpaceInv' BY <2>1, MergeForwardStep
  <2>2. ASSUME NEW d \in chipCol, MergeBackward(c, d) PROVE SpaceInv'
    BY <2>2, MergeBackwardStep
  <2>3. ASSUME ForwardDone(c) \/ BackwardDone(c) PROVE SpaceInv' BY <2>3, DoneStep
  <2>4. ASSUME InsertChip(c) PROVE SpaceInv' BY <2>4, InsertChipStep
  <2> QED BY <1>8, <2>1, <2>2, <2>3, <2>4 DEF AddStep
<1>9. ASSUME NEW c \in Callers, HandlerFails(c) PROVE SpaceInv' BY <1>9, HandlerFailsStep
<1>10. ASSUME Crash PROVE SpaceInv' BY <1>10, CrashStep
<1>11. ASSUME UNCHANGED vars PROVE SpaceInv'
  BY <1>11 DEF vars, SpaceInv, TypeOK, NoSharedSpace, SpaceIsHandedOut, HandedOut,
               ChipsWellFormed, LockedChipIsMine, MyChip, HandlerLocals, LocalsOf
<1> QED BY <1>1, <1>2, <1>3, <1>4, <1>5, <1>6, <1>7, <1>8, <1>9, <1>10, <1>11 DEF Next, Command

(***************************************************************************)
(* SpaceInv is an invariant of the register manager, whatever the number   *)
(* of volumes, handler threads and sizes, and with MongoDB failing and the *)
(* process dying at any point.                                             *)
(***************************************************************************)
THEOREM SpaceInvariant == Spec => []SpaceInv
BY InitInv, NextInv, PTL DEF Spec

(***************************************************************************)
(* No byte of a volume ever has two owners among the chips of AddBlkChip,  *)
(* the running handlers and the API servers' objects.                      *)
(***************************************************************************)
THEOREM SpaceIsNotShared == Spec => []NoSharedSpace
<1>1. SpaceInv => NoSharedSpace BY DEF SpaceInv
<1> QED BY <1>1, SpaceInvariant, PTL

(***************************************************************************)
(* The documents, the queue and the locals of the handlers keep their      *)
(* types; in particular Reserved and loopCount never become negative.      *)
(***************************************************************************)
THEOREM TypeCorrectness == Spec => []TypeOK
<1>1. SpaceInv => TypeOK BY DEF SpaceInv
<1> QED BY <1>1, SpaceInvariant, PTL

(***************************************************************************)
(* Whatever has an owner lies below CurPosition, which with Reserved adds  *)
(* up to the size the volume was registered with.                          *)
(***************************************************************************)
THEOREM OwnedSpaceIsHandedOut == Spec => []SpaceIsHandedOut
<1>1. SpaceInv => SpaceIsHandedOut BY DEF SpaceInv
<1> QED BY <1>1, SpaceInvariant, PTL

(***************************************************************************)
(* The Size of a chip that AllocateBlks may select is the size of its      *)
(* extent, and its address pairs are normal.                               *)
(***************************************************************************)
THEOREM ChipSizesAgree == Spec => []ChipsWellFormed
<1>1. SpaceInv => ChipsWellFormed BY DEF SpaceInv
<1> QED BY <1>1, SpaceInvariant, PTL

(***************************************************************************)
(* A handler finds the chip it has locked, and no other handler has it.    *)
(***************************************************************************)
THEOREM LockIsExclusive == Spec => []LockedChipIsMine
<1>1. SpaceInv => LockedChipIsMine BY DEF SpaceInv
<1> QED BY <1>1, SpaceInvariant, PTL

\* What one step does to a volume in use.
KeepsVolume(v) ==
    volumeCol[v].exists => /\ volumeCol'[v].exists
                           /\ volumeCol'[v].CurPosition >= volumeCol[v].CurPosition
                           /\ volumeCol'[v].Reserved <= volumeCol[v].Reserved

\* A step that touches no volume keeps them all.
LEMMA SameVolumes ==
    ASSUME TypeOK, UNCHANGED volumeCol PROVE \A v \in VolumeIds : KeepsVolume(v)
BY DEF TypeOK, Volume, KeepsVolume

\* The steps that write a volume document.
LEMMA NextVolumes ==
    ASSUME [Next]_vars
    PROVE  \/ UNCHANGED volumeCol
           \/ \E v \in VolumeIds : \E n \in BlkCounts : RegisterVolume(v, n)
           \/ \E v \in VolumeIds : \E online \in BOOLEAN :
                  volumeCol' = [volumeCol EXCEPT ![v].isOnline = online]
           \/ \E e \in Callers : \E v \in VolumeIds : Reserve(e, v)
<1>1. CASE UNCHANGED vars BY <1>1 DEF vars
<1>2. ASSUME NEW v \in VolumeIds,
             RegisterOnline(v) \/ Command(v)
      PROVE  \E online \in BOOLEAN : volumeCol' = [volumeCol EXCEPT ![v].isOnline = online]
  BY <1>2, RegMAssumption DEF RegisterOnline, Command, ManageMessage,
         ManageMessageFails
<1>3. ASSUME NEW r \in Rebuilders,
             RebuildRead(r) \/ RebuildWrite(r) \/ RebuildFails(r)
      PROVE  UNCHANGED volumeCol
  BY <1>3 DEF RebuildRead, RebuildWrite, RebuildFails
<1>4. ASSUME NEW e \in Callers,
             \/ \E size \in Sizes : CallAllocateBlks(e, size)
             \/ \E newPos \in SizesOf(hold[e]) : CallAddBlkChip(e, newPos)
             \/ HandlerFails(e)
      PROVE  UNCHANGED volumeCol
  BY <1>4 DEF CallAllocateBlks, CallAddBlkChip, HandlerFails
<1>5. ASSUME NEW e \in Callers, AddStep(e) PROVE UNCHANGED volumeCol
  BY <1>5 DEF AddStep, MergeForward, MergeBackward, ForwardDone, BackwardDone, InsertChip
<1>6. ASSUME NEW e \in Callers, AllocateStep(e), ~\E v \in VolumeIds : Reserve(e, v)
      PROVE UNCHANGED volumeCol
  BY <1>6 DEF AllocateStep, LockChip, ShrinkChip, DeleteChip, NoChipFits, GetVolumeCount,
              GetVolumeId, GetVolumeIdOfEmpty, ReserveMisses, NoSpace, Reply
<1>7. ASSUME Crash PROVE UNCHANGED volumeCol BY <1>7 DEF Crash
<1> QED BY <1>1, <1>2, <1>3, <1>4, <1>5, <1>6, <1>7 DEF Next, Command

LEMMA NextKeepsVolumes ==
    ASSUME SpaceInv, Next PROVE \A v \in VolumeIds : KeepsVolume(v)
<1>1. TypeOK BY DEF SpaceInv
<1>2. ASSUME NEW v \in VolumeIds, NEW n \in BlkCounts, RegisterVolume(v, n)
      PROVE  \A u \in VolumeIds : KeepsVolume(u)
  <2>1. CASE volumeCol[v].exists BY <1>1, <1>2, <2>1, SameVolumes DEF RegisterVolume
  <2>2. CASE ~volumeCol[v].exists
    <3>1. \A u \in VolumeIds \ {v} : volumeCol'[u] = volumeCol[u]
      BY <1>1, <1>2, <2>2 DEF RegisterVolume, TypeOK
    <3>2. \A u \in VolumeIds : volumeCol[u].CurPosition \in Nat /\ volumeCol[u].Reserved \in Nat
      BY <1>1 DEF TypeOK, Volume
    <3> QED BY <2>2, <3>1, <3>2 DEF KeepsVolume
  <2> QED BY <2>1, <2>2
<1>3. ASSUME NEW v \in VolumeIds, NEW online,
             volumeCol' = [volumeCol EXCEPT ![v].isOnline = online]
      PROVE  \A u \in VolumeIds : KeepsVolume(u)
  <2>1. \A u \in VolumeIds : /\ volumeCol'[u].CurPosition = volumeCol[u].CurPosition
                             /\ volumeCol'[u].Reserved = volumeCol[u].Reserved
                             /\ volumeCol[u].CurPosition \in Nat /\ volumeCol[u].Reserved \in Nat
    BY <1>1, <1>3 DEF TypeOK, Volume
  <2>2. \A u \in VolumeIds : volumeCol'[u].exists = volumeCol[u].exists
    BY <1>1, <1>3 DEF TypeOK, Volume
  <2> QED BY <2>1, <2>2 DEF KeepsVolume
<1>4. ASSUME NEW c \in Callers, NEW v \in VolumeIds, Reserve(c, v)
      PROVE  \A u \in VolumeIds : KeepsVolume(u)
  <2>1. req[c].alloc_size \in Nat BY <1>1 DEF TypeOK, Request
  <2> QED BY <1>1, <1>4, <2>1 DEF Reserve, TypeOK, Volume, KeepsVolume
<1> QED BY <1>1, <1>2, <1>3, <1>4, SameVolumes, NextVolumes

(***************************************************************************)
(* RegisterVolume never resets the document of a volume that is in use,    *)
(* and no other handler takes space back from CurPosition.                 *)
(***************************************************************************)
THEOREM SpaceOnlyMovesForward == Spec => CurPositionNeverFalls
<1>1. SpaceInv /\ [Next]_vars =>
        [\A v \in VolumeIds : volumeCol[v].exists =>
            /\ volumeCol'[v].exists
            /\ volumeCol'[v].CurPosition >= volumeCol[v].CurPosition
            /\ volumeCol'[v].Reserved <= volumeCol[v].Reserved]_volumeCol
  BY NextKeepsVolumes DEF KeepsVolume, vars
<1> QED BY <1>1, SpaceInvariant, PTL DEF Spec, CurPositionNeverFalls
-----------------------------------------------------------------------------
(* Where the extents of a step begin and end.                              *)

\* What caller c has before the step is w and h, after it w2 and h2.
Handler(c, w, h, w2, h2) ==
    /\ w = work[c] /\ h = hold[c] /\ w2 = work'[c] /\ h2 = hold'[c]
    /\ \A e \in Callers \ {c} : work'[e] = work[e] /\ hold'[e] = hold[e]

\* x is the bytes of volume v from position b to position e.
Spans(x, v, b, e) == x.VolumeId = v /\ BeginPos(x) = b /\ EndPos(x) = e

LEMMA ShrinkShape ==
    ASSUME SpaceInv, NEW c \in Callers, ShrinkChip(c)
    PROVE  \E m, r, t :
              /\ m \in chipCol /\ chipCol' = (chipCol \ {m}) \cup {r}
              /\ EndPos(m) - req[c].alloc_size \in Nat
              /\ Spans(r, m.VolumeId, BeginPos(m), EndPos(m) - req[c].alloc_size)
              /\ Spans(t, m.VolumeId, EndPos(m) - req[c].alloc_size, EndPos(m))
              /\ Handler(c, NoExtent, hold[c], t, hold[c])
              /\ UNCHANGED <<volumeCol, req>>
<1>1. pc[c] = "shrink" /\ doc[c].Size - req[c].alloc_size > 0 BY DEF ShrinkChip
<1>2. PICK d, a, m : /\ d = doc[c] /\ a = req[c].alloc_size /\ m = MyChip(c)
                     /\ Cuttable(d, a, m) /\ d.Size - a > 0
  BY <1>1, LockedChip
<1>3. PICK t, r : t = TailOf(d, a) /\ r = Shrunk(d, a) OBVIOUS
<1>4. /\ m \in chipCol /\ d \in Chip /\ a \in Nat /\ a <= EndPos(d) /\ EndPos(d) \in Nat
      /\ m.VolumeId = d.VolumeId /\ BeginPos(m) = BeginPos(d) /\ EndPos(m) = EndPos(d)
  BY <1>2 DEF Cuttable
<1>5. /\ chipCol' = (chipCol \ {m}) \cup {r}
      /\ work' = [work EXCEPT ![c] = t]
      /\ UNCHANGED <<volumeCol, req, hold>>
  BY <1>2, <1>3, <1>4 DEF ShrinkChip, MyChip
<1>6. Spans(r, m.VolumeId, BeginPos(m), EndPos(m) - a)
  BY <1>3, <1>4, ShrunkFacts DEF Spans
<1>7. Spans(t, m.VolumeId, EndPos(m) - a, EndPos(m))
  BY <1>3, <1>4, TailFacts DEF Spans
<1>8. Handler(c, NoExtent, hold[c], t, hold[c])
  BY <1>1, <1>5 DEF SpaceInv, TypeOK, HandlerLocals, LocalsOf, Handler
<1>9. EndPos(m) - a \in Nat BY <1>4
<1> QED BY <1>2, <1>4, <1>5, <1>6, <1>7, <1>8, <1>9

LEMMA DeleteShape ==
    ASSUME SpaceInv, NEW c \in Callers, DeleteChip(c)
    PROVE  \E m, t :
              /\ m \in chipCol /\ chipCol' = chipCol \ {m}
              /\ Spans(t, m.VolumeId, BeginPos(m), EndPos(m))
              /\ Handler(c, NoExtent, hold[c], t, hold[c])
              /\ UNCHANGED <<volumeCol, req>>
<1>1. pc[c] = "shrink" /\ doc[c].Size - req[c].alloc_size <= 0 BY DEF DeleteChip
<1>2. PICK d, a, m : /\ d = doc[c] /\ a = req[c].alloc_size /\ m = MyChip(c)
                     /\ Cuttable(d, a, m)
  BY <1>1, LockedChip
<1>3. PICK t : t = TailOf(d, a) OBVIOUS
<1>4. /\ m \in chipCol /\ d \in Chip /\ a \in Nat /\ a <= EndPos(d)
      /\ EndPos(d) \in Nat /\ BeginPos(d) \in Nat
      /\ m.VolumeId = d.VolumeId /\ BeginPos(m) = BeginPos(d) /\ EndPos(m) = EndPos(d)
      /\ d.Size = EndPos(d) - BeginPos(d) /\ a <= d.Size
  BY <1>2 DEF Cuttable
<1>5. /\ chipCol' = chipCol \ {m}
      /\ work' = [work EXCEPT ![c] = t]
      /\ UNCHANGED <<volumeCol, req, hold>>
  BY <1>2, <1>3 DEF DeleteChip, MyChip
<1>6. EndPos(d) - a = BeginPos(d) BY <1>1, <1>2, <1>4
<1>7. Spans(t, m.VolumeId, BeginPos(m), EndPos(m))
  BY <1>3, <1>4, <1>6, TailFacts DEF Spans
<1>8. Handler(c, NoExtent, hold[c], t, hold[c])
  BY <1>1, <1>5 DEF SpaceInv, TypeOK, HandlerLocals, LocalsOf, Handler
<1> QED BY <1>4, <1>5, <1>7, <1>8

LEMMA ReserveShape ==
    ASSUME SpaceInv, NEW c \in Callers, NEW v \in VolumeIds, Reserve(c, v)
    PROVE  \E t :
              /\ volumeCol'[v].CurPosition = volumeCol[v].CurPosition + req[c].alloc_size
              /\ \A u \in VolumeIds \ {v} : volumeCol'[u] = volumeCol[u]
              /\ Spans(t, v, volumeCol[v].CurPosition, volumeCol'[v].CurPosition)
              /\ Handler(c, NoExtent, hold[c], t, hold[c])
              /\ UNCHANGED <<chipCol, req>>
<1>1. PICK a, p : a = req[c].alloc_size /\ p = volumeCol[v].CurPosition OBVIOUS
<1>2. PICK t : t = FreshExtent(v, p, a) OBVIOUS
<1>3. a \in Nat /\ p \in Nat /\ v \in Nat
  BY <1>1, RegMAssumption DEF SpaceInv, TypeOK, Request, Volume
<1>4. /\ pc[c] = "reserve"
      /\ volumeCol' = [volumeCol EXCEPT ![v].CurPosition = @ + a, ![v].Reserved = @ - a]
      /\ work' = [work EXCEPT ![c] = t] /\ UNCHANGED <<chipCol, req, hold>>
  BY <1>1, <1>2 DEF Reserve
<1>5. /\ volumeCol'[v].CurPosition = p + a
      /\ \A u \in VolumeIds \ {v} : volumeCol'[u] = volumeCol[u]
  BY <1>1, <1>4 DEF SpaceInv, TypeOK, Volume
<1>6. Spans(t, v, p, p + a) BY <1>2, <1>3, FreshFacts DEF Spans
<1>7. Handler(c, NoExtent, hold[c], t, hold[c])
  BY <1>4 DEF SpaceInv, TypeOK, HandlerLocals, LocalsOf, Handler
<1> QED BY <1>1, <1>4, <1>5, <1>6, <1>7

LEMMA ReplyShape ==
    ASSUME SpaceInv, NEW c \in Callers, Reply(c)
    PROVE  /\ Handler(c, work[c], NoExtent, NoExtent, work[c])
           /\ req' = [req EXCEPT ![c] = NoRequest]
           /\ UNCHANGED <<volumeCol, chipCol>>
BY DEF Reply, SpaceInv, TypeOK, HandlerLocals, LocalsOf, Handler

LEMMA CallAddBlkChipShape ==
    ASSUME SpaceInv, NEW c \in Callers, NEW newPos \in Nat, CallAddBlkChip(c, newPos)
    PROVE  \E w, h, p :
              /\ p = BeginPos(hold[c]) + newPos
              /\ Spans(w, hold[c].VolumeId, p, EndPos(hold[c]))
              /\ \/ h = NoExtent /\ newPos = 0
                 \/ Spans(h, hold[c].VolumeId, BeginPos(hold[c]), p)
              /\ Handler(c, NoExtent, hold[c], w, h)
              /\ UNCHANGED <<volumeCol, chipCol, req>>
<1>1. PICK x : x = hold[c] OBVIOUS
<1>2. PICK w, h : w = SuffixOf(x, newPos) /\ h = PrefixOf(x, newPos) OBVIOUS
<1>3. /\ pc[c] = "idle" /\ newPos < calc_object_size(x)
      /\ work' = [work EXCEPT ![c] = w] /\ hold' = [hold EXCEPT ![c] = h]
      /\ UNCHANGED <<volumeCol, chipCol, req>>
  BY <1>1, <1>2 DEF CallAddBlkChip
<1>4. x \in Extent /\ x.BeginOffset < BlkSize
  BY <1>1 DEF SpaceInv, TypeOK, HandlerLocals, LocalsOf
<1>5. /\ BeginPos(x) \in Nat /\ EndPos(x) \in Nat
      /\ calc_object_size(x) = EndPos(x) - BeginPos(x)
  BY <1>4, Positions DEF Extent
<1>6. BeginPos(x) + newPos <= EndPos(x) BY <1>3, <1>5
<1>7. Spans(w, x.VolumeId, BeginPos(x) + newPos, EndPos(x))
  BY <1>2, <1>4, <1>5, <1>6, SuffixFacts DEF Spans
<1>8. \/ h = NoExtent /\ newPos = 0
      \/ Spans(h, x.VolumeId, BeginPos(x), BeginPos(x) + newPos)
  <2>1. CASE newPos = 0 BY <1>2, <2>1 DEF PrefixOf
  <2>2. CASE newPos # 0 BY <1>2, <1>4, <2>2, PrefixFacts DEF Spans
  <2> QED BY <2>1, <2>2
<1>9. Handler(c, NoExtent, x, w, h)
  BY <1>1, <1>3 DEF SpaceInv, TypeOK, HandlerLocals, LocalsOf, Handler
<1> QED BY <1>1, <1>3, <1>7, <1>8, <1>9

LEMMA ForwardShape ==
    ASSUME SpaceInv, NEW c \in Callers, NEW d \in chipCol, MergeForward(c, d)
    PROVE  \E y :
              /\ chipCol' = chipCol \ {d}
              /\ EndPos(work[c]) = BeginPos(d) /\ d.VolumeId = work[c].VolumeId
              /\ Spans(y, d.VolumeId, BeginPos(work[c]), EndPos(d))
              /\ Handler(c, work[c], hold[c], y, hold[c])
              /\ UNCHANGED <<volumeCol, req>>
<1>1. PICK y \in Extent :
          /\ y.VolumeId = d.VolumeId /\ d.VolumeId = work[c].VolumeId
          /\ EndPos(work[c]) = BeginPos(d)
          /\ BeginPos(y) = BeginPos(work[c]) /\ EndPos(y) = EndPos(d)
          /\ chipCol' = chipCol \ {d} /\ work' = [work EXCEPT ![c] = y]
          /\ UNCHANGED <<volumeCol, queueVars, nodeVars, pc, req, doc, hold>>
  BY ForwardFacts
<1> QED BY <1>1 DEF SpaceInv, TypeOK, Handler, Spans

LEMMA BackwardShape ==
    ASSUME SpaceInv, NEW c \in Callers, NEW d \in chipCol, MergeBackward(c, d)
    PROVE  \E y :
              /\ chipCol' = chipCol \ {d}
              /\ EndPos(d) = BeginPos(work[c]) /\ d.VolumeId = work[c].VolumeId
              /\ Spans(y, d.VolumeId, BeginPos(d), EndPos(work[c]))
              /\ Handler(c, work[c], hold[c], y, hold[c])
              /\ UNCHANGED <<volumeCol, req>>
<1>1. PICK y \in Extent :
          /\ y.VolumeId = d.VolumeId /\ d.VolumeId = work[c].VolumeId
          /\ EndPos(d) = BeginPos(work[c])
          /\ BeginPos(y) = BeginPos(d) /\ EndPos(y) = EndPos(work[c])
          /\ chipCol' = chipCol \ {d} /\ work' = [work EXCEPT ![c] = y]
          /\ UNCHANGED <<volumeCol, queueVars, nodeVars, pc, req, doc, hold>>
  BY BackwardFacts
<1> QED BY <1>1 DEF SpaceInv, TypeOK, Handler, Spans

LEMMA InsertShape ==
    ASSUME SpaceInv, NEW c \in Callers, InsertChip(c)
    PROVE  \E d :
              /\ chipCol' = chipCol \cup {d}
              /\ Spans(d, work[c].VolumeId, BeginPos(work[c]), EndPos(work[c]))
              /\ Handler(c, work[c], hold[c], NoExtent, hold[c])
              /\ UNCHANGED <<volumeCol, req>>
<1>1. PICK d : d = ChipOf(work[c], calc_object_size(work[c])) OBVIOUS
<1>2. /\ chipCol' = chipCol \cup {d} /\ work' = [work EXCEPT ![c] = NoExtent]
      /\ UNCHANGED <<volumeCol, req, hold>>
  BY <1>1 DEF InsertChip
<1>3. Spans(d, work[c].VolumeId, BeginPos(work[c]), EndPos(work[c]))
  BY <1>1 DEF ChipOf, Spans, BeginPos, EndPos
<1>4. Handler(c, work[c], hold[c], NoExtent, hold[c])
  BY <1>2 DEF SpaceInv, TypeOK, Handler
<1> QED BY <1>2, <1>3, <1>4

LEMMA LockShape ==
    ASSUME SpaceInv, NEW c \in Callers, NEW d \in chipCol, LockChip(c, d)
    PROVE  \E l :
              /\ chipCol' = (chipCol \ {d}) \cup {l}
              /\ Spans(l, d.VolumeId, BeginPos(d), EndPos(d))
              /\ UNCHANGED <<volumeCol, req, work, hold>>
<1>1. PICK l : l = LockedForm(d, req[c].alloc_size) OBVIOUS
<1>2. chipCol' = (chipCol \ {d}) \cup {l} /\ UNCHANGED <<volumeCol, req, work, hold>>
  BY <1>1 DEF LockChip
<1>3. Spans(l, d.VolumeId, BeginPos(d), EndPos(d))
  BY <1>1, LockedFacts DEF Spans, SpaceInv, TypeOK, Request
<1> QED BY <1>2, <1>3

-----------------------------------------------------------------------------
(* No step but a failure loses bytes.                                      *)

Has(x, v, p) == x.VolumeId = v /\ BeginPos(x) <= p /\ p < EndPos(x)

\* Byte p of volume v has an owner, with these chips, works and holds.
Covered(chips, works, holds, v, p) ==
    \/ \E x \in chips : Has(x, v, p)
    \/ \E c \in Callers : Has(works[c], v, p) \/ Has(holds[c], v, p)

LEMMA LostByte ==
    ASSUME NEW b
    PROVE  b \in Lost <=> \E v \in VolumeIds : \E p \in 0 .. (volumeCol[v].CurPosition - 1) :
                             b = <<v, p>> /\ ~Covered(chipCol, work, hold, v, p)
<1> DEFINE O == chipCol \cup {work[c] : c \in Callers} \cup {hold[c] : c \in Callers}
           B == UNION {{v} \X (0 .. (volumeCol[v].CurPosition - 1)) : v \in VolumeIds}
<1>1. b \in B <=> \E v \in VolumeIds : \E p \in 0 .. (volumeCol[v].CurPosition - 1) : b = <<v, p>>
  OBVIOUS
<1>2. \A v, p : (\A x \in O : ~Has(x, v, p)) <=> ~Covered(chipCol, work, hold, v, p)
  BY DEF Covered
<1>3. b \in Lost <=> b \in B /\ \A x \in O : ~Has(x, b[1], b[2])
  BY DEF Lost, Has
<1> HIDE DEF B, O
<1> QED BY <1>1, <1>2, <1>3

LEMMA NextLostByte ==
    ASSUME NEW b
    PROVE  b \in Lost' <=> \E v \in VolumeIds : \E p \in 0 .. (volumeCol'[v].CurPosition - 1) :
                             b = <<v, p>> /\ ~Covered(chipCol', work', hold', v, p)
<1> DEFINE O == chipCol' \cup {work'[c] : c \in Callers} \cup {hold'[c] : c \in Callers}
           B == UNION {{v} \X (0 .. (volumeCol'[v].CurPosition - 1)) : v \in VolumeIds}
<1>1. b \in B <=> \E v \in VolumeIds : \E p \in 0 .. (volumeCol'[v].CurPosition - 1) : b = <<v, p>>
  OBVIOUS
<1>2. \A v, p : (\A x \in O : ~Has(x, v, p)) <=> ~Covered(chipCol', work', hold', v, p)
  BY DEF Covered
<1>3. b \in Lost' <=> b \in B /\ \A x \in O : ~Has(x, b[1], b[2])
  BY DEF Lost, Has, BeginPos, EndPos
<1> HIDE DEF B, O
<1> QED BY <1>1, <1>2, <1>3

\* What has to be shown of a step.
Keeps ==
    \A v \in VolumeIds : \A p \in Nat :
        /\ p < volumeCol'[v].CurPosition
        /\ p < volumeCol[v].CurPosition => Covered(chipCol, work, hold, v, p)
        => Covered(chipCol', work', hold', v, p)

LEMMA NoneLost == ASSUME SpaceInv, SpaceInv', Keeps PROVE Lost' \subseteq Lost
<1> SUFFICES ASSUME NEW b \in Lost' PROVE b \in Lost OBVIOUS
<1>1. PICK v \in VolumeIds : \E p \in 0 .. (volumeCol'[v].CurPosition - 1) :
          b = <<v, p>> /\ ~Covered(chipCol', work', hold', v, p)
  BY NextLostByte
<1>2. PICK p \in 0 .. (volumeCol'[v].CurPosition - 1) :
          b = <<v, p>> /\ ~Covered(chipCol', work', hold', v, p)
  BY <1>1
<1>3. volumeCol'[v].CurPosition \in Nat /\ volumeCol[v].CurPosition \in Nat
  BY DEF SpaceInv, TypeOK, Volume
<1>4. p \in Nat /\ p < volumeCol'[v].CurPosition BY <1>2, <1>3
<1>5. p < volumeCol[v].CurPosition /\ ~Covered(chipCol, work, hold, v, p)
  BY <1>2, <1>4 DEF Keeps
<1>6. p \in 0 .. (volumeCol[v].CurPosition - 1) BY <1>3, <1>4, <1>5
<1> QED BY <1>2, <1>5, <1>6, LostByte

\* Nobody loses or gets anything.
LEMMA KeepsSame ==
    ASSUME SpaceInv, UNCHANGED <<chipCol, work, hold>>,
           \A v \in VolumeIds : volumeCol'[v].CurPosition \in {0, volumeCol[v].CurPosition}
    PROVE  Keeps
<1> SUFFICES ASSUME NEW v \in VolumeIds, NEW p \in Nat, p < volumeCol'[v].CurPosition,
                    p < volumeCol[v].CurPosition => Covered(chipCol, work, hold, v, p)
             PROVE  Covered(chipCol', work', hold', v, p)
  BY DEF Keeps
<1>1. volumeCol'[v].CurPosition = volumeCol[v].CurPosition OBVIOUS
<1> QED BY <1>1

\* A handler's step keeps the bytes of the chips in Rem, of w and of h.
LEMMA KeepsStep ==
    ASSUME SpaceInv, NEW c \in Callers, NEW w, NEW h, NEW w2, NEW h2,
           Handler(c, w, h, w2, h2), UNCHANGED volumeCol,
           NEW Rem, NEW Add, chipCol' = (chipCol \ Rem) \cup Add,
           \A v \in VolumeIds : \A p \in Nat :
               (\E x \in Rem : Has(x, v, p)) \/ Has(w, v, p) \/ Has(h, v, p)
               => (\E x \in Add : Has(x, v, p)) \/ Has(w2, v, p) \/ Has(h2, v, p)
    PROVE  Keeps
<1> SUFFICES ASSUME NEW v \in VolumeIds, NEW p \in Nat, Covered(chipCol, work, hold, v, p)
             PROVE  Covered(chipCol', work', hold', v, p)
  BY DEF Keeps
<1>1. CASE (\E x \in Rem : Has(x, v, p)) \/ Has(w, v, p) \/ Has(h, v, p)
  <2>1. (\E x \in Add : Has(x, v, p)) \/ Has(w2, v, p) \/ Has(h2, v, p) BY <1>1
  <2>2. ASSUME NEW x \in Add, Has(x, v, p) PROVE Covered(chipCol', work', hold', v, p)
    BY <2>2 DEF Covered
  <2>3. w2 = work'[c] /\ h2 = hold'[c] BY DEF Handler
  <2> QED BY <2>1, <2>2, <2>3 DEF Covered
<1>2. CASE ~((\E x \in Rem : Has(x, v, p)) \/ Has(w, v, p) \/ Has(h, v, p))
  <2>1. ASSUME NEW x \in chipCol, Has(x, v, p) PROVE Covered(chipCol', work', hold', v, p)
    BY <1>2, <2>1 DEF Covered
  <2>2. ASSUME NEW e \in Callers, Has(work[e], v, p) \/ Has(hold[e], v, p)
        PROVE  Covered(chipCol', work', hold', v, p)
    <3>1. e # c BY <1>2, <2>2 DEF Handler
    <3>2. work'[e] = work[e] /\ hold'[e] = hold[e] BY <3>1 DEF Handler
    <3> QED BY <2>2, <3>2 DEF Covered
  <2> QED BY <2>1, <2>2 DEF Covered
<1> QED BY <1>1, <1>2

LEMMA NoExtentHas == ASSUME NEW v, NEW p \in Nat PROVE ~Has(NoExtent, v, p)
BY NoExtentFacts DEF Has

LEMMA SizesOfNat ==
    ASSUME SpaceInv, NEW c \in Callers, NEW newPos \in SizesOf(hold[c]) PROVE newPos \in Nat
<1>1. hold[c] \in Extent BY DEF SpaceInv, TypeOK
<1>2. calc_object_size(hold[c]) \in Int BY <1>1, Positions DEF Extent
<1> QED BY <1>2 DEF SizesOf

LEMMA ShrinkKeeps == ASSUME SpaceInv, NEW c \in Callers, ShrinkChip(c) PROVE Keeps
<1>1. PICK m, r, t :
          /\ m \in chipCol /\ chipCol' = (chipCol \ {m}) \cup {r}
          /\ EndPos(m) - req[c].alloc_size \in Nat
          /\ Spans(r, m.VolumeId, BeginPos(m), EndPos(m) - req[c].alloc_size)
          /\ Spans(t, m.VolumeId, EndPos(m) - req[c].alloc_size, EndPos(m))
          /\ Handler(c, NoExtent, hold[c], t, hold[c])
          /\ UNCHANGED <<volumeCol, req>>
  BY ShrinkShape
<1>2. PICK cut : cut = EndPos(m) - req[c].alloc_size OBVIOUS
<1>3. BeginPos(m) \in Nat /\ EndPos(m) \in Nat /\ cut \in Nat
  BY <1>1, <1>2, Owners, NoExtentFacts DEF Owner
<1>4. ASSUME NEW v, NEW p \in Nat, Has(m, v, p) PROVE Has(r, v, p) \/ Has(t, v, p)
  <2>1. /\ r.VolumeId = v /\ BeginPos(r) = BeginPos(m) /\ EndPos(r) = cut
        /\ t.VolumeId = v /\ BeginPos(t) = cut /\ EndPos(t) = EndPos(m)
        /\ BeginPos(m) <= p /\ p < EndPos(m)
    BY <1>1, <1>2, <1>4 DEF Spans, Has
  <2> QED BY <1>3, <2>1 DEF Has
<1>5. \A v \in VolumeIds : \A p \in Nat :
          (\E x \in {m} : Has(x, v, p)) \/ Has(NoExtent, v, p) \/ Has(hold[c], v, p)
          => (\E x \in {r} : Has(x, v, p)) \/ Has(t, v, p) \/ Has(hold[c], v, p)
  BY <1>4, NoExtentHas
<1> QED BY <1>1, <1>5, KeepsStep

LEMMA DeleteKeeps == ASSUME SpaceInv, NEW c \in Callers, DeleteChip(c) PROVE Keeps
<1>1. PICK m, t :
          /\ m \in chipCol /\ chipCol' = chipCol \ {m}
          /\ Spans(t, m.VolumeId, BeginPos(m), EndPos(m))
          /\ Handler(c, NoExtent, hold[c], t, hold[c])
          /\ UNCHANGED <<volumeCol, req>>
  BY DeleteShape
<1>2. \A v, p : Has(m, v, p) => Has(t, v, p) BY <1>1 DEF Spans, Has
<1>3. \A v \in VolumeIds : \A p \in Nat :
          (\E x \in {m} : Has(x, v, p)) \/ Has(NoExtent, v, p) \/ Has(hold[c], v, p)
          => (\E x \in {} : Has(x, v, p)) \/ Has(t, v, p) \/ Has(hold[c], v, p)
  BY <1>2, NoExtentHas
<1>4. chipCol' = (chipCol \ {m}) \cup {} BY <1>1
<1> QED BY <1>1, <1>3, <1>4, KeepsStep

LEMMA ReserveKeeps ==
    ASSUME SpaceInv, NEW c \in Callers, NEW v \in VolumeIds, Reserve(c, v) PROVE Keeps
<1>1. PICK t :
          /\ volumeCol'[v].CurPosition = volumeCol[v].CurPosition + req[c].alloc_size
          /\ \A u \in VolumeIds \ {v} : volumeCol'[u] = volumeCol[u]
          /\ Spans(t, v, volumeCol[v].CurPosition, volumeCol'[v].CurPosition)
          /\ Handler(c, NoExtent, hold[c], t, hold[c])
          /\ UNCHANGED <<chipCol, req>>
  BY ReserveShape
<1> SUFFICES ASSUME NEW u \in VolumeIds, NEW p \in Nat, p < volumeCol'[u].CurPosition,
                    p < volumeCol[u].CurPosition => Covered(chipCol, work, hold, u, p)
             PROVE  Covered(chipCol', work', hold', u, p)
  BY DEF Keeps
<1>2. volumeCol[u].CurPosition \in Nat BY DEF SpaceInv, TypeOK, Volume
<1>3. CASE p >= volumeCol[u].CurPosition
  <2>1. u = v BY <1>1, <1>2, <1>3
  <2>2. Has(t, u, p) BY <1>1, <1>3, <2>1 DEF Spans, Has
  <2> QED BY <1>1, <2>2 DEF Covered, Handler
<1>4. CASE Covered(chipCol, work, hold, u, p)
  <2>1. ASSUME NEW e \in Callers, Has(work[e], u, p) \/ Has(hold[e], u, p)
        PROVE  Has(work'[e], u, p) \/ Has(hold'[e], u, p)
    <3>1. CASE e = c
      <4>1. work[e] = NoExtent /\ hold'[e] = hold[e] BY <1>1, <3>1 DEF Handler
      <4> QED BY <2>1, <4>1, NoExtentHas
    <3>2. CASE e # c BY <1>1, <2>1, <3>2 DEF Handler
    <3> QED BY <3>1, <3>2
  <2> QED BY <1>1, <1>4, <2>1 DEF Covered
<1> QED BY <1>2, <1>3, <1>4

LEMMA ReplyKeeps == ASSUME SpaceInv, NEW c \in Callers, Reply(c) PROVE Keeps
<1>1. /\ Handler(c, work[c], NoExtent, NoExtent, work[c])
      /\ UNCHANGED <<volumeCol, chipCol>>
  BY ReplyShape
<1>2. \A v \in VolumeIds : \A p \in Nat :
          (\E x \in {} : Has(x, v, p)) \/ Has(work[c], v, p) \/ Has(NoExtent, v, p)
          => (\E x \in {} : Has(x, v, p)) \/ Has(NoExtent, v, p) \/ Has(work[c], v, p)
  BY NoExtentHas
<1>3. chipCol' = (chipCol \ {}) \cup {} BY <1>1
<1> QED BY <1>1, <1>2, <1>3, KeepsStep

LEMMA CallAddBlkChipKeeps ==
    ASSUME SpaceInv, NEW c \in Callers, NEW newPos \in Nat, CallAddBlkChip(c, newPos)
    PROVE  Keeps
<1> DEFINE x == hold[c]
<1>1. PICK w, h, p :
          /\ p = BeginPos(x) + newPos
          /\ Spans(w, x.VolumeId, p, EndPos(x))
          /\ \/ h = NoExtent /\ newPos = 0
             \/ Spans(h, x.VolumeId, BeginPos(x), p)
          /\ Handler(c, NoExtent, x, w, h)
          /\ UNCHANGED <<volumeCol, chipCol, req>>
  BY CallAddBlkChipShape
<1>2. BeginPos(x) \in Nat /\ EndPos(x) \in Nat BY Owners, NoExtentFacts DEF Owner
<1>3. ASSUME NEW v, NEW q \in Nat, Has(x, v, q) PROVE Has(w, v, q) \/ Has(h, v, q)
  <2>1. /\ w.VolumeId = v /\ BeginPos(w) = BeginPos(x) + newPos /\ EndPos(w) = EndPos(x)
        /\ BeginPos(x) <= q /\ q < EndPos(x)
    BY <1>1, <1>3 DEF Spans, Has
  <2>2. CASE newPos = 0 BY <1>2, <2>1, <2>2 DEF Has
  <2>3. CASE newPos # 0
    <3>1. h.VolumeId = v /\ BeginPos(h) = BeginPos(x) /\ EndPos(h) = BeginPos(x) + newPos
      BY <1>1, <1>3, <2>3 DEF Spans, Has
    <3> QED BY <1>2, <2>1, <3>1 DEF Has
  <2> QED BY <2>2, <2>3
<1>4. \A v \in VolumeIds : \A q \in Nat :
          (\E y \in {} : Has(y, v, q)) \/ Has(NoExtent, v, q) \/ Has(x, v, q)
          => (\E y \in {} : Has(y, v, q)) \/ Has(w, v, q) \/ Has(h, v, q)
  BY <1>3, NoExtentHas
<1>5. chipCol' = (chipCol \ {}) \cup {} BY <1>1
<1> HIDE DEF x
<1> QED BY <1>1, <1>4, <1>5, KeepsStep

\* Two extents that meet have the bytes of their union.
LEMMA JoinHas ==
    ASSUME NEW x, NEW z, NEW y, EndPos(x) = BeginPos(z), x.VolumeId = z.VolumeId,
           Spans(y, z.VolumeId, BeginPos(x), EndPos(z)),
           BeginPos(x) \in Nat, EndPos(x) \in Nat, BeginPos(z) \in Nat, EndPos(z) \in Nat,
           BeginPos(x) <= EndPos(x), BeginPos(z) <= EndPos(z),
           NEW v, NEW p \in Nat, Has(x, v, p) \/ Has(z, v, p)
    PROVE  Has(y, v, p)
BY DEF Has, Spans

LEMMA MergeKeeps ==
    ASSUME SpaceInv, NEW c \in Callers, NEW d \in chipCol,
           MergeForward(c, d) \/ MergeBackward(c, d)
    PROVE  Keeps
<1> DEFINE w == work[c]
<1>1. /\ BeginPos(w) \in Nat /\ EndPos(w) \in Nat /\ BeginPos(w) <= EndPos(w)
      /\ BeginPos(d) \in Nat /\ EndPos(d) \in Nat /\ BeginPos(d) <= EndPos(d)
  BY Owners, NoExtentFacts DEF Owner
<1>2. PICK y : /\ chipCol' = chipCol \ {d} /\ d.VolumeId = w.VolumeId
               /\ \/ /\ EndPos(w) = BeginPos(d)
                     /\ Spans(y, d.VolumeId, BeginPos(w), EndPos(d))
                  \/ /\ EndPos(d) = BeginPos(w)
                     /\ Spans(y, d.VolumeId, BeginPos(d), EndPos(w))
               /\ Handler(c, w, hold[c], y, hold[c])
               /\ UNCHANGED <<volumeCol, req>>
  <2>1. CASE MergeForward(c, d) BY <2>1, ForwardShape
  <2>2. CASE MergeBackward(c, d) BY <2>2, BackwardShape
  <2> QED BY <2>1, <2>2
<1> HIDE DEF w
<1>3. ASSUME NEW v, NEW p \in Nat, Has(w, v, p) \/ Has(d, v, p) PROVE Has(y, v, p)
  <2>1. CASE EndPos(w) = BeginPos(d) /\ Spans(y, d.VolumeId, BeginPos(w), EndPos(d))
    BY <1>1, <1>2, <1>3, <2>1, JoinHas
  <2>2. CASE EndPos(d) = BeginPos(w) /\ Spans(y, d.VolumeId, BeginPos(d), EndPos(w))
    BY <1>1, <1>2, <1>3, <2>2, JoinHas
  <2> QED BY <1>2, <2>1, <2>2
<1>4. \A v \in VolumeIds : \A p \in Nat :
          (\E x \in {d} : Has(x, v, p)) \/ Has(w, v, p) \/ Has(hold[c], v, p)
          => (\E x \in {} : Has(x, v, p)) \/ Has(y, v, p) \/ Has(hold[c], v, p)
  BY <1>3
<1>5. chipCol' = (chipCol \ {d}) \cup {} BY <1>2
<1> QED BY <1>2, <1>4, <1>5, KeepsStep

LEMMA InsertKeeps == ASSUME SpaceInv, NEW c \in Callers, InsertChip(c) PROVE Keeps
<1> PICK w, h : w = work[c] /\ h = hold[c] OBVIOUS
<1>1. PICK d : /\ chipCol' = chipCol \cup {d}
               /\ Spans(d, w.VolumeId, BeginPos(w), EndPos(w))
               /\ Handler(c, w, h, NoExtent, h)
               /\ UNCHANGED <<volumeCol, req>>
  BY InsertShape
<1>2. \A v, p : Has(w, v, p) => Has(d, v, p) BY <1>1 DEF Spans, Has
<1>3. PICK Rem, Add : Rem = {} /\ Add = {d} OBVIOUS
<1>4. \A v \in VolumeIds : \A p \in Nat :
          (\E x \in Rem : Has(x, v, p)) \/ Has(w, v, p) \/ Has(h, v, p)
          => (\E x \in Add : Has(x, v, p)) \/ Has(NoExtent, v, p) \/ Has(h, v, p)
  BY <1>2, <1>3
<1>5. chipCol' = (chipCol \ Rem) \cup Add BY <1>1, <1>3
<1> QED BY <1>1, <1>4, <1>5, KeepsStep

LEMMA LockKeeps ==
    ASSUME SpaceInv, NEW c \in Callers, NEW d \in chipCol, LockChip(c, d) PROVE Keeps
<1> PICK w, h : w = work[c] /\ h = hold[c] OBVIOUS
<1>1. PICK l : /\ chipCol' = (chipCol \ {d}) \cup {l}
               /\ Spans(l, d.VolumeId, BeginPos(d), EndPos(d))
               /\ UNCHANGED <<volumeCol, req, work, hold>>
  BY LockShape
<1>2. Handler(c, w, h, w, h) BY <1>1 DEF Handler
<1>3. \A v, p : Has(d, v, p) => Has(l, v, p) BY <1>1 DEF Spans, Has
<1>4. PICK Rem, Add : Rem = {d} /\ Add = {l} OBVIOUS
<1>5. \A v \in VolumeIds : \A p \in Nat :
          (\E x \in Rem : Has(x, v, p)) \/ Has(w, v, p) \/ Has(h, v, p)
          => (\E x \in Add : Has(x, v, p)) \/ Has(w, v, p) \/ Has(h, v, p)
  BY <1>3, <1>4
<1>6. chipCol' = (chipCol \ Rem) \cup Add BY <1>1, <1>4
<1> QED BY <1>1, <1>2, <1>5, <1>6, KeepsStep

(***************************************************************************)
(* Only a failing MongoDB call or the death of the process loses bytes:    *)
(* every byte below CurPosition that had an owner, and every byte newly    *)
(* handed out, has an owner after any other step.                          *)
(***************************************************************************)
LEMMA NextKeeps ==
    ASSUME SpaceInv, Next, ~Crash, \A c \in Callers : ~HandlerFails(c)
    PROVE  Keeps
<1>1. ASSUME NEW v \in VolumeIds, NEW n \in BlkCounts, RegisterVolume(v, n) PROVE Keeps
  <2>1. \A u \in VolumeIds : volumeCol'[u].CurPosition \in {0, volumeCol[u].CurPosition}
    <3>1. CASE volumeCol[v].exists BY <1>1, <3>1 DEF RegisterVolume
    <3>2. CASE ~volumeCol[v].exists
      <4>1. /\ volumeCol'[v].CurPosition = 0
            /\ \A u \in VolumeIds \ {v} : volumeCol'[u] = volumeCol[u]
        BY <1>1, <3>2 DEF RegisterVolume, SpaceInv, TypeOK
      <4> QED BY <4>1
    <3> QED BY <3>1, <3>2
  <2> QED BY <1>1, <2>1, KeepsSame DEF RegisterVolume, handlerVars
<1>2. ASSUME NEW v \in VolumeIds,
             RegisterOnline(v) \/ Command(v)
      PROVE  Keeps
  <2>1. \A u \in VolumeIds : volumeCol'[u].CurPosition = volumeCol[u].CurPosition
    <3>1. PICK online : volumeCol' = [volumeCol EXCEPT ![v].isOnline = online]
      BY <1>2 DEF RegisterOnline, Command, ManageMessage,
         ManageMessageFails
    <3> QED BY <3>1 DEF SpaceInv, TypeOK, Volume
  <2> QED BY <1>2, <2>1, KeepsSame DEF RegisterOnline, Command, ManageMessage,
         ManageMessageFails, handlerVars
<1>3. ASSUME UNCHANGED <<volumeCol, chipCol, work, hold>> PROVE Keeps BY <1>3, KeepsSame
<1>4. ASSUME NEW r \in Rebuilders,
             RebuildRead(r) \/ RebuildWrite(r) \/ RebuildFails(r)
      PROVE  Keeps
  BY <1>3, <1>4 DEF RebuildRead, RebuildWrite, RebuildFails, handlerVars
<1>5. ASSUME NEW c \in Callers, NEW size \in Sizes, CallAllocateBlks(c, size) PROVE Keeps
  BY <1>3, <1>5 DEF CallAllocateBlks
<1>6. ASSUME NEW c \in Callers, NEW newPos \in SizesOf(hold[c]), CallAddBlkChip(c, newPos)
      PROVE  Keeps
  BY <1>6, SizesOfNat, CallAddBlkChipKeeps
<1>7. ASSUME NEW c \in Callers, AllocateStep(c) PROVE Keeps
  <2>1. ASSUME \/ NoChipFits(c) \/ GetVolumeCount(c) \/ GetVolumeId(c)
               \/ GetVolumeIdOfEmpty(c) \/ ReserveMisses(c) \/ NoSpace(c)
        PROVE  Keeps
    BY <1>3, <2>1 DEF NoChipFits, GetVolumeCount, GetVolumeId, GetVolumeIdOfEmpty,
                      ReserveMisses, NoSpace
  <2> QED BY <1>7, <2>1, LockKeeps, ShrinkKeeps, DeleteKeeps, ReserveKeeps, ReplyKeeps
          DEF AllocateStep
<1>8. ASSUME NEW c \in Callers, AddStep(c) PROVE Keeps
  <2>1. ASSUME ForwardDone(c) \/ BackwardDone(c) PROVE Keeps
    BY <1>3, <2>1 DEF ForwardDone, BackwardDone
  <2> QED BY <1>8, <2>1, MergeKeeps, InsertKeeps DEF AddStep
<1> QED BY <1>1, <1>2, <1>4, <1>5, <1>6, <1>7, <1>8 DEF Next, Command

(***************************************************************************)
(* No space leaks: bytes are lost only in a step in which a MongoDB call   *)
(* fails or the process dies.                                              *)
(***************************************************************************)
THEOREM OnlyFailuresLoseSpace == Spec => NothingLeaks
<1>1. SpaceInv /\ SpaceInv' /\ [Next]_vars =>
        [Crash \/ (\E c \in Callers : HandlerFails(c)) \/ Lost' \subseteq Lost
          ]_<<volumeCol, chipCol, work, hold>>
  BY NextKeeps, NoneLost DEF vars
<1> QED BY <1>1, SpaceInvariant, PTL DEF Spec, NothingLeaks
-----------------------------------------------------------------------------
(* Every extent begins and ends at a multiple of AlignSize.                *)

Aligned(p) == p % AlignSize = 0

AlignedExtent(x) == Aligned(BeginPos(x)) /\ Aligned(EndPos(x))

\* The positions in the volumes, the chips and the handlers are aligned: the
\* sizes come out of data_align, and positions are only moved by such sizes or
\* taken over from one extent to another.
PositionsAligned ==
    /\ \A v \in VolumeIds : Aligned(volumeCol[v].CurPosition)
    /\ \A x \in chipCol : AlignedExtent(x)
    /\ \A c \in Callers : /\ AlignedExtent(work[c]) /\ AlignedExtent(hold[c])
                          /\ Aligned(req[c].alloc_size)

\* An aligned position moved by an aligned size is aligned.
LEMMA AlignedMoved ==
    ASSUME NEW p \in Int, NEW a \in Int, Aligned(p), Aligned(a)
    PROVE  Aligned(p + a) /\ Aligned(p - a)
<1> DEFINE m == p \div AlignSize
           n == a \div AlignSize
<1>1. m \in Int /\ n \in Int /\ p = AlignSize * m /\ a = AlignSize * n
  BY SizeAssumption DEF Aligned
<1> HIDE DEF m, n
<1>2. p + a = AlignSize * (m + n) + 0 /\ p - a = AlignSize * (m - n) + 0 BY <1>1, SizeAssumption
<1>3. 0 <= 0 /\ 0 < AlignSize BY SizeAssumption
<1>4. (p + a) % AlignSize = 0 BY <1>1, <1>2, <1>3, SizeAssumption, DivMod
<1>5. (p - a) % AlignSize = 0 BY <1>1, <1>2, <1>3, SizeAssumption, DivMod
<1> QED BY <1>4, <1>5 DEF Aligned

\* data_align returns a multiple of the alignment.
LEMMA DataAligned ==
    ASSUME NEW s \in Nat
    PROVE  Aligned(data_align(s))
<1>1. PICK q : q = (s - 1 + AlignSize) \div AlignSize OBVIOUS
<1>2. q \in Int /\ data_align(s) = AlignSize * q + 0 BY <1>1, SizeAssumption DEF data_align
<1>3. 0 <= 0 /\ 0 < AlignSize /\ data_align(s) \in Int BY SizeAssumption, DataAlign
<1> QED BY <1>2, <1>3, SizeAssumption, DivMod DEF Aligned

\* Zero is aligned, and so is the extent of nobody.
LEMMA ZeroAligned == Aligned(0) /\ AlignedExtent(NoExtent)
<1>1. 0 = AlignSize * 0 + 0 /\ 0 <= 0 /\ 0 < AlignSize BY SizeAssumption
<1>2. Aligned(0) BY <1>1, SizeAssumption, DivMod DEF Aligned
<1>3. BeginPos(NoExtent) = 0 /\ EndPos(NoExtent) = 0
  BY SizeAssumption DEF NoExtent, BeginPos, EndPos, get_oid_begin_pos, get_oid_end_pos
<1> QED BY <1>2, <1>3 DEF AlignedExtent

\* The invariant after a step, in terms of the values after it.
LEMMA AlignedAfter ==
    ASSUME \A v \in VolumeIds : Aligned(volumeCol'[v].CurPosition),
           \A x \in chipCol' : AlignedExtent(x),
           \A e \in Callers : /\ AlignedExtent(work'[e]) /\ AlignedExtent(hold'[e])
                              /\ Aligned(req'[e].alloc_size)
    PROVE  PositionsAligned'
BY DEF PositionsAligned, AlignedExtent, Aligned, BeginPos, EndPos,
       get_oid_begin_pos, get_oid_end_pos

\* A step of one handler that leaves it aligned extents.
LEMMA HandlerAligned ==
    ASSUME PositionsAligned, NEW c \in Callers, NEW w, NEW h, NEW w2, NEW h2,
           Handler(c, w, h, w2, h2), AlignedExtent(w2), AlignedExtent(h2),
           \A v \in VolumeIds : Aligned(volumeCol'[v].CurPosition),
           \A x \in chipCol' : AlignedExtent(x),
           req' = req
    PROVE  PositionsAligned'
<1>1. \A e \in Callers : /\ AlignedExtent(work'[e]) /\ AlignedExtent(hold'[e])
                         /\ Aligned(req'[e].alloc_size)
  <2> TAKE e \in Callers
  <2>1. Aligned(req'[e].alloc_size) BY DEF PositionsAligned
  <2>2. CASE e = c BY <2>1, <2>2 DEF Handler
  <2>3. CASE e # c BY <2>1, <2>3 DEF Handler, PositionsAligned
  <2> QED BY <2>2, <2>3
<1> QED BY <1>1, AlignedAfter

\* The allocation steps that move space.
LEMMA AllocateAligned ==
    ASSUME SpaceInv, PositionsAligned, NEW c \in Callers,
           \/ \E d \in chipCol : LockChip(c, d)
           \/ ShrinkChip(c) \/ DeleteChip(c)
           \/ \E v \in VolumeIds : Reserve(c, v)
           \/ Reply(c)
    PROVE  PositionsAligned'
<1>1. ASSUME NEW d \in chipCol, LockChip(c, d) PROVE PositionsAligned'
  <2>1. PICK l : /\ chipCol' = (chipCol \ {d}) \cup {l}
                 /\ Spans(l, d.VolumeId, BeginPos(d), EndPos(d))
                 /\ UNCHANGED <<volumeCol, req, work, hold>>
    BY <1>1, LockShape
  <2>2. \A x \in chipCol' : AlignedExtent(x)
    BY <2>1 DEF PositionsAligned, AlignedExtent, Spans
  <2> QED BY <2>1, <2>2, AlignedAfter DEF PositionsAligned
<1>2. ASSUME ShrinkChip(c) PROVE PositionsAligned'
  <2>1. PICK m, r, t :
              /\ m \in chipCol /\ chipCol' = (chipCol \ {m}) \cup {r}
              /\ EndPos(m) - req[c].alloc_size \in Nat
              /\ Spans(r, m.VolumeId, BeginPos(m), EndPos(m) - req[c].alloc_size)
              /\ Spans(t, m.VolumeId, EndPos(m) - req[c].alloc_size, EndPos(m))
              /\ Handler(c, NoExtent, hold[c], t, hold[c])
              /\ UNCHANGED <<volumeCol, req>>
    BY <1>2, ShrinkShape
  <2>2. EndPos(m) \in Int /\ req[c].alloc_size \in Int
    <3>1. m \in Chip /\ req[c].alloc_size \in Nat BY <2>1 DEF SpaceInv, TypeOK, Request
    <3>2. EndPos(m) \in Nat BY <3>1, Positions DEF Chip
    <3> QED BY <3>1, <3>2
  <2>3. Aligned(BeginPos(m)) /\ Aligned(EndPos(m)) /\ Aligned(req[c].alloc_size)
    BY <2>1 DEF PositionsAligned, AlignedExtent
  <2>4. Aligned(EndPos(m) - req[c].alloc_size) BY <2>2, <2>3, AlignedMoved
  <2>5. AlignedExtent(r) /\ AlignedExtent(t) /\ AlignedExtent(hold[c])
    BY <2>1, <2>3, <2>4 DEF AlignedExtent, Spans, PositionsAligned
  <2>6. \A x \in chipCol' : AlignedExtent(x) BY <2>1, <2>5 DEF PositionsAligned
  <2>7. \A v \in VolumeIds : Aligned(volumeCol'[v].CurPosition)
    BY <2>1 DEF PositionsAligned
  <2> QED BY <2>1, <2>5, <2>6, <2>7, HandlerAligned
<1>3. ASSUME DeleteChip(c) PROVE PositionsAligned'
  <2>1. PICK m, t :
              /\ m \in chipCol /\ chipCol' = chipCol \ {m}
              /\ Spans(t, m.VolumeId, BeginPos(m), EndPos(m))
              /\ Handler(c, NoExtent, hold[c], t, hold[c])
              /\ UNCHANGED <<volumeCol, req>>
    BY <1>3, DeleteShape
  <2>2. AlignedExtent(t) /\ AlignedExtent(hold[c])
    BY <2>1 DEF AlignedExtent, Spans, PositionsAligned
  <2>3. \A x \in chipCol' : AlignedExtent(x) BY <2>1 DEF PositionsAligned
  <2>4. \A v \in VolumeIds : Aligned(volumeCol'[v].CurPosition)
    BY <2>1 DEF PositionsAligned
  <2> QED BY <2>1, <2>2, <2>3, <2>4, HandlerAligned
<1>4. ASSUME NEW v \in VolumeIds, Reserve(c, v) PROVE PositionsAligned'
  <2>1. PICK t :
              /\ volumeCol'[v].CurPosition = volumeCol[v].CurPosition + req[c].alloc_size
              /\ \A u \in VolumeIds \ {v} : volumeCol'[u] = volumeCol[u]
              /\ Spans(t, v, volumeCol[v].CurPosition, volumeCol'[v].CurPosition)
              /\ Handler(c, NoExtent, hold[c], t, hold[c])
              /\ UNCHANGED <<chipCol, req>>
    BY <1>4, ReserveShape
  <2>2. volumeCol[v].CurPosition \in Int /\ req[c].alloc_size \in Int
    BY DEF SpaceInv, TypeOK, Volume, Request
  <2>3. Aligned(volumeCol'[v].CurPosition)
    BY <2>1, <2>2, AlignedMoved DEF PositionsAligned
  <2>4. \A u \in VolumeIds : Aligned(volumeCol'[u].CurPosition)
    BY <2>1, <2>3 DEF PositionsAligned
  <2>5. AlignedExtent(t) /\ AlignedExtent(hold[c])
    BY <2>1, <2>3 DEF AlignedExtent, Spans, PositionsAligned
  <2>6. \A x \in chipCol' : AlignedExtent(x) BY <2>1 DEF PositionsAligned
  <2> QED BY <2>1, <2>4, <2>5, <2>6, HandlerAligned
<1>5. ASSUME Reply(c) PROVE PositionsAligned'
  <2>1. /\ Handler(c, work[c], NoExtent, NoExtent, work[c])
        /\ req' = [req EXCEPT ![c] = NoRequest]
        /\ UNCHANGED <<volumeCol, chipCol>>
    BY <1>5, ReplyShape
  <2>2. \A e \in Callers : Aligned(req'[e].alloc_size)
    <3> TAKE e \in Callers
    <3>1. CASE e = c BY <2>1, <3>1, ZeroAligned DEF SpaceInv, TypeOK, NoRequest
    <3>2. CASE e # c BY <2>1, <3>2 DEF PositionsAligned, SpaceInv, TypeOK
    <3> QED BY <3>1, <3>2
  <2>3. \A e \in Callers : AlignedExtent(work'[e]) /\ AlignedExtent(hold'[e])
    BY <2>1, ZeroAligned DEF Handler, PositionsAligned
  <2> QED BY <2>1, <2>2, <2>3, AlignedAfter DEF PositionsAligned
<1> QED BY <1>1, <1>2, <1>3, <1>4, <1>5

\* The steps of AddBlkChip.
LEMMA AddAligned ==
    ASSUME SpaceInv, PositionsAligned, NEW c \in Callers,
           \/ \E newPos \in SizesOf(hold[c]) : CallAddBlkChip(c, newPos)
           \/ \E d \in chipCol : MergeForward(c, d) \/ MergeBackward(c, d)
           \/ InsertChip(c)
    PROVE  PositionsAligned'
<1>1. ASSUME NEW newPos \in SizesOf(hold[c]), CallAddBlkChip(c, newPos)
      PROVE  PositionsAligned'
  <2>1. newPos \in Nat BY SizesOfNat
  <2>2. PICK w, h, p :
              /\ p = BeginPos(hold[c]) + newPos
              /\ Spans(w, hold[c].VolumeId, p, EndPos(hold[c]))
              /\ \/ h = NoExtent /\ newPos = 0
                 \/ Spans(h, hold[c].VolumeId, BeginPos(hold[c]), p)
              /\ Handler(c, NoExtent, hold[c], w, h)
              /\ UNCHANGED <<volumeCol, chipCol, req>>
    BY <1>1, <2>1, CallAddBlkChipShape
  <2>3. Aligned(newPos) BY <1>1, <2>1, DataAligned DEF CallAddBlkChip
  <2>4. BeginPos(hold[c]) \in Int
    <3>1. hold[c] \in Extent BY DEF SpaceInv, TypeOK
    <3> QED BY <3>1, Positions DEF Extent
  <2>5. AlignedExtent(hold[c]) BY DEF PositionsAligned
  <2>6. Aligned(p) BY <2>1, <2>2, <2>3, <2>4, <2>5, AlignedMoved DEF AlignedExtent
  <2>7. AlignedExtent(w) /\ AlignedExtent(h)
    BY <2>2, <2>5, <2>6, ZeroAligned DEF AlignedExtent, Spans
  <2>8. /\ \A x \in chipCol' : AlignedExtent(x)
        /\ \A v \in VolumeIds : Aligned(volumeCol'[v].CurPosition)
    BY <2>2 DEF PositionsAligned
  <2> QED BY <2>2, <2>7, <2>8, HandlerAligned
<1>2. ASSUME NEW d \in chipCol, MergeForward(c, d) \/ MergeBackward(c, d)
      PROVE  PositionsAligned'
  <2>1. PICK y :
              /\ chipCol' = chipCol \ {d}
              /\ BeginPos(y) \in {BeginPos(d), BeginPos(work[c])}
              /\ EndPos(y) \in {EndPos(d), EndPos(work[c])}
              /\ Handler(c, work[c], hold[c], y, hold[c])
              /\ UNCHANGED <<volumeCol, req>>
    BY <1>2, ForwardShape, BackwardShape DEF Spans
  <2>2. AlignedExtent(y) /\ AlignedExtent(hold[c])
    BY <2>1 DEF AlignedExtent, PositionsAligned
  <2>3. \A x \in chipCol' : AlignedExtent(x) BY <2>1 DEF PositionsAligned
  <2>4. \A v \in VolumeIds : Aligned(volumeCol'[v].CurPosition)
    BY <2>1 DEF PositionsAligned
  <2> QED BY <2>1, <2>2, <2>3, <2>4, HandlerAligned
<1>3. ASSUME InsertChip(c) PROVE PositionsAligned'
  <2>1. PICK d :
              /\ chipCol' = chipCol \cup {d}
              /\ Spans(d, work[c].VolumeId, BeginPos(work[c]), EndPos(work[c]))
              /\ Handler(c, work[c], hold[c], NoExtent, hold[c])
              /\ UNCHANGED <<volumeCol, req>>
    BY <1>3, InsertShape
  <2>2. AlignedExtent(d) BY <2>1 DEF AlignedExtent, Spans, PositionsAligned
  <2>3. \A x \in chipCol' : AlignedExtent(x) BY <2>1, <2>2 DEF PositionsAligned
  <2>4. AlignedExtent(NoExtent) /\ AlignedExtent(hold[c])
    BY ZeroAligned DEF PositionsAligned
  <2>5. \A v \in VolumeIds : Aligned(volumeCol'[v].CurPosition)
    BY <2>1 DEF PositionsAligned
  <2> QED BY <2>1, <2>3, <2>4, <2>5, HandlerAligned
<1> QED BY <1>1, <1>2, <1>3

\* The steps that move no space leave the aligned values alone, but for the size
\* that AllocateBlks rounds up.
LEMMA QuietAligned ==
    ASSUME PositionsAligned,
           \A v \in VolumeIds : volumeCol'[v].CurPosition \in {0, volumeCol[v].CurPosition},
           \A e \in Callers : /\ work'[e] \in {NoExtent, work[e]}
                              /\ Aligned(req'[e].alloc_size),
           UNCHANGED <<chipCol, hold>>
    PROVE  PositionsAligned'
BY ZeroAligned, AlignedAfter DEF PositionsAligned

LEMMA NextAligned ==
    ASSUME SpaceInv, PositionsAligned, Next
    PROVE  PositionsAligned'
<1> USE DEF handlerVars
<1>1. ASSUME UNCHANGED <<chipCol, req, work, hold>>,
             \A v \in VolumeIds : volumeCol'[v].CurPosition \in {0, volumeCol[v].CurPosition}
      PROVE  PositionsAligned'
  BY <1>1, QuietAligned DEF PositionsAligned
<1>2. ASSUME NEW v \in VolumeIds, NEW n \in BlkCounts, RegisterVolume(v, n)
      PROVE  PositionsAligned'
  <2>1. \A u \in VolumeIds : volumeCol'[u].CurPosition \in {0, volumeCol[u].CurPosition}
    <3>1. CASE volumeCol[v].exists BY <1>2, <3>1 DEF RegisterVolume
    <3>2. CASE ~volumeCol[v].exists
      <4>1. /\ volumeCol'[v].CurPosition = 0
            /\ \A u \in VolumeIds \ {v} : volumeCol'[u] = volumeCol[u]
        BY <1>2, <3>2 DEF RegisterVolume, SpaceInv, TypeOK
      <4> QED BY <4>1
    <3> QED BY <3>1, <3>2
  <2> QED BY <1>1, <1>2, <2>1 DEF RegisterVolume
<1>3. ASSUME NEW v \in VolumeIds,
             RegisterOnline(v) \/ Command(v)
      PROVE  PositionsAligned'
  <2>1. \A u \in VolumeIds : volumeCol'[u].CurPosition = volumeCol[u].CurPosition
    <3>1. PICK online : volumeCol' = [volumeCol EXCEPT ![v].isOnline = online]
      BY <1>3 DEF RegisterOnline, Command, ManageMessage,
         ManageMessageFails
    <3> QED BY <3>1 DEF SpaceInv, TypeOK, Volume
  <2> QED BY <1>1, <1>3, <2>1 DEF RegisterOnline, Command, ManageMessage,
         ManageMessageFails
<1>4. ASSUME NEW r \in Rebuilders,
             RebuildRead(r) \/ RebuildWrite(r) \/ RebuildFails(r)
      PROVE  PositionsAligned'
  BY <1>1, <1>4 DEF RebuildRead, RebuildWrite, RebuildFails
<1>5. ASSUME NEW c \in Callers, NEW size \in Sizes, CallAllocateBlks(c, size)
      PROVE  PositionsAligned'
  <2>1. \A e \in Callers : Aligned(req'[e].alloc_size)
    <3> TAKE e \in Callers
    <3>1. size \in Nat BY RegMAssumption
    <3>2. CASE e = c
      <4>1. req'[e].alloc_size = data_align(size)
        BY <1>5, <3>2 DEF CallAllocateBlks, SpaceInv, TypeOK, Request
      <4> QED BY <3>1, <4>1, DataAligned
    <3>3. CASE e # c
      BY <1>5, <3>3 DEF CallAllocateBlks, SpaceInv, TypeOK, PositionsAligned
    <3> QED BY <3>2, <3>3
  <2> QED BY <1>5, <2>1, QuietAligned DEF CallAllocateBlks
<1>6. ASSUME NEW c \in Callers,
             \/ NoChipFits(c) \/ GetVolumeCount(c) \/ GetVolumeId(c)
             \/ GetVolumeIdOfEmpty(c) \/ ReserveMisses(c) \/ NoSpace(c)
             \/ ForwardDone(c) \/ BackwardDone(c)
      PROVE  PositionsAligned'
  <2>1. \A e \in Callers : req'[e].alloc_size = req[e].alloc_size
    <3>1. CASE NoChipFits(c) \/ NoSpace(c) \/ ForwardDone(c) \/ BackwardDone(c)
      BY <3>1 DEF NoChipFits, NoSpace, ForwardDone, BackwardDone
    <3>2. CASE GetVolumeCount(c)
      BY <3>2 DEF GetVolumeCount, SpaceInv, TypeOK, Request
    <3>3. CASE GetVolumeId(c) \/ GetVolumeIdOfEmpty(c)
      <4>1. PICK v : req' = [req EXCEPT ![c].volumeId = v]
        BY <3>3 DEF GetVolumeId, GetVolumeIdOfEmpty
      <4> QED BY <4>1 DEF SpaceInv, TypeOK, Request
    <3>4. CASE ReserveMisses(c)
      BY <3>4 DEF ReserveMisses, SpaceInv, TypeOK, Request
    <3> QED BY <1>6, <3>1, <3>2, <3>3, <3>4
  <2>2. UNCHANGED <<volumeCol, chipCol, work, hold>>
    BY <1>6 DEF NoChipFits, GetVolumeCount, GetVolumeId, GetVolumeIdOfEmpty,
                ReserveMisses, NoSpace, ForwardDone, BackwardDone
  <2> QED BY <2>1, <2>2, QuietAligned DEF PositionsAligned
<1>7. ASSUME Crash \/ \E c \in Callers : HandlerFails(c) PROVE PositionsAligned'
  <2>1. /\ UNCHANGED <<volumeCol, chipCol, hold>>
        /\ \A e \in Callers : /\ work'[e] \in {NoExtent, work[e]}
                              /\ req'[e] \in {NoRequest, req[e]}
    BY <1>7 DEF Crash, HandlerFails, SpaceInv, TypeOK
  <2>2. \A e \in Callers : Aligned(req'[e].alloc_size)
    BY <2>1, ZeroAligned DEF NoRequest, PositionsAligned
  <2> QED BY <2>1, <2>2, QuietAligned
<1>8. ASSUME NEW c \in Callers, AllocateStep(c) PROVE PositionsAligned'
  BY <1>6, <1>8, AllocateAligned DEF AllocateStep
<1>9. ASSUME NEW c \in Callers, AddStep(c) PROVE PositionsAligned'
  BY <1>6, <1>9, AddAligned DEF AddStep
<1>10. ASSUME NEW c \in Callers, NEW newPos \in SizesOf(hold[c]), CallAddBlkChip(c, newPos)
       PROVE  PositionsAligned'
  BY <1>10, AddAligned
<1> QED BY <1>2, <1>3, <1>4, <1>5, <1>7, <1>8, <1>9, <1>10 DEF Next, Command

LEMMA InitAligned == Init => PositionsAligned
BY ZeroAligned DEF Init, PositionsAligned, NoRequest

\* An extent with aligned ends begins aligned in its block: a block is a whole
\* number of alignment units.
LEMMA OffsetAligned ==
    ASSUME NEW i \in Nat, NEW off \in Nat, Aligned(get_oid_begin_pos(i, off))
    PROVE  off % AlignSize = 0
<1> DEFINE pos == i * BlkSize + off
           k == BlkSize \div AlignSize
           m == pos \div AlignSize
<1>1. k \in Int /\ BlkSize = AlignSize * k BY SizeAssumption
<1>2. pos \in Int BY SizeAssumption
<1>3. m \in Int /\ pos = AlignSize * m
  BY <1>2, SizeAssumption DEF Aligned, get_oid_begin_pos
<1>4. off = pos - i * BlkSize BY SizeAssumption
<1> HIDE DEF pos, k, m
<1>5. i * (AlignSize * k) = AlignSize * (i * k) BY <1>1, SizeAssumption
<1>6. i * k \in Int BY <1>1
<1>7. PICK q \in Int : q = m - i * k BY <1>3, <1>6
<1>8. off = AlignSize * q + 0 BY <1>1, <1>3, <1>4, <1>5, <1>6, <1>7, SizeAssumption
<1>9. 0 <= 0 /\ 0 < AlignSize /\ AlignSize \in Nat \ {0} /\ off \in Int
  BY SizeAssumption
<1> QED BY ONLY <1>8, <1>9, DivMod

\* What the invariants say of the object of a caller.
LEMMA AlignedContiguous ==
    ASSUME SpaceInv, PositionsAligned
    PROVE  ObjectBytesAreContiguous
<1> SUFFICES ASSUME NEW c \in Callers, NEW o \in 0 .. (calc_object_size(hold[c]) - 1)
             PROVE  get_oid_begin_pos(
                        object_blk_index(hold[c].BeginIndex, hold[c].BeginOffset, o),
                        object_blk_offset(hold[c].BeginIndex, hold[c].BeginOffset, o))
                      = BeginPos(hold[c]) + o
  BY DEF ObjectBytesAreContiguous
<1>1. hold[c] \in Extent BY DEF SpaceInv, TypeOK
<1>2. PICK i \in Nat, off \in Nat : i = hold[c].BeginIndex /\ off = hold[c].BeginOffset
  BY <1>1 DEF Extent
<1>3. calc_object_size(hold[c]) \in Int BY <1>1, Positions DEF Extent
<1>4. o \in Nat BY <1>3
<1>5. Aligned(get_oid_begin_pos(i, off))
  BY <1>2 DEF PositionsAligned, AlignedExtent, BeginPos
<1>6. off % AlignSize = 0 BY <1>5, OffsetAligned
<1> QED BY <1>2, <1>4, <1>6, ObjectByteAddress DEF BeginPos

(***************************************************************************)
(* The block and the offset that Read and Write compute for byte o of an   *)
(* object are those of byte o of its extent: extents always begin aligned. *)
(***************************************************************************)
THEOREM ObjectBytesFollow == Spec => []ObjectBytesAreContiguous
<1>1. SpaceInv /\ SpaceInv' /\ PositionsAligned /\ [Next]_vars => PositionsAligned'
  <2>1. ASSUME PositionsAligned, UNCHANGED vars PROVE PositionsAligned'
    BY <2>1, AlignedAfter DEF vars, handlerVars, PositionsAligned
  <2> QED BY <2>1, NextAligned
<1> QED BY <1>1, InitAligned, AlignedContiguous, SpaceInvariant, PTL DEF Spec
-----------------------------------------------------------------------------
(* The queue of online volumes.                                            *)

\* No command that was answered with success waits for its rebuild, or has it made.
NoneWanted == \A a \in Admins : rebuild[a] # "wanted"
Commanded  == \A a \in Admins : rebuild[a] = "idle"

\* The lock is held by the rebuild that is reading.  While no command waits for its
\* rebuild, what a rebuild has read is online, but for the volumes a failed
\* command has changed since; when the commands are done and the queue is not
\* about to be replaced, so is what is queued.
QueueInv ==
    /\ \A r \in Rebuilders : rebuild[r] = "reading" <=> qlock = r
    /\ Commanded /\ qlock = "free" => QueuedVolumes \ unsure \subseteq OnlineVolumes
    /\ NoneWanted => found \ unsure \subseteq OnlineVolumes

\* Wherever the queue is unchanged and no volume goes offline, nothing breaks.
LEMMA QueueKept ==
    ASSUME QueueInv, UNCHANGED queueVars,
           \A v \in VolumeIds : volumeCol[v].exists /\ volumeCol[v].isOnline =>
                                    volumeCol'[v].exists /\ volumeCol'[v].isOnline
    PROVE  QueueInv'
BY DEF QueueInv, queueVars, QueuedVolumes, OnlineVolumes, NoneWanted, Commanded

\* The queue of a rebuild is what the rebuild has read.
LEMMA OrdersOf ==
    ASSUME NEW S, NEW q \in Orders(S)
    PROVE  \A i \in DOMAIN q : q[i] \in S
BY DEF Orders

\* The members of a sequence with an element appended.
LEMMA Appended ==
    ASSUME NEW S, NEW t \in Seq(S), NEW x \in S, NEW i \in DOMAIN Append(t, x)
    PROVE  Append(t, x)[i] = x \/ (i \in DOMAIN t /\ Append(t, x)[i] = t[i])
<1>1. i \in 1 .. (Len(t) + 1) /\ Len(t) \in Nat OBVIOUS
<1>2. CASE i = Len(t) + 1 BY <1>2
<1>3. CASE i # Len(t) + 1
  <2>1. i \in 1 .. Len(t) BY <1>1, <1>3
  <2> QED BY <2>1
<1> QED BY <1>2, <1>3

\* What _get_volume_id does with the queue adds nothing to it.
LEMMA Rotated ==
    ASSUME NEW q \in Seq(VolumeIds), q # <<>>, NEW i \in DOMAIN Append(Tail(q), Head(q))
    PROVE  \E j \in DOMAIN q : Append(Tail(q), Head(q))[i] = q[j]
<1>1. PICK t, x : t = Tail(q) /\ x = Head(q) OBVIOUS
<1>2. /\ t \in Seq(VolumeIds) /\ x \in VolumeIds /\ x = q[1] /\ 1 \in DOMAIN q
      /\ \A k \in DOMAIN t : t[k] = q[k + 1] /\ k + 1 \in DOMAIN q
  BY <1>1
<1>3. Append(t, x)[i] = x \/ (i \in DOMAIN t /\ Append(t, x)[i] = t[i])
  BY <1>1, <1>2, Appended
<1> QED BY <1>1, <1>2, <1>3

LEMMA RebuildQueue ==
    ASSUME SpaceInv, QueueInv, NEW r \in Rebuilders,
           RebuildRead(r) \/ RebuildWrite(r) \/ RebuildFails(r)
    PROVE  QueueInv'
<1>1. rebuild \in [Rebuilders -> {"idle", "wanted", "reading"}] /\ Admins \subseteq Rebuilders
      /\ "free" \notin Rebuilders
  BY RegMAssumption DEF SpaceInv, TypeOK, Rebuilders
<1>2. OnlineVolumes' = OnlineVolumes
  BY DEF RebuildRead, RebuildWrite, RebuildFails, OnlineVolumes
<1>3. CASE RebuildRead(r)
  <2>1. /\ qlock = "free" /\ qlock' = r /\ found' = OnlineVolumes
        /\ rebuild' = [rebuild EXCEPT ![r] = "reading"]
    BY <1>3 DEF RebuildRead
  <2>2. \A s \in Rebuilders : rebuild'[s] = "reading" <=> qlock' = s
    BY <1>1, <2>1 DEF QueueInv
  <2> QED BY <1>1, <1>2, <2>1, <2>2 DEF QueueInv
<1>4. CASE RebuildWrite(r) \/ RebuildFails(r)
  <2>1. /\ rebuild[r] = "reading" /\ qlock' = "free" /\ found' = {}
        /\ rebuild' = [rebuild EXCEPT ![r] = "idle"] /\ unsure' = unsure
        /\ \E part \in SUBSET found : queue' \in Orders(part)
    BY <1>4 DEF RebuildWrite, RebuildFails
  <2>2. qlock = r BY <2>1 DEF QueueInv
  <2>3. \A s \in Rebuilders : rebuild'[s] = "reading" <=> qlock' = s
    BY <1>1, <2>1, <2>2 DEF QueueInv
  <2>4. QueuedVolumes' \subseteq found
    BY <2>1, OrdersOf DEF QueuedVolumes
  <2>5. ASSUME Commanded' PROVE NoneWanted
    BY <1>1, <2>1, <2>5 DEF Commanded, NoneWanted
  <2>6. Commanded' => QueuedVolumes' \ unsure' \subseteq OnlineVolumes'
    BY <1>2, <2>1, <2>4, <2>5 DEF QueueInv
  <2> QED BY <2>1, <2>3, <2>6 DEF QueueInv
<1> QED BY <1>3, <1>4

\* A command: whether it is answered with success or fails, at most its volume
\* goes offline.
LEMMA CommandQueue ==
    ASSUME SpaceInv, QueueInv, NEW v \in VolumeIds, Command(v)
    PROVE  QueueInv'
<1>1. rebuild \in [Rebuilders -> {"idle", "wanted", "reading"}] /\ Admins \subseteq Rebuilders
  BY DEF SpaceInv, TypeOK, Rebuilders
<1>2. PICK a \in Admins, online \in AdminCmds :
          ManageMessage(a, v, online) \/ ManageMessageFails(a, v, online)
  BY DEF Command
<1>3. UNCHANGED <<queue, qlock, found>> /\ QueuedVolumes' = QueuedVolumes
  BY <1>2 DEF ManageMessage, ManageMessageFails, QueuedVolumes
<1>4. OnlineVolumes \ {v} \subseteq OnlineVolumes'
  BY <1>2 DEF ManageMessage, ManageMessageFails, OnlineVolumes, SpaceInv, TypeOK, Volume
<1>5. CASE ManageMessage(a, v, online)
  <2>1. /\ rebuild[a] = "idle" /\ rebuild' = [rebuild EXCEPT ![a] = "wanted"]
    BY <1>5 DEF ManageMessage
  <2>2. \A s \in Rebuilders : rebuild'[s] = "reading" <=> rebuild[s] = "reading"
    BY <1>1, <2>1
  <2>3. rebuild'[a] = "wanted" BY <1>1, <2>1
  <2>4. ~Commanded' /\ ~NoneWanted' BY <2>3 DEF Commanded, NoneWanted
  <2> QED BY <1>3, <2>2, <2>4 DEF QueueInv
<1>6. CASE ManageMessageFails(a, v, online)
  <2>1. unsure' = unsure \cup {v} /\ rebuild' = rebuild BY <1>6 DEF ManageMessageFails
  <2>2. (Commanded' <=> Commanded) /\ (NoneWanted' <=> NoneWanted)
    BY <2>1 DEF Commanded, NoneWanted
  <2> QED BY <1>3, <1>4, <2>1, <2>2 DEF QueueInv
<1> QED BY <1>2, <1>5, <1>6

LEMMA NextQueue ==
    ASSUME SpaceInv, QueueInv, Next
    PROVE  QueueInv'
<1>2. ASSUME NEW v \in VolumeIds, NEW n \in BlkCounts, RegisterVolume(v, n)
      PROVE  QueueInv'
  <2>1. UNCHANGED queueVars BY <1>2 DEF RegisterVolume
  <2>2. CASE volumeCol[v].exists BY <1>2, <2>1, <2>2, QueueKept DEF RegisterVolume
  <2>3. CASE ~volumeCol[v].exists
    <3>1. \A u \in VolumeIds \ {v} : volumeCol'[u] = volumeCol[u]
      BY <1>2, <2>3 DEF RegisterVolume, SpaceInv, TypeOK
    <3> QED BY <2>1, <2>3, <3>1, QueueKept
  <2> QED BY <2>2, <2>3
<1>3. ASSUME NEW v \in VolumeIds, RegisterOnline(v) PROVE QueueInv'
  BY <1>3, QueueKept DEF RegisterOnline, SpaceInv, TypeOK, Volume
<1>4. ASSUME NEW v \in VolumeIds, Command(v) PROVE QueueInv'
  BY <1>4, CommandQueue
<1>5. ASSUME NEW r \in Rebuilders, RebuildRead(r) \/ RebuildWrite(r) \/ RebuildFails(r)
      PROVE  QueueInv'
  BY <1>5, RebuildQueue
<1>6. ASSUME NEW c \in Callers, NEW v \in VolumeIds, Reserve(c, v) PROVE QueueInv'
  BY <1>6, QueueKept DEF Reserve, SpaceInv, TypeOK, Volume
<1>7. ASSUME NEW c \in Callers, GetVolumeId(c) PROVE QueueInv'
  <2>1. /\ queue # <<>> /\ queue' = Append(Tail(queue), Head(queue))
        /\ UNCHANGED <<qlock, found, rebuild, unsure, volumeCol>>
    BY <1>7 DEF GetVolumeId
  <2>2. QueuedVolumes' \subseteq QueuedVolumes
    BY <2>1, Rotated DEF QueuedVolumes, SpaceInv, TypeOK
  <2> QED BY <2>1, <2>2 DEF QueueInv, OnlineVolumes, Commanded, NoneWanted
<1>8. ASSUME NEW c \in Callers, AllocateStep(c),
             ~GetVolumeId(c), \A v \in VolumeIds : ~Reserve(c, v)
      PROVE  QueueInv'
  <2>1. UNCHANGED <<queueVars, volumeCol>>
    BY <1>8 DEF AllocateStep, LockChip, ShrinkChip, DeleteChip, NoChipFits, GetVolumeCount,
                GetVolumeIdOfEmpty, ReserveMisses, NoSpace, Reply
  <2> QED BY <2>1, QueueKept
<1>9. ASSUME NEW c \in Callers,
             \/ \E size \in Sizes : CallAllocateBlks(c, size)
             \/ \E newPos \in SizesOf(hold[c]) : CallAddBlkChip(c, newPos)
             \/ AddStep(c)
             \/ HandlerFails(c)
      PROVE  QueueInv'
  <2>1. UNCHANGED <<queueVars, volumeCol>>
    BY <1>9 DEF CallAllocateBlks, CallAddBlkChip, AddStep, MergeForward, MergeBackward,
                ForwardDone, BackwardDone, InsertChip, HandlerFails
  <2> QED BY <2>1, QueueKept
<1>10. ASSUME Crash PROVE QueueInv'
  BY <1>10, RegMAssumption DEF Crash, QueueInv, QueuedVolumes, OnlineVolumes, Rebuilders
<1> QED BY <1>2, <1>3, <1>4, <1>5, <1>6, <1>7, <1>8, <1>9, <1>10 DEF Next, Command

(***************************************************************************)
(* A disabled volume has left the queue once ManageMessage has answered    *)
(* with success, whatever rebuilds of _sn_find and of other commands it    *)
(* ran into; after an update that was applied but answered with an error,  *)
(* once anybody has rebuilt the queue.  Any number of commands may run at  *)
(* once, any of them may fail, and the process may die.                    *)
(***************************************************************************)
THEOREM DisabledIsNotQueued == Spec => []DisabledLeavesQueue
<1>1. Init => QueueInv
  BY RegMAssumption DEF Init, QueueInv, QueuedVolumes, Rebuilders
<1>2. SpaceInv /\ SpaceInv' /\ QueueInv /\ [Next]_vars => QueueInv'
  <2>1. ASSUME QueueInv, UNCHANGED vars PROVE QueueInv'
    BY <2>1, QueueKept DEF vars, queueVars
  <2> QED BY <2>1, NextQueue
<1>3. QueueInv => DisabledLeavesQueue BY DEF QueueInv, DisabledLeavesQueue, Commanded
<1> QED BY <1>1, <1>2, <1>3, SpaceInvariant, PTL DEF Spec
=============================================================================
