-------------------------------- MODULE RegM --------------------------------
(***************************************************************************)
(* bfss_regm: the register manager.  It keeps two MongoDB collections, the *)
(* volumes (how far each one has been handed out) and the chips (extents   *)
(* that were given back), and an in-memory queue of online volumes.        *)
(* Storage nodes register volumes, API servers allocate extents and give   *)
(* them back, an administrator enables and disables volumes, and the       *)
(* _sn_find thread rebuilds the queue every 30 s.                          *)
(*                                                                         *)
(* Every handler runs on its own thread and is a chain of MongoDB          *)
(* operations, each atomic on one document; nothing holds a chain          *)
(* together.  One action below is one such operation (or one critical      *)
(* section of _sn_client_rwlock) with the local computation around it.     *)
(* A chain may stop at any operation: by a MongoDB exception, which the    *)
(* handler turns into an error reply, or by the death of the process.      *)
(***************************************************************************)
EXTENDS BlkAddr, Sequences, FiniteSets

CONSTANTS VolumeIds,   \* the volume ids that may register
          BlkCounts,   \* the device sizes, in blocks, a storage node may report
          Callers,     \* connections of API servers, one handler thread each
          Sizes,       \* the object sizes they ask for
          Admins,      \* the handler threads that run the administrator's commands
          AdminCmds,   \* those commands: TRUE enables, FALSE disables a volume
          Faults       \* what goes wrong: calls of the "handler"s, of a "command"
                       \* or of a "rebuild" of the queue, the process ("crash")

ASSUME RegMAssumption ==
    /\ VolumeIds \subseteq Nat \ {0} /\ IsFiniteSet(VolumeIds)
    /\ BlkCounts \subseteq Nat
    /\ Sizes \subseteq Nat \ {0}
    /\ "free" \notin Admins /\ "sn_find" \notin Admins
    /\ AdminCmds \subseteq BOOLEAN
    /\ Faults \subseteq {"handler", "command", "rebuild", "crash"}

VARIABLES volumeCol,   \* VolumeCol, one document per volume id
          chipCol,     \* VolumeChipCol, the set of chip documents
          queue,       \* _sn_client_queue
          qlock,       \* _sn_client_rwlock as held across _rebuild_sn_queue
          found,       \* the ids the rebuild in progress has read
          rebuild,     \* where the threads that rebuild the queue are
          unsure,      \* history: volumes whose document a command changed, but
                       \* answered an error, and no rebuild has read since
          device,      \* the blocks each storage node last registered with success
          register,    \* storage nodes between the two updates of RegisterVolume
          pc, req,     \* each caller's handler thread: where it is, its locals
          doc,         \* the chip AllocateBlks has locked, as it was before
          work,        \* the extent a handler is merging or about to return
          hold         \* the extent the caller owns (its object's space)

vars == <<volumeCol, chipCol, queue, qlock, found, rebuild, unsure, device,
          register, pc, req, doc, work, hold>>

queueVars == <<queue, qlock, found, rebuild, unsure>>
nodeVars == <<device, register>>
handlerVars == <<pc, req, doc, work, hold>>

-----------------------------------------------------------------------------
(* Documents and extents.                                                  *)

Extent == [VolumeId : Nat, BeginIndex : Nat, BeginOffset : Nat,
           EndIndex : Nat, EndOffset : Nat]

NoExtent == [VolumeId |-> 0, BeginIndex |-> 0, BeginOffset |-> 0,
             EndIndex |-> 0, EndOffset |-> 0]

\* A chip needs no _id: a locked one is only touched by the thread that locked
\* it, and the unique index keeps documents with one begin and Lock apart.
Chip == [VolumeId : Nat, BeginIndex : Nat, BeginOffset : Nat,
         EndIndex : Nat, EndOffset : Nat, Size : Int, Lock : BOOLEAN]

NoChip == [VolumeId |-> 0, BeginIndex |-> 0, BeginOffset |-> 0,
           EndIndex |-> 0, EndOffset |-> 0, Size |-> 0, Lock |-> FALSE]

Volume == [exists : BOOLEAN, BlkCount : Nat, CurPosition : Nat,
           Reserved : Nat, isOnline : BOOLEAN]

Request == [alloc_size : Nat, loopCount : Nat, volumeId : Nat]

NoRequest == [alloc_size |-> 0, loopCount |-> 0, volumeId |-> 0]

ChipOf(x, size) ==
    [VolumeId |-> x.VolumeId, BeginIndex |-> x.BeginIndex,
     BeginOffset |-> x.BeginOffset, EndIndex |-> x.EndIndex,
     EndOffset |-> x.EndOffset, Size |-> size, Lock |-> FALSE]

\* The flat positions of an extent or chip: it is the bytes BeginPos .. EndPos-1.
BeginPos(x) == get_oid_begin_pos(x.BeginIndex, x.BeginOffset)
EndPos(x) == get_oid_end_pos(x.EndIndex, x.EndOffset)

\* The unique index (VolumeId, BeginOffset, BeginIndex, Lock) has room for d.
IndexAllows(chips, d) ==
    \A x \in chips : \/ x.VolumeId # d.VolumeId
                     \/ x.BeginOffset # d.BeginOffset
                     \/ x.BeginIndex # d.BeginIndex
                     \/ x.Lock # d.Lock

\* The tail of alloc_size bytes that AllocateBlks cuts off chip d.
TailOf(d, alloc_size) ==
    [VolumeId |-> d.VolumeId,
     BeginIndex |-> get_blk_index3(d.EndIndex, d.EndOffset, -alloc_size),
     BeginOffset |->
        get_blk_end_offset(get_oid_end_pos3(d.EndIndex, d.EndOffset, -alloc_size)),
     EndIndex |-> d.EndIndex,
     EndOffset |-> d.EndOffset]

\* The chip document while AllocateBlks works on it, and what is left of it.
\* Wrong on purpose: the chip is reserved but not locked.
LockedForm_Unlocked(d, alloc_size) == [d EXCEPT !.Size = @ - alloc_size]

LockedForm(d, alloc_size) == [d EXCEPT !.Size = @ - alloc_size, !.Lock = TRUE]

\* Wrong on purpose: the end of the rest is not updated.
Shrunk_OldEnd(d, alloc_size) == [d EXCEPT !.Size = @ - alloc_size, !.Lock = FALSE]

Shrunk(d, alloc_size) ==
    [d EXCEPT !.Size = @ - alloc_size, !.Lock = FALSE,
              !.EndIndex = TailOf(d, alloc_size).BeginIndex,
              !.EndOffset = TailOf(d, alloc_size).BeginOffset]

\* The extent cut from a volume at CurPosition.
FreshExtent(v, curp, alloc_size) ==
    [VolumeId |-> v,
     BeginIndex |-> get_blk_index(curp),
     BeginOffset |-> get_blk_begin_offset(curp),
     EndIndex |-> get_blk_index(curp + alloc_size),
     EndOffset |-> get_blk_end_offset(curp + alloc_size)]

\* The part of extent x from byte newPos of the object on: what DeleteObject and
\* CompleteObject (newPos = 0) and ResizeObject give back.
SuffixOf(x, newPos) ==
    LET oldPos == calc_object_size(x)
    IN  [VolumeId |-> x.VolumeId,
         BeginIndex |-> get_blk_index3(x.BeginIndex, x.BeginOffset, newPos),
         BeginOffset |-> get_blk_end_offset3(x.BeginIndex, x.BeginOffset, newPos),
         EndIndex |-> get_blk_index3(x.BeginIndex, x.BeginOffset, oldPos),
         EndOffset |-> get_blk_end_offset3(x.BeginIndex, x.BeginOffset, oldPos)]

\* What the caller keeps.
PrefixOf(x, newPos) ==
    IF newPos = 0 THEN NoExtent
    ELSE [x EXCEPT !.EndIndex = get_blk_index3(x.BeginIndex, x.BeginOffset, newPos),
                   !.EndOffset = get_blk_end_offset3(x.BeginIndex, x.BeginOffset, newPos)]

\* The threads that call _rebuild_sn_queue.
Rebuilders == Admins \cup {"sn_find"}

\* The find() of _rebuild_sn_queue returns the online volumes in any order.
Orders(S) ==
    {q \in [1 .. Cardinality(S) -> S] : \A i, j \in DOMAIN q : i # j => q[i] # q[j]}

OnlineVolumes == {v \in VolumeIds : volumeCol[v].exists /\ volumeCol[v].isOnline}
QueuedVolumes == {queue[i] : i \in DOMAIN queue}

-----------------------------------------------------------------------------
Init ==
    /\ volumeCol = [v \in VolumeIds |-> [exists |-> FALSE, BlkCount |-> 0,
                        CurPosition |-> 0, Reserved |-> 0, isOnline |-> FALSE]]
    /\ chipCol = {}
    /\ queue = <<>>
    /\ qlock = "free"
    /\ found = {}
    /\ rebuild = [r \in Rebuilders |-> "idle"]
    /\ unsure = {}
    /\ device = [v \in VolumeIds |-> 0]
    /\ register = {}
    /\ pc = [c \in Callers |-> "idle"]
    /\ req = [c \in Callers |-> NoRequest]
    /\ doc = [c \in Callers |-> NoChip]
    /\ work = [c \in Callers |-> NoExtent]
    /\ hold = [c \in Callers |-> NoExtent]

-----------------------------------------------------------------------------
(* RegisterVolume: a storage node starts.                                  *)

\* Wrong on purpose: $set instead of $setOnInsert.
RegisterVolume_Resets(v, blkCount) ==
    /\ v \notin register
    /\ volumeCol[v].CurPosition <= blkCount * BlkSize
    /\ volumeCol' = [volumeCol EXCEPT ![v] =
            [exists |-> TRUE, BlkCount |-> blkCount, CurPosition |-> 0,
             Reserved |-> blkCount * BlkSize, isOnline |-> FALSE]]
    /\ device' = [device EXCEPT ![v] = blkCount]
    /\ register' = register \cup {v}
    /\ UNCHANGED <<chipCol, queueVars, handlerVars>>

\* The upsert ($setOnInsert), then the check of the document as it was before:
\* a device too small for what was handed out is refused.
RegisterVolume(v, blkCount) ==
    /\ v \notin register
    /\ \/ /\ ~volumeCol[v].exists
          /\ volumeCol' = [volumeCol EXCEPT ![v] =
                [exists |-> TRUE, BlkCount |-> blkCount, CurPosition |-> 0,
                 Reserved |-> blkCount * BlkSize, isOnline |-> FALSE]]
       \/ /\ volumeCol[v].exists
          /\ volumeCol[v].CurPosition <= blkCount * BlkSize
          /\ UNCHANGED volumeCol
    /\ device' = [device EXCEPT ![v] = blkCount]
    /\ register' = register \cup {v}
    /\ UNCHANGED <<chipCol, queueVars, handlerVars>>

\* The second update.  The queue is left to _sn_find.
RegisterOnline(v) ==
    /\ v \in register
    /\ volumeCol' = [volumeCol EXCEPT ![v].isOnline = TRUE]
    /\ register' = register \ {v}
    /\ UNCHANGED <<chipCol, queueVars, device, handlerVars>>

-----------------------------------------------------------------------------
(* ManageMessage and the queue.                                            *)

\* Wrong on purpose: the queue is not rebuilt after the update.
ManageMessage_NoRebuild(a, v, online) ==
    /\ rebuild[a] = "idle"
    /\ volumeCol[v].exists
    /\ volumeCol' = [volumeCol EXCEPT ![v].isOnline = online]
    /\ UNCHANGED <<chipCol, queueVars, nodeVars, handlerVars>>

\* CMD_SN_ENABLE and CMD_SN_DISABLE, the update; NOTFOUND changes nothing.
ManageMessage(a, v, online) ==
    /\ rebuild[a] = "idle"
    /\ volumeCol[v].exists
    /\ volumeCol' = [volumeCol EXCEPT ![v].isOnline = online]
    /\ rebuild' = [rebuild EXCEPT ![a] = "wanted"]
    /\ UNCHANGED <<chipCol, queue, qlock, found, unsure, nodeVars, handlerVars>>

\* The update is applied, but the call throws: the error is answered and the
\* queue is left to _sn_find.
ManageMessageFails(a, v, online) ==
    /\ "command" \in Faults
    /\ rebuild[a] = "idle"
    /\ volumeCol[v].exists
    /\ volumeCol' = [volumeCol EXCEPT ![v].isOnline = online]
    /\ unsure' = unsure \cup {v}
    /\ UNCHANGED <<chipCol, queue, qlock, found, rebuild, nodeVars, handlerVars>>

\* _rebuild_sn_queue takes the lock and reads; _sn_find starts one by itself
\* whenever its wait_for times out.
RebuildRead(r) ==
    /\ rebuild[r] = "wanted" \/ (r = "sn_find" /\ rebuild[r] = "idle")
    /\ qlock = "free"
    /\ qlock' = r
    /\ found' = OnlineVolumes
    /\ unsure' = {}
    /\ rebuild' = [rebuild EXCEPT ![r] = "reading"]
    /\ UNCHANGED <<volumeCol, chipCol, queue, nodeVars, handlerVars>>

\* The queue is replaced and the lock released at the end of the scope.
RebuildWrite(r) ==
    /\ rebuild[r] = "reading"
    /\ queue' \in Orders(found)
    /\ qlock' = "free"
    /\ found' = {}
    /\ rebuild' = [rebuild EXCEPT ![r] = "idle"]
    /\ UNCHANGED <<unsure, volumeCol, chipCol, nodeVars, handlerVars>>

\* The cursor throws, after the queue was emptied and part of it filled again: the
\* exception is logged, and ManageMessage answers success.
RebuildFails(r) ==
    /\ "rebuild" \in Faults
    /\ rebuild[r] = "reading"
    /\ \E part \in SUBSET found : queue' \in Orders(part)
    /\ qlock' = "free"
    /\ found' = {}
    /\ rebuild' = [rebuild EXCEPT ![r] = "idle"]
    /\ UNCHANGED <<unsure, volumeCol, chipCol, nodeVars, handlerVars>>

-----------------------------------------------------------------------------
(* AllocateBlks.                                                           *)

\* An API server without space for its object asks for some.
CallAllocateBlks(c, size) ==
    /\ pc[c] = "idle"
    /\ hold[c] = NoExtent
    /\ pc' = [pc EXCEPT ![c] = "chip"]
    /\ req' = [req EXCEPT ![c].alloc_size = data_align(size)]
    /\ UNCHANGED <<volumeCol, chipCol, queueVars, nodeVars, doc, work, hold>>

\* find_one_and_update picks and locks any unlocked chip that is large enough.
LockChip(c, d) ==
    /\ pc[c] = "chip"
    /\ d.Size >= req[c].alloc_size
    /\ ~d.Lock
    /\ IndexAllows(chipCol \ {d}, LockedForm(d, req[c].alloc_size))
    /\ chipCol' = (chipCol \ {d}) \cup {LockedForm(d, req[c].alloc_size)}
    /\ doc' = [doc EXCEPT ![c] = d]
    /\ pc' = [pc EXCEPT ![c] = "shrink"]
    /\ UNCHANGED <<volumeCol, queueVars, nodeVars, req, work, hold>>

\* What is left of the chip is unlocked with its new end ...
ShrinkChip(c) ==
    LET a == req[c].alloc_size
        locked == LockedForm(doc[c], a)
    IN  /\ pc[c] = "shrink"
        /\ doc[c].Size - a > 0
        /\ IndexAllows(chipCol \ {locked}, Shrunk(doc[c], a))
        /\ chipCol' = IF locked \in chipCol
                      THEN (chipCol \ {locked}) \cup {Shrunk(doc[c], a)}
                      ELSE chipCol
        /\ work' = [work EXCEPT ![c] = TailOf(doc[c], a)]
        /\ doc' = [doc EXCEPT ![c] = NoChip]
        /\ pc' = [pc EXCEPT ![c] = "reply"]
        /\ UNCHANGED <<volumeCol, queueVars, nodeVars, req, hold>>

\* ... or, when nothing is left, the chip is deleted.
DeleteChip(c) ==
    /\ pc[c] = "shrink"
    /\ doc[c].Size - req[c].alloc_size <= 0
    /\ chipCol' = chipCol \ {LockedForm(doc[c], req[c].alloc_size)}
    /\ work' = [work EXCEPT ![c] = TailOf(doc[c], req[c].alloc_size)]
    /\ doc' = [doc EXCEPT ![c] = NoChip]
    /\ pc' = [pc EXCEPT ![c] = "reply"]
    /\ UNCHANGED <<volumeCol, queueVars, nodeVars, req, hold>>

\* No chip will do: the volumes are tried in turn.
NoChipFits(c) ==
    /\ pc[c] = "chip"
    /\ \A d \in chipCol : d.Size < req[c].alloc_size \/ d.Lock
    /\ pc' = [pc EXCEPT ![c] = "count"]
    /\ UNCHANGED <<volumeCol, chipCol, queueVars, nodeVars, req, doc, work, hold>>

\* _get_volume_count: the loop has as many turns as there are volumes now.
GetVolumeCount(c) ==
    /\ pc[c] = "count"
    /\ qlock = "free"
    /\ req' = [req EXCEPT ![c].loopCount = Len(queue)]
    /\ pc' = [pc EXCEPT ![c] = "loop"]
    /\ UNCHANGED <<volumeCol, chipCol, queueVars, nodeVars, doc, work, hold>>

\* _get_volume_id rotates the shared queue.
GetVolumeId(c) ==
    /\ pc[c] = "loop"
    /\ req[c].loopCount > 0
    /\ qlock = "free"
    /\ queue # <<>>
    /\ queue' = Append(Tail(queue), Head(queue))
    /\ req' = [req EXCEPT ![c].volumeId = Head(queue)]
    /\ pc' = [pc EXCEPT ![c] = "reserve"]
    /\ UNCHANGED <<volumeCol, chipCol, qlock, found, rebuild, unsure, nodeVars, doc, work, hold>>

\* The queue was emptied after it was counted: front() of the empty deque is
\* whatever its buffer holds (nothing yet, or an id of an earlier queue), and
\* pop() and push() leave it empty.
GetVolumeIdOfEmpty(c) ==
    /\ pc[c] = "loop"
    /\ req[c].loopCount > 0
    /\ qlock = "free"
    /\ queue = <<>>
    /\ \E v \in VolumeIds \cup {0} : req' = [req EXCEPT ![c].volumeId = v]
    /\ pc' = [pc EXCEPT ![c] = "reserve"]
    /\ UNCHANGED <<volumeCol, chipCol, queueVars, nodeVars, doc, work, hold>>

\* Wrong on purpose: Reserved is not reduced, or not compared.
Reserve_KeepsReserved(c, v) ==
    /\ pc[c] = "reserve"
    /\ req[c].volumeId = v
    /\ volumeCol[v].exists
    /\ volumeCol[v].Reserved >= req[c].alloc_size
    /\ volumeCol' = [volumeCol EXCEPT ![v].CurPosition = @ + req[c].alloc_size]
    /\ work' = [work EXCEPT ![c] =
                    FreshExtent(v, volumeCol[v].CurPosition, req[c].alloc_size)]
    /\ pc' = [pc EXCEPT ![c] = "reply"]
    /\ UNCHANGED <<chipCol, queueVars, nodeVars, req, doc, hold>>

Reserve_Unchecked(c, v) ==
    /\ pc[c] = "reserve"
    /\ req[c].volumeId = v
    /\ volumeCol[v].exists
    /\ volumeCol' = [volumeCol EXCEPT ![v].CurPosition = @ + req[c].alloc_size,
                                      ![v].Reserved = @ - req[c].alloc_size]
    /\ work' = [work EXCEPT ![c] =
                    FreshExtent(v, volumeCol[v].CurPosition, req[c].alloc_size)]
    /\ pc' = [pc EXCEPT ![c] = "reply"]
    /\ UNCHANGED <<chipCol, queueVars, nodeVars, req, doc, hold>>

\* find_one_and_update on the volume: CurPosition moves past the new extent.
Reserve(c, v) ==
    /\ pc[c] = "reserve"
    /\ req[c].volumeId = v
    /\ volumeCol[v].exists
    /\ volumeCol[v].Reserved >= req[c].alloc_size
    /\ volumeCol' = [volumeCol EXCEPT ![v].CurPosition = @ + req[c].alloc_size,
                                      ![v].Reserved = @ - req[c].alloc_size]
    /\ work' = [work EXCEPT ![c] =
                    FreshExtent(v, volumeCol[v].CurPosition, req[c].alloc_size)]
    /\ pc' = [pc EXCEPT ![c] = "reply"]
    /\ UNCHANGED <<chipCol, queueVars, nodeVars, req, doc, hold>>

\* Wrong on purpose: the turn is not counted.
ReserveMisses_Again(c) ==
    /\ pc[c] = "reserve"
    /\ \A v \in VolumeIds : req[c].volumeId = v =>
          ~volumeCol[v].exists \/ volumeCol[v].Reserved < req[c].alloc_size
    /\ pc' = [pc EXCEPT ![c] = "loop"]
    /\ UNCHANGED <<volumeCol, chipCol, queueVars, nodeVars, req, doc, work, hold>>

\* No such volume, or not enough left in it.
ReserveMisses(c) ==
    /\ pc[c] = "reserve"
    /\ \A v \in VolumeIds : req[c].volumeId = v =>
          ~volumeCol[v].exists \/ volumeCol[v].Reserved < req[c].alloc_size
    /\ req' = [req EXCEPT ![c].loopCount = @ - 1, ![c].volumeId = 0]
    /\ pc' = [pc EXCEPT ![c] = "loop"]
    /\ UNCHANGED <<volumeCol, chipCol, queueVars, nodeVars, doc, work, hold>>

\* BFSS_NO_SPACE, "no space  in all volumes."
NoSpace(c) ==
    /\ pc[c] = "loop"
    /\ req[c].loopCount = 0
    /\ pc' = [pc EXCEPT ![c] = "nospace"]
    /\ UNCHANGED <<volumeCol, chipCol, queueVars, nodeVars, req, doc, work, hold>>

\* The reply reaches the API server; the extent is its object's space now.
Reply(c) ==
    /\ pc[c] \in {"reply", "nospace"}
    /\ hold' = [hold EXCEPT ![c] = work[c]]
    /\ work' = [work EXCEPT ![c] = NoExtent]
    /\ req' = [req EXCEPT ![c] = NoRequest]
    /\ pc' = [pc EXCEPT ![c] = "idle"]
    /\ UNCHANGED <<volumeCol, chipCol, queueVars, nodeVars, doc>>

-----------------------------------------------------------------------------
(* AddBlkChip.                                                             *)

\* An API server gives back the object's space from byte newPos on, and does not
\* touch it any more, whatever the reply.
CallAddBlkChip(c, newPos) ==
    /\ pc[c] = "idle"
    /\ hold[c] # NoExtent
    /\ newPos = data_align(newPos)
    /\ newPos < calc_object_size(hold[c])
    /\ work' = [work EXCEPT ![c] = SuffixOf(hold[c], newPos)]
    /\ hold' = [hold EXCEPT ![c] = PrefixOf(hold[c], newPos)]
    /\ pc' = [pc EXCEPT ![c] = "forward"]
    /\ UNCHANGED <<volumeCol, chipCol, queueVars, nodeVars, req, doc>>

\* Wrong on purpose: locked chips are swallowed too.
MergeForward_Locked(c, d) ==
    LET w == work[c]
        size == calc_object_size(w) + d.Size
    IN  /\ pc[c] = "forward"
        /\ d.VolumeId = w.VolumeId
        /\ d.BeginOffset = w.EndOffset
        /\ d.BeginIndex = w.EndIndex
        /\ chipCol' = chipCol \ {d}
        /\ work' = [work EXCEPT ![c].EndOffset =
                        get_blk_end_offset3(w.BeginIndex, w.BeginOffset, size),
                                ![c].EndIndex =
                        get_blk_index3(w.BeginIndex, w.BeginOffset, size)]
        /\ UNCHANGED <<volumeCol, queueVars, nodeVars, pc, req, doc, hold>>

\* The chip d that begins where the extent ends is deleted and swallowed.  The
\* new end is the begin plus the sum of the sizes.
MergeForward(c, d) ==
    LET w == work[c]
        size == calc_object_size(w) + d.Size
    IN  /\ pc[c] = "forward"
        /\ d.VolumeId = w.VolumeId
        /\ d.BeginOffset = w.EndOffset
        /\ d.BeginIndex = w.EndIndex
        /\ ~d.Lock
        /\ chipCol' = chipCol \ {d}
        /\ work' = [work EXCEPT ![c].EndOffset =
                        get_blk_end_offset3(w.BeginIndex, w.BeginOffset, size),
                                ![c].EndIndex =
                        get_blk_index3(w.BeginIndex, w.BeginOffset, size)]
        /\ UNCHANGED <<volumeCol, queueVars, nodeVars, pc, req, doc, hold>>

ForwardDone(c) ==
    /\ pc[c] = "forward"
    /\ \A d \in chipCol : \/ d.VolumeId # work[c].VolumeId
                          \/ d.BeginOffset # work[c].EndOffset
                          \/ d.BeginIndex # work[c].EndIndex
                          \/ d.Lock
    /\ pc' = [pc EXCEPT ![c] = "backward"]
    /\ UNCHANGED <<volumeCol, chipCol, queueVars, nodeVars, req, doc, work, hold>>

\* Wrong on purpose: the chip is deleted and the extent not extended.
MergeBackward_Forgets(c, d) ==
    /\ pc[c] = "backward"
    /\ d.VolumeId = work[c].VolumeId
    /\ d.EndOffset = work[c].BeginOffset
    /\ d.EndIndex = work[c].BeginIndex
    /\ ~d.Lock
    /\ chipCol' = chipCol \ {d}
    /\ UNCHANGED <<volumeCol, queueVars, nodeVars, pc, req, doc, work, hold>>

\* The same for the chip that ends where the extent begins.
MergeBackward(c, d) ==
    /\ pc[c] = "backward"
    /\ d.VolumeId = work[c].VolumeId
    /\ d.EndOffset = work[c].BeginOffset
    /\ d.EndIndex = work[c].BeginIndex
    /\ ~d.Lock
    /\ chipCol' = chipCol \ {d}
    /\ work' = [work EXCEPT ![c].BeginIndex = d.BeginIndex,
                            ![c].BeginOffset = d.BeginOffset]
    /\ UNCHANGED <<volumeCol, queueVars, nodeVars, pc, req, doc, hold>>

BackwardDone(c) ==
    /\ pc[c] = "backward"
    /\ \A d \in chipCol : \/ d.VolumeId # work[c].VolumeId
                          \/ d.EndOffset # work[c].BeginOffset
                          \/ d.EndIndex # work[c].BeginIndex
                          \/ d.Lock
    /\ pc' = [pc EXCEPT ![c] = "insert"]
    /\ UNCHANGED <<volumeCol, chipCol, queueVars, nodeVars, req, doc, work, hold>>

\* insert_one of the merged chip.
InsertChip(c) ==
    LET d == ChipOf(work[c], calc_object_size(work[c]))
    IN  /\ pc[c] = "insert"
        /\ IndexAllows(chipCol, d)
        /\ chipCol' = chipCol \cup {d}
        /\ work' = [work EXCEPT ![c] = NoExtent]
        /\ pc' = [pc EXCEPT ![c] = "idle"]
        /\ UNCHANGED <<volumeCol, queueVars, nodeVars, req, doc, hold>>

-----------------------------------------------------------------------------
(* Failures.                                                               *)

\* A MongoDB call throws (before or after the server applied it), or the reply
\* does not arrive: the handler returns an error and nothing is undone.
HandlerFails(c) ==
    /\ "handler" \in Faults
    /\ pc[c] \in {"chip", "shrink", "reserve", "reply", "forward", "backward", "insert"}
    /\ pc' = [pc EXCEPT ![c] = "idle"]
    /\ req' = [req EXCEPT ![c] = NoRequest]
    /\ doc' = [doc EXCEPT ![c] = NoChip]
    /\ work' = [work EXCEPT ![c] = NoExtent]
    /\ UNCHANGED <<volumeCol, chipCol, queueVars, nodeVars, hold>>

\* The process dies and is started again: the threads and the queue are gone.
Crash ==
    /\ "crash" \in Faults
    /\ queue' = <<>>
    /\ qlock' = "free"
    /\ found' = {}
    /\ rebuild' = [r \in Rebuilders |-> "idle"]
    /\ unsure' = {}
    /\ register' = {}
    /\ pc' = [c \in Callers |-> "idle"]
    /\ req' = [c \in Callers |-> NoRequest]
    /\ doc' = [c \in Callers |-> NoChip]
    /\ work' = [c \in Callers |-> NoExtent]
    /\ UNCHANGED <<volumeCol, chipCol, device, hold>>

-----------------------------------------------------------------------------
SizesOf(x) == 0 .. calc_object_size(x)

AllocateStep(c) ==
    \/ \E d \in chipCol : LockChip(c, d)
    \/ ShrinkChip(c) \/ DeleteChip(c) \/ NoChipFits(c)
    \/ GetVolumeCount(c) \/ GetVolumeId(c) \/ GetVolumeIdOfEmpty(c)
    \/ \E v \in VolumeIds : Reserve(c, v)
    \/ ReserveMisses(c) \/ NoSpace(c) \/ Reply(c)

AddStep(c) ==
    \/ \E d \in chipCol : MergeForward(c, d) \/ MergeBackward(c, d)
    \/ ForwardDone(c) \/ BackwardDone(c) \/ InsertChip(c)

Next ==
    \/ \E v \in VolumeIds : \/ \E n \in BlkCounts : RegisterVolume(v, n)
                            \/ RegisterOnline(v)
                            \/ \E a \in Admins, online \in AdminCmds :
                                  \/ ManageMessage(a, v, online)
                                  \/ ManageMessageFails(a, v, online)
    \/ \E r \in Rebuilders :
          RebuildRead(r) \/ RebuildWrite(r) \/ RebuildFails(r)
    \/ \E c \in Callers : \/ \E size \in Sizes : CallAllocateBlks(c, size)
                          \/ \E newPos \in SizesOf(hold[c]) : CallAddBlkChip(c, newPos)
                          \/ AllocateStep(c)
                          \/ AddStep(c)
                          \/ HandlerFails(c)
    \/ Crash

Spec == Init /\ [][Next]_vars

\* A handler thread that can run does run.  The lock it may need is held by others
\* only across one MongoDB query, and _sn_find takes it once in 30 s, so a thread
\* that waits for it gets it (strong fairness); a rebuild that began ends.
Fairness ==
    /\ \A c \in Callers : SF_vars(AllocateStep(c) \/ AddStep(c))
    /\ \A r \in Rebuilders : WF_vars(RebuildWrite(r))

FairSpec == Spec /\ Fairness

-----------------------------------------------------------------------------
States == {"idle", "chip", "shrink", "count", "loop", "reserve", "nospace",
           "reply", "forward", "backward", "insert"}

\* The types of the documents, the queue and the locals of the handlers.
TypeOK ==
    /\ volumeCol \in [VolumeIds -> Volume]
    /\ chipCol \subseteq Chip
    /\ queue \in Seq(VolumeIds)
    /\ qlock \in {"free"} \cup Rebuilders
    /\ found \subseteq VolumeIds
    /\ rebuild \in [Rebuilders -> {"idle", "wanted", "reading"}]
    /\ unsure \subseteq VolumeIds
    /\ device \in [VolumeIds -> Nat]
    /\ register \subseteq VolumeIds
    /\ pc \in [Callers -> States]
    /\ req \in [Callers -> Request]
    /\ doc \in [Callers -> Chip]
    /\ work \in [Callers -> Extent]
    /\ hold \in [Callers -> Extent]

\* Two extents have no byte in common.
Apart(x, y) == \/ x.VolumeId # y.VolumeId
               \/ EndPos(x) <= BeginPos(y)
               \/ EndPos(y) <= BeginPos(x)

(***************************************************************************)
(* No byte of a volume ever has two owners.  The owners are the chips (the *)
(* locked ones with their whole extent), the extents that AddBlkChip is    *)
(* merging or AllocateBlks is about to return, and the extents the API     *)
(* servers hold.  Allocation and merging are chains of single-document     *)
(* updates by concurrent handlers, any of which may stop half way.         *)
(***************************************************************************)
NoSharedSpace ==
    /\ \A x, y \in chipCol : x # y => Apart(x, y)
    /\ \A x \in chipCol, c \in Callers : Apart(x, work[c]) /\ Apart(x, hold[c])
    /\ \A c, d \in Callers : /\ Apart(work[c], hold[d])
                             /\ c # d => Apart(work[c], work[d]) /\ Apart(hold[c], hold[d])

\* Everything with an owner lies in the part of a registered volume that was
\* handed out, so the next extent cut at CurPosition is nobody's.
HandedOut(x) ==
    /\ x.VolumeId \in VolumeIds
    /\ volumeCol[x.VolumeId].exists
    /\ BeginPos(x) < EndPos(x)
    /\ EndPos(x) <= volumeCol[x.VolumeId].CurPosition

(***************************************************************************)
(* Owned space lies below CurPosition, and CurPosition and Reserved always *)
(* add up to the size the volume was first registered with: AllocateBlks   *)
(* never hands out more than the volume document has.                      *)
(***************************************************************************)
SpaceIsHandedOut ==
    /\ \A v \in VolumeIds : volumeCol[v].CurPosition + volumeCol[v].Reserved
                                = volumeCol[v].BlkCount * BlkSize
    /\ \A x \in chipCol : HandedOut(x)
    /\ \A c \in Callers : /\ work[c] # NoExtent => HandedOut(work[c])
                          /\ hold[c] # NoExtent => HandedOut(hold[c])

WellFormed(x) ==
    /\ x.BeginOffset < BlkSize /\ x.EndOffset < BlkSize
    /\ IF x.Lock THEN 0 <= x.Size /\ x.Size < calc_object_size(x)
                 ELSE x.Size = calc_object_size(x)

(***************************************************************************)
(* The Size field, by which AllocateBlks selects a chip, and the addresses,*)
(* by which it cuts it, agree on every chip that can be selected; a locked *)
(* chip has the size that will be left.  All offsets are smaller than      *)
(* blk_size, so neighbours are recognised by equal pairs (the assertions   *)
(* of get_oid_size and the one after the chip was found).                  *)
(***************************************************************************)
ChipsWellFormed == \A x \in chipCol : WellFormed(x)

(***************************************************************************)
(* Byte o of the object an API server holds is written to and read from    *)
(* block object_blk_index at object_blk_offset: although the index is      *)
(* computed from the rounded offset, the two name byte o of its extent, at *)
(* unaligned offsets and block boundaries too, because every extent that   *)
(* comes out of cutting, merging and giving back parts begins aligned.     *)
(***************************************************************************)
ObjectBytesAreContiguous ==
    \A c \in Callers : \A o \in 0 .. (calc_object_size(hold[c]) - 1) :
        LET x == hold[c]
        IN  get_oid_begin_pos(object_blk_index(x.BeginIndex, x.BeginOffset, o),
                              object_blk_offset(x.BeginIndex, x.BeginOffset, o))
                = BeginPos(x) + o

\* The document that handler c has locked.
MyChip(c) == LockedForm(doc[c], req[c].alloc_size)

(***************************************************************************)
(* A handler that locked a chip finds it again: until then no other        *)
(* handler merges it, cuts it or unlocks it, so each locked chip of a      *)
(* running handler is in the collection, and two handlers never lock one.  *)
(***************************************************************************)
LockedChipIsMine ==
    \A c \in Callers : pc[c] = "shrink" =>
        /\ MyChip(c) \in chipCol
        /\ \A d \in Callers : pc[d] = "shrink" /\ d # c => MyChip(c) # MyChip(d)

\* What the locals of a handler are at each point of it (used by the proofs).
LocalsOf(c) ==
    /\ work[c].BeginOffset < BlkSize /\ work[c].EndOffset < BlkSize
    /\ hold[c].BeginOffset < BlkSize /\ hold[c].EndOffset < BlkSize
    /\ pc[c] \in {"chip", "shrink", "count", "loop", "reserve"} => req[c].alloc_size > 0
    /\ pc[c] = "reserve" => req[c].loopCount > 0
    /\ pc[c] \notin {"reply", "forward", "backward", "insert"} => work[c] = NoExtent
    /\ pc[c] \in {"forward", "backward", "insert"} => work[c] # NoExtent
    /\ pc[c] \notin {"idle", "forward", "backward", "insert"} => hold[c] = NoExtent
    /\ pc[c] = "shrink" => /\ ~doc[c].Lock
                           /\ doc[c].Size = calc_object_size(doc[c])
                           /\ req[c].alloc_size <= doc[c].Size

HandlerLocals == \A c \in Callers : LocalsOf(c)

\* The inductive invariant of the space accounting.
SpaceInv ==
    /\ TypeOK
    /\ NoSharedSpace
    /\ SpaceIsHandedOut
    /\ ChipsWellFormed
    /\ LockedChipIsMine
    /\ HandlerLocals

\* The bytes that were handed out and belong to no chip, handler or API server.
Lost ==
    LET Owners == chipCol \cup {work[c] : c \in Callers} \cup {hold[c] : c \in Callers}
    IN  {b \in UNION {{v} \X (0 .. (volumeCol[v].CurPosition - 1)) : v \in VolumeIds} :
            \A x \in Owners : ~(x.VolumeId = b[1] /\ BeginPos(x) <= b[2] /\ b[2] < EndPos(x))}

(***************************************************************************)
(* Bytes are lost only in a step in which a MongoDB call fails or the      *)
(* process dies: shrinks, merges and inserts of concurrent handlers, also  *)
(* around chips that an earlier failure left locked, lose none.            *)
(***************************************************************************)
NothingLeaks ==
    [][Crash \/ (\E c \in Callers : HandlerFails(c)) \/ Lost' \subseteq Lost
      ]_<<volumeCol, chipCol, work, hold>>

(***************************************************************************)
(* A disabled volume is not in the queue once ManageMessage has answered:  *)
(* the rebuild it makes sees its own update, and a rebuild that _sn_find   *)
(* or another command is in the middle of cannot overwrite the result with *)
(* what it read before, because the lock is held from the read to the      *)
(* write.  A command that was applied but answered an error makes no       *)
(* rebuild; the next one, of _sn_find or of any other command, makes up    *)
(* for it, and until then that volume may stay queued.                     *)
(***************************************************************************)
DisabledLeavesQueue ==
    (\A a \in Admins : rebuild[a] = "idle") /\ qlock = "free" =>
        QueuedVolumes \ unsure \subseteq OnlineVolumes

(***************************************************************************)
(* A volume's space only ever moves from Reserved to CurPosition: a        *)
(* storage node that registers again, possibly in the middle of an         *)
(* allocation, never resets the document of a volume in use.               *)
(***************************************************************************)
CurPositionNeverFalls ==
    [][\A v \in VolumeIds : volumeCol[v].exists =>
            /\ volumeCol'[v].exists
            /\ volumeCol'[v].CurPosition >= volumeCol[v].CurPosition
            /\ volumeCol'[v].Reserved <= volumeCol[v].Reserved
      ]_volumeCol

(***************************************************************************)
(* AllocateBlks and AddBlkChip always answer: the loop over the volumes    *)
(* ends although others rotate and rebuild the queue under it, and so do   *)
(* the merge loops although others insert chips.                           *)
(***************************************************************************)
EveryCallReturns ==
    \A c \in Callers : pc[c] # "idle" ~> pc[c] = "idle"

-----------------------------------------------------------------------------
(* What comments, messages and the design document say, and the code does  *)
(* not keep.                                                               *)

(***************************************************************************)
(* NO_SPACE is answered with "no space  in all volumes.": each volume in   *)
(* the queue has too little Reserved.                                      *)
(***************************************************************************)
NoSpaceInAllVolumes ==
    \A c \in Callers : pc[c] = "nospace" =>
        \A v \in QueuedVolumes : volumeCol[v].Reserved < req[c].alloc_size

(***************************************************************************)
(* _get_volume_id asserts volumeID > 0.                                    *)
(***************************************************************************)
VolumeIdAssertion ==
    \A c \in Callers : pc[c] = "reserve" => req[c].volumeId > 0

(***************************************************************************)
(* "CUT-OFF volume is unsupported !": a volume is never handed out beyond  *)
(* the device its storage node registered successfully.                    *)
(***************************************************************************)
NoCutOff ==
    \A v \in VolumeIds : volumeCol[v].CurPosition <= device[v] * BlkSize

(***************************************************************************)
(* Neighbouring chips become one: when no handler is running, no unlocked  *)
(* chip begins where another one ends.                                     *)
(***************************************************************************)
NeighboursMerged ==
    (\A c \in Callers : pc[c] = "idle") =>
        \A x, y \in chipCol :
            ~x.Lock /\ ~y.Lock /\ x.VolumeId = y.VolumeId => EndPos(x) # BeginPos(y)
=============================================================================
