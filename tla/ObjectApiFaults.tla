-------------------------- MODULE ObjectApiFaults --------------------------
(***************************************************************************)
(* ObjectApi with what its properties do not survive: clients that delete  *)
(* an incomplete object, as bfss_api.thrift tells them to, and failures    *)
(* that the handlers leave half done.                                      *)
(***************************************************************************)
EXTENDS ObjectApi

CONSTANT Faults
ASSUME FaultsAssumption ==
    Faults \subseteq {"volume info", "chip repeated", "mongo", "lock expires", "api crash", "block"}

\* DeleteObject gives the space of an incomplete object back; the object stays.
DeleteIncomplete(t) ==
    /\ Careless
    /\ Ready(t, "Delete") /\ ~Loc(t).complete
    /\ Give(t, "chip", Extent(Loc(t).begin, Loc(t).size))
    /\ UNCHANGED <<calls, doc, entries, cache, lock, data, sent, sealed, stray>>

\* GetVolumeInfo fails: the document is deleted; the cached record stays.
VolumeInfoFails(t) ==
    /\ "volume info" \in Faults /\ At(t, "volume info")
    /\ doc' = [doc EXCEPT ![Oid(t)] = None]
    /\ Give(t, "give back", Extent(th[t].num, Arg(t)))
    /\ UNCHANGED <<calls, entries, cache, lock, data, sent, sealed, stray>>

\* AddBlkChip of CreateObject.
GiveBackNew(t) ==
    /\ At(t, "give back")
    /\ free' = free \cup th[t].bytes
    /\ Answer(t)
    /\ UNCHANGED <<calls, doc, entries, cache, lock, store, node, sent, sealed, stray>>

\* The answer to AddBlkChip is lost: try_call_rpc_fun calls it again.
AddChipRepeated(t) ==
    /\ "chip repeated" \in Faults /\ At(t, "chip")
    /\ free' = free \cup th[t].bytes
    /\ UNCHANGED <<calls, doc, entries, cache, lock, store, node, th, sent, sealed, stray>>

\* MongoDB fails under ResizeObject: the record has its new size already.
ResizeFails(t) ==
    /\ "mongo" \in Faults
    /\ Ready(t, "Resize") /\ ~Loc(t).complete /\ Arg(t) < Loc(t).size
    /\ Local(t, "leave", [Loc(t) EXCEPT !.size = Arg(t), !.redo = TRUE])
    /\ UNCHANGED <<calls, doc, entries, cache, lock, data, sent, sealed, stray>>

\* The cache of the storage node throws: update_hash was there before it.
WriteFails(t) ==
    /\ "block" \in Faults
    /\ Ready(t, "Write") /\ ~Loc(t).complete /\ Arg(t).off < Loc(t).size
    /\ node' = Hashed(Loc(t), Arg(t).off, Written(t))
    /\ Goto(t, "leave")
    /\ UNCHANGED <<calls, doc, entries, cache, lock, free, store, sent, sealed, stray>>

\* 20 s have passed.
LockExpires(o) ==
    /\ "lock expires" \in Faults /\ lock[o]
    /\ lock' = [lock EXCEPT ![o] = FALSE]
    /\ UNCHANGED <<calls, doc, entries, cache, data, th, sent, sealed, stray>>

\* The process of a thread dies; the lock it holds will expire.
Die(t) ==
    /\ "api crash" \in Faults /\ ~At(t, "idle")
    /\ lock' = IF th[t].pc \in Inside THEN [lock EXCEPT ![Oid(t)] = FALSE] ELSE lock
    /\ Answer(t)
    /\ UNCHANGED <<calls, doc, entries, cache, data, sent, sealed, stray>>

FaultyNext ==
    \/ Next
    \/ \E t \in Threads : DeleteIncomplete(t) \/ VolumeInfoFails(t) \/ GiveBackNew(t)
                          \/ AddChipRepeated(t) \/ ResizeFails(t) \/ WriteFails(t) \/ Die(t)
    \/ \E o \in Oids : LockExpires(o)

FaultySpec == Init /\ [][FaultyNext]_vars

(***************************************************************************)
(* bfss_api.thrift says of DeleteObject that the handle of an object whose *)
(* writing failed must be deleted, or it cannot be written again: once the *)
(* call has succeeded the oid can be created.                              *)
(***************************************************************************)
DeletedIsGone ==
    [][\A t \in Threads : At(t, "chip") /\ th[t].op = "Delete" /\ free' # free
                          => doc'[Oid(t)] = None]_vars
=============================================================================
