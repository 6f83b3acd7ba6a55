----------------------------- MODULE ObjectApi -----------------------------
(***************************************************************************)
(* The API server's handlers for objects: CreateObject, Write,             *)
(* ResizeObject, CompleteObject, CreateObjectLink, DeleteObject and the    *)
(* reading ones.  A handler is a chain of calls to MongoDB (the documents  *)
(* of objects and of hashes), memcached (a record and a lock per object),  *)
(* RegM (space) and a storage node (data and running hashes); each call is *)
(* one action, threads of all API servers interleave between them.         *)
(***************************************************************************)
EXTENDS Integers, Sequences, FiniteSets, SequencesExt

CONSTANTS Oids, Threads,
          Space,        \* bytes of the volume
          Align,        \* blk_align_size
          BlkSize,      \* blk_size
          Junk,         \* what a byte behind the end of the volume may read as
          Layouts,      \* objects that were created before: [begin, size] or None
          Sizes,        \* sizes that clients ask for
          Writes,       \* what they write: [off, data]
          MaxCalls,     \* bound on the calls made
          Eager,        \* clients do not wait for CreateObject, see MayCall
          Careless,     \* clients delete incomplete objects
          None, Stub    \* no document; a document that has only its OId

ASSUME ObjectAssumption ==
    /\ Space \in Nat /\ MaxCalls \in Nat /\ Align \in Nat \ {0} /\ Sizes \subseteq Nat \ {0}
    /\ BlkSize \in Nat \ {0} /\ BlkSize % Align = 0 /\ Junk \subseteq Nat /\ Junk # {}
    /\ Eager \in BOOLEAN /\ Careless \in BOOLEAN

VARIABLES doc,      \* ObjectCol
          entries,  \* ObjectHashCol, in the order of insertion
          cache,    \* memcached: the record of an object
          lock,     \* memcached: lock://oid is there
          free,     \* RegM: bytes nobody owns
          store,    \* storage node: the bytes
          node,     \* storage node: what was hashed so far, by begin of the object
          th,       \* the threads of the API servers
          calls,    \* how many calls were made
          sent,     \* history: what clients wrote to an incomplete object
          sealed,   \* history: the content an object was completed with
          stray     \* history: hashes, and sizes, that were made of a wrong block

data == <<free, store, node>>
vars == <<doc, entries, cache, lock, free, store, node, th, calls, sent, sealed, stray>>

AlignUp(n)    == ((n + Align - 1) \div Align) * Align
Bytes(b, n)   == b..(b + n - 1)
Extent(b, n)  == Bytes(b, AlignUp(n))
Content(b, n) == [i \in 1..n |-> store[b + i - 1]]
Begins        == {b \in 0..(Space - 1) : b % Align = 0}

\* What a document with all its fields, and the record in memcached, hold.
\* redo is the flag in the record's ctx; the documents do not have it.
Object(b, n) == [begin |-> b, size |-> n, complete |-> FALSE, hash |-> <<>>]
IsObject(d)  == d # None /\ d # Stub
Cached(d)    == [begin |-> d.begin, size |-> d.size, complete |-> d.complete,
                 hash |-> d.hash, redo |-> FALSE]
InDoc(c)     == [begin |-> c.begin, size |-> c.size, complete |-> c.complete, hash |-> c.hash]
Inbound(S)   == {d \in S : Extent(d.begin, d.size) \subseteq 0..(Space - 1)}
Documents    == Inbound([begin : Begins, size : Nat \ {0}, complete : BOOLEAN, hash : Seq(Nat)])
Records      == Inbound([begin : Begins, size : Nat \ {0}, complete : BOOLEAN, hash : Seq(Nat),
                         redo : BOOLEAN])

\* Data are sequences of numbers, and RegM gave each object an extent of its own.
ASSUME DataAssumption ==
    /\ None # Stub /\ None \notin Documents \cup Records /\ Stub \notin Documents
    /\ \A w \in Writes : w.off \in Nat /\ w.data \in Seq(Nat)
    /\ \A l \in Layouts : \A o \in Oids : l[o] # None =>
          /\ l[o].begin \in Begins /\ l[o].size \in Nat \ {0}
          /\ Extent(l[o].begin, l[o].size) \subseteq 0..(Space - 1)
          /\ \A p \in Oids \ {o} : l[p] # None =>
                Extent(l[o].begin, l[o].size) \cap Extent(l[p].begin, l[p].size) = {}

Idle == [op |-> "", oid |-> None, pc |-> "idle", arg |-> None,
         loc |-> None, old |-> None,      \* the record, as it is and as it was loaded
         num |-> 0,                       \* begin of a new extent, or number of an entry
         bytes |-> {}, seen |-> <<>>]     \* bytes to give back; a hash, or data read

Init == /\ \E l \in Layouts :
              /\ doc = [o \in Oids |-> IF l[o] = None THEN None ELSE Object(l[o].begin, l[o].size)]
              /\ free = (0..(Space - 1)) \ UNION {Extent(l[o].begin, l[o].size) : o \in {p \in Oids : l[p] # None}}
        /\ entries = <<>>
        /\ cache = [o \in Oids |-> None] /\ lock = [o \in Oids |-> FALSE]
        /\ store = [b \in 0..(Space - 1) |-> 0]
        /\ node = [b \in Begins |-> <<>>]
        /\ th = [t \in Threads |-> Idle] /\ calls = 0
        /\ sent = [o \in Oids |-> {}] /\ sealed = [o \in Oids |-> None]
        /\ stray = {}

At(t, l)       == th[t].pc = l
Oid(t)         == th[t].oid
Arg(t)         == th[t].arg
Goto(t, l)     == th' = [th EXCEPT ![t].pc = l]
Give(t, l, w)  == th' = [th EXCEPT ![t].pc = l, ![t].bytes = w]
See(t, l, w)   == th' = [th EXCEPT ![t].pc = l, ![t].seen = w]
Number(t, l, n) == th' = [th EXCEPT ![t].pc = l, ![t].num = n]
Local(t, l, c) == th' = [th EXCEPT ![t].pc = l, ![t].loc = c]
Answer(t)      == th' = [th EXCEPT ![t] = Idle]
-----------------------------------------------------------------------------
(***************************************************************************)
(* The clients write a byte of an object once, or again with the same      *)
(* value, and resize an object before they write to it.  Unless Eager they *)
(* use an oid only after the call that made it returned, and nobody else   *)
(* makes it at the same time; unless Careless they delete only completed   *)
(* objects.                                                                *)
(***************************************************************************)
Handlers     == {"Create", "Link", "Write", "Resize", "Complete", "Delete", "Read", "Info"}
Busy(o, ops) == \E t \in Threads : Oid(t) = o /\ th[t].op \in ops
Pairs(w)     == {<<w.off + i - 1, w.data[i]>> : i \in DOMAIN w.data}

MayCall(o, op, arg) ==
    /\ ~Eager =>
           ~Busy(o, IF op \in {"Create", "Link"} THEN Handlers ELSE {"Create", "Link"})
    /\ op = "Write"  => /\ \A p \in Pairs(arg), q \in sent[o] : p[1] = q[1] => p = q
                        /\ ~Busy(o, {"Resize"})
    /\ op = "Resize" => sent[o] = {} /\ ~Busy(o, Handlers)
    /\ op = "Delete" /\ ~Careless /\ IsObject(doc[o]) => doc[o].complete

\* A request reaches a thread.
Call(t, o, op, arg, l) ==
    /\ At(t, "idle") /\ calls < MaxCalls /\ MayCall(o, op, arg)
    /\ calls' = calls + 1
    /\ sent' = IF op = "Write" THEN [sent EXCEPT ![o] = @ \cup Pairs(arg)] ELSE sent
    /\ th' = [th EXCEPT ![t] = [Idle EXCEPT !.op = op, !.oid = o, !.pc = l, !.arg = arg]]
    /\ UNCHANGED <<doc, entries, cache, lock, data, sealed, stray>>

CallCreate(t, o)  == \E n \in Sizes : Call(t, o, "Create", n, "insert")
CallLink(t, o)    == \E e \in Range(entries) \cup {[hash |-> <<>>, size |-> 1]} :
                         Call(t, o, "Link", [hash |-> e.hash, size |-> e.size], "link")
CallWrite(t, o)   == \E w \in Writes : Call(t, o, "Write", w, "lock")
CallResize(t, o)  == \E n \in Sizes : Call(t, o, "Resize", n, "lock")
CallOther(t, o)   == \E op \in {"Complete", "Delete", "Read", "Info"} : Call(t, o, op, None, "lock")
-----------------------------------------------------------------------------
(***************************************************************************)
(* CreateObject.                                                           *)
(***************************************************************************)
\* insert_one; OId has a unique index.
Insert(t) ==
    /\ At(t, "insert")
    /\ IF doc[Oid(t)] = None
       THEN /\ doc' = [doc EXCEPT ![Oid(t)] = Stub]
            /\ sent' = [sent EXCEPT ![Oid(t)] = {}]
            /\ Goto(t, "alloc")
       ELSE Answer(t) /\ UNCHANGED <<doc, sent>>
    /\ UNCHANGED <<calls, entries, cache, lock, data, sealed, stray>>

Fits(b, n) == Extent(b, n) \subseteq free

\* AllocateBlks: RegM hands out an extent, or says that there is none.
Allocate(t) ==
    /\ At(t, "alloc")
    /\ \/ \E b \in Begins : /\ Fits(b, Arg(t))
                            /\ free' = free \ Extent(b, Arg(t))
                            /\ Number(t, "update", b)
       \/ /\ \A b \in Begins : ~Fits(b, Arg(t))
          /\ Goto(t, "undo twice") /\ UNCHANGED free
    /\ UNCHANGED <<calls, doc, entries, cache, lock, store, node, sent, sealed, stray>>

\* The answer is lost and the call repeated: the first extent is nobody's.
AllocateLost(t) ==
    /\ At(t, "alloc")
    /\ \E b \in Begins : Fits(b, Arg(t)) /\ free' = free \ Extent(b, Arg(t))
    /\ UNCHANGED <<calls, doc, entries, cache, lock, store, node, th, sent, sealed, stray>>

\* The call fails twice: an exception.
AllocateFails(t) ==
    /\ At(t, "alloc")
    /\ Goto(t, "undo")
    /\ UNCHANGED <<calls, doc, entries, cache, lock, data, sent, sealed, stray>>

\* delete_one; an answer other than success is thrown, and caught by the
\* handler of exceptions, which deletes again.
Undo(t) ==
    /\ \/ At(t, "undo twice") /\ Goto(t, "undo")
       \/ At(t, "undo") /\ Answer(t)
    /\ doc' = [doc EXCEPT ![Oid(t)] = None]
    /\ UNCHANGED <<calls, entries, cache, lock, data, sent, sealed, stray>>

\* find_one_and_update; assert(doc) does nothing in a release build.
FillDocument(t) ==
    /\ At(t, "update")
    /\ doc' = [doc EXCEPT ![Oid(t)] = IF @ = None THEN @ ELSE Object(th[t].num, Arg(t))]
    /\ Goto(t, "lock new")
    /\ UNCHANGED <<calls, entries, cache, lock, data, sent, sealed, stray>>

LockNew(t) ==
    /\ At(t, "lock new") /\ ~lock[Oid(t)]
    /\ lock' = [lock EXCEPT ![Oid(t)] = TRUE]
    /\ Goto(t, "cache new")
    /\ UNCHANGED <<calls, doc, entries, cache, data, sent, sealed, stray>>

\* update and unlock.
CacheNew(t) ==
    /\ At(t, "cache new")
    /\ cache' = [cache EXCEPT ![Oid(t)] = Cached(Object(th[t].num, Arg(t)))]
    /\ lock' = [lock EXCEPT ![Oid(t)] = FALSE]
    /\ Goto(t, "volume info")
    /\ UNCHANGED <<calls, doc, entries, data, sent, sealed, stray>>

\* GetVolumeInfo is answered.
VolumeInfo(t) ==
    /\ At(t, "volume info")
    /\ Answer(t)
    /\ UNCHANGED <<calls, doc, entries, cache, lock, data, sent, sealed, stray>>
-----------------------------------------------------------------------------
(***************************************************************************)
(* CreateObjectLink, which takes no lock.                                  *)
(***************************************************************************)
\* Wrong on purpose: the hash is not looked at.
Matching_Size(h, n) == {i \in DOMAIN entries : entries[i].size = n}

\* Which entries there are for a hash; find_one takes any of them.
Matching(h, n) == {i \in DOMAIN entries : entries[i].hash = h /\ entries[i].size = n}
AddRef(i, o)   == entries' = [entries EXCEPT ![i].refs = @ + 1, ![i].oids = @ \cup {o}]
DropRef(i, o)  == entries' = [entries EXCEPT ![i].refs = @ - 1, ![i].oids = @ \ {o}]

Link(t) ==
    /\ At(t, "link")
    /\ LET m == Matching(Arg(t).hash, Arg(t).size)
       IN  \/ \E i \in m : AddRef(i, Oid(t)) /\ Number(t, "link insert", i)
           \/ m = {} /\ Answer(t) /\ UNCHANGED entries
    /\ UNCHANGED <<calls, doc, cache, lock, data, sent, sealed, stray>>

LinkInsert(t) ==
    /\ At(t, "link insert")
    /\ IF doc[Oid(t)] = None
       THEN doc' = [doc EXCEPT ![Oid(t)] = Stub] /\ Goto(t, "link update")
       ELSE Goto(t, "link undo") /\ UNCHANGED doc
    /\ UNCHANGED <<calls, entries, cache, lock, data, sent, sealed, stray>>

\* History: what is in an object when it is completed, and whether its hash
\* was made without a ResizeObject in between.
Seen(b, n, plain) == [content |-> Content(b, n), plain |-> plain]

LinkUpdate(t) ==
    /\ At(t, "link update")
    /\ LET e == entries[th[t].num]
       IN  /\ doc' = [doc EXCEPT ![Oid(t)] =
                  IF @ = None THEN @ ELSE [begin |-> e.begin, size |-> e.size,
                                           complete |-> TRUE, hash |-> e.hash]]
           /\ sealed' = [sealed EXCEPT ![Oid(t)] = Seen(e.begin, e.size, FALSE)]
    /\ Answer(t)
    /\ UNCHANGED <<calls, entries, cache, lock, data, sent, stray>>

\* Wrong on purpose: the reference is not taken back.
LinkUndo_KeepsRef(t) ==
    /\ At(t, "link undo") /\ Answer(t)
    /\ UNCHANGED <<calls, doc, entries, cache, lock, data, sent, sealed, stray>>

LinkUndo(t) ==
    /\ At(t, "link undo")
    /\ DropRef(th[t].num, Oid(t))
    /\ Answer(t)
    /\ UNCHANGED <<calls, doc, cache, lock, data, sent, sealed, stray>>
-----------------------------------------------------------------------------
(***************************************************************************)
(* operate_dispersed_cache: the handlers of an existing object run under   *)
(* the object's lock, on a copy of its record.                             *)
(***************************************************************************)
Lock(t) ==
    /\ At(t, "lock") /\ ~lock[Oid(t)]
    /\ lock' = [lock EXCEPT ![Oid(t)] = TRUE]
    /\ Goto(t, "load")
    /\ UNCHANGED <<calls, doc, entries, cache, data, sent, sealed, stray>>

\* The lock was held for 10 s.
LockTimeout(t) ==
    /\ th[t].pc \in {"lock", "lock new"} /\ lock[Oid(t)]
    /\ Answer(t)
    /\ UNCHANGED <<calls, doc, entries, cache, lock, data, sent, sealed, stray>>

\* The record is in memcached, or is made from the document and put there.
\* Reading looks for completed documents only; a stub lacks fields and throws.
Load(t) ==
    /\ At(t, "load")
    /\ LET o == Oid(t)
           d == doc[o]
           found == IsObject(d) /\ (th[t].op = "Read" => d.complete)
           c == IF cache[o] # None THEN cache[o] ELSE Cached(d)
       IN  IF cache[o] # None \/ found
           THEN /\ cache' = [cache EXCEPT ![o] = c]
                /\ th' = [th EXCEPT ![t].pc = "loaded", ![t].loc = c, ![t].old = c]
           ELSE Goto(t, "leave") /\ UNCHANGED cache
    /\ UNCHANGED <<calls, doc, entries, lock, data, sent, sealed, stray>>

Ready(t, op) == At(t, "loaded") /\ th[t].op = op
Loc(t) == th[t].loc

\* Wrong on purpose: an exception leaves the object locked.
Leave_Locked(t) ==
    /\ At(t, "leave")
    /\ lock' = [lock EXCEPT ![Oid(t)] = th[t].loc = None]
    /\ cache' = IF th[t].loc = th[t].old THEN cache ELSE [cache EXCEPT ![Oid(t)] = th[t].loc]
    /\ Answer(t)
    /\ UNCHANGED <<calls, doc, entries, data, sent, sealed, stray>>

\* The destructors of cache_perception, which stores a record that was changed,
\* and of unique_lock, which deletes lock://oid whoever put it there.
Leave(t) ==
    /\ At(t, "leave")
    /\ cache' = IF th[t].loc = th[t].old THEN cache ELSE [cache EXCEPT ![Oid(t)] = th[t].loc]
    /\ lock' = [lock EXCEPT ![Oid(t)] = FALSE]
    /\ Answer(t)
    /\ UNCHANGED <<calls, doc, entries, data, sent, sealed, stray>>

\* The handler throws before it did anything, or has nothing to do.
Refuse(t) ==
    /\ \/ Ready(t, "Write")    /\ (Loc(t).complete \/ Arg(t).off >= Loc(t).size)
       \/ Ready(t, "Resize")   /\ (Loc(t).complete \/ Loc(t).size <= Arg(t))
       \/ Ready(t, "Complete") /\ Loc(t).complete
       \/ Ready(t, "Read")     /\ ~Loc(t).complete
       \/ Ready(t, "Info")
    /\ Goto(t, "leave")
    /\ UNCHANGED <<calls, doc, entries, cache, lock, data, sent, sealed, stray>>
-----------------------------------------------------------------------------
(***************************************************************************)
(* Write and ReadData, with the storage node's update_hash: only data that *)
(* follow what was hashed are hashed at once.                              *)
(***************************************************************************)
\* Wrong on purpose: all data are hashed at once.
Hashed_Always(c, off, d) == [node EXCEPT ![c.begin] = @ \o d]

Hashed(c, off, d) ==
    [node EXCEPT ![c.begin] = IF Len(@) = off THEN @ \o d ELSE @]

\* The bytes inside the object.
Written(t) == SubSeq(Arg(t).data, 1, Min({Len(Arg(t).data), Loc(t).size - Arg(t).off}))

WriteData(t) ==
    LET d  == Written(t)
        at == Loc(t).begin + Arg(t).off
    IN  /\ store' = [b \in DOMAIN store |->
                        IF b \in Bytes(at, Len(d)) THEN d[b - at + 1] ELSE store[b]]
        /\ node' = Hashed(Loc(t), Arg(t).off, d)
        /\ UNCHANGED free

Write(t) ==
    /\ Ready(t, "Write") /\ ~Loc(t).complete /\ Arg(t).off < Loc(t).size
    /\ WriteData(t)
    /\ Goto(t, "leave")
    /\ UNCHANGED <<calls, doc, entries, cache, lock, sent, sealed, stray>>

\* The answer of the storage node is lost: the call is repeated.
WriteLost(t) ==
    /\ Ready(t, "Write") /\ ~Loc(t).complete /\ Arg(t).off < Loc(t).size
    /\ WriteData(t)
    /\ UNCHANGED <<calls, doc, entries, cache, lock, th, sent, sealed, stray>>

\* A call of the storage node fails twice.
NodeFails(t) ==
    /\ Ready(t, "Write") \/ Ready(t, "Complete") \/ Ready(t, "Read")
    /\ Goto(t, "leave")
    /\ UNCHANGED <<calls, doc, entries, cache, lock, data, sent, sealed, stray>>

\* ReadData: the answer is kept until the thread leaves.
Read(t) ==
    /\ Ready(t, "Read") /\ Loc(t).complete
    /\ See(t, "leave", Content(Loc(t).begin, Loc(t).size))
    /\ UNCHANGED <<calls, doc, entries, cache, lock, data, sent, sealed, stray>>

\* The storage node starts again: the running hashes are gone.
NodeRestart ==
    /\ node # [b \in Begins |-> <<>>]
    /\ node' = [b \in Begins |-> <<>>]
    /\ UNCHANGED <<calls, doc, entries, cache, lock, free, store, th, sent, sealed, stray>>
-----------------------------------------------------------------------------
(***************************************************************************)
(* ResizeObject.                                                           *)
(***************************************************************************)
\* What a shorter object does not need.
TailOf(b, old, new) == (b + AlignUp(new))..(b + AlignUp(old) - 1)

Resize(t) ==
    /\ Ready(t, "Resize") /\ ~Loc(t).complete /\ Arg(t) < Loc(t).size
    /\ LET c == Loc(t)
           n == Arg(t)
           o == Oid(t)
       IN  /\ doc' = [doc EXCEPT ![o] = IF IsObject(@) THEN [@ EXCEPT !.size = n] ELSE @]
           /\ th' = [th EXCEPT ![t].loc = [c EXCEPT !.size = n, !.redo = TRUE],
                               ![t].pc  = IF AlignUp(n) >= c.size THEN "leave" ELSE "chip",
                               ![t].bytes = TailOf(c.begin, c.size, n)]
    /\ UNCHANGED <<calls, entries, cache, lock, data, sent, sealed, stray>>

\* AddBlkChip: RegM takes the bytes back.  CompleteObject then goes on with
\* the extent of the entry.
AddChip(t) ==
    /\ At(t, "chip")
    /\ free' = free \cup th[t].bytes
    /\ IF th[t].op = "Complete" THEN Local(t, "settle", [Loc(t) EXCEPT !.begin = entries[th[t].num].begin])
                               ELSE Goto(t, "leave")
    /\ UNCHANGED <<calls, doc, entries, cache, lock, store, node, sent, sealed, stray>>

\* The call fails twice.
AddChipFails(t) ==
    /\ At(t, "chip")
    /\ Goto(t, "leave")
    /\ UNCHANGED <<calls, doc, entries, cache, lock, data, sent, sealed, stray>>
-----------------------------------------------------------------------------
(***************************************************************************)
(* CompleteObject.                                                         *)
(***************************************************************************)
\* How much was hashed already, unless everything is hashed once more.
Done(c) == IF c.redo THEN 0 ELSE Len(node[c.begin])

\* complete_hash goes on behind it, at get_index and get_offset.  When the next
\* byte is the last one of its block, the + 1 of get_index makes that the last
\* byte of the following block.
GoesAstray(c) == Done(c) < c.size /\ (c.begin + Done(c) + 1) % BlkSize = 0
GoesOnAt(c)   == c.begin + Done(c) + (IF GoesAstray(c) THEN BlkSize ELSE 0)

\* The hash of an object, as the bytes that were put into it.
HashesOf(c) ==
    LET n    == c.size - Done(c)
        from == GoesOnAt(c)
        Byte(i, past) == IF from + i - 1 \in DOMAIN store THEN store[from + i - 1] ELSE past[i]
    IN  {node[c.begin] \o [i \in 1..n |-> Byte(i, past)] : past \in [1..n -> Junk]}

\* CompleteWriteObj; the running hash is removed.
CompleteWrite(t) ==
    /\ Ready(t, "Complete") /\ ~Loc(t).complete
    /\ node' = [node EXCEPT ![Loc(t).begin] = <<>>]
    /\ \/ \E h \in HashesOf(Loc(t)) :
             /\ See(t, "seal", h)
             /\ sealed' = [sealed EXCEPT ![Oid(t)] = Seen(Loc(t).begin, Loc(t).size, ~Loc(t).redo)]
             /\ stray' = IF GoesAstray(Loc(t)) THEN stray \cup {<<h, Loc(t).size>>} ELSE stray
       \/ UNCHANGED <<th, sealed, stray>>
    /\ UNCHANGED <<calls, doc, entries, cache, lock, free, store, sent>>

\* The document is completed.
Seal(t) ==
    /\ At(t, "seal")
    /\ IF IsObject(doc[Oid(t)])
       THEN /\ doc' = [doc EXCEPT ![Oid(t)].hash = th[t].seen, ![Oid(t)].complete = TRUE]
            /\ Local(t, "entry", [Loc(t) EXCEPT !.complete = TRUE, !.hash = th[t].seen])
       ELSE Goto(t, "leave") /\ UNCHANGED doc
    /\ UNCHANGED <<calls, entries, cache, lock, data, sent, sealed, stray>>

\* A reference more to the entry of the hash.  _RefCount, which never shrinks,
\* is above 1 when the entry was there before: the object's own extent goes.
FindEntry(t) ==
    /\ At(t, "entry")
    /\ LET m == Matching(Loc(t).hash, Loc(t).size)
       IN  \/ \E i \in m :
                 /\ AddRef(i, Oid(t))
                 /\ th' = [th EXCEPT ![t].pc = "chip", ![t].bytes = Extent(Loc(t).begin, Loc(t).size),
                                     ![t].num = i]
           \/ m = {} /\ Goto(t, "new entry") /\ UNCHANGED entries
    /\ UNCHANGED <<calls, doc, cache, lock, data, sent, sealed, stray>>

\* Wrong on purpose: the first object of a hash gives its extent back too.
InsertEntry_GivesBack(t) ==
    /\ At(t, "new entry")
    /\ entries' = Append(entries, [hash |-> Loc(t).hash, size |-> Loc(t).size,
                                   begin |-> Loc(t).begin, refs |-> 1, oids |-> {Oid(t)}])
    /\ th' = [th EXCEPT ![t].pc = "chip", ![t].bytes = Extent(Loc(t).begin, Loc(t).size),
                        ![t].num = Len(entries) + 1]
    /\ UNCHANGED <<calls, doc, cache, lock, data, sent, sealed, stray>>

\* upsert: there is no unique index, two threads may both insert.
InsertEntry(t) ==
    /\ At(t, "new entry")
    /\ entries' = Append(entries, [hash |-> Loc(t).hash, size |-> Loc(t).size,
                                   begin |-> Loc(t).begin, refs |-> 1, oids |-> {Oid(t)}])
    /\ Goto(t, "settle")
    /\ UNCHANGED <<calls, doc, cache, lock, data, sent, sealed, stray>>

\* Wrong on purpose: the document keeps the extent that was given back.
Settle_Keeps(t) ==
    /\ At(t, "settle") /\ Goto(t, "leave")
    /\ UNCHANGED <<calls, doc, entries, cache, lock, data, sent, sealed, stray>>

\* The document gets the extent of the entry.
Settle(t) ==
    /\ At(t, "settle")
    /\ doc' = [doc EXCEPT ![Oid(t)] = IF IsObject(@) THEN [@ EXCEPT !.begin = Loc(t).begin] ELSE @]
    /\ Goto(t, "leave")
    /\ UNCHANGED <<calls, entries, cache, lock, data, sent, sealed, stray>>
-----------------------------------------------------------------------------
(***************************************************************************)
(* DeleteObject.                                                           *)
(***************************************************************************)
DeleteDocument(t) ==
    /\ Ready(t, "Delete") /\ Loc(t).complete
    /\ doc' = [doc EXCEPT ![Oid(t)] = None]
    /\ sealed' = [sealed EXCEPT ![Oid(t)] = None]
    /\ Goto(t, "unref")
    /\ UNCHANGED <<calls, entries, cache, lock, data, sent, stray>>

DeleteRef(t) ==
    /\ At(t, "unref")
    /\ LET m == Matching(Loc(t).hash, Loc(t).size)
       IN  IF m = {} THEN UNCHANGED entries ELSE \E i \in m : DropRef(i, Oid(t))
    /\ Goto(t, "uncache")
    /\ UNCHANGED <<calls, doc, cache, lock, data, sent, sealed, stray>>

\* Wrong on purpose: the cached record outlives the object.
DeleteCache_Keeps(t) ==
    /\ At(t, "uncache") /\ Goto(t, "leave")
    /\ UNCHANGED <<calls, doc, entries, cache, lock, data, sent, sealed, stray>>

DeleteCache(t) ==
    /\ At(t, "uncache")
    /\ cache' = [cache EXCEPT ![Oid(t)] = None]
    /\ Goto(t, "leave")
    /\ UNCHANGED <<calls, doc, entries, lock, data, sent, sealed, stray>>
-----------------------------------------------------------------------------
(***************************************************************************)
(* memcached: a record is kept for 60 s, or less; a lock for 20 s.         *)
(***************************************************************************)
CacheExpires(o) ==
    /\ cache[o] # None
    /\ cache' = [cache EXCEPT ![o] = None]
    /\ UNCHANGED <<calls, doc, entries, lock, data, th, sent, sealed, stray>>

Calls(t) == \E o \in Oids : CallCreate(t, o) \/ CallLink(t, o) \/ CallWrite(t, o)
                            \/ CallResize(t, o) \/ CallOther(t, o)

\* What a thread does when nothing goes wrong.
Step(t) == \/ Insert(t) \/ Allocate(t) \/ Undo(t) \/ FillDocument(t) \/ LockNew(t)
           \/ CacheNew(t) \/ VolumeInfo(t)
           \/ Link(t) \/ LinkInsert(t) \/ LinkUpdate(t) \/ LinkUndo(t)
           \/ Lock(t) \/ LockTimeout(t) \/ Load(t) \/ Leave(t) \/ Refuse(t)
           \/ Write(t) \/ Read(t) \/ Resize(t) \/ AddChip(t)
           \/ CompleteWrite(t) \/ Seal(t) \/ FindEntry(t) \/ InsertEntry(t) \/ Settle(t)
           \/ DeleteDocument(t) \/ DeleteRef(t) \/ DeleteCache(t)

Trouble(t) == AllocateLost(t) \/ AllocateFails(t) \/ WriteLost(t) \/ NodeFails(t) \/ AddChipFails(t)

Next == \/ \E t \in Threads : Calls(t) \/ Step(t) \/ Trouble(t)
        \/ \E o \in Oids : CacheExpires(o)
        \/ NodeRestart

Spec == Init /\ [][Next]_vars
-----------------------------------------------------------------------------
Objects == {o \in Oids : IsObject(doc[o])}

TypeOK ==
    /\ \A o \in Objects : /\ doc[o].begin \in Begins /\ doc[o].size \in Nat \ {0}
                          /\ doc[o].complete \in BOOLEAN
    /\ \A o \in Oids : cache[o] # None => cache[o].redo \in BOOLEAN
    /\ lock \in [Oids -> BOOLEAN] /\ free \subseteq 0..(Space - 1)
    /\ \A i \in DOMAIN entries : entries[i].begin \in Begins /\ entries[i].oids \subseteq Oids
    /\ \A t \in Threads : Oid(t) \in Oids \cup {None}

(***************************************************************************)
(* The bytes of an incomplete object and of an entry are nobody else's,    *)
(* and a completed object lives in the extent of an entry of its hash, or  *)
(* keeps its own when AddBlkChip failed, whatever CompleteObject and       *)
(* ResizeObject give back and however calls on different objects           *)
(* interleave.                                                             *)
(***************************************************************************)
GivenBack(o)  == \E t \in Threads : Oid(t) = o /\ At(t, "settle")
InEntry(o)    == \E i \in Matching(doc[o].hash, doc[o].size) : entries[i].begin = doc[o].begin
Private       == {o \in Objects : ~GivenBack(o) /\ ~(doc[o].complete /\ InEntry(o))}
OwnBytes(o)   == Extent(doc[o].begin, doc[o].size)
EntryBytes(i) == Extent(entries[i].begin, entries[i].size)

SpaceIsExclusive ==
    /\ \A i \in DOMAIN entries : /\ EntryBytes(i) \cap free = {}
                                 /\ \A j \in DOMAIN entries \ {i} : EntryBytes(i) \cap EntryBytes(j) = {}
    /\ \A o \in Private : /\ OwnBytes(o) \cap free = {}
                          /\ \A i \in DOMAIN entries : OwnBytes(o) \cap EntryBytes(i) = {}
                          /\ \A p \in Private \ {o} : OwnBytes(o) \cap OwnBytes(p) = {}

\* Nobody uses the bytes that AddBlkChip is about to give back.
GivenBackIsUnused ==
    \A t \in Threads : th[t].pc \in {"chip", "give back"} =>
        /\ th[t].bytes \cap free = {}
        /\ \A i \in DOMAIN entries : th[t].bytes \cap EntryBytes(i) = {}
        /\ \A o \in Private \ {Oid(t)} : th[t].bytes \cap OwnBytes(o) = {}

(***************************************************************************)
(* The record in memcached agrees with the document whenever the object is *)
(* not locked: a handler that finds it need not look at the document.      *)
(***************************************************************************)
CacheAgrees ==
    \A o \in Oids : cache[o] # None /\ ~lock[o] => IsObject(doc[o]) /\ InDoc(cache[o]) = doc[o]

\* A hash that complete_hash made of the bytes it was asked for.
Trusted(h, n) == <<h, n>> \notin stray

(***************************************************************************)
(* What a reader gets is what the object was completed with, after its     *)
(* extent was exchanged for that of an equal object, after others were     *)
(* deleted, and when it is a link that never had data of its own: unless   *)
(* complete_hash has answered the object's hash from a wrong block.        *)
(***************************************************************************)
ReadersSeeContent ==
    \A t \in Threads : /\ th[t].op = "Read" /\ At(t, "leave") /\ th[t].seen # <<>>
                       /\ Trusted(Loc(t).hash, Loc(t).size)
                       => th[t].seen = sealed[Oid(t)].content

(***************************************************************************)
(* Equal hashes mean equal content: CompleteObject may exchange the extent *)
(* of an object for that of another one.  A hash is that of the content,   *)
(* in whatever order it was written, whether calls were repeated and       *)
(* whether the storage node has lost its running hash, but for objects     *)
(* that were resized, and for hashes that complete_hash goes on with at    *)
(* the last byte of a block, where get_index takes a wrong one.            *)
(***************************************************************************)
Sealed == {o \in Objects : doc[o].complete}
TrustedObjects == {o \in Sealed : Trusted(doc[o].hash, doc[o].size)}
EqualHashesEqualContent ==
    /\ \A o, p \in TrustedObjects : doc[o].hash = doc[p].hash /\ doc[o].size = doc[p].size
                                     => sealed[o].content = sealed[p].content
    /\ \A o \in TrustedObjects : sealed[o].plain => doc[o].hash = sealed[o].content

(***************************************************************************)
(* "+1  means the end of one block, treat as the begin of the next block.":*)
(* complete_hash goes on with the byte that follows what was hashed, and   *)
(* the hash of an object that was not resized is that of its content.      *)
(***************************************************************************)
HashGoesOn == \A o \in Sealed : sealed[o].plain => doc[o].hash = sealed[o].content

(***************************************************************************)
(* bfss_sn.cpp and bfss_api.cpp call the flag that ResizeObject sets       *)
(* "force re-do hash calculate": the hash of any object is that of its     *)
(* content.                                                                *)
(***************************************************************************)
HashIsOfContent == \A o \in Sealed : doc[o].hash = sealed[o].content

(***************************************************************************)
(* When no call that counts is on its way, the references of the entries   *)
(* of a hash are as many as the objects with that hash.                    *)
(***************************************************************************)
Refs(h, n) == FoldSeq(LAMBDA e, r : IF e.hash = h /\ e.size = n THEN e.refs + r ELSE r, 0, entries)
RefsAreObjects ==
    ~(\E t \in Threads : th[t].op \in {"Complete", "Link", "Delete"}) =>
        \A i \in DOMAIN entries :
            LET h == entries[i].hash
                n == entries[i].size
            IN  Refs(h, n) = Cardinality({o \in Objects : doc[o].complete /\ doc[o].hash = h /\ doc[o].size = n})

(***************************************************************************)
(* A locked object is being worked on, by one thread: no way out of a      *)
(* handler leaves the lock behind, and unlock, which deletes lock://oid    *)
(* whoever put it there, never frees an object another thread works on.    *)
(***************************************************************************)
Inside  == {"cache new", "load", "loaded", "leave", "chip", "seal", "entry", "new entry",
            "settle", "unref", "uncache"}
Holders(o) == {t \in Threads : Oid(t) = o /\ th[t].pc \in Inside}
OneHolder  == \A o \in Oids : /\ \A t, u \in Holders(o) : t = u
                            /\ lock[o] = (Holders(o) # {})
=============================================================================
