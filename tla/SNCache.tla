------------------------------ MODULE SNCache ------------------------------
(***************************************************************************)
(* The block cache of a storage node (bfss_sn): cache_manager, the list of *)
(* cache nodes in order of use, the index from blocks to nodes, and the    *)
(* block device with its bitmap of written blocks.                         *)
(*                                                                         *)
(* A block in use has two nodes: C(E) holds it as on the device and C(D)   *)
(* holds it decrypted.  Clients write into C(D); a dirty C(D) is sealed    *)
(* into its C(E), a dirty C(E) is written to the device, both only when    *)
(* somebody needs the node or flushes it.                                  *)
(*                                                                         *)
(* access() holds the upgrade lock _cache_mutex from the index lookup to   *)
(* the end of the action on the node, so accesses exclude each other; one  *)
(* action below is one part of an access between two places where an       *)
(* exception may leave it.  An exception leaves everything as it is then.  *)
(***************************************************************************)
EXTENDS Integers, Sequences, FiniteSets, Functions

CONSTANTS Nodes,      \* the cache nodes
          NoNode,     \* nullptr
          Blocks,     \* the block indices of the volume
          NoBlock,    \* blk_index -1, and the key of a cell that is not sealed
          Cells,      \* the parts of a block a client writes
          Values,     \* what it writes into one
          NoValue,    \* what comes out of decryption with a wrong key
          Blank,      \* what a block of zeros decrypts to
          QueueCap,   \* capacity of _spsc_queue (0: no flush threads)
          Faults      \* which of "read", "write", "mongo", "crash" happen

ASSUME SNCacheAssumption ==
    /\ IsFiniteSet(Nodes) /\ Cardinality(Nodes) >= 2 /\ NoNode \notin Nodes
    /\ NoBlock \notin Blocks
    /\ NoValue \notin Values \cup {Blank}
    /\ QueueCap \in Nat
    /\ Faults \subseteq {"read", "write", "mongo", "crash"}

VARIABLES node,       \* the cache nodes
          lru,        \* the list from _latest on (next); its last is _latest->prev
          index,      \* _cache_index: the nodes last used for each block
          keyMap,     \* _blk_key_map: the blocks whose key is in memory
          spsc,       \* _spsc_queue of block indices to flush
          flusher,    \* flush_async: the block it works on and whether C(D) is next
          call,       \* the access in progress
          platter,    \* the device: the last buffer written to each block
          bits,       \* _bits: the blocks marked as written
          savedBits,  \* the bitmap on the device
          visit       \* 0 while the node serves, then the place flush_and_stop has
                      \* got to in its walk over the nodes; -1 when the process died

cacheVars == <<node, lru, index, keyMap>>
deviceVars == <<platter, bits, savedBits>>
threadVars == <<spsc, flusher, call, visit>>
vars == <<cacheVars, deviceVars, threadVars>>

-----------------------------------------------------------------------------
(* Buffers.  Each cell is plain or sealed with the key of one block: the   *)
(* cipher (AES-256-ECB) works on pieces of 16 bytes by themselves.         *)

Cell == [key : Blocks \cup {NoBlock}, val : Values \cup {Blank, NoValue}]
Buffer == [Cells -> Cell]

Filled(b, v) == [c \in Cells |-> [key |-> b, val |-> v]]
Zeros(b) == Filled(b, Blank)

\* keys_manager::encrypt and decrypt with the key of block b.
Seal(b, x) == [c \in Cells |->
    [key |-> b, val |-> IF x[c].key = NoBlock THEN x[c].val ELSE NoValue]]
Open(b, x) == [c \in Cells |->
    [key |-> NoBlock, val |-> IF x[c].key = b THEN x[c].val ELSE NoValue]]

\* BlkDevice::readblk: a block that is not marked reads as zeros.
readblk(b) == IF b \in bits THEN platter[b] ELSE Zeros(b)

\* What a block of the device may hold after a pwrite64 that failed half way.
Torn(b, x) == {[c \in Cells |-> IF c \in S THEN x[c] ELSE platter[b][c]] : S \in SUBSET Cells}

-----------------------------------------------------------------------------
(* Nodes and the list.                                                     *)

NodeStatus == {"uninited", "inited", "updated"}   \* NS_FLUSHED is NS_INITED
Node == [blk : Blocks \cup {NoBlock}, status : NodeStatus,
         encrypted : Nodes \cup {NoNode}, data : Buffer]

FreshNode == [blk |-> NoBlock, status |-> "uninited", encrypted |-> NoNode,
              data |-> Filled(NoBlock, Blank)]

is_me(n, b) == n # NoNode /\ node[n].blk = b
is_decrypted(n) == node[n].encrypted # NoNode
is_updated(n) == node[n].status = "updated"

\* The nodes in some order, each of them once.
Orders == Bijection(1 .. Cardinality(Nodes), Nodes)

\* update_list: the node becomes _latest, those that were before it move back by one.
ToFront(l, n) ==
    LET k == CHOOSE i \in DOMAIN l : l[i] = n
    IN  [i \in DOMAIN l |-> IF i = 1 THEN n ELSE IF i <= k THEN l[i - 1] ELSE l[i]]
Oldest(l) == l[Len(l)]

\* cache_node::encrypt seals D node n into its partner.
SealedInto(n) ==
    LET e == node[n].encrypted
    IN  [node EXCEPT ![n].status = "inited",
                     ![e].status = "updated",
                     ![e].data = Seal(node[n].blk, node[n].data)]

\* Wrong on purpose: every node is written to the device as it is.
Flush_Plain(n) ==
    /\ node' = [node EXCEPT ![n].status = "inited"]
    /\ platter' = [platter EXCEPT ![node[n].blk] = node[n].data]
    /\ bits' = bits \cup {node[n].blk}

\* cache_node::flush of dirty node n: seal a D node, write an E node.  Sealing
\* needs the key, which is in memory because the node was filled with it (see
\* DirtyHasPartner); OpenSSL itself is taken to succeed.
Flush(n) ==
    IF is_decrypted(n)
    THEN /\ node' = SealedInto(n)
         /\ UNCHANGED <<platter, bits>>
    ELSE /\ node' = [node EXCEPT ![n].status = "inited"]
         /\ platter' = [platter EXCEPT ![node[n].blk] = node[n].data]
         /\ bits' = bits \cup {node[n].blk}

\* cache2blk of node n throws: the bit is set, the block is torn, the node dirty.
WriteFails(n) ==
    /\ "write" \in Faults
    /\ \E x \in Torn(node[n].blk, node[n].data) :
            platter' = [platter EXCEPT ![node[n].blk] = x]
    /\ bits' = bits \cup {node[n].blk}

-----------------------------------------------------------------------------
NoCall == [pc |-> "idle", b |-> NoBlock, decrypt |-> FALSE, flush |-> FALSE,
           newD |-> FALSE, newE |-> FALSE]
NoFlush == [b |-> NoBlock, decrypt |-> FALSE]

\* The process as it starts: BlkDevice::open, lru_indexable_list::init.
Init ==
    /\ node = [n \in Nodes |-> FreshNode]
    /\ lru \in Orders
    /\ index = [b \in Blocks |-> [encrypt |-> NoNode, decrypt |-> NoNode]]
    /\ keyMap = {}
    /\ spsc = <<>> /\ flusher = NoFlush /\ call = NoCall /\ visit = 0
    /\ platter = [b \in Blocks |-> Zeros(b)]
    /\ bits = {} /\ savedBits = {}

\* The process is gone and is started again; init_bits reads the bitmap.
Boot ==
    /\ node' = [n \in Nodes |-> FreshNode]
    /\ index' = [b \in Blocks |-> [encrypt |-> NoNode, decrypt |-> NoNode]]
    /\ keyMap' = {}
    /\ spsc' = <<>> /\ flusher' = NoFlush /\ call' = NoCall /\ visit' = 0
    /\ bits' = savedBits
    /\ UNCHANGED <<lru, platter, savedBits>>

\* The process dies at any point.
Crash ==
    /\ "crash" \in Faults
    /\ visit >= 0
    /\ call' = NoCall
    /\ visit' = -1
    /\ UNCHANGED <<cacheVars, deviceVars, spsc, flusher>>

-----------------------------------------------------------------------------
(* access(): get_cache_index, then get_node, then the action.              *)

Running == visit = 0

\* A client's WriteData, ReadData or CompleteWriteObj reaches block b.
Access(b, decrypt) ==
    /\ Running /\ call = NoCall
    /\ call' = [NoCall EXCEPT !.pc = "decrypt", !.b = b, !.decrypt = decrypt]
    /\ UNCHANGED <<cacheVars, deviceVars, spsc, flusher, visit>>

\* An exception leaves access().  In a client's thread the handler reports it; in
\* flush_async nothing catches it and the process is terminated.
Throw ==
    /\ call' = NoCall
    /\ visit' = IF call.flush THEN -1 ELSE visit
    /\ UNCHANGED <<spsc, flusher>>

\* use_exist_first: C(D) if it is wanted, then C(E).
Touched ==
    LET d == index[call.b].decrypt
        e == index[call.b].encrypt
        first == IF call.decrypt /\ is_me(d, call.b) /\ is_decrypted(d)
                 THEN ToFront(lru, d) ELSE lru
    IN  IF is_me(e, call.b) /\ ~is_decrypted(e) THEN ToFront(first, e) ELSE first

\* Wrong on purpose: a pointer in the index is trusted.
KeepDecrypt_Trusts ==
    /\ call.pc = "decrypt"
    /\ call.decrypt => index[call.b].decrypt # NoNode
    /\ lru' = IF call.decrypt THEN ToFront(Touched, index[call.b].decrypt) ELSE Touched
    /\ call' = [call EXCEPT !.pc = "encrypt"]
    /\ UNCHANGED <<node, index, keyMap, deviceVars, spsc, flusher, visit>>

\* otherwise_use_oldest for C(D): not wanted (a stale pointer is cleared), or
\* found, ...
KeepDecrypt ==
    /\ call.pc = "decrypt"
    /\ LET d == index[call.b].decrypt
       IN  \/ /\ ~call.decrypt
              /\ index' = IF is_me(d, call.b) THEN index
                          ELSE [index EXCEPT ![call.b].decrypt = NoNode]
              /\ lru' = Touched
           \/ /\ call.decrypt /\ is_me(d, call.b)
              /\ lru' = ToFront(Touched, d)
              /\ UNCHANGED index
    /\ call' = [call EXCEPT !.pc = "encrypt"]
    /\ UNCHANGED <<node, keyMap, deviceVars, spsc, flusher, visit>>

\* ... or the oldest node is taken, after flushing it ...
TakeDecrypt ==
    LET n == Oldest(Touched)
    IN  /\ call.pc = "decrypt"
        /\ call.decrypt /\ ~is_me(index[call.b].decrypt, call.b)
        /\ index' = [index EXCEPT ![call.b].decrypt = n]
        /\ IF is_updated(n) THEN Flush(n) ELSE UNCHANGED <<node, platter, bits>>
        /\ lru' = ToFront(Touched, n)
        /\ call' = [call EXCEPT !.pc = "encrypt", !.newD = TRUE]
        /\ UNCHANGED <<keyMap, savedBits, spsc, flusher, visit>>

\* ... which may throw when the index already points to it.
TakeDecryptFails ==
    LET n == Oldest(Touched)
    IN  /\ call.pc = "decrypt"
        /\ call.decrypt /\ ~is_me(index[call.b].decrypt, call.b)
        /\ is_updated(n) /\ ~is_decrypted(n)
        /\ index' = [index EXCEPT ![call.b].decrypt = n]
        /\ WriteFails(n)
        /\ lru' = Touched
        /\ Throw
        /\ UNCHANGED <<node, keyMap, savedBits>>

\* Wrong on purpose: only C(D) is moved to the front of the list.
KeepEncrypt_NotTouched ==
    /\ call.pc = "encrypt"
    /\ is_me(index[call.b].encrypt, call.b)
    /\ call' = [call EXCEPT !.pc = "reset"]
    /\ UNCHANGED <<cacheVars, deviceVars, spsc, flusher, visit>>

\* The same for C(E), which is always wanted.
KeepEncrypt ==
    /\ call.pc = "encrypt"
    /\ is_me(index[call.b].encrypt, call.b)
    /\ lru' = ToFront(lru, index[call.b].encrypt)
    /\ call' = [call EXCEPT !.pc = "reset"]
    /\ UNCHANGED <<node, index, keyMap, deviceVars, spsc, flusher, visit>>

\* Wrong on purpose: the node is taken without flushing it.
TakeEncrypt_NoFlush ==
    /\ call.pc = "encrypt"
    /\ ~is_me(index[call.b].encrypt, call.b)
    /\ index' = [index EXCEPT ![call.b].encrypt = Oldest(lru)]
    /\ lru' = ToFront(lru, Oldest(lru))
    /\ call' = [call EXCEPT !.pc = "reset", !.newE = TRUE]
    /\ UNCHANGED <<node, keyMap, deviceVars, spsc, flusher, visit>>

TakeEncrypt ==
    LET n == Oldest(lru)
    IN  /\ call.pc = "encrypt"
        /\ ~is_me(index[call.b].encrypt, call.b)
        /\ index' = [index EXCEPT ![call.b].encrypt = n]
        /\ IF is_updated(n) THEN Flush(n) ELSE UNCHANGED <<node, platter, bits>>
        /\ lru' = ToFront(lru, n)
        /\ call' = [call EXCEPT !.pc = "reset", !.newE = TRUE]
        /\ UNCHANGED <<keyMap, savedBits, spsc, flusher, visit>>

TakeEncryptFails ==
    LET n == Oldest(lru)
    IN  /\ call.pc = "encrypt"
        /\ ~is_me(index[call.b].encrypt, call.b)
        /\ is_updated(n) /\ ~is_decrypted(n)
        /\ index' = [index EXCEPT ![call.b].encrypt = n]
        /\ WriteFails(n)
        /\ Throw
        /\ UNCHANGED <<node, lru, keyMap, savedBits>>

\* reset_index: nodes taken for the block, and a C(D) whose C(E) is new, start
\* over.  (A C(D) that was found but not wanted is reset, too.)
ResetNode(nd, n, b, e) ==
    [nd EXCEPT ![n].blk = b, ![n].status = "uninited", ![n].encrypted = e]

Reset ==
    LET d == index[call.b].decrypt
        e == index[call.b].encrypt
        first == IF (call.newD \/ call.newE) /\ d # NoNode
                 THEN ResetNode(node, d, call.b, e) ELSE node
    IN  /\ call.pc = "reset"
        /\ node' = IF call.newE THEN ResetNode(first, e, call.b, NoNode) ELSE first
        /\ call' = [call EXCEPT !.pc = "load", !.newD = FALSE, !.newE = FALSE]
        /\ UNCHANGED <<lru, index, keyMap, deviceVars, spsc, flusher, visit>>

\* get_node: blk2cache of a C(E) without content.
Load ==
    LET e == index[call.b].encrypt
    IN  /\ call.pc = "load"
        /\ node' = IF node[e].status = "uninited"
                   THEN [node EXCEPT ![e].status = "inited",
                                     ![e].data = readblk(node[e].blk)]
                   ELSE node
        /\ call' = [call EXCEPT !.pc = "open"]
        /\ UNCHANGED <<lru, index, keyMap, deviceVars, spsc, flusher, visit>>

\* readblk fails: what is in the buffer then is not used.
LoadFails ==
    /\ "read" \in Faults
    /\ call.pc = "load"
    /\ node[index[call.b].encrypt].status = "uninited"
    /\ Throw
    /\ UNCHANGED <<cacheVars, deviceVars>>

\* Wrong on purpose: it is marked clean and not written.
OpenWrites_Not(e) == UNCHANGED <<platter, bits>>

\* A dirty C(E) is written to the device before its content is decrypted into a
\* new C(D), because decrypt() marks it clean.
OpenWrites(e) ==
    IF is_updated(e)
    THEN /\ platter' = [platter EXCEPT ![node[e].blk] = node[e].data]
         /\ bits' = bits \cup {node[e].blk}
    ELSE UNCHANGED <<platter, bits>>

NeedsOpen == call.decrypt /\ node[index[call.b].decrypt].status = "uninited"

OpenD ==
    LET d == index[call.b].decrypt
        e == index[call.b].encrypt
    IN  /\ call.pc = "open" /\ NeedsOpen
        /\ OpenWrites(e)
        /\ node' = [node EXCEPT ![d].status = "inited",
                                ![d].data = Open(call.b, node[e].data),
                                ![e].status = "inited"]
        /\ keyMap' = keyMap \cup {call.b}
        /\ call' = [call EXCEPT !.pc = "act"]
        /\ UNCHANGED <<lru, index, savedBits, spsc, flusher, visit>>

\* The device or, when the key is not in memory, MongoDB throws.
OpenFails ==
    LET e == index[call.b].encrypt
    IN  /\ call.pc = "open" /\ NeedsOpen
        /\ \/ /\ is_updated(e) /\ WriteFails(e)
              /\ UNCHANGED node
           \/ /\ "mongo" \in Faults /\ call.b \notin keyMap
              /\ OpenWrites(e)
              /\ node' = IF is_updated(e) THEN [node EXCEPT ![e].status = "inited"] ELSE node
        /\ Throw
        /\ UNCHANGED <<lru, index, keyMap, savedBits>>

\* Wrong on purpose: C(E) is returned as it is.
SealD_Not ==
    /\ call.pc = "open" /\ ~NeedsOpen
    /\ call' = [call EXCEPT !.pc = "act"]
    /\ UNCHANGED <<cacheVars, deviceVars, spsc, flusher, visit>>

\* A read of the sealed block first seals what C(D) has.
SealD ==
    LET d == index[call.b].decrypt
    IN  /\ call.pc = "open" /\ ~NeedsOpen
        /\ node' = IF ~call.decrypt /\ d # NoNode /\ is_updated(d) THEN SealedInto(d) ELSE node
        /\ call' = [call EXCEPT !.pc = "act"]
        /\ UNCHANGED <<lru, index, keyMap, deviceVars, spsc, flusher, visit>>

Target == IF call.decrypt THEN index[call.b].decrypt ELSE index[call.b].encrypt

\* The action of a write ...
Write(c, v) ==
    /\ call.pc = "act" /\ ~call.flush /\ call.decrypt
    /\ node' = [node EXCEPT ![Target].data[c] = [key |-> NoBlock, val |-> v], ![Target].status = "updated"]
    /\ call' = NoCall
    /\ UNCHANGED <<lru, index, keyMap, deviceVars, spsc, flusher, visit>>

\* ... of a read, plain or sealed; it returns node[Target].data ...
Read ==
    /\ call.pc = "act" /\ ~call.flush
    /\ call' = NoCall
    /\ UNCHANGED <<cacheVars, deviceVars, spsc, flusher, visit>>

\* ... and of flush_async, which then turns to C(E) or is done with the block.
FlushAct ==
    /\ call.pc = "act" /\ call.flush
    /\ IF is_updated(Target) THEN Flush(Target) ELSE UNCHANGED <<node, platter, bits>>
    /\ flusher' = IF call.decrypt THEN [flusher EXCEPT !.decrypt = FALSE] ELSE NoFlush
    /\ call' = NoCall
    /\ UNCHANGED <<lru, index, keyMap, savedBits, spsc, visit>>

FlushActFails ==
    /\ call.pc = "act" /\ call.flush
    /\ is_updated(Target) /\ ~is_decrypted(Target)
    /\ WriteFails(Target)
    /\ Throw
    /\ UNCHANGED <<cacheVars, savedBits>>

-----------------------------------------------------------------------------
(* The two flush threads and the end.                                      *)

\* traverse() starts at _latest and follows prev: _latest, then the oldest first.
Visited(k) == IF k = 1 THEN lru[1] ELSE lru[Len(lru) + 2 - k]

\* flush_timeout stops at the first node that is not both dirty and older than 10 s
\* and when the queue is full; any number of the dirty nodes may be that old.
FlushTimeout ==
    /\ Running
    /\ \E k \in 1 .. Len(lru) :
          /\ \A i \in 1 .. k : is_updated(Visited(i))
          /\ Len(spsc) + k <= QueueCap
          /\ spsc' = spsc \o [i \in 1 .. k |-> node[Visited(i)].blk]
    /\ UNCHANGED <<cacheVars, deviceVars, flusher, call, visit>>

FlushPop ==
    /\ Running /\ flusher = NoFlush /\ spsc # <<>>
    /\ flusher' = [b |-> Head(spsc), decrypt |-> TRUE]
    /\ spsc' = Tail(spsc)
    /\ UNCHANGED <<cacheVars, deviceVars, call, visit>>

FlushAccess ==
    /\ Running /\ call = NoCall /\ flusher # NoFlush
    /\ call' = [NoCall EXCEPT !.pc = "decrypt", !.b = flusher.b,
                              !.decrypt = flusher.decrypt, !.flush = TRUE]
    /\ UNCHANGED <<cacheVars, deviceVars, spsc, flusher, visit>>

\* flush_and_stop, after the clients' threads and the flush threads have ended.
Stop ==
    /\ Running /\ call = NoCall /\ flusher = NoFlush
    /\ visit' = 1
    /\ UNCHANGED <<cacheVars, deviceVars, spsc, flusher, call>>

StopVisit ==
    LET n == Visited(visit)
    IN  /\ visit \in 1 .. Len(lru)
        /\ IF is_updated(n) THEN Flush(n) ELSE UNCHANGED <<node, platter, bits>>
        /\ visit' = visit + 1
        /\ UNCHANGED <<lru, index, keyMap, savedBits, spsc, flusher, call>>

\* The destructor that runs flush_and_stop must not throw: the process is terminated.
StopVisitFails ==
    LET n == Visited(visit)
    IN  /\ visit \in 1 .. Len(lru)
        /\ is_updated(n) /\ ~is_decrypted(n)
        /\ WriteFails(n)
        /\ visit' = -1
        /\ UNCHANGED <<cacheVars, savedBits, spsc, flusher, call>>

\* Wrong on purpose: the bitmap is not written.
Close_NoBits ==
    /\ visit = Len(lru) + 1
    /\ visit' = visit + 1
    /\ UNCHANGED <<cacheVars, deviceVars, spsc, flusher, call>>

\* BlkDevice::close writes the bitmap.
Close ==
    /\ visit = Len(lru) + 1
    /\ savedBits' = bits
    /\ visit' = visit + 1
    /\ UNCHANGED <<cacheVars, platter, bits, spsc, flusher, call>>

Restart == visit \in {-1, Len(lru) + 2} /\ Boot

AccessStep ==
    \/ KeepDecrypt \/ TakeDecrypt \/ TakeDecryptFails
    \/ KeepEncrypt \/ TakeEncrypt \/ TakeEncryptFails
    \/ Reset \/ Load \/ LoadFails
    \/ OpenD \/ OpenFails \/ SealD
    \/ (\E c \in Cells, v \in Values : Write(c, v)) \/ Read \/ FlushAct \/ FlushActFails

Next ==
    \/ \E b \in Blocks, decrypt \in BOOLEAN : Access(b, decrypt)
    \/ AccessStep
    \/ FlushTimeout \/ FlushPop \/ FlushAccess
    \/ Stop \/ StopVisit \/ StopVisitFails \/ Close \/ Restart
    \/ Crash

Spec == Init /\ [][Next]_vars

\* Threads run: an access that began goes on, and the flush threads take their turn
\* (the lock of access() is free again and again).
FairSpec ==
    /\ Spec
    /\ WF_vars(AccessStep)
    /\ SF_vars(FlushTimeout) /\ SF_vars(FlushPop) /\ SF_vars(FlushAccess)

-----------------------------------------------------------------------------
\* The types of the variables.
TypeOK ==
    /\ node \in [Nodes -> Node]
    /\ lru \in Orders
    /\ index \in [Blocks -> [encrypt : Nodes \cup {NoNode}, decrypt : Nodes \cup {NoNode}]]
    /\ keyMap \subseteq Blocks
    /\ spsc \in Seq(Blocks) /\ Len(spsc) <= QueueCap
    /\ flusher \in [b : Blocks \cup {NoBlock}, decrypt : BOOLEAN]
    /\ call \in [pc : {"idle", "decrypt", "encrypt", "reset", "load", "open", "act"},
                 b : Blocks \cup {NoBlock}, decrypt : BOOLEAN, flush : BOOLEAN,
                 newD : BOOLEAN, newE : BOOLEAN]
    /\ platter \in [Blocks -> Buffer]
    /\ bits \subseteq Blocks /\ savedBits \subseteq Blocks
    /\ visit \in -1 .. (Len(lru) + 2)

Holds(n, b) == is_me(n, b) /\ node[n].status # "uninited"

\* What clients have written to block b: the newest of C(D), C(E) and the device.
Content(b) ==
    LET d == index[b].decrypt
        e == index[b].encrypt
    IN  IF Holds(d, b) /\ is_decrypted(d) THEN node[d].data
        ELSE IF Holds(e, b) /\ ~is_decrypted(e) THEN Open(b, node[e].data)
        ELSE Open(b, readblk(b))

(***************************************************************************)
(* The assertions of cache_node on the node an access works on: get_node   *)
(* returns a node of the right block and kind with content in it, and      *)
(* reset_index never throws a dirty node away, although nodes are found    *)
(* through pointers that other blocks may have made stale and an earlier   *)
(* access may have been left by an exception.  (Not by a failed write to   *)
(* the device: then one node may end up as both nodes of a block.)         *)
(***************************************************************************)
AccessAssertions ==
    /\ call.pc = "act" => /\ Holds(Target, call.b)
                          /\ is_decrypted(Target) = call.decrypt
    /\ call.pc = "load" => ~is_decrypted(index[call.b].encrypt)
    /\ call.pc = "reset" =>
          /\ call.newE => ~is_updated(index[call.b].encrypt)
          /\ (call.newD \/ call.newE) /\ index[call.b].decrypt # NoNode
                => ~is_updated(index[call.b].decrypt)

\* Node m was used more recently than node n.
Before(l, m, n) == \E i, j \in DOMAIN l : i < j /\ l[i] = m /\ l[j] = n

(***************************************************************************)
(* A dirty C(D) can always be sealed: its partner is another node that     *)
(* still holds the same block (the assertions of encrypt), is used more    *)
(* recently, so it is not taken away first, and the key is in memory, so   *)
(* that encrypt(), whose result flush() ignores, cannot fail.              *)
(***************************************************************************)
DirtyHasPartner ==
    \A d \in Nodes : visit >= 0 /\ is_updated(d) /\ is_decrypted(d) =>
        LET e == node[d].encrypted
        IN  /\ e # d /\ Holds(e, node[d].blk) /\ ~is_decrypted(e)
            /\ index[node[d].blk] = [encrypt |-> e, decrypt |-> d]
            /\ node[d].blk \in keyMap
            /\ \/ call.pc = "encrypt" /\ call.b = node[d].blk   \* C(E) follows at once
               \/ Before(lru, e, d)

(***************************************************************************)
(* "The block device always holds encrypted data", each block under its    *)
(* own key: no node with plain content, or with that of another block, is  *)
(* ever written to it, whatever the node was used for before.  The code    *)
(* keeps this as long as no write to the device fails, and not after.      *)
(***************************************************************************)
DeviceIsSealed == \A b \in Blocks, c \in Cells : platter[b][c].key = b

(***************************************************************************)
(* A read of the sealed block returns what was last written through the    *)
(* plain node, sealed: a client that decrypts itself gets current content. *)
(***************************************************************************)
SealedReadIsCurrent ==
    call.pc = "act" /\ ~call.decrypt => node[Target].data = Seal(call.b, Content(call.b))

\* What a restart after the process ended now would find in block b.
OnDevice(b) == IF b \in savedBits THEN Open(b, platter[b]) ELSE Open(b, Zeros(b))

Closed == visit = Len(lru) + 2

(***************************************************************************)
(* flush_and_stop brings every block to the device, C(D) before C(E), with *)
(* one exception: the block of the node that is _latest, where the walk    *)
(* begins.                                                                 *)
(***************************************************************************)
StopWritesAllButLatest ==
    Closed => \A b \in Blocks \ {node[lru[1]].blk} : OnDevice(b) = Content(b)

-----------------------------------------------------------------------------
(* What the design document says of the path of written data, "S -> C(D)   *)
(* -> C(E) -> B", and the code does not keep.                              *)

(***************************************************************************)
(* After a regular stop all written data are on the device.                *)
(***************************************************************************)
StopWritesAll == Closed => \A b \in Blocks : OnDevice(b) = Content(b)

(***************************************************************************)
(* While the node runs, written data reach the device by themselves.       *)
(***************************************************************************)
WritesReachDevice ==
    \A b \in Blocks : Content(b) # Open(b, readblk(b)) ~> ~Running \/ Content(b) = Open(b, readblk(b))
=====
