# BFSS: a TLA+ model of the storage system

BFSS (BFSS_SERVER) is a block-based object store. This directory holds TLA+
modules that model its core, TLC configurations that check them on small
instances, and theorems checked by TLAPS. `PROJECT.json` lists components, runs,
findings, hazards, theorems and, under `map`, the source lines of each definition.

## 1. The system

| Part | Source | State | Operations |
|---|---|---|---|
| Register manager (RegM) | `bfss_regm/` | MongoDB `VolumeCol` (per volume: BlkCount, CurPosition, Reserved, isOnline) and `VolumeChipCol` (extents given back, with a Lock flag); in memory a queue of online volumes | RegisterVolume, ManageMessage (enable, disable), AllocateBlks, AddBlkChip, GetVolumeInfo, GetAllVolumeInfo; the `_sn_find` thread rebuilds the queue every 30 s |
| Storage node (SN) | `bfss_sn/` | block device with a bitmap of written blocks; cache nodes in LRU order, an index from blocks to a pair of nodes; block keys in MongoDB and in a map; running hashes of objects | WriteData, ReadData, CompleteWriteObj, GetBlkKey; threads `flush_timeout` and `flush_async`; `flush_and_stop` |
| API server | `bfss_api/` | MongoDB `ObjectCol` and `ObjectHashCol`; per object a cached record and a lock in memcached; in memory the addresses of storage nodes | CreateObject, Write, CompleteObject, DeleteObject, ResizeObject, CreateObjectLink, Read, ReadBlk, Get... |
| Shared code | `utils/` | none | address arithmetic, memcached lock and cache, RPC helper that repeats a failed call once |
| Thrift client and processor | `bfss_web/BFSS_API/` | per connection: counter of calls, buffers, frames under way | the methods of BFSS_APID |
| HTTP gateway | `bfss_web/` | one client that all handlers share | a request that reads an object |
| Load generator | `TestCase/pressure/` | tasks with status, units and a mutex; a queue; child processes; buffers that go round between goroutines | create, queue, start, export a task; a child fetches its configuration, commits; FastWrite |

How they interact. A storage node registers its volume with RegM when it starts.
An API server asks RegM for an extent (CreateObject), writes to the storage node
of that volume, completes the object (the storage node returns its SHA-256; if an
object with the same hash, size and head exists the new extent is given back)
and gives extents back (DeleteObject of an incomplete object, ResizeObject,
CompleteObject of a duplicate). A byte of a volume is addressed by a pair
(block index, offset) or by a flat position; all parts convert between the two.

What is hard in it:

* RegM's handlers run on their own threads; each is a chain of single-document MongoDB updates, with
  nothing that holds the chain together, and any update may fail.
* The queue of volumes is shared, rotated by every allocation and rebuilt by two
  threads.
* The storage node keeps each block in use in two cache nodes, C(D) plain and
  C(E) encrypted, writes back late, and finds nodes through pointers that go
  stale. An exception may leave an access at many points.
* Objects are protected by a memcached lock with an expiry; documents and the
  cached record are updated in several steps; RPCs are repeated. A hash entry has no
  unique index; links take no lock.
* A Thrift client matches replies to calls by a counter only; after a timeout a reply
  is still under way, and goroutines may share one client.
* The load generator's handlers read a task's status without its mutex; its
  goroutines pass buffers on through bounded channels, each the receiver of the other.

What makes each part correct:

* address arithmetic: pairs are in normal form, index and offset agree;
* RegM: no byte has two owners, nothing is handed out twice or beyond the volume,
  nothing is lost without a failure, calls are answered, a disabled volume leaves
  the queue;
* storage node: clients see what was written, whatever the cache does; the device
  holds only sealed data; written data reach the device;
* API server: an object's extent is its own from CreateObject to the moment it is
  given back; equal hashes mean equal content, so extents may be exchanged; readers get
  what the object was completed with; reference counts match the objects; a cached
  record agrees with its document; no lock is left behind or freed by another thread;
* Thrift: a call that returns, returns its own answer, or the version of the peer is
  refused; after a timeout a client returns no other call's answer;
* load generator: a task that is done has the results of all its units, what is queued
  is run, and runs do not overlap; buffers have one owner and FastWrite ends.

## 2. Modules

| Module | Models |
|---|---|
| `BlkAddr` | the arithmetic of `utils/bfss_utils.h`, and the addresses Write and read compute |
| `RegM` | the register manager |
| `SpaceAlloc` | what RegM promises: a pool of bytes that are free, owned, or in transit |
| `RegMRefines` | the mapping from RegM to SpaceAlloc |
| `MCRegM` | TLC instances of RegM |
| `SNCache` | cache, flush threads, stop, device and bitmap of a storage node |
| `BlockStore` | what a storage node promises: blocks that change only by writes |
| `SNCacheRefines` | the mapping from SNCache to BlockStore |
| `MCSNCache` | TLC instances of SNCache |
| `ObjectApi` | the API server's handlers, with MongoDB, memcached, RegM and a storage node as they see them |
| `ObjectApiFaults` | ObjectApi with clients and failures its properties do not survive |
| `MCObjectApi` | TLC instances of ObjectApi |
| `ThriftWire` | the structures of the interface, written and read field by field |
| `ThriftVersions` | the same between programs of different versions of the interface |
| `ThriftCall` | one connection: client, transport, processor |
| `MCThrift` | ThriftCall with the structures of ThriftWire, TLC instance |
| `Gateway` | the HTTP gateway: ThriftCall with as many users as HTTP requests |
| `PressureTask`, `MCPressureTask` | the load generator's server of tasks, TLC instance |
| `PressureWrite`, `MCPressureWrite` | FastWrite and its buffers, TLC instance |
| `BlkAddrProofs`, `RegMProofs`, `RegMRefinesProofs`, `ObjectApiProofs`, `SNCacheProofs`, `ThriftCallProofs`, `PressureTaskProofs`, `PressureWriteProofs` | theorems |

`RegM` extends `BlkAddr`: extents and chips carry pairs, exactly as in the
documents, and all comparisons of neighbours are comparisons of pairs. Definitions
whose name ends in a suffix such as `_NoBorrow` and whose comment begins "Wrong on
purpose" are variants with a plausible bug; no action uses them. They show that
a property is able to fail.

### RegM

One action is one MongoDB operation (atomic on one document) or one critical
section of `_sn_client_rwlock`, with the local computation around it. A handler's
place is `pc[c]`, its locals are `req`, `doc` and `work`; `hold[c]` is the extent
the API server behind connection `c` owns.

| Action | Code |
|---|---|
| RegisterVolume, RegisterOnline | the two updates of `RegisterVolume` |
| ManageMessage | the update of isOnline; then the rebuild (RebuildRead, RebuildWrite, RebuildFails) under the lock |
| ManageMessageFails | the update is applied and the call throws: an error is answered, no rebuild follows |
| CallAllocateBlks | a CreateObject reaches RegM |
| LockChip, ShrinkChip, DeleteChip, NoChipFits | the chip path of `AllocateBlks` |
| GetVolumeCount, GetVolumeId, GetVolumeIdOfEmpty, Reserve, ReserveMisses, NoSpace | its loop over the volumes |
| Reply | the answer arrives; the extent belongs to the caller |
| CallAddBlkChip | the API server gives back its extent from byte newPos on (0: all of it) |
| MergeForward, ForwardDone, MergeBackward, BackwardDone, InsertChip | `AddBlkChip` |
| HandlerFails | a MongoDB call throws, before or after it took effect, or the reply is lost |
| Crash | the process dies and is started again |

The order in which `find` returns volumes and which of several fitting chips
`find_one_and_update` picks are open. `front()` of the empty queue, undefined in
C++, yields 0 or any volume id. `Faults` says which failures happen: "handler" (HandlerFails),
"rebuild" (RebuildFails), "command" (ManageMessageFails), "crash" (Crash). The history `unsure` holds the
volumes that ManageMessageFails has changed and that no rebuild has looked at since.
Abstractions: a chip has no `_id`, because the
unique index and the lock already identify it; URIs and descriptions are left out.
The callers are those the API server intends: it gives an extent back once and
does not use it afterwards. DeleteObject of an incomplete object and a repeated
RPC break that (see hazards), so what RegM's theorems say holds between RegM and
callers that keep to it.

### SNCache

`access()` holds the upgrade lock `_cache_mutex` from the lookup to the end of the
action on the node, so accesses exclude each other. One action is the part of an
access between two places where an exception may leave it; an exception keeps
all that was done up to there.

| Action | Code |
|---|---|
| Access | WriteData, ReadData, CompleteWriteObj reach a block |
| KeepDecrypt, TakeDecrypt, TakeDecryptFails | `use_exist_first` and `otherwise_use_oldest` for C(D) |
| KeepEncrypt, TakeEncrypt, TakeEncryptFails | the same for C(E) |
| Reset | `reset_index` of the nodes taken |
| Load, LoadFails | `blk2cache` in `get_node` |
| OpenD, OpenFails | `cache2blk` of a dirty C(E), then `decrypt`; device or key store fail |
| SealD | `encrypt` of a dirty C(D) before a sealed read |
| Write, Read, FlushAct, FlushActFails | the action of the access |
| FlushTimeout, FlushPop, FlushAccess | the two flush threads |
| Stop, StopVisit, StopVisitFails, Close | `flush_and_stop`, `BlkDevice::close` |
| Crash, Restart | the process dies; `open`, `init_bits`, `init` |

A buffer is a few cells; each is plain or sealed with one block's key, and opening
with another key gives NoValue. This is what the properties tell apart: plain,
sealed, or garbage, and old or new. A failed `pwrite64` leaves any mixture of old
and new cells. An exception in `flush_async` or in `flush_and_stop`, where nothing
catches it, ends the process. `flush_timeout` may find any number of the dirty
nodes at the front of its walk old enough.

Abstractions: a write touches one cell (WriteData's loop over blocks is a sequence
of accesses); the time is only "has a modification time or not"; the locks inside
a node and on the list are left out, because accesses exclude each other and the
walk of `flush_timeout` only reads; OpenSSL is taken to succeed.

### ObjectApi

One action is one call to MongoDB, memcached, RegM or the storage node, with the local
computation around it. `th[t]` is a thread: the handler it runs (`op`, `arg`), where it
is (`pc`) and its locals, among them the copy of the cached record that
`operate_dispersed_cache` works on (`loc`) and what it was when it was loaded (`old`).
`doc` and `entries` are the collections of objects and of hashes, `cache` and `lock`
are memcached, `free` is what RegM may hand out, `store` and `node` the bytes and the
running hashes of the storage node.

| Action | Code |
|---|---|
| CallCreate, CallLink, CallWrite, CallResize, CallOther | a request reaches a server |
| Insert, Allocate, FillDocument, LockNew, CacheNew, VolumeInfo, Undo | `CreateObject` |
| Lock, LockTimeout, Load, Leave, Refuse | `operate_dispersed_cache`, `unique_lock`, `cache_perception` |
| Write, Read, NodeFails, NodeRestart | `Write`, `ReadData`, with the storage node's `update_hash` |
| Resize, AddChip, AddChipFails | `ResizeObject` |
| CompleteWrite, Seal, FindEntry, InsertEntry, AddChip, Settle | `CompleteObject` |
| Link, LinkInsert, LinkUpdate, LinkUndo | `CreateObjectLink` |
| DeleteDocument, DeleteRef, DeleteCache | `DeleteObject` |
| AllocateLost, WriteLost, CompleteWrite | `try_call_rpc_fun` repeats a call whose answer was lost |
| CacheExpires | memcached drops a record |

A hash is the sequence of bytes that was hashed: two hashes are equal when SHA-256
would be. `HashesOf` takes these bytes from where `complete_hash` reads them: it goes on at
`get_index`, and when the next byte is the last one of a block, that is one block too far
(`GoesAstray`, `bfss_sn.cpp:183`). What it reads behind the modelled volume is any of `Junk`. The
history `stray` holds the hashes, with the sizes they were made for, that came about in this way;
the others are `Trusted`. Tag, flag and times are left out; so is the head, which only makes fewer
objects equal. RegM is the pool of bytes that `SpaceAlloc` says it is.

The clients (`MayCall`) write a byte once or again with the same value, resize before
they write, do not use an oid before the call that makes it returned, and delete
completed objects only. `Eager` and `Careless` drop the last two.
`ObjectApiFaults` adds failures, each switched on by its name in `Faults`.

### Thrift and the gateway

A structure is a table of fields; one WriteStruct and one ReadStruct stand for the
generated `writeField` and `ReadField` functions, which differ in the fields only. A
scalar is Zero or Some. `ThriftVersions` tells what a peer reads that has one field
more or one less at each level, lacks a method, or declares an exception.

In `ThriftCall` a call is a process: Invoke, then the steps of `TStandardClient.Call`
between which another goroutine may run (store, header, args, flush, receive, body);
Server handles a frame, with the processor's refusals; Disconnect takes the
connection, which nobody opens again. The order of replies is that of a stream.
`Gateway` gives each HTTP request a call of its own on the one client.

### Load generator

`PressureTask`. Goroutines of the web server and the loop of the scheduler; the mutex
of a task is held from one action to the next only where the code waits or calls in
between. Children are processes that may die at any point. Reports of the states Ready
and Running change nothing and are left out.

`PressureWrite`. `main` is the goroutine of FastWrite, `loop[l]` one of `asyncFile`;
the data of a buffer is how often it was filled. Connections, writes and creations
of objects may fail.

## 3. Runs

Bounds are the constants in each cfg; no state constraint is used.

| Run | Instance | Shows |
|---|---|---|
| space | 1 volume of 2 blocks of 4 bytes, alignment 2, 3 callers, objects of 3 bytes, faults | NoSharedSpace, SpaceIsHandedOut, ChipsWellFormed, LockedChipIsMine, ObjectBytesAreContiguous, NothingLeaks, CurPositionNeverFalls; RegM implements SpaceAlloc |
| queue | 2 volumes of 1 block, 2 callers, one administrator who disables volume 1, commands that fail; each volume registers once (QueueSpec, with the fairness of FairSpec) | DisabledLeavesQueue, EveryCallReturns |
| cache | 3 nodes, 3 blocks, 1 cell | AccessAssertions, ImplementsBlockStore |
| partial_writes | 2 nodes, 2 blocks, 2 cells, crashes | SealedReadIsCurrent, DeviceIsSealed, StopWritesAllButLatest, ImplementsBlockStore |
| cache_faults | 2 nodes, 2 blocks, flush threads, failing reads, writes and key store | DirtyHasPartner |
| objects | 2 objects, 2 threads, a volume of 2 blocks of 2 bytes, alignment 2, sizes 1 and 3, MaxCalls 4, no object or some that exist already (Layouts) | SpaceIsExclusive, GivenBackIsUnused, CacheAgrees, ReadersSeeContent, EqualHashesEqualContent, RefsAreObjects, OneHolder |
| rpc | one connection, MaxCalls 3, all methods, peers of four kinds, 1 or 2 users, timeouts, FairSpec | AnswerIsOwn, VersionsAgree, OutOfStepForEver, EveryCallReturns |
| tasks | 2 tasks of 2 and 1 processes, 2 web goroutines, MaxPid 2, ChanCap 1, MaxCalls 4 | NoRequestRefused, DoneMeansCommitted, FinishedIsDone, ExportIsComplete, OneAtATime, WaitingIsQueued, QueuedIsTaken |
| pipeline | 3 buffers of sizes 1, 2, 2, 3 loops, Expected 7 | OneOwner, SendsDoNotWait, WrittenOnce, TestEnds |

Why the bounds are enough. A volume has four aligned units and an object takes two
of them, of which it may give back one or both. So a chip may be too small, be cut
with a rest or exactly, begin inside a block, and be merged on both sides and across
a block boundary. Two callers give every pairwise interleaving of allocation and
merging; the third holds the extent between them or frees the one on their other
side. In `queue` two callers walk along a queue of two volumes at the same time, and
each rotates it under the other while the command and the periodic rebuild replace it; a disabled
volume is put back when its node registers. For the cache, three nodes for three blocks mean that an access of one block evicts
one or both nodes of another, including the partner of the node it is about to
flush; with two blocks on three nodes no C(E) would ever be taken away. Two
nodes are the least the code can work with and evict all the time. Two cells per
block distinguish a lost write from a lost block. One value beside the blank one
keeps contents monotone, so that a lost write is seen as a return to blank.

In `objects` two aligned units mean that two small objects fill the volume and a large
one takes it all: an extent that is given back is the next to be handed out, and a
small object after ResizeObject gives a unit back. An object of three bytes lies in two
blocks of two, so hashing goes on at the beginning and at the end of a block; one value of junk
keeps the run short (it is 0, which no client writes). Four calls are enough for two
objects of equal content to be completed at once, or for one to be completed, linked
or deleted while the other is read; layouts with objects save the calls that make
them. In `rpc` three calls are one that times out, one that reads the late reply,
and one after it. In `tasks` one place in the channel makes a second AddSchedule
wait, and two pids are fewer than the processes of both tasks. In `pipeline` the
buffers go round at least twice before Expected is reached, and one may be lost.

Symmetry: callers, cache nodes and blocks, objects and threads are interchangeable in
the checked formulas; the runs that check liveness use none.

Fairness. RegM: strong fairness of each handler thread (the lock it may wait for
is held by others only across one query, `_sn_find` takes it once in 30 s) and
weak fairness of the end of a rebuild that began; nothing is assumed of clients,
storage nodes or the administrator. SNCache: weak fairness of an access that
began, strong fairness of the flush threads, whose timed waits end every second.
ThriftCall: weak fairness of the client's steps, among them the timeout of its
socket; nothing is assumed of the server, so every call returns even when no reply
ever comes. PressureTask: weak fairness of the goroutines and of the steps by which a child
fetches its configuration, reports and commits; nothing makes its test return, for FastWrite may turn round
for ever (`test/write.go:294`), and nothing makes a child die. WaitAll then waits for ever, so
QueuedIsTaken excepts the runs in which it does (`NeverReturns`). PressureWrite: weak
fairness of the goroutines.

Deadlock is checked where the system never rests. CHECK_DEADLOCK is FALSE in `objects`
and `gateway`, whose clients stop after MaxCalls, in `tasks`, which stops when all
tasks have run, and in `pipeline`, where FastWrite ends.

### What the code does not keep

Three runs expect a violation. Each checks one statement of the repository.

| Run | Statement | What happens |
|---|---|---|
| gateway | an HTTP request is answered with its own object's data (`bfss_web/service/api.go:29`) | all handlers share one client without a lock; two calls that both increment the counter before either reads it back send one sequence number, and one takes the other's reply |
| hash | "force re-do hash calculate." (`bfss_sn.cpp:226`) | the running hash is not reset: after ResizeObject and a write in order it is the hash of the content twice |
| deleted | a failed object is to be deleted before it is written again (`bfss_api.thrift:92`) | the space is given back, the document and the cached record stay |

Known deviations. Each of these configurations finds a violation when it is run with
`tlc -config <cfg> <module>`; they document what the code does and are not in the list
of runs.

| Configuration | Module | Statement | What happens |
|---|---|---|---|
| RegM_NoSpaceInAllVolumes | MCRegM | "no space  in all volumes." (`bfss_regm.cpp:370`) | one call asks a volume twice and another never, because another call rotates the queue under it (RotateSpec: nothing else changes the queue meanwhile) |
| ObjectApi_HashGoesOn | MCObjectApi | "+1  means the end of one block, treat as the begin of the next block." (`bfss_sn.cpp:182`): hashing goes on with the next byte | when the next byte is the last one of a block, `complete_hash` reads from the end of the following block on: the hash is not that of the object's bytes. Two such objects with equal hashes need not be equal, and after the exchange of extents a reader gets the other one's bytes |
| RegM_VolumeIdAssertion | MCRegM | `assert(volumeID > 0)` (`bfss_regm.cpp:416`) | the queue is emptied between its two uses |
| RegM_NoCutOff | MCRegM | "CUT-OFF volume is unsupported !" (`bfss_regm.cpp:128`) | a smaller device is accepted and Reserved not reduced |
| RegM_NeighboursMerged | MCRegM | neighbouring fragments are merged (design document, line 77) | two concurrent AddBlkChip miss each other |
| SNCache_DeviceIsSealed | MCSNCache | the device always holds encrypted data (line 64) | after a failed device write one node becomes both C(D) and C(E) |
| SNCache_StopWritesAll | MCSNCache | S -> C(D) -> C(E) -> B (line 79) | the C(E) of the last block is visited before its C(D) is sealed into it |
| SNCache_WritesReachDevice | MCSNCache | the same, under FairSpec | `flush_timeout` stops at the clean C(E) at the front of the list |
| PressureTask_StartedOnce | MCPressureTask | a task that is queued is started once | startAllTasks queues a task again that Start took in between (`web/handler/task.go:164`) |
| PressureWrite_HeadsAgree | MCPressureWrite | "Save head in order to verify hash consistency." (`test/write.go:34`) | FileStats shares the head of a buffer that is filled again |

For ObjectApi, take `ObjectApi.cfg` with one change: `Eager = TRUE` breaks CacheAgrees
(AllocateBlks answered with an error makes CreateObject delete the document twice,
and the second time it may be another call's). With `SPECIFICATION FaultySpec` and one
element in `Faults`:

| Faults | Broken | What happens |
|---|---|---|
| "volume info" | CacheAgrees | CreateObject fails after it put the record into memcached |
| "mongo" | CacheAgrees | the update of ResizeObject fails; the destructor still stores the new size |
| "chip repeated" | GivenBackIsUnused | AddBlkChip is called again after its answer was lost |
| "lock expires" | OneHolder | a handler works for more than 20 s and then deletes another one's lock |
| "api crash" | SpaceIsExclusive | the server dies between FindEntry and Settle |
| "block" | EqualHashesEqualContent | the cache of the storage node throws after `update_hash` |

`DeviceIsSealed` is also checked, and holds, in `partial_writes`, where no device
write fails; `AccessAssertions` is checked without failing writes for the same
reason. `NothingLeaks` is an action property: bytes are lost only in a step that is
itself a failure. `StopWritesAllButLatest` states what `flush_and_stop` does achieve.
`OutOfStepForEver` says that once a reply is late or was left half read no later call
of the client's one user succeeds; `AnswerIsOwn` is about clients with one user, too.
`TestEnds` names the one way FastWrite does not end: its buffers are gone.

## 4. Proofs

Assumptions: `SizeAssumption` (positive sizes, the block size a multiple of the
alignment), `RegMAssumption` (the kinds of the constants; finitely many volumes),
`ObjectAssumption`, `CallAssumption` and `WriteAssumption` (the kinds of the
constants); `PressureAssumption` adds that "no goroutine" and "no channel" (nil in the
code) are none of the goroutines and channels; `DataAssumption` that "no document" is no
document, that clients write bytes at offsets that are not negative, and that the objects
which exist at the beginning are as RegM made them: aligned, inside the volume, disjoint;
`SNCacheAssumption` that there are finitely many cache nodes and at least two, and that
"no node", "no block" and "garbage" are none of the nodes, blocks and values.
No bound on volumes, callers, sizes, blocks, cache nodes, threads, tasks, calls, buffers
or loops is assumed, and RegM's Faults may be any of those it names.

`BlkAddrProofs`. `pos_align_x` is rounding down also for negative numbers
(`PosAlignX`), so a pair moved by any size that stays at or above 0 is the normal
pair of the moved position (`PairMoved`), although its index and offset come from
different helpers. `PairIsUnique`: a position has one normal pair. `ObjectByteAddress`:
an object that begins aligned has byte o at `object_blk_index`, `object_blk_offset`;
rounding o down cannot leave the block, because the block size is a multiple of
the alignment. `HashContinuesAt`: where `complete_hash` goes on reading after any
number of hashed bytes, and that it is one block too far when that byte is a block's
last.

`RegMProofs`. `NoSharedSpace` alone is not inductive. Cutting a chip needs to know
that its Size is the length of its addresses (`ChipsWellFormed`), a fresh extent
must lie above all that is owned (`SpaceIsHandedOut`), a handler that comes back to
its locked chip must find it unchanged and alone (`LockedChipIsMine`), and the locals
of a handler must mean what they should at each pc (`HandlerLocals`). `SpaceInv` is
the conjunction with `TypeOK`. The proof has one lemma per action or group of
actions. Steps that move no space are dealt with by `SpaceUntouched` and `QuietStep`;
for those that do, one lemma says that a handler may exchange the chips in a set
Rem, its work and its hold for the chips in Add, a new work and a new hold, if what
it gets is part of what it gave or lies above CurPosition. Each action is then shown
to be such an exchange, with `ApartPart` for cutting and `ApartJoin` for merging.

Three more come from SpaceInv. `NothingLeaks` is shown exchange by exchange. For
`ObjectBytesAreContiguous`, `PositionsAligned` says that every position in the volumes, the
chips and the handlers is a multiple of the alignment; the rest is `ObjectByteAddress`.
`QueueInv` is behind DisabledLeavesQueue: a rebuild holds the lock from its read to its
write, and what it has found or the queue holds is online, or a command still has its own rebuild to make,
or the volume is in `unsure`. The theorem is about all of `Spec`, commands that are applied and then
fail included; for these it says no more than that the next rebuild of anybody repairs the queue.

`RegMRefinesProofs`. Given SpaceInv and its primed form, each MongoDB operation is one of
the steps of `SpaceAlloc` or a stutter; the free bytes are those of unlocked
chips (`UnlockedBytes`) and those above CurPosition (`AboveBytes`), which are looked at
apart.

`ObjectApiProofs`, in four layers. `unlock` deletes the lock whoever holds it, so
OneHolder needs that only a thread inside a handler gets there. `IInv` adds that a lock
is a Boolean and that a thread that is not idle has an oid. Every step of a thread stays
outside the handlers, enters one by the lock, stays inside with the same oid, or leaves
and unlocks; one lemma says of each of the four that it keeps the invariant, and one
per group of actions which of them it is.

`AInv` is behind CacheAgrees. `View` says what a handler relies on at each place in
terms of its own record, the document and the cached record: after loading, the copy is the
document; once it was changed, the document has changed with it and the cached record may
be old until the thread leaves; and so on. `Alone` says that nobody else calls on an
object that is being made. `StepAgrees` reduces a step to three records, the
thread's, the document and the cached one (`Becomes`), for nobody else relies on what
an exclusive handler changes (`OthersRely`).

`SInv` is behind SpaceIsExclusive and GivenBackIsUnused. The bytes have claimants: RegM, each entry, each
object with an extent of its own, and each thread that has a new extent or a cut-off end in
hand. `Owned`: no two claims meet. A step keeps it if the claims it changes exchange bytes
among each other only (`HandOver`, `Exchange`). `Unshared` is what makes AddBlkChip
safe in CompleteObject: an object that is about to give its extent back does not already
live in that of an entry, because when its hash was written its bytes were still its own.

`CInv` is behind EqualHashesEqualContent and ReadersSeeContent, which say nothing of what
is in the store before an object is completed, and nothing of hashes that are not `Trusted`: with
those, two objects with different bytes may have one hash. `Sending`: the bytes sent to an object do
not contradict each other, and there are none while it is resized. `Running`: the
running hash of an incomplete object is made of bytes that were sent and are
in the store, from its beginning on, and nothing was hashed where no incomplete object
begins. Without the second half an object that gets a used extent would go
on with the hash of the one before it. A write keeps the first half because it either
follows what was hashed or repeats bytes that were sent (`HashFollows`), and because it
touches no bytes of others (`WriteTouches`, which needs `Owned`). `complete_hash` adds the
rest, so that the hash, unless it is stray, is that of the object, or, after ResizeObject, ends with it
(`HashEnds`). `Contents`: the trusted hash of every completed object ends with the bytes it was
completed with, those bytes are still in its extent while that is its own, and the
bytes in the extent of an entry are the end of the entry's hash. An exchanged
extent therefore holds the same bytes (`SealedContent`). `Knowledge` is what a thread
keeps between its calls: CompleteObject the hash it was answered, Read the bytes.
HashesEndInContent says what is left of HashIsOfContent for objects that were resized. A hash
is stray for one size: an exchange needs equal hashes and equal sizes, so the sizes are
part of what `stray` remembers.

The theorems on top of AInv assume `~Eager`, that clients use an object only after the call that
made it returned: without it CacheAgrees does not hold (see above).

Of failures, `Spec` has those that its actions name: answers of AllocateBlks, Write,
CompleteWriteObj and AddBlkChip that are lost and calls repeated for it, AddBlkChip
refused, the lock not had in time, the storage node failing before a write or started again, and
memcached dropping records. CacheAgreesWithDocument is about `FaultySpec` with any
subset of {"chip repeated", "block"} and without `Careless`: it holds besides when
AddBlkChip is repeated and when the storage node fails after `update_hash`. It is
not about "volume info", "mongo", "lock expires" and "api crash"; the first two are
shown above to break it. For the proof, `FaultyStepKeepsAgreement` adds the two actions to
`AInv`, whose lemmas about the other steps are those of `Spec`. The other theorems about
ObjectApi are about `Spec`, in which locks do not expire and no document update fails.

`SNCacheProofs`, in two parts. `CInv` holds whatever fails. The index may point to nodes
that other blocks have taken since, but every node that has a block is the one its index
entry names (`Linked`); a C(D) and its C(E) belong together (`Partnered`); the
C(E) of a dirty C(D) has content and stands before it in the list (`Sealable`). None of this
survives a step of an access without what the access knows of its nodes at that place
(`InCall`), so they are proved together. The list is a bijection from places to nodes, and
`FrontKeepsOrder` says that moving a node to the front keeps the order of the others.
DirtyHasPartner is a part of CInv.

The second part assumes that no write to the device fails (reads, MongoDB and the process
may): after such a failure DeviceIsSealed does not hold (see above). `SInv` adds what the
nodes hold: every C(D), dirty or clean, has its C(E) (`Whole`) and is taken before it (`Aged`);
contents are sealed with the right key (`Data`, `Device`); a clean node agrees with the
next place on the path C(D), C(E), device (`Clean`); `NotLost` is why reset_index throws no C(D)
away. The argument for the refinement is about one formula, `Shows(b, v)`: all nodes
of block b that have content, and the device if none of them is dirty, agree on v. One lemma for
each way to change a buffer (seal, write out, load, open, reset) says that it keeps `Shows` for
every b and v (`ShowsStay`); a client's write changes v in one cell (`ClientWrites`). `Content`
is the only v a block shows (`ContentIsShown`), so what clients see changes by writes only.
For StopWritesAllButLatest, `Walk` says that no node visited so far is dirty, but for
the first: sealing a C(D) makes its C(E) dirty, which stands before it in the list and is
visited later.

`ThriftCallProofs`. A client with one user has one call under way. `OneUser` says that
the counter names that call, that the buffer holds its message alone, and that
every frame and reply carries the number of the call it belongs to; then a reply
whose number matches is this call's, however many are late. Nothing is assumed of how
structures are encoded: the constants are operators. `OutOfStepForEver` follows from an
invariant on top (`InLine`): the reply being read, the replies and the frames under way
are in the order of their calls, and a call that still writes is later than them all, so
a reply that is late stays ahead of the one that is waited for.

`PressureTaskProofs`. `TaskInv` says who holds the mutex of a task (`Locks`), that
every process but the one just spawned is a unit of its task (`Belongs`), how far a
process has come (`Progress`), and that a task whose processes have all ended was
summed up by one of them (`Summed`). NoRequestRefused, DoneMeansCommitted, FinishedIsDone and
ExportIsComplete are parts of it or follow. On top of it `OneInv` says that a live process
of the loop is one of those the loop will still wait for, `WaitInv` that nothing is sent before
the channel is made, and `TypeInv` that a process on its way into a task's units is not
there yet.

`PressureWriteProofs`. OneOwner is almost inductive. The invariant adds that a
buffer ready to be written has an object no statistics name (`Objects`), that
the writer holds the head of its list while it writes (`Writing`), and that the values
in and under way to doneChan are no more than it has room for (`Tokens`).

| Theorem | Statement |
|---|---|
| SpaceInvariant | Spec => []SpaceInv |
| SpaceIsNotShared | Spec => []NoSharedSpace |
| OwnedSpaceIsHandedOut | Spec => []SpaceIsHandedOut |
| ChipSizesAgree | Spec => []ChipsWellFormed |
| LockIsExclusive | Spec => []LockedChipIsMine |
| TypeCorrectness | Spec => []TypeOK |
| SpaceOnlyMovesForward | Spec => CurPositionNeverFalls |
| PairIsUnique, ObjectByteAddress, HashContinuesAt | facts about every address |
| OnlyFailuresLoseSpace | Spec => NothingLeaks |
| ObjectBytesFollow | Spec => []ObjectBytesAreContiguous |
| DisabledIsNotQueued | Spec => []DisabledLeavesQueue |
| RegMImplementsSpaceAlloc | Spec => ImplementsSpaceAlloc (RegMRefines) |
| LocksAreExclusive | Spec => []OneHolder (ObjectApi) |
| CacheAgreesWithDocument | FaultySpec => []CacheAgrees, if ~Eager, ~Careless and Faults is part of {"chip repeated", "block"} |
| SpaceBelongsToOne | Spec => []SpaceIsExclusive, if ~Eager |
| ChipsAreUnused | Spec => []GivenBackIsUnused, if ~Eager |
| HashStandsForContent | Spec => []EqualHashesEqualContent (trusted hashes), if ~Eager |
| HashesEndInContent | Spec => []HashEndsInContent (trusted hashes), if ~Eager |
| ReadersGetContent | Spec => []ReadersSeeContent (trusted hashes), if ~Eager |
| CacheInvariant | Spec => []CInv (SNCache) |
| DirtyCanBeSealed | Spec => []DirtyHasPartner |
| ContentInvariant | Spec => [](CInv /\ SInv), if no write to the device fails |
| AccessesAreSound | Spec => []AccessAssertions, if no write to the device fails |
| DeviceStaysSealed | Spec => []DeviceIsSealed, if no write to the device fails |
| SealedReadsAreCurrent | Spec => []SealedReadIsCurrent, if no write to the device fails |
| StopSavesAllButLatest | Spec => []StopWritesAllButLatest, if no write to the device fails |
| CacheImplementsBlockStore | Spec => ImplementsBlockStore (SNCacheRefines), if no write to the device fails |
| CallsReturnTheirOwnAnswers | Spec => []AnswerIsOwn (ThriftCall) |
| NeverInStepAgain | Spec => OutOfStepForEver |
| TaskInvariant | Spec => []TaskInv (PressureTask) |
| NoChildIsRefused | Spec => []NoRequestRefused |
| DoneIsCommitted | Spec => []DoneMeansCommitted |
| AllExitedIsDone | Spec => []FinishedIsDone |
| ExportsAreComplete | Spec => []ExportIsComplete |
| LoopRunsOneTask | Spec => []OneAtATime |
| NoTaskIsForgotten | Spec => []WaitingIsQueued |
| TypeCorrect | Spec => []TypeOK (PressureTask) |
| PipelineInvariant | Spec => []IInv (PressureWrite) |
| BuffersAreNotShared | Spec => []OneOwner |
| ObjectsAreCountedOnce | Spec => []WrittenOnce |
| ChannelsHaveRoom | Spec => []SendsDoNotWait |

Only model-checked: liveness (EveryCallReturns, QueuedIsTaken, TestEnds; fairness is
out of the prover's reach); VersionsAgree (ThriftWire reads structures recursively);
RefsAreObjects (it adds up the entries with a fold, and what a fold yields needs
induction over data).

## 5. Not modelled

* OpenSSL and RAND_bytes failing, whose results `get_node` and `flush` ignore;
  whether EVP_DecryptUpdate holds back the last piece of a block.
* `_cache_index` being allocated without initialisation, indices beyond the
  device, the size of the bitmap on devices with an awkward number of blocks.
* The end of `_sn_find` and of the flush threads: a lost or spurious wakeup.
* ReadBlk, GetObjectBlksInfo and GetObjectBlkKey of the API server and GetBlkKey of the
  storage node, which hand out sealed blocks and their keys; the connections per
  volume; more than one memcached.
* A client that overwrites a byte with another value, or writes before it resizes:
  the hash then follows the order of the writes and no document says what it
  should be.
* Primary and backup storage nodes, which only the design document has.
* The command line client of the generated code, which makes one call and exits.
* Of the load generator: progress, configuration values, Write (the sequential
  variant), merging of statistics, reading, links, deletion and the export to files.
* Process set-up, signals, formatting.

## 6. Plan

1. SNCache with failing writes: what the device and a reader may still rely on.
2. The end of the RegM and flush threads; the bitmap's size; reading of sealed blocks.
