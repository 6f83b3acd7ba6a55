-------------------------- MODULE ObjectApiProofs --------------------------
(***************************************************************************)
(* Proofs about the handlers of the API server, for any number of servers, *)
(* threads, objects and calls, as long as no lock expires.                 *)
(*                                                                         *)
(* First, two threads never work on an object at the same time and a lock  *)
(* is never left behind (OneHolder).  unlock deletes lock://oid whoever    *)
(* put it there, so the proof is that only a thread that is inside a       *)
(* handler reaches unlock, and that every way into a handler leads through *)
(* the lock (IInv).                                                        *)
(*                                                                         *)
(* Then, for clients that wait for the call that makes an object, that the *)
(* record in memcached agrees with the document (CacheAgrees): AInv says   *)
(* what each place in a handler relies on.  And, from that, that no byte   *)
(* of the volume has two users (SpaceIsExclusive, GivenBackIsUnused): SInv *)
(* says who claims which bytes.                                            *)
(*                                                                         *)
(* Last, that a hash stands for the bytes of an object, and that readers   *)
(* get the bytes it was completed with (EqualHashesEqualContent,           *)
(* ReadersSeeContent): CInv adds what was sent, what is stored, and what   *)
(* was hashed of it.                                                       *)
(***************************************************************************)
EXTENDS ObjectApiFaults, TLAPS, SequenceTheorems

\* What the proof needs to know of the threads' records.
ThreadsOK == /\ DOMAIN th = Threads
             /\ \A t \in Threads : /\ {"pc", "oid"} \subseteq DOMAIN th[t]
                                   /\ th[t].pc # "idle" => th[t].oid \in Oids

\* OneHolder, without sets.
InsideOf(t, o) == th[t].oid = o /\ th[t].pc \in Inside
Exclusive ==
    \A o \in Oids : /\ \A t, u \in Threads : InsideOf(t, o) /\ InsideOf(u, o) => t = u
                    /\ lock[o] <=> \E t \in Threads : InsideOf(t, o)

IInv == lock \in [Oids -> BOOLEAN] /\ ThreadsOK /\ Exclusive
-----------------------------------------------------------------------------
\* What a step of t does to the threads, and the four ways it may move.
Moves(t) == /\ DOMAIN th' = Threads
            /\ \A u \in Threads \ {t} : th'[u] = th[u]
            /\ {"pc", "oid"} \subseteq DOMAIN th'[t]
            /\ th'[t].pc # "idle" => th'[t].oid \in Oids

StaysOutside(t) == /\ Moves(t) /\ lock' = lock
                   /\ th[t].pc \notin Inside /\ th'[t].pc \notin Inside
StaysInside(t)  == /\ Moves(t) /\ lock' = lock
                   /\ th[t].pc \in Inside /\ th'[t].pc \in Inside /\ th'[t].oid = th[t].oid
Enters(t)       == /\ Moves(t) /\ ~lock[Oid(t)] /\ lock' = [lock EXCEPT ![Oid(t)] = TRUE]
                   /\ th[t].pc \notin Inside /\ th'[t].pc \in Inside /\ th'[t].oid = th[t].oid
Leaves(t)       == /\ Moves(t) /\ lock' = [lock EXCEPT ![Oid(t)] = FALSE]
                   /\ th[t].pc \in Inside /\ th'[t].pc \notin Inside

\* Each of the four ways keeps the invariant.
LEMMA StaysOutsideKeeps ==
    ASSUME IInv, NEW t \in Threads, StaysOutside(t)
    PROVE  IInv'
<1>1. ThreadsOK'
  BY DEF IInv, ThreadsOK, StaysOutside, Moves
<1>2. \A u \in Threads, o \in Oids : InsideOf(u, o)' <=> InsideOf(u, o)
  BY DEF InsideOf, StaysOutside, Moves
<1> QED
  BY <1>1, <1>2 DEF IInv, Exclusive, StaysOutside

LEMMA StaysInsideKeeps ==
    ASSUME IInv, NEW t \in Threads, StaysInside(t)
    PROVE  IInv'
<1>1. ThreadsOK'
  BY DEF IInv, ThreadsOK, StaysInside, Moves
<1>2. \A u \in Threads, o \in Oids : InsideOf(u, o)' <=> InsideOf(u, o)
  BY DEF InsideOf, StaysInside, Moves
<1> QED
  BY <1>1, <1>2 DEF IInv, Exclusive, StaysInside

LEMMA EntersKeeps ==
    ASSUME IInv, NEW t \in Threads, Enters(t)
    PROVE  IInv'
<1> DEFINE o == Oid(t)
<1>1. ThreadsOK'
  BY DEF IInv, ThreadsOK, Enters, Moves
<1>2. o \in Oids
  BY DEF Enters, Moves, Inside, Oid
<1>3. \A u \in Threads : ~InsideOf(u, o)
  BY <1>2 DEF Enters, IInv, Exclusive
<1>4. \A u \in Threads, p \in Oids : InsideOf(u, p)' <=> InsideOf(u, p) \/ (u = t /\ p = o)
  BY DEF InsideOf, Enters, Moves, Oid
<1>5. \A p \in Oids : lock'[p] <=> lock[p] \/ p = o
  BY <1>2 DEF Enters, IInv
<1>6. lock' \in [Oids -> BOOLEAN]
  BY DEF Enters, IInv
<1> QED
  BY <1>1, <1>2, <1>3, <1>4, <1>5, <1>6 DEF IInv, Exclusive

LEMMA LeavesKeeps ==
    ASSUME IInv, NEW t \in Threads, Leaves(t)
    PROVE  IInv'
<1> DEFINE o == Oid(t)
<1>1. ThreadsOK'
  BY DEF IInv, ThreadsOK, Leaves, Moves
<1>2. o \in Oids
  BY DEF Leaves, Inside, Oid, IInv, ThreadsOK
<1>3. \A u \in Threads : InsideOf(u, o) <=> u = t
  BY <1>2 DEF Leaves, IInv, Exclusive, InsideOf, Oid
<1>4. \A u \in Threads, p \in Oids : InsideOf(u, p)' <=> InsideOf(u, p) /\ u # t
  BY DEF InsideOf, Leaves, Moves
<1>5. \A p \in Oids : lock'[p] <=> lock[p] /\ p # o
  BY <1>2 DEF Leaves, IInv
<1>6. lock' \in [Oids -> BOOLEAN]
  BY DEF Leaves, IInv
<1>7. \A p \in Oids \ {o} : ~InsideOf(t, p)
  BY DEF InsideOf, Oid
<1> QED
  BY <1>1, <1>2, <1>3, <1>4, <1>5, <1>6, <1>7 DEF IInv, Exclusive
-----------------------------------------------------------------------------
\* A step that changes the records' pc and other fields but oid, and one that
\* ends the call, move only the thread that makes it.
LEMMA FieldsMove ==
    ASSUME ThreadsOK, NEW t \in Threads, th[t].pc # "idle",
           DOMAIN th' = Threads,
           \A u \in Threads \ {t} : th'[u] = th[u],
           DOMAIN th'[t] = DOMAIN th[t], th'[t].oid = th[t].oid
    PROVE  Moves(t)
BY DEF ThreadsOK, Moves

LEMMA AnswerMoves ==
    ASSUME ThreadsOK, NEW t \in Threads, Answer(t)
    PROVE  Moves(t) /\ th'[t].pc = "idle"
BY DEF ThreadsOK, Moves, Answer, Idle

MovesTo(t, l) == Moves(t) /\ th'[t].pc = l /\ th'[t].oid = th[t].oid

LEMMA GotoMoves ==
    ASSUME ThreadsOK, NEW t \in Threads, th[t].pc # "idle", NEW l
    PROVE  /\ Goto(t, l) => MovesTo(t, l)
           /\ \A v : Give(t, l, v) \/ See(t, l, v) \/ Number(t, l, v) \/ Local(t, l, v) => MovesTo(t, l)
<1> DEFINE Changed == /\ DOMAIN th' = Threads /\ \A u \in Threads \ {t} : th'[u] = th[u]
                      /\ DOMAIN th'[t] = DOMAIN th[t]
                      /\ th'[t].oid = th[t].oid /\ th'[t].pc = l
<1>1. Goto(t, l) => Changed
  BY DEF ThreadsOK, Goto
<1>2. ASSUME NEW v, Give(t, l, v) \/ See(t, l, v) \/ Number(t, l, v) \/ Local(t, l, v)
      PROVE  Changed
  BY <1>2 DEF ThreadsOK, Give, See, Number, Local
<1>3. Changed => MovesTo(t, l)
  BY FieldsMove DEF MovesTo
<1> HIDE DEF Changed
<1> QED
  BY <1>1, <1>2, <1>3

\* The same for the steps of a thread that is at k and not done.
LEMMA OutsideStep ==
    ASSUME ThreadsOK, NEW t \in Threads, lock' = lock, NEW k, At(t, k), NEW l,
           k # "idle", k \notin Inside, l \notin Inside,
           Answer(t) \/ Goto(t, l) \/ \E v : Give(t, l, v) \/ Number(t, l, v)
    PROVE  StaysOutside(t)
<1>1. CASE Answer(t)
  BY <1>1, AnswerMoves DEF At, StaysOutside, Inside
<1>2. CASE Goto(t, l)
  BY <1>2, GotoMoves DEF At, StaysOutside, MovesTo
<1>3. CASE \E v : Give(t, l, v) \/ Number(t, l, v)
  BY <1>3, GotoMoves DEF At, StaysOutside, MovesTo
<1> QED
  BY <1>1, <1>2, <1>3

LEMMA InsideStep ==
    ASSUME ThreadsOK, NEW t \in Threads, lock' = lock, NEW k, At(t, k), NEW l,
           k # "idle", k \in Inside, l \in Inside,
           Goto(t, l) \/ \E v : Give(t, l, v) \/ See(t, l, v) \/ Number(t, l, v) \/ Local(t, l, v)
    PROVE  StaysInside(t)
<1>1. MovesTo(t, l)
  BY GotoMoves DEF At
<1> QED
  BY <1>1 DEF At, StaysInside, MovesTo

(***************************************************************************)
(* The steps of CreateObject and CreateObjectLink that hold no lock, and   *)
(* the arrival of a call, stay outside.                                    *)
(***************************************************************************)
LEMMA CallsStayOutside ==
    ASSUME ThreadsOK, NEW t \in Threads, Calls(t)
    PROVE  StaysOutside(t)
<1>1. PICK o \in Oids : CallCreate(t, o) \/ CallLink(t, o) \/ CallWrite(t, o)
                        \/ CallResize(t, o) \/ CallOther(t, o)
  BY DEF Calls
<1>2. PICK op, arg, l : l \in {"insert", "link", "lock"} /\ Call(t, o, op, arg, l)
  BY <1>1, Zenon DEF CallCreate, CallLink, CallWrite, CallResize, CallOther
<1>3. th[t].pc = "idle" /\ lock' = lock
      /\ th' = [th EXCEPT ![t] = [Idle EXCEPT !.op = op, !.oid = o, !.pc = l, !.arg = arg]]
  BY <1>2 DEF Call, At
<1>4. Moves(t) /\ th'[t].pc = l
  BY <1>3 DEF Idle, Moves, ThreadsOK
<1> QED
  BY <1>2, <1>3, <1>4 DEF StaysOutside, Inside

\* The places of a thread that holds no lock.
LEMMA Labels ==
    \A l \in {"insert", "alloc", "undo", "undo twice", "update", "lock new", "volume info",
            "link", "link insert", "link update", "link undo"} : l \notin Inside /\ l # "idle"
BY DEF Inside

LEMMA CreateStaysOutside ==
    ASSUME ThreadsOK, NEW t \in Threads,
           Insert(t) \/ Allocate(t) \/ AllocateFails(t) \/ Undo(t) \/ FillDocument(t) \/ VolumeInfo(t)
    PROVE  StaysOutside(t)
<1>1. CASE Insert(t)
  <2>1. At(t, "insert") /\ lock' = lock /\ (Answer(t) \/ Goto(t, "alloc"))
    BY <1>1 DEF Insert
  <2> QED
    BY <2>1, OutsideStep, Labels
<1>2. CASE Allocate(t)
  <2>1. At(t, "alloc") /\ lock' = lock /\ (Goto(t, "undo twice") \/ \E b : Number(t, "update", b))
    BY <1>2 DEF Allocate
  <2>2. CASE Goto(t, "undo twice")
    BY <2>1, <2>2, OutsideStep, Labels
  <2>3. CASE \E b : Number(t, "update", b)
    BY <2>1, <2>3, OutsideStep, Labels
  <2> QED
    BY <2>1, <2>2, <2>3
<1>3. CASE AllocateFails(t)
  <2>1. At(t, "alloc") /\ lock' = lock /\ Goto(t, "undo")
    BY <1>3 DEF AllocateFails
  <2> QED
    BY <2>1, OutsideStep, Labels
<1>4. CASE FillDocument(t)
  <2>1. At(t, "update") /\ lock' = lock /\ Goto(t, "lock new")
    BY <1>4 DEF FillDocument
  <2> QED
    BY <2>1, OutsideStep, Labels
<1>5. CASE VolumeInfo(t)
  <2>1. At(t, "volume info") /\ lock' = lock /\ Answer(t)
    BY <1>5 DEF VolumeInfo
  <2> QED
    BY <2>1, OutsideStep, Labels
<1>6. CASE Undo(t)
  <2>1. CASE At(t, "undo twice") /\ Goto(t, "undo")
    BY <1>6, <2>1, OutsideStep, Labels DEF Undo
  <2>2. CASE At(t, "undo") /\ Answer(t)
    BY <1>6, <2>2, OutsideStep, Labels DEF Undo
  <2> QED
    BY <1>6, <2>1, <2>2 DEF Undo
<1> QED
  BY <1>1, <1>2, <1>3, <1>4, <1>5, <1>6

LEMMA LinkStaysOutside ==
    ASSUME ThreadsOK, NEW t \in Threads,
           Link(t) \/ LinkInsert(t) \/ LinkUpdate(t) \/ LinkUndo(t)
    PROVE  StaysOutside(t)
<1>1. CASE Link(t)
  <2>1. At(t, "link") /\ lock' = lock /\ (Answer(t) \/ \E i : Number(t, "link insert", i))
    BY <1>1 DEF Link
  <2> QED
    BY <2>1, OutsideStep, Labels
<1>2. CASE LinkInsert(t)
  <2>1. At(t, "link insert") /\ lock' = lock /\ (Goto(t, "link update") \/ Goto(t, "link undo"))
    BY <1>2 DEF LinkInsert
  <2> QED
    BY <2>1, OutsideStep, Labels
<1>3. CASE LinkUpdate(t)
  <2>1. At(t, "link update") /\ lock' = lock /\ Answer(t)
    BY <1>3 DEF LinkUpdate
  <2> QED
    BY <2>1, OutsideStep, Labels
<1>4. CASE LinkUndo(t)
  <2>1. At(t, "link undo") /\ lock' = lock /\ Answer(t)
    BY <1>4 DEF LinkUndo
  <2> QED
    BY <2>1, OutsideStep, Labels
<1> QED
  BY <1>1, <1>2, <1>3, <1>4

LEMMA LockTimeoutStaysOutside ==
    ASSUME ThreadsOK, NEW t \in Threads, LockTimeout(t)
    PROVE  StaysOutside(t)
BY AnswerMoves DEF LockTimeout, StaysOutside, Inside

(***************************************************************************)
(* The lock is taken and freed at the ends of a handler only.              *)
(***************************************************************************)
LEMMA LockEnters ==
    ASSUME ThreadsOK, NEW t \in Threads, Lock(t) \/ LockNew(t)
    PROVE  Enters(t)
<1>1. CASE Lock(t)
  <2>1. MovesTo(t, "load")
    BY <1>1, GotoMoves DEF Lock, At
  <2> QED
    BY <1>1, <2>1 DEF Lock, At, Enters, MovesTo, Inside
<1>2. CASE LockNew(t)
  <2>1. MovesTo(t, "cache new")
    BY <1>2, GotoMoves DEF LockNew, At
  <2> QED
    BY <1>2, <2>1 DEF LockNew, At, Enters, MovesTo, Inside
<1> QED
  BY <1>1, <1>2

LEMMA UnlockLeaves ==
    ASSUME ThreadsOK, NEW t \in Threads, Leave(t) \/ CacheNew(t)
    PROVE  Leaves(t)
<1>1. CASE Leave(t)
  BY <1>1, AnswerMoves DEF Leave, At, Leaves, Inside
<1>2. CASE CacheNew(t)
  <2>1. MovesTo(t, "volume info")
    BY <1>2, GotoMoves DEF CacheNew, At
  <2> QED
    BY <1>2, <2>1 DEF CacheNew, At, Leaves, MovesTo, Inside
<1> QED
  BY <1>1, <1>2

(***************************************************************************)
(* Everything a handler does under the lock stays inside.                  *)
(***************************************************************************)
LEMMA HandlersStayInside ==
    ASSUME ThreadsOK, NEW t \in Threads,
           \/ Refuse(t) \/ Write(t) \/ NodeFails(t) \/ Read(t) \/ AddChipFails(t)
           \/ Settle(t) \/ InsertEntry(t) \/ DeleteDocument(t) \/ DeleteRef(t) \/ DeleteCache(t)
    PROVE  StaysInside(t)
<1>1. CASE Refuse(t)
  <2>1. At(t, "loaded") /\ lock' = lock /\ Goto(t, "leave")
    BY <1>1 DEF Refuse, Ready
  <2> QED
    BY <2>1, InsideStep DEF Inside
<1>2. CASE Write(t)
  <2>1. At(t, "loaded") /\ lock' = lock /\ Goto(t, "leave")
    BY <1>2 DEF Write, Ready, WriteData
  <2> QED
    BY <2>1, InsideStep DEF Inside
<1>3. CASE NodeFails(t)
  <2>1. At(t, "loaded") /\ lock' = lock /\ Goto(t, "leave")
    BY <1>3 DEF NodeFails, Ready
  <2> QED
    BY <2>1, InsideStep DEF Inside
<1>4. CASE Read(t)
  <2>1. At(t, "loaded") /\ lock' = lock /\ \E v : See(t, "leave", v)
    BY <1>4 DEF Read, Ready
  <2> QED
    BY <2>1, InsideStep DEF Inside
<1>5. CASE AddChipFails(t)
  <2>1. At(t, "chip") /\ lock' = lock /\ Goto(t, "leave")
    BY <1>5 DEF AddChipFails
  <2> QED
    BY <2>1, InsideStep DEF Inside
<1>6. CASE Settle(t)
  <2>1. At(t, "settle") /\ lock' = lock /\ Goto(t, "leave")
    BY <1>6 DEF Settle
  <2> QED
    BY <2>1, InsideStep DEF Inside
<1>7. CASE InsertEntry(t)
  <2>1. At(t, "new entry") /\ lock' = lock /\ Goto(t, "settle")
    BY <1>7 DEF InsertEntry
  <2> QED
    BY <2>1, InsideStep DEF Inside
<1>8. CASE DeleteDocument(t)
  <2>1. At(t, "loaded") /\ lock' = lock /\ Goto(t, "unref")
    BY <1>8 DEF DeleteDocument, Ready
  <2> QED
    BY <2>1, InsideStep DEF Inside
<1>9. CASE DeleteRef(t)
  <2>1. At(t, "unref") /\ lock' = lock /\ Goto(t, "uncache")
    BY <1>9 DEF DeleteRef
  <2> QED
    BY <2>1, InsideStep DEF Inside
<1>10. CASE DeleteCache(t)
  <2>1. At(t, "uncache") /\ lock' = lock /\ Goto(t, "leave")
    BY <1>10 DEF DeleteCache
  <2> QED
    BY <2>1, InsideStep DEF Inside
<1> QED
  BY <1>1, <1>2, <1>3, <1>4, <1>5, <1>6, <1>7, <1>8, <1>9, <1>10

LEMMA SealsStayInside ==
    ASSUME ThreadsOK, NEW t \in Threads,
           AddChip(t) \/ Seal(t)
    PROVE  StaysInside(t)
<1>1. CASE AddChip(t)
  <2>1. At(t, "chip") /\ lock' = lock /\ (Goto(t, "leave") \/ \E v : Local(t, "settle", v))
    BY <1>1 DEF AddChip
  <2> QED
    BY <2>1, InsideStep DEF Inside
<1>2. CASE Seal(t)
  <2>1. At(t, "seal") /\ lock' = lock /\ (Goto(t, "leave") \/ \E v : Local(t, "entry", v))
    BY <1>2 DEF Seal
  <2> QED
    BY <2>1, InsideStep DEF Inside
<1> QED
  BY <1>1, <1>2

LEMMA RecordsStayInside ==
    ASSUME ThreadsOK, NEW t \in Threads, Load(t) \/ Resize(t) \/ FindEntry(t)
    PROVE  StaysInside(t)
<1> DEFINE Changed(l) == /\ DOMAIN th' = Threads /\ \A u \in Threads \ {t} : th'[u] = th[u]
                         /\ DOMAIN th'[t] = DOMAIN th[t]
                         /\ th'[t].oid = th[t].oid /\ th'[t].pc = l
<1>1. ASSUME NEW l \in Inside, Changed(l), th[t].pc \in Inside, lock' = lock
      PROVE  StaysInside(t)
  <2>1. Moves(t)
    BY <1>1, FieldsMove DEF Inside
  <2> QED
    BY <1>1, <2>1 DEF StaysInside
<1>2. CASE Load(t)
  <2>1. CASE Goto(t, "leave")
    BY <1>2, <2>1, InsideStep DEF Load, Inside
  <2>2. CASE ~Goto(t, "leave")
    <3>1. At(t, "load") /\ lock' = lock
          /\ \E c : th' = [th EXCEPT ![t].pc = "loaded", ![t].loc = c, ![t].old = c]
      BY <1>2, <2>2, Zenon DEF Load
    <3>2. Changed("loaded")
      BY <3>1 DEF ThreadsOK
    <3> QED
      BY <1>1, <3>1, <3>2 DEF At, Inside
  <2> QED
    BY <2>1, <2>2
<1>3. CASE Resize(t)
  <2>1. At(t, "loaded") /\ lock' = lock
        /\ \E l \in {"leave", "chip"} : \E c, b :
               th' = [th EXCEPT ![t].loc = c, ![t].pc = l, ![t].bytes = b]
    BY <1>3 DEF Resize, Ready
  <2>2. \E l \in {"leave", "chip"} : Changed(l)
    BY <2>1 DEF ThreadsOK
  <2> QED
    BY <1>1, <2>1, <2>2 DEF At, Inside
<1>4. CASE FindEntry(t)
  <2>1. CASE Goto(t, "new entry")
    BY <1>4, <2>1, InsideStep DEF FindEntry, Inside
  <2>2. CASE ~Goto(t, "new entry")
    <3>1. At(t, "entry") /\ lock' = lock
          /\ \E b, i : th' = [th EXCEPT ![t].pc = "chip", ![t].bytes = b, ![t].num = i]
      BY <1>4, <2>2, Zenon DEF FindEntry
    <3>2. Changed("chip")
      BY <3>1 DEF ThreadsOK
    <3> QED
      BY <1>1, <3>1, <3>2 DEF At, Inside
  <2> QED
    BY <2>1, <2>2
<1> QED
  BY <1>2, <1>3, <1>4

-----------------------------------------------------------------------------
\* A step that changes neither the threads nor a lock.
LEMMA NothingMoves ==
    ASSUME IInv, UNCHANGED <<th, lock>>
    PROVE  IInv'
BY DEF IInv, ThreadsOK, Exclusive, InsideOf

LEMMA CompleteWriteKeeps ==
    ASSUME IInv, NEW t \in Threads, CompleteWrite(t)
    PROVE  IInv'
<1>1. At(t, "loaded") /\ lock' = lock /\ (th' = th \/ \E h : See(t, "seal", h))
  BY DEF CompleteWrite, Ready
<1>2. CASE th' = th
  BY <1>1, <1>2, NothingMoves
<1>3. CASE \E h : See(t, "seal", h)
  BY <1>1, <1>3, InsideStep, StaysInsideKeeps DEF Inside, IInv
<1> QED
  BY <1>1, <1>2, <1>3

LEMMA InitInvariant == Init => IInv
<1> SUFFICES ASSUME Init PROVE IInv
  OBVIOUS
<1>1. lock = [o \in Oids |-> FALSE] /\ th = [t \in Threads |-> Idle]
  BY Zenon DEF Init
<1>2. \A t \in Threads : th[t].pc = "idle" /\ {"pc", "oid"} \subseteq DOMAIN th[t]
  BY <1>1 DEF Idle
<1> QED
  BY <1>1, <1>2 DEF IInv, ThreadsOK, Exclusive, InsideOf, Inside

LEMMA StepInvariant == IInv /\ [Next]_vars => IInv'
<1> SUFFICES ASSUME IInv, [Next]_vars PROVE IInv'
  OBVIOUS
<1> USE DEF IInv
<1>1. CASE UNCHANGED vars
  BY <1>1, NothingMoves DEF vars
<1>2. CASE NodeRestart \/ \E o \in Oids : CacheExpires(o)
  BY <1>2, NothingMoves DEF NodeRestart, CacheExpires
<1>3. ASSUME NEW t \in Threads, Calls(t) \/ Step(t) \/ Trouble(t)
      PROVE  IInv'
  <2>1. CASE Calls(t)
    BY <2>1, CallsStayOutside, StaysOutsideKeeps
  <2>2. CASE \/ Insert(t) \/ Allocate(t) \/ AllocateFails(t) \/ Undo(t) \/ FillDocument(t)
             \/ VolumeInfo(t)
    BY <2>2, CreateStaysOutside, StaysOutsideKeeps
  <2>3. CASE Link(t) \/ LinkInsert(t) \/ LinkUpdate(t) \/ LinkUndo(t)
    BY <2>3, LinkStaysOutside, StaysOutsideKeeps
  <2>4. CASE LockTimeout(t)
    BY <2>4, LockTimeoutStaysOutside, StaysOutsideKeeps
  <2>5. CASE Lock(t) \/ LockNew(t)
    BY <2>5, LockEnters, EntersKeeps
  <2>6. CASE Leave(t) \/ CacheNew(t)
    BY <2>6, UnlockLeaves, LeavesKeeps
  <2>7. CASE \/ Refuse(t) \/ Write(t) \/ NodeFails(t) \/ Read(t) \/ AddChipFails(t)
             \/ Settle(t) \/ InsertEntry(t) \/ DeleteDocument(t) \/ DeleteRef(t) \/ DeleteCache(t)
    BY <2>7, HandlersStayInside, StaysInsideKeeps
  <2>8. CASE AddChip(t) \/ Seal(t)
    BY <2>8, SealsStayInside, StaysInsideKeeps
  <2>9. CASE Load(t) \/ Resize(t) \/ FindEntry(t)
    BY <2>9, RecordsStayInside, StaysInsideKeeps
  <2>10. CASE CompleteWrite(t)
    BY <2>10, CompleteWriteKeeps
  <2>11. CASE AllocateLost(t) \/ WriteLost(t)
    BY <2>11, NothingMoves DEF AllocateLost, WriteLost
  <2> QED
    BY <1>3, <2>1, <2>2, <2>3, <2>4, <2>5, <2>6, <2>7, <2>8, <2>9, <2>10, <2>11 DEF Step, Trouble
<1> QED
  BY <1>1, <1>2, <1>3 DEF Next

(***************************************************************************)
(* However calls interleave, an object is locked exactly while one thread  *)
(* is inside a handler of it, and never by two (unique_lock, lock, unlock  *)
(* in bffs_memcache.cpp).  So it is when AllocateBlks, AddBlkChip or a call*)
(* of the storage node fails or is repeated, records expire and nodes start*)
(* again; locks that expire and servers that die are not in Spec.          *)
(***************************************************************************)
THEOREM LocksAreExclusive == Spec => []OneHolder
<1>1. IInv => OneHolder
  BY DEF IInv, Exclusive, InsideOf, OneHolder, Holders, Oid
<1> QED
  BY InitInvariant, StepInvariant, <1>1, PTL DEF Spec
-----------------------------------------------------------------------------
(***************************************************************************)
(* The record in memcached, the document and the copy a handler works on.  *)
(***************************************************************************)
Creating == {"insert", "alloc", "undo", "undo twice", "update", "lock new", "cache new",
             "volume info"}
Linking  == {"link", "link insert", "link update", "link undo"}
Handling == {"lock", "load", "loaded", "leave", "chip", "seal", "entry", "new entry",
             "settle", "unref", "uncache"}
Copying  == {"loaded", "chip", "seal", "entry", "new entry", "settle", "unref", "uncache"}
HashAndSize  == [hash : Seq(Nat), size : Nat \ {0}]
Args     == {None} \cup Sizes \cup Writes \cup HashAndSize
Places   == Creating \cup Linking \cup Handling \cup {"idle"}

Entry  == Inbound([hash : Seq(Nat), size : Nat \ {0}, begin : Begins, refs : Int, oids : SUBSET Oids])
Thread == [op : Handlers \cup {""}, oid : Oids \cup {None}, pc : Places, arg : Args,
           loc : Records \cup {None}, old : Records \cup {None},
           num : Nat, bytes : SUBSET Int, seen : Seq(Nat)]

\* A thread is where its call may be, and has what it needs there.
Fit(r) ==
    /\ r.pc = "idle" <=> r.op = ""
    /\ r.pc # "idle" => r.oid \in Oids
    /\ r.pc \in Creating <=> r.op = "Create"
    /\ r.pc \in Linking <=> r.op = "Link"
    /\ r.op \in {"Create", "Resize"} => r.arg \in Sizes
    /\ r.op = "Write" => r.arg \in Writes
    /\ r.op = "Link" => r.arg \in HashAndSize
    /\ r.pc \in Copying => r.loc \in Records
    /\ r.pc \in {"lock", "load"} => r.loc = r.old
    /\ r.pc \in {"update", "lock new", "cache new"} =>
           r.num \in Begins /\ Extent(r.num, r.arg) \subseteq 0..(Space - 1)
    /\ r.pc \in {"seal", "entry", "new entry", "settle"} => r.op = "Complete"
    /\ r.pc = "chip" => r.op \in {"Complete", "Resize"} /\ r.bytes \subseteq 0..(Space - 1)

\* The entry a thread works on is there, and is one of its hash.
Refers(r) ==
    /\ r.pc \in {"link insert", "link update", "link undo"} => r.num \in DOMAIN entries
    /\ r.pc = "chip" /\ r.op = "Complete" =>
           /\ r.num \in Matching(r.loc.hash, r.loc.size)
           /\ r.bytes = Extent(r.loc.begin, r.loc.size)
    /\ r.pc = "settle" =>
           \E i \in Matching(r.loc.hash, r.loc.size) : entries[i].begin = r.loc.begin

Types == /\ doc \in [Oids -> Documents \cup {None, Stub}]
         /\ cache \in [Oids -> Records \cup {None}]
         /\ entries \in Seq(Entry)
         /\ store \in [0..(Space - 1) -> Nat]
         /\ node \in [Begins -> Seq(Nat)]
         /\ free \subseteq 0..(Space - 1)
         /\ th \in [Threads -> Thread]
         /\ \A t \in Threads : Fit(th[t]) /\ Refers(th[t])

\* While an object is being made no other call is on it.
Alone == \A t, u \in Threads :
    t # u /\ th[t].op \in {"Create", "Link"} /\ th[u].oid = th[t].oid => th[u].op = ""

CacheOK(d, c) == c # None => IsObject(d) /\ InDoc(c) = d
Agrees(l, d)  == IsObject(d) /\ InDoc(l) = d

\* What a thread with record r relies on in the document d and the cached record c.
View(r, d, c) ==
    /\ r.pc \in {"alloc", "update", "link update"} => d = Stub /\ c = None
    /\ r.pc \in {"undo", "undo twice"} => d \in {Stub, None} /\ c = None
    /\ r.pc \in {"lock new", "cache new"} => d = Object(r.num, r.arg) /\ c = None
    /\ r.pc = "load" => CacheOK(d, c)
    /\ r.pc \in {"loaded", "seal"} => r.loc = r.old /\ Agrees(r.loc, d) /\ c \in {None, r.old}
    /\ r.pc = "seal" => ~r.loc.complete
    /\ r.pc \in {"entry", "new entry", "chip"} => r.loc # r.old /\ Agrees(r.loc, d)
    /\ r.pc \in {"entry", "new entry", "settle"} \/ (r.pc = "chip" /\ r.op = "Complete")
          => r.loc.complete /\ ~r.old.complete
    /\ r.pc = "chip" /\ r.op = "Resize" => ~r.loc.complete
    /\ r.pc = "settle" => IsObject(d) /\ InDoc(r.loc) = [d EXCEPT !.begin = r.loc.begin]
    /\ r.pc \in {"unref", "uncache"} => r.loc = r.old /\ d = None
    /\ r.pc = "leave" => IF r.loc = r.old THEN CacheOK(d, c)
                         ELSE r.loc \in Records /\ Agrees(r.loc, d)

Views == /\ \A o \in Oids : ~lock[o] => CacheOK(doc[o], cache[o])
         /\ \A t \in Threads : th[t].oid \in Oids => View(th[t], doc[th[t].oid], cache[th[t].oid])

AInv == IInv /\ Types /\ Alone /\ Views
-----------------------------------------------------------------------------
(***************************************************************************)
(* A step of one thread on one object.                                     *)
(***************************************************************************)
\* What it leaves behind has its type, and no entry is ever removed.
Typed == /\ entries' \in Seq(Entry)
         /\ \A i \in DOMAIN entries :
               /\ i \in DOMAIN entries' /\ entries'[i].begin = entries[i].begin
               /\ entries'[i].hash = entries[i].hash /\ entries'[i].size = entries[i].size
         /\ store' \in [0..(Space - 1) -> Nat] /\ node' \in [Begins -> Seq(Nat)]
         /\ free' \subseteq 0..(Space - 1)

\* The thread becomes r, the document d and the cached record c.
Becomes(t, o, r, d, c) ==
    /\ r \in Thread /\ Fit(r) /\ Refers(r)'
    /\ th' = [th EXCEPT ![t] = r]
    /\ d \in Documents \cup {None, Stub} /\ doc' = [doc EXCEPT ![o] = d]
    /\ c \in Records \cup {None} /\ cache' = [cache EXCEPT ![o] = c]
    /\ r.oid = o \/ r.pc = "idle"
    /\ View(r, d, c)
    /\ \A p \in Oids \ {o} : lock'[p] = lock[p]
    /\ ~lock'[o] => CacheOK(d, c)

\* What a thread refers to stays.
LEMMA ReferencesStay ==
    ASSUME Typed, NEW r, Refers(r)
    PROVE  Refers(r)'
<1>1. \A h, n : \A i \in Matching(h, n) : i \in Matching(h, n)' /\ entries'[i].begin = entries[i].begin
  BY DEF Matching, Typed
<1>2. r.pc \in {"link insert", "link update", "link undo"} => r.num \in DOMAIN entries'
  BY DEF Refers, Typed
<1>3. r.pc = "chip" /\ r.op = "Complete" =>
          /\ r.num \in Matching(r.loc.hash, r.loc.size)'
          /\ r.bytes = Extent(r.loc.begin, r.loc.size)
  BY <1>1 DEF Refers
<1>4. r.pc = "settle" => \E i \in Matching(r.loc.hash, r.loc.size)' : entries'[i].begin = r.loc.begin
  BY <1>1 DEF Refers
<1>5. Extent(r.loc.begin, r.loc.size)' = Extent(r.loc.begin, r.loc.size) BY DEF Extent, Bytes, AlignUp
<1> QED BY <1>2, <1>3, <1>4, <1>5 DEF Refers

\* Nobody else relies on what the thread changes.
LEMMA OthersRely ==
    ASSUME AInv, NEW t \in Threads, NEW o \in Oids, th[t].oid = o, th[t].pc # "idle",
           th[t].pc \in Inside \/ th[t].op \in {"Create", "Link"},
           NEW u \in Threads \ {t}, th[u].oid = o, NEW d, NEW c
    PROVE  View(th[u], d, c)
<1>1. th[u] \in Thread /\ Fit(th[u]) BY DEF AInv, Types
<1>2. CASE th[t].op \in {"Create", "Link"}
  <2>1. th[u].op = "" BY <1>2 DEF AInv, Alone
  <2>2. th[u].pc = "idle" BY <1>1, <2>1 DEF Fit
  <2> QED BY <2>2 DEF View
<1>3. CASE th[t].pc \in Inside /\ th[t].op \notin {"Create", "Link"}
  <2>1. th[u].pc \notin Inside BY <1>3 DEF AInv, IInv, Exclusive, InsideOf
  <2>2. th[t].op # "" /\ Fit(th[t]) BY <1>3 DEF AInv, Types, Fit
  <2>3. th[u].op \notin {"Create", "Link"} BY <2>2 DEF AInv, Alone
  <2>4. th[u].pc \notin Creating \cup Linking BY <1>1, <2>3 DEF Fit
  <2>5. th[u].pc \in {"lock", "idle"}
    BY <1>1, <2>1, <2>4 DEF Thread, Places, Handling, Inside
  <2> QED BY <2>5 DEF View
<1> QED BY <1>2, <1>3

LEMMA StepAgrees ==
    ASSUME AInv, IInv', NEW t \in Threads, NEW o \in Oids, th[t].oid = o, th[t].pc # "idle",
           NEW r, NEW d, NEW c, Becomes(t, o, r, d, c),
           \/ d = doc[o] /\ c = cache[o]
           \/ th[t].pc \in Inside \/ th[t].op \in {"Create", "Link"},
           r.op \in {th[t].op, ""},
           Typed
    PROVE  AInv'
<1>0. th' \in [Threads -> Thread] BY DEF AInv, Types, Becomes
<1>1. th'[t] = r /\ \A u \in Threads \ {t} : th'[u] = th[u] BY DEF AInv, Types, Becomes
<1>5. /\ doc'[o] = d /\ \A p \in Oids \ {o} : doc'[p] = doc[p]
      /\ cache'[o] = c /\ \A p \in Oids \ {o} : cache'[p] = cache[p]
  BY DEF AInv, Types, Becomes
<1>2. Types'
  <2>1. doc' \in [Oids -> Documents \cup {None, Stub}] /\ cache' \in [Oids -> Records \cup {None}]
    BY DEF AInv, Types, Becomes
  <2>2. ASSUME NEW u \in Threads
        PROVE  Fit(th'[u]) /\ Refers(th[u])'
    <3>1. CASE u = t BY <1>1, <3>1 DEF Becomes
    <3>2. CASE u # t BY <1>1, <3>2, ReferencesStay DEF AInv, Types
    <3> QED BY <3>1, <3>2
  <2> QED BY <1>0, <2>1, <2>2 DEF Types, Typed
<1>3. Alone'
  <2> SUFFICES ASSUME NEW u \in Threads, NEW v \in Threads, u # v,
                      th'[u].op \in {"Create", "Link"}, th'[v].oid = th'[u].oid
               PROVE  th'[v].op = ""
    BY DEF Alone
  <2>1. CASE u = t
    <3>1. r.op = th[t].op /\ r.pc # "idle" BY <1>1, <2>1 DEF Becomes, Fit
    <3>2. th[v].oid = th[t].oid BY <1>1, <2>1, <3>1 DEF Becomes
    <3>3. th'[u] = r /\ th'[v] = th[v] BY <1>1, <2>1
    <3>4. th[t].op \in {"Create", "Link"} BY <3>1, <3>3
    <3>5. th[v].op = "" BY <2>1, <3>2, <3>4 DEF AInv, Alone
    <3> QED BY <3>3, <3>5
  <2>2. CASE v = t
    <3>1. CASE r.pc = "idle" BY <1>1, <2>2, <3>1 DEF Becomes, Fit
    <3>2. CASE r.pc # "idle"
      <4>1. th[t].oid = th[u].oid BY <1>1, <2>2, <3>2 DEF Becomes
      <4>2. th[t].op = "" BY <1>1, <2>2, <4>1 DEF AInv, Alone
      <4> QED BY <1>1, <2>2, <4>2
    <3> QED BY <3>1, <3>2
  <2>3. CASE u # t /\ v # t
    <3>1. th'[u] = th[u] /\ th'[v] = th[v] BY <1>1, <2>3
    <3>2. th[v].op = "" BY <3>1 DEF AInv, Alone
    <3> QED BY <3>1, <3>2
  <2> QED BY <2>1, <2>2, <2>3
<1>4. Views'
  <2>1. ASSUME NEW p \in Oids, ~lock'[p] PROVE CacheOK(doc'[p], cache'[p])
    <3>1. CASE p = o BY <1>5, <2>1, <3>1 DEF Becomes
    <3>2. CASE p # o
      <4>1. ~lock[p] /\ doc'[p] = doc[p] /\ cache'[p] = cache[p] BY <1>5, <2>1, <3>2 DEF Becomes
      <4> QED BY <4>1 DEF AInv, Views
    <3> QED BY <3>1, <3>2
  <2>2. ASSUME NEW u \in Threads, th'[u].oid \in Oids
        PROVE  View(th'[u], doc'[th'[u].oid], cache'[th'[u].oid])
    <3>1. CASE u = t
      <4>1. CASE r.pc = "idle" BY <1>1, <3>1, <4>1 DEF View
      <4>2. CASE r.pc # "idle"
        <5>1. View(r, d, c) /\ r.oid = o BY <4>2 DEF Becomes
        <5> QED BY <1>1, <1>5, <3>1, <5>1
      <4> QED BY <4>1, <4>2
    <3>2. CASE u # t
      <4>1. th'[u] = th[u] /\ th[u].oid \in Oids BY <1>1, <2>2, <3>2
      <4>2. View(th[u], doc[th[u].oid], cache[th[u].oid]) BY <4>1 DEF AInv, Views
      <4>3. CASE th[u].oid # o BY <1>5, <4>1, <4>2, <4>3
      <4>4. CASE th[u].oid = o /\ d = doc[o] /\ c = cache[o] BY <1>5, <4>1, <4>2, <4>4
      <4>5. CASE th[u].oid = o /\ (th[t].pc \in Inside \/ th[t].op \in {"Create", "Link"})
        <5>1. View(th[u], d, c) BY <3>2, <4>5, OthersRely
        <5> QED BY <1>5, <4>1, <4>5, <5>1
      <4> QED BY <4>3, <4>4, <4>5
    <3> QED BY <3>1, <3>2
  <2> QED BY <2>1, <2>2 DEF Views
<1> QED BY <1>2, <1>3, <1>4 DEF AInv
-----------------------------------------------------------------------------
(***************************************************************************)
(* The records of threads.                                                 *)
(***************************************************************************)
Same(r, q) == r.op = q.op /\ r.oid = q.oid /\ r.arg = q.arg

\* A record with another place, and with one more field changed.
LEMMA AtPlace ==
    ASSUME NEW q \in Thread, NEW l \in Places, NEW r, r = [q EXCEPT !.pc = l]
    PROVE  /\ r \in Thread /\ Same(r, q) /\ r.pc = l /\ r.loc = q.loc /\ r.old = q.old
           /\ r.num = q.num /\ r.bytes = q.bytes /\ r.seen = q.seen
BY DEF Thread, Same

LEMMA IdleRecord ==
    /\ Idle \in Thread /\ Fit(Idle) /\ Refers(Idle)'
    /\ Idle.pc = "idle" /\ Idle.op = "" /\ Idle.oid = None
<1>1. Idle.pc = "idle" /\ Idle.op = "" /\ Idle.oid = None BY DEF Idle
<1>2. Idle \in Thread
  <2>1. /\ "" \in Handlers \cup {""} /\ None \in Oids \cup {None} /\ "idle" \in Places
        /\ None \in Args /\ None \in Records \cup {None} /\ 0 \in Nat /\ {} \in SUBSET Int
        /\ <<>> \in Seq(Nat)
    BY DEF Places, Args
  <2> QED BY ONLY <2>1, Zenon DEF Idle, Thread
<1>3. Fit(Idle) /\ Refers(Idle)' BY <1>1 DEF Fit, Refers, Creating, Linking, Copying
<1> QED BY <1>1, <1>2, <1>3

\* No document is None or Stub, and a cached record agrees with what it is made from.
LEMMA DocumentIsObject ==
    /\ \A d \in Documents \cup {None, Stub} : IsObject(d) <=> d \in Documents
    /\ ~IsObject(None) /\ ~IsObject(Stub) /\ None \notin Records
    /\ \A d \in Documents : Cached(d) \in Records /\ InDoc(Cached(d)) = d
    /\ \A c \in Records : InDoc(c) \in Documents
<1>1. /\ \A d \in Documents \cup {None, Stub} : IsObject(d) <=> d \in Documents
      /\ ~IsObject(None) /\ ~IsObject(Stub) /\ None \notin Records
  BY DataAssumption DEF IsObject
<1>2. ASSUME NEW d \in Documents PROVE Cached(d) \in Records /\ InDoc(Cached(d)) = d
  BY DEF Cached, InDoc, Documents, Records, Inbound
<1>3. \A c \in Records : InDoc(c) \in Documents BY DEF InDoc, Documents, Records, Inbound
<1> QED BY <1>1, <1>2, <1>3
-----------------------------------------------------------------------------
(***************************************************************************)
(* Each step, for the documents and the cached records.                    *)
(***************************************************************************)
LEMMA Here ==
    ASSUME AInv, NEW t \in Threads, th[t].pc # "idle"
    PROVE  /\ th[t] \in Thread /\ Fit(th[t]) /\ th[t].oid \in Oids /\ th[t].op # ""
           /\ doc[th[t].oid] \in Documents \cup {None, Stub}
           /\ cache[th[t].oid] \in Records \cup {None}
           /\ View(th[t], doc[th[t].oid], cache[th[t].oid])
           /\ ~lock[th[t].oid] => CacheOK(doc[th[t].oid], cache[th[t].oid])
           /\ th[t].pc \in Inside => lock[th[t].oid]
           /\ lock \in [Oids -> BOOLEAN]
<1>1. th[t] \in Thread /\ Fit(th[t]) BY DEF AInv, Types
<1>2. th[t].oid \in Oids /\ th[t].op # "" BY <1>1 DEF Fit
<1>3. /\ doc[th[t].oid] \in Documents \cup {None, Stub}
      /\ cache[th[t].oid] \in Records \cup {None}
  BY <1>2 DEF AInv, Types
<1>4. /\ View(th[t], doc[th[t].oid], cache[th[t].oid])
      /\ ~lock[th[t].oid] => CacheOK(doc[th[t].oid], cache[th[t].oid])
  BY <1>2 DEF AInv, Views
<1>5. th[t].pc \in Inside => lock[th[t].oid]
  BY <1>2 DEF AInv, IInv, Exclusive, InsideOf
<1>6. lock \in [Oids -> BOOLEAN] BY DEF AInv, IInv
<1> QED BY <1>1, <1>2, <1>3, <1>4, <1>5, <1>6

\* A step that leaves document, cached record and lock alone.
LEMMA QuietAgrees ==
    ASSUME AInv, IInv', Typed, NEW t \in Threads, th[t].pc # "idle",
           NEW r \in Thread, Same(r, th[t]), Fit(r), th' = [th EXCEPT ![t] = r],
           Refers(r)',
           View(r, doc[th[t].oid], cache[th[t].oid]), UNCHANGED <<doc, cache, lock>>
    PROVE  AInv'
<1>1. PICK o \in Oids : o = th[t].oid BY Here
<1>2. doc' = [doc EXCEPT ![o] = doc[o]] /\ cache' = [cache EXCEPT ![o] = cache[o]]
  BY DEF AInv, Types
<1>3. Becomes(t, o, r, doc[o], cache[o]) BY <1>1, <1>2, Here DEF Becomes, Same
<1> QED BY <1>1, <1>3, StepAgrees DEF Same, Typed

\* A call that ends without a change of its own.
LEMMA AnswerAgrees ==
    ASSUME AInv, IInv', Typed, NEW t \in Threads, th[t].pc # "idle", Answer(t),
           UNCHANGED <<doc, cache, lock>>
    PROVE  AInv'
<1>1. PICK o \in Oids : o = th[t].oid BY Here
<1>2. doc' = [doc EXCEPT ![o] = doc[o]] /\ cache' = [cache EXCEPT ![o] = cache[o]]
  BY DEF AInv, Types
<1>3. View(Idle, doc[o], cache[o]) BY IdleRecord DEF View
<1>4. Becomes(t, o, Idle, doc[o], cache[o])
  BY <1>1, <1>2, <1>3, IdleRecord, Here DEF Becomes, Answer
<1> QED BY <1>1, <1>4, IdleRecord, StepAgrees DEF Typed

\* Nobody is inside a handler of an object that is being made.
LEMMA MakingIsUnlocked ==
    ASSUME AInv, NEW t \in Threads, th[t].op \in {"Create", "Link"}, th[t].pc \notin Inside
    PROVE  ~lock[th[t].oid]
<1>1. th[t].oid \in Oids /\ th[t].pc # "idle" BY DEF AInv, Types, Fit
<1>2. ASSUME NEW u \in Threads, InsideOf(u, th[t].oid) PROVE FALSE
  <2>1. u # t /\ th[u].oid = th[t].oid /\ th[u].pc \in Inside BY <1>2 DEF InsideOf
  <2>2. th[u].op = "" BY <2>1 DEF AInv, Alone
  <2>3. Fit(th[u]) BY DEF AInv, Types
  <2> QED BY <2>1, <2>2, <2>3 DEF Fit, Inside
<1> QED BY <1>1, <1>2 DEF AInv, IInv, Exclusive

LEMMA InsertAgrees ==
    ASSUME AInv, IInv', Typed, NEW t \in Threads, Insert(t)
    PROVE  AInv'
<1>1. PICK o, q : o = th[t].oid /\ q = th[t] OBVIOUS
<1>2. q.pc = "insert" /\ UNCHANGED <<cache, lock>> BY <1>1 DEF Insert, At
<1>3. q \in Thread /\ Fit(q) /\ o \in Oids /\ cache[o] \in Records \cup {None}
  BY <1>1, <1>2, Here
<1>4. q.op = "Create" BY <1>2, <1>3 DEF Fit, Creating
<1>5. CASE doc[o] = None
  <2>1. ~lock[o]
    BY <1>1, <1>2, <1>4, MakingIsUnlocked DEF Inside
  <2>2. cache[o] = None BY <1>1, <1>2, <1>5, <2>1, Here, DocumentIsObject DEF CacheOK
  <2>3. PICK r : r = [q EXCEPT !.pc = "alloc"] OBVIOUS
  <2>4. /\ doc' = [doc EXCEPT ![o] = Stub] /\ th' = [th EXCEPT ![t] = r]
        /\ cache' = [cache EXCEPT ![o] = None]
    BY <1>1, <1>2, <1>5, <2>2, <2>3 DEF Insert, Goto, Oid, AInv, Types
  <2>5. r \in Thread /\ Same(r, q) /\ r.pc = "alloc"
    <3>1. "alloc" \in Places BY DEF Places, Creating
    <3> QED BY ONLY <1>3, <2>3, <3>1, AtPlace, Zenon
  <2>6. Fit(r) /\ Refers(r)'
    BY <1>3, <1>4, <2>5 DEF Fit, Refers, Same, Creating, Linking, Copying
  <2>7. View(r, Stub, None) BY <2>5 DEF View
  <2>8. Becomes(t, o, r, Stub, None)
    BY <1>1, <1>2, <2>4, <2>5, <2>6, <2>7 DEF Becomes, Same, CacheOK
  <2> QED BY <1>1, <1>2, <1>3, <1>4, <2>5, <2>8, StepAgrees DEF Same, Typed
<1>6. CASE doc[o] # None
  <2>1. Answer(t) /\ UNCHANGED doc BY <1>1, <1>6 DEF Insert, Oid
  <2> QED BY <1>1, <1>2, <2>1, AnswerAgrees
<1> QED BY <1>5, <1>6

\* AllocateBlks, and the end of CreateObject.
LEMMA AllocateAgrees ==
    ASSUME AInv, IInv', Typed, NEW t \in Threads,
           \/ Allocate(t) \/ AllocateFails(t) \/ VolumeInfo(t)
    PROVE  AInv'
<1>1. PICK o, q : o = th[t].oid /\ q = th[t] OBVIOUS
<1>2. q.pc \in {"alloc", "volume info"} /\ UNCHANGED <<doc, cache, lock>>
  BY <1>1 DEF Allocate, AllocateFails, VolumeInfo, At
<1>3. q \in Thread /\ Fit(q) /\ o \in Oids /\ View(q, doc[o], cache[o])
  BY <1>1, <1>2, Here
<1>4. q.op = "Create" BY <1>2, <1>3 DEF Fit, Creating
<1>5. CASE \E b \in Begins : q.pc = "alloc" /\ Fits(b, q.arg) /\ Number(t, "update", b)
  <2>1. PICK b \in Begins : q.pc = "alloc" /\ Fits(b, q.arg) /\ Number(t, "update", b) BY <1>5
  <2>2. PICK r : r = [q EXCEPT !.pc = "update", !.num = b] OBVIOUS
  <2>3. b \in Nat BY DEF Begins
  <2>4. "update" \in Places BY DEF Places, Creating
  <2>5. r \in Thread /\ Same(r, q) /\ r.pc = "update" /\ r.num = b
    BY <1>3, <2>2, <2>3, <2>4 DEF Thread, Same
  <2>6. Extent(b, q.arg) \subseteq 0..(Space - 1) BY <2>1 DEF Fits, AInv, Types
  <2>7. Fit(r) /\ Refers(r)'
    BY <1>3, <1>4, <2>1, <2>5, <2>6 DEF Fit, Refers, Same, Creating, Linking, Copying
  <2>8. View(r, doc[o], cache[o]) BY <1>3, <2>1, <2>5 DEF View
  <2>9. th' = [th EXCEPT ![t] = r] BY <1>1, <2>1, <2>2 DEF Number
  <2> QED BY <1>1, <1>2, <2>5, <2>7, <2>8, <2>9, QuietAgrees
<1>6. CASE \E l \in {"undo", "undo twice"} : q.pc = "alloc" /\ Goto(t, l)
  <2>1. PICK l \in {"undo", "undo twice"} : q.pc = "alloc" /\ Goto(t, l) BY <1>6
  <2>2. PICK r : r = [q EXCEPT !.pc = l] OBVIOUS
  <2>3. l \in Places BY DEF Places, Creating
  <2>4. r \in Thread /\ Same(r, q) /\ r.pc = l BY <1>3, <2>2, <2>3, AtPlace
  <2>5. Fit(r) /\ Refers(r)'
    BY <1>3, <1>4, <2>4 DEF Fit, Refers, Same, Creating, Linking, Copying
  <2>6. View(r, doc[o], cache[o]) BY <1>3, <2>1, <2>4 DEF View
  <2>7. th' = [th EXCEPT ![t] = r] BY <1>1, <2>1, <2>2 DEF Goto
  <2> QED BY <1>1, <1>2, <2>4, <2>5, <2>6, <2>7, QuietAgrees
<1>7. CASE VolumeInfo(t) BY <1>1, <1>2, <1>7, AnswerAgrees DEF VolumeInfo
<1> QED BY <1>1, <1>5, <1>6, <1>7 DEF Allocate, AllocateFails, At, Arg

LEMMA UndoAgrees ==
    ASSUME AInv, IInv', Typed, NEW t \in Threads, Undo(t)
    PROVE  AInv'
<1>1. PICK o, q : o = th[t].oid /\ q = th[t] OBVIOUS
<1>2. q.pc \in {"undo", "undo twice"} /\ UNCHANGED <<cache, lock>> /\ doc' = [doc EXCEPT ![o] = None]
  BY <1>1 DEF Undo, At, Oid
<1>3. q \in Thread /\ Fit(q) /\ o \in Oids /\ View(q, doc[o], cache[o])
  BY <1>1, <1>2, Here
<1>4. q.op = "Create" /\ cache[o] = None BY <1>2, <1>3 DEF Fit, Creating, View
<1>5. cache' = [cache EXCEPT ![o] = None] BY <1>2, <1>4 DEF AInv, Types
<1>6. CASE q.pc = "undo twice"
  <2>1. PICK r : r = [q EXCEPT !.pc = "undo"] OBVIOUS
  <2>2. "undo" \in Places BY DEF Places, Creating
  <2>3. r \in Thread /\ Same(r, q) /\ r.pc = "undo" BY <1>3, <2>1, <2>2, AtPlace
  <2>4. Fit(r) /\ Refers(r)' /\ View(r, None, None)
    BY <1>3, <1>4, <2>3 DEF Fit, Refers, View, Same, Creating, Linking, Copying
  <2>5. th' = [th EXCEPT ![t] = r] BY <1>1, <1>6, <2>1 DEF Undo, Goto, At
  <2>6. Becomes(t, o, r, None, None)
    BY <1>1, <1>2, <1>5, <2>3, <2>4, <2>5 DEF Becomes, Same, CacheOK
  <2> QED BY <1>1, <1>2, <1>3, <1>4, <2>3, <2>6, StepAgrees DEF Same
<1>7. CASE q.pc = "undo"
  <2>1. th' = [th EXCEPT ![t] = Idle] BY <1>1, <1>7 DEF Undo, Answer, At
  <2>2. View(Idle, None, None) BY IdleRecord DEF View
  <2>3. Becomes(t, o, Idle, None, None)
    BY <1>1, <1>2, <1>5, <2>1, <2>2, IdleRecord DEF Becomes, CacheOK
  <2> QED BY <1>1, <1>2, <1>3, <1>4, <2>3, IdleRecord, StepAgrees
<1> QED BY <1>2, <1>6, <1>7

\* The document that CreateObject writes.
LEMMA NewDocument ==
    ASSUME NEW q \in Thread, Fit(q), q.op = "Create", q.pc \in {"update", "lock new", "cache new"}
    PROVE  Object(q.num, q.arg) \in Documents
<1>1. q.num \in Begins /\ q.arg \in Nat \ {0} /\ Extent(q.num, q.arg) \subseteq 0..(Space - 1)
  BY ObjectAssumption DEF Fit
<1>2. <<>> \in Seq(Nat) BY EmptySeq
<1> QED BY <1>1, <1>2 DEF Object, Documents, Inbound

LEMMA FillDocumentAgrees ==
    ASSUME AInv, IInv', Typed, NEW t \in Threads, FillDocument(t)
    PROVE  AInv'
<1>1. PICK o, q : o = th[t].oid /\ q = th[t] OBVIOUS
<1>2. q.pc = "update" /\ UNCHANGED <<cache, lock>> BY <1>1 DEF FillDocument, At
<1>3. q \in Thread /\ Fit(q) /\ o \in Oids /\ View(q, doc[o], cache[o])
  BY <1>1, <1>2, Here
<1>4. q.op = "Create" /\ doc[o] = Stub /\ cache[o] = None BY <1>2, <1>3 DEF Fit, Creating, View
<1>5. PICK d : d = Object(q.num, q.arg) OBVIOUS
<1>6. d \in Documents BY <1>2, <1>3, <1>4, <1>5, NewDocument
<1>7. PICK r : r = [q EXCEPT !.pc = "lock new"] OBVIOUS
<1>8. "lock new" \in Places BY DEF Places, Creating
<1>9. r \in Thread /\ Same(r, q) /\ r.pc = "lock new" /\ r.num = q.num
  BY ONLY <1>3, <1>7, <1>8 DEF Thread, Same
<1>10. Fit(r) /\ Refers(r)' /\ View(r, d, None)
  BY <1>2, <1>3, <1>4, <1>5, <1>9 DEF Fit, Refers, View, Same, Creating, Linking, Copying
<1>11. th' = [th EXCEPT ![t] = r] BY <1>1, <1>7 DEF FillDocument, Goto
<1>12. doc' = [doc EXCEPT ![o] = d]
  BY <1>1, <1>4, <1>5, DataAssumption DEF FillDocument, Oid, Arg, AInv, Types
<1>13. cache' = [cache EXCEPT ![o] = None] BY <1>2, <1>4 DEF AInv, Types
<1>14. Becomes(t, o, r, d, None)
  BY <1>1, <1>2, <1>6, <1>9, <1>10, <1>11, <1>12, <1>13 DEF Becomes, Same, CacheOK
<1> QED BY <1>1, <1>2, <1>3, <1>4, <1>9, <1>14, StepAgrees DEF Same

LEMMA LockNewAgrees ==
    ASSUME AInv, IInv', Typed, NEW t \in Threads, LockNew(t)
    PROVE  AInv'
<1>1. PICK o, q : o = th[t].oid /\ q = th[t] OBVIOUS
<1>2. q.pc = "lock new" /\ UNCHANGED <<doc, cache>> /\ lock' = [lock EXCEPT ![o] = TRUE]
  BY <1>1 DEF LockNew, At, Oid
<1>3. /\ q \in Thread /\ Fit(q) /\ o \in Oids /\ View(q, doc[o], cache[o])
      /\ doc[o] \in Documents \cup {None, Stub} /\ cache[o] \in Records \cup {None}
      /\ lock \in [Oids -> BOOLEAN]
  BY <1>1, <1>2, Here
<1>4. q.op = "Create" BY <1>2, <1>3 DEF Fit, Creating
<1>5. PICK r : r = [q EXCEPT !.pc = "cache new"] OBVIOUS
<1>6. "cache new" \in Places BY DEF Places, Creating
<1>7. r \in Thread /\ Same(r, q) /\ r.pc = "cache new" /\ r.num = q.num
  BY <1>3, <1>5, <1>6 DEF Thread, Same
<1>8. Fit(r) /\ Refers(r)' /\ View(r, doc[o], cache[o])
  BY <1>2, <1>3, <1>4, <1>7 DEF Fit, Refers, View, Same, Creating, Linking, Copying
<1>9. th' = [th EXCEPT ![t] = r] BY <1>1, <1>5 DEF LockNew, Goto
<1>10. doc' = [doc EXCEPT ![o] = doc[o]] /\ cache' = [cache EXCEPT ![o] = cache[o]]
  BY <1>2 DEF AInv, Types
<1>11. lock'[o] /\ \A p \in Oids \ {o} : lock'[p] = lock[p] BY <1>2, <1>3
<1>12. Becomes(t, o, r, doc[o], cache[o])
  BY <1>1, <1>3, <1>7, <1>8, <1>9, <1>10, <1>11 DEF Becomes, Same
<1> QED BY <1>1, <1>2, <1>3, <1>4, <1>7, <1>12, StepAgrees DEF Same

LEMMA CacheNewAgrees ==
    ASSUME AInv, IInv', Typed, NEW t \in Threads, CacheNew(t)
    PROVE  AInv'
<1>1. PICK o, q : o = th[t].oid /\ q = th[t] OBVIOUS
<1>2. /\ q.pc = "cache new" /\ doc' = doc /\ lock' = [lock EXCEPT ![o] = FALSE]
      /\ cache' = [cache EXCEPT ![o] = Cached(Object(q.num, q.arg))]
  BY <1>1 DEF CacheNew, At, Oid, Arg
<1>3. /\ q \in Thread /\ Fit(q) /\ o \in Oids /\ View(q, doc[o], cache[o])
      /\ lock \in [Oids -> BOOLEAN]
  BY <1>1, <1>2, Here
<1>4. q.op = "Create" /\ doc[o] = Object(q.num, q.arg) BY <1>2, <1>3 DEF Fit, Creating, View
<1>5. PICK c : c = Cached(doc[o]) OBVIOUS
<1>6. doc[o] \in Documents BY <1>2, <1>3, <1>4, NewDocument
<1>7. c \in Records /\ CacheOK(doc[o], c) BY <1>5, <1>6, DocumentIsObject DEF CacheOK
<1>8. PICK r : r = [q EXCEPT !.pc = "volume info"] OBVIOUS
<1>9. "volume info" \in Places BY DEF Places, Creating
<1>10. r \in Thread /\ Same(r, q) /\ r.pc = "volume info" BY ONLY <1>3, <1>8, <1>9 DEF Thread, Same
<1>11. Fit(r) /\ Refers(r)' /\ View(r, doc[o], c)
  BY <1>3, <1>4, <1>10 DEF Fit, Refers, View, Same, Creating, Linking, Copying
<1>12. th' = [th EXCEPT ![t] = r] BY <1>1, <1>8 DEF CacheNew, Goto
<1>13. doc' = [doc EXCEPT ![o] = doc[o]] BY <1>2 DEF AInv, Types
<1>14. cache' = [cache EXCEPT ![o] = c] BY <1>2, <1>4, <1>5
<1>15. \A p \in Oids \ {o} : lock'[p] = lock[p] BY <1>2, <1>3
<1>16. Becomes(t, o, r, doc[o], c)
  BY <1>1, <1>6, <1>7, <1>10, <1>11, <1>12, <1>13, <1>14, <1>15 DEF Becomes, Same
<1> QED BY <1>1, <1>2, <1>3, <1>4, <1>10, <1>16, StepAgrees DEF Same
-----------------------------------------------------------------------------
(***************************************************************************)
(* Entries keep their types.                                               *)
(***************************************************************************)
LEMMA RefsTyped ==
    ASSUME entries \in Seq(Entry), NEW i \in DOMAIN entries, NEW o \in Oids,
           AddRef(i, o) \/ DropRef(i, o)
    PROVE  /\ entries' \in Seq(Entry) /\ DOMAIN entries' = DOMAIN entries
           /\ \A j \in DOMAIN entries : /\ entries'[j].begin = entries[j].begin
                                        /\ entries'[j].size = entries[j].size
                                        /\ entries'[j].hash = entries[j].hash
<1>1. PICK f \in Entry : f = entries[i] BY ElementOfSeq, LenProperties
<1>2. f.refs \in Int /\ f.oids \in SUBSET Oids BY DEF Entry, Inbound
<1>3. PICK e : /\ e \in {[f EXCEPT !.refs = @ + 1, !.oids = @ \cup {o}],
                         [f EXCEPT !.refs = @ - 1, !.oids = @ \ {o}]}
               /\ entries' = [entries EXCEPT ![i] = e]
  BY <1>1 DEF AddRef, DropRef
<1>4. \E n \in Int, s \in SUBSET Oids : e = [f EXCEPT !.refs = n, !.oids = s]
  <2>1. CASE e = [f EXCEPT !.refs = @ + 1, !.oids = @ \cup {o}]
    <3>1. f.refs + 1 \in Int /\ f.oids \cup {o} \in SUBSET Oids BY <1>2
    <3> QED BY <2>1, <3>1, Zenon
  <2>2. CASE e = [f EXCEPT !.refs = @ - 1, !.oids = @ \ {o}]
    <3>1. f.refs - 1 \in Int /\ f.oids \ {o} \in SUBSET Oids BY <1>2
    <3> QED BY <2>2, <3>1, Zenon
  <2> QED BY <1>3, <2>1, <2>2
<1>5. e \in Entry /\ e.begin = f.begin /\ e.size = f.size /\ e.hash = f.hash
  <2>1. PICK n \in Int, s \in SUBSET Oids : e = [f EXCEPT !.refs = n, !.oids = s] BY <1>4
  <2> QED BY <2>1 DEF Entry, Inbound
<1>6. entries' = [entries EXCEPT ![i] = e] BY <1>3
<1>7. entries' \in Seq(Entry) BY <1>5, <1>6, ExceptSeq
<1>8. DOMAIN entries' = DOMAIN entries BY <1>6
<1>9. \A j \in DOMAIN entries : entries'[j] = IF j = i THEN e ELSE entries[j] BY <1>6
<1> QED BY <1>1, <1>5, <1>7, <1>8, <1>9

LEMMA EntryAt ==
    ASSUME AInv, NEW i \in DOMAIN entries
    PROVE  i \in Nat /\ entries[i] \in Entry
BY ElementOfSeq, LenProperties DEF AInv, Types

\* What a step that leaves the storage nodes and the free space alone must show.
LEMMA TypedData ==
    ASSUME AInv, UNCHANGED data, entries' = entries \/ \E i \in DOMAIN entries, o \in Oids :
                                                          AddRef(i, o) \/ DropRef(i, o)
    PROVE  Typed
BY RefsTyped DEF Typed, data, AInv, Types
-----------------------------------------------------------------------------
(***************************************************************************)
(* CreateObjectLink.                                                       *)
(***************************************************************************)
LEMMA LinkAgrees ==
    ASSUME AInv, IInv', NEW t \in Threads, Link(t)
    PROVE  AInv'
<1>1. PICK o, q : o = th[t].oid /\ q = th[t] OBVIOUS
<1>2. q.pc = "link" /\ UNCHANGED <<doc, cache, lock, data>> BY <1>1 DEF Link, At
<1>3. q \in Thread /\ Fit(q) /\ o \in Oids BY <1>1, <1>2, Here
<1>4. q.op = "Link" BY <1>2, <1>3 DEF Fit, Linking
<1>5. CASE \E i \in DOMAIN entries : AddRef(i, o) /\ Number(t, "link insert", i)
  <2>1. PICK i \in DOMAIN entries : AddRef(i, o) /\ Number(t, "link insert", i) BY <1>5
  <2>2. Typed /\ DOMAIN entries' = DOMAIN entries /\ i \in Nat
    BY <1>2, <1>3, <2>1, TypedData, EntryAt, RefsTyped DEF AInv, Types
  <2>3. PICK r : r = [q EXCEPT !.pc = "link insert", !.num = i] OBVIOUS
  <2>4. "link insert" \in Places BY DEF Places, Linking
  <2>5. r \in Thread /\ Same(r, q) /\ r.pc = "link insert" /\ r.num = i
    BY <1>3, <2>2, <2>3, <2>4 DEF Thread, Same
  <2>6. Fit(r) /\ Refers(r)' /\ View(r, doc[o], cache[o])
    BY <1>3, <1>4, <2>2, <2>5 DEF Fit, Refers, View, Same, Creating, Linking, Copying
  <2>7. th' = [th EXCEPT ![t] = r] BY <1>1, <2>1, <2>3 DEF Number
  <2> QED BY <1>1, <1>2, <2>1, <2>2, <2>5, <2>6, <2>7, QuietAgrees
<1>6. CASE Answer(t) /\ UNCHANGED entries
  BY <1>1, <1>2, <1>6, AnswerAgrees, TypedData
<1> QED BY <1>1, <1>5, <1>6 DEF Link, Matching, Oid

LEMMA LinkInsertAgrees ==
    ASSUME AInv, IInv', NEW t \in Threads, LinkInsert(t)
    PROVE  AInv'
<1>1. PICK o, q : o = th[t].oid /\ q = th[t] OBVIOUS
<1>2. q.pc = "link insert" /\ UNCHANGED <<cache, lock, entries, data>> BY <1>1 DEF LinkInsert, At
<1>3. /\ q \in Thread /\ Fit(q) /\ o \in Oids /\ cache[o] \in Records \cup {None}
      /\ q.num \in DOMAIN entries
  BY <1>1, <1>2, Here DEF Refers, AInv, Types
<1>4. q.op = "Link" /\ Typed BY <1>2, <1>3, TypedData DEF Fit, Linking
<1>5. CASE doc[o] = None
  <2>1. ~lock[o] BY <1>1, <1>2, <1>4, MakingIsUnlocked DEF Inside
  <2>2. cache[o] = None BY <1>1, <1>2, <1>5, <2>1, Here, DocumentIsObject DEF CacheOK
  <2>3. PICK r : r = [q EXCEPT !.pc = "link update"] OBVIOUS
  <2>4. /\ doc' = [doc EXCEPT ![o] = Stub] /\ th' = [th EXCEPT ![t] = r]
        /\ cache' = [cache EXCEPT ![o] = None]
    BY <1>1, <1>2, <1>5, <2>2, <2>3 DEF LinkInsert, Goto, Oid, AInv, Types
  <2>5. "link update" \in Places BY DEF Places, Linking
  <2>6. r \in Thread /\ Same(r, q) /\ r.pc = "link update" /\ r.num = q.num
    BY <1>3, <2>3, <2>5 DEF Thread, Same
  <2>7. Fit(r) /\ Refers(r)'
    BY <1>2, <1>3, <1>4, <2>6 DEF Fit, Refers, Same, Creating, Linking, Copying
  <2>8. View(r, Stub, None) BY <2>6 DEF View
  <2>9. Becomes(t, o, r, Stub, None)
    BY <1>1, <1>2, <2>4, <2>6, <2>7, <2>8 DEF Becomes, Same, CacheOK
  <2> QED BY <1>1, <1>2, <1>3, <1>4, <2>6, <2>9, StepAgrees DEF Same
<1>6. CASE doc[o] # None
  <2>1. Goto(t, "link undo") /\ UNCHANGED doc BY <1>1, <1>6 DEF LinkInsert, Oid
  <2>2. PICK r : r = [q EXCEPT !.pc = "link undo"] OBVIOUS
  <2>3. "link undo" \in Places BY DEF Places, Linking
  <2>4. r \in Thread /\ Same(r, q) /\ r.pc = "link undo" /\ r.num = q.num
    BY <1>3, <2>2, <2>3 DEF Thread, Same
  <2>5. Fit(r) /\ View(r, doc[o], cache[o]) /\ Refers(r)'
    BY <1>2, <1>3, <1>4, <2>4 DEF Fit, Refers, View, Same, Creating, Linking, Copying
  <2>6. th' = [th EXCEPT ![t] = r] BY <1>1, <2>1, <2>2 DEF Goto
  <2> QED BY <1>1, <1>2, <1>4, <2>1, <2>4, <2>5, <2>6, QuietAgrees
<1> QED BY <1>5, <1>6

LEMMA LinkUpdateAgrees ==
    ASSUME AInv, IInv', NEW t \in Threads, LinkUpdate(t)
    PROVE  AInv'
<1>1. PICK o, q : o = th[t].oid /\ q = th[t] OBVIOUS
<1>2. q.pc = "link update" /\ UNCHANGED <<cache, lock, entries, data>> BY <1>1 DEF LinkUpdate, At
<1>3. /\ q \in Thread /\ Fit(q) /\ o \in Oids /\ View(q, doc[o], cache[o])
      /\ q.num \in DOMAIN entries
  BY <1>1, <1>2, Here DEF Refers, AInv, Types
<1>4. q.op = "Link" /\ Typed /\ doc[o] = Stub /\ cache[o] = None
  BY <1>2, <1>3, TypedData DEF Fit, Linking, View
<1>5. PICK e \in Entry : e = entries[q.num] BY <1>3, EntryAt
<1>6. PICK d : d = [begin |-> e.begin, size |-> e.size, complete |-> TRUE, hash |-> e.hash] OBVIOUS
<1>7. d \in Documents BY <1>6 DEF Entry, Documents, Inbound
<1>8. doc' = [doc EXCEPT ![o] = d] /\ cache' = [cache EXCEPT ![o] = None]
  BY <1>1, <1>2, <1>4, <1>5, <1>6, DataAssumption DEF LinkUpdate, Oid, AInv, Types
<1>9. th' = [th EXCEPT ![t] = Idle] BY DEF LinkUpdate, Answer
<1>10. View(Idle, d, None) BY IdleRecord DEF View
<1>11. Becomes(t, o, Idle, d, None)
  BY <1>1, <1>2, <1>7, <1>8, <1>9, <1>10, IdleRecord DEF Becomes, CacheOK
<1> QED BY <1>1, <1>2, <1>3, <1>4, <1>11, IdleRecord, StepAgrees

LEMMA LinkUndoAgrees ==
    ASSUME AInv, IInv', NEW t \in Threads, LinkUndo(t)
    PROVE  AInv'
<1>1. PICK o, q : o = th[t].oid /\ q = th[t] OBVIOUS
<1>2. q.pc = "link undo" /\ UNCHANGED <<doc, cache, lock, data>> /\ DropRef(q.num, o) /\ Answer(t)
  BY <1>1 DEF LinkUndo, At, Oid
<1>3. o \in Oids /\ q.num \in DOMAIN entries
  BY <1>1, <1>2, Here DEF Refers, AInv, Types
<1>4. Typed BY <1>2, <1>3, TypedData
<1> QED BY <1>1, <1>2, <1>4, AnswerAgrees
-----------------------------------------------------------------------------
(***************************************************************************)
(* operate_dispersed_cache.                                                *)
(***************************************************************************)
LEMMA LockAgrees ==
    ASSUME AInv, IInv', NEW t \in Threads, Lock(t)
    PROVE  AInv'
<1>1. PICK o, q : o = th[t].oid /\ q = th[t] OBVIOUS
<1>2. q.pc = "lock" /\ UNCHANGED <<doc, cache, entries, data>> /\ lock' = [lock EXCEPT ![o] = TRUE]
  BY <1>1 DEF Lock, At, Oid
<1>3. /\ q \in Thread /\ Fit(q) /\ o \in Oids /\ CacheOK(doc[o], cache[o])
      /\ doc[o] \in Documents \cup {None, Stub} /\ cache[o] \in Records \cup {None}
      /\ lock \in [Oids -> BOOLEAN]
  BY <1>1, <1>2, Here DEF Lock, Oid
<1>4. Typed BY <1>2, TypedData
<1>5. PICK r : r = [q EXCEPT !.pc = "load"] OBVIOUS
<1>6. "load" \in Places BY DEF Places, Handling
<1>7. r \in Thread /\ Same(r, q) /\ r.pc = "load" /\ r.loc = q.loc /\ r.old = q.old
  BY <1>3, <1>5, <1>6, AtPlace
<1>8. Fit(r) /\ Refers(r)' /\ View(r, doc[o], cache[o])
  BY <1>2, <1>3, <1>7 DEF Fit, Refers, View, Same, Creating, Linking, Copying
<1>9. th' = [th EXCEPT ![t] = r] BY <1>1, <1>5 DEF Lock, Goto
<1>10. doc' = [doc EXCEPT ![o] = doc[o]] /\ cache' = [cache EXCEPT ![o] = cache[o]]
  BY <1>2 DEF AInv, Types
<1>11. lock'[o] /\ \A p \in Oids \ {o} : lock'[p] = lock[p] BY <1>2, <1>3
<1>12. Becomes(t, o, r, doc[o], cache[o])
  BY <1>1, <1>3, <1>7, <1>8, <1>9, <1>10, <1>11 DEF Becomes, Same
<1> QED BY <1>1, <1>2, <1>3, <1>4, <1>7, <1>12, StepAgrees DEF Same

LEMMA LockTimeoutAgrees ==
    ASSUME AInv, IInv', NEW t \in Threads, LockTimeout(t)
    PROVE  AInv'
<1>1. th[t].pc # "idle" /\ Answer(t) /\ UNCHANGED <<doc, cache, lock, entries, data>>
  BY DEF LockTimeout
<1> QED BY <1>1, TypedData, AnswerAgrees

\* A thread inside a handler goes to another place of it, and the document and
\* the cached record stay.
LEMMA InsideAgrees ==
    ASSUME AInv, IInv', Typed, NEW t \in Threads, th[t].pc \in Inside,
           th[t].op \notin {"Create", "Link"}, UNCHANGED <<doc, cache, lock>>,
           NEW l \in Inside \ {"load", "cache new", "seal", "entry", "new entry", "settle", "chip"},
           Goto(t, l), NEW r, r = [th[t] EXCEPT !.pc = l], View(r, doc[th[t].oid], cache[th[t].oid]),
           l \in Copying => th[t].loc \in Records
    PROVE  AInv'
<1>1. PICK o, q : o = th[t].oid /\ q = th[t] OBVIOUS
<1>2. q.pc # "idle" BY <1>1 DEF Inside
<1>3. q \in Thread /\ Fit(q) /\ o \in Oids BY <1>1, <1>2, Here
<1>4. l \in Handling \ {"load", "lock", "seal", "entry", "new entry", "settle", "chip"}
  BY DEF Inside, Handling
<1>5. l \in Places BY <1>4 DEF Places
<1>6. r \in Thread /\ Same(r, q) /\ r.pc = l /\ r.loc = q.loc BY <1>1, <1>3, <1>5 DEF Thread, Same
<1>7. l \notin Creating \cup Linking \cup {"idle"} BY <1>4 DEF Handling, Creating, Linking
<1>8. q.pc \notin Creating \cup Linking BY <1>1, <1>3 DEF Fit
<1>9. Fit(r) /\ Refers(r)'
  BY <1>1, <1>2, <1>3, <1>4, <1>6, <1>7, <1>8 DEF Fit, Refers, Same, Creating, Linking
<1>10. th' = [th EXCEPT ![t] = r] BY DEF Goto
<1> QED BY <1>1, <1>2, <1>6, <1>9, <1>10, QuietAgrees

LEMMA LoadAgrees ==
    ASSUME AInv, IInv', NEW t \in Threads, Load(t)
    PROVE  AInv'
<1>1. PICK o, q : o = th[t].oid /\ q = th[t] OBVIOUS
<1>2. q.pc = "load" /\ UNCHANGED <<doc, lock, entries, data>> BY <1>1 DEF Load, At
<1>3. /\ q \in Thread /\ Fit(q) /\ o \in Oids /\ View(q, doc[o], cache[o]) /\ lock[o]
      /\ doc[o] \in Documents \cup {None, Stub} /\ cache[o] \in Records \cup {None}
  BY <1>1, <1>2, Here DEF Inside
<1>4. Typed BY <1>2, TypedData
<1>5. q.loc = q.old /\ CacheOK(doc[o], cache[o]) /\ q.op \notin {"Create", "Link"}
  BY <1>2, <1>3 DEF Fit, View, Creating, Linking
<1>6. CASE cache[o] # None \/ (IsObject(doc[o]) /\ (q.op = "Read" => doc[o].complete))
  <2>1. PICK c : c = IF cache[o] # None THEN cache[o] ELSE Cached(doc[o]) OBVIOUS
  <2>2. c \in Records /\ Agrees(c, doc[o])
    BY <1>3, <1>5, <1>6, <2>1, DocumentIsObject DEF CacheOK, Agrees
  <2>3. cache' = [cache EXCEPT ![o] = c] BY <1>1, <1>6, <2>1 DEF Load, Oid
  <2>4. PICK r : r = [q EXCEPT !.pc = "loaded", !.loc = c, !.old = c] OBVIOUS
  <2>5. "loaded" \in Places BY DEF Places, Handling
  <2>6. r \in Thread /\ Same(r, q) /\ r.pc = "loaded" /\ r.loc = c /\ r.old = c
    BY <1>3, <2>2, <2>4, <2>5 DEF Thread, Same
  <2>7. th' = [th EXCEPT ![t] = r] BY <1>1, <1>6, <2>1, <2>4 DEF Load, Oid
  <2>8. Fit(r) /\ Refers(r)' /\ View(r, doc[o], c)
    BY <1>2, <1>3, <2>2, <2>6 DEF Fit, Refers, View, Same, Creating, Linking, Copying
  <2>9. doc' = [doc EXCEPT ![o] = doc[o]] BY <1>2 DEF AInv, Types
  <2>10. Becomes(t, o, r, doc[o], c)
    BY <1>1, <1>2, <1>3, <2>2, <2>3, <2>6, <2>7, <2>8, <2>9 DEF Becomes, Same
  <2> QED BY <1>1, <1>2, <1>3, <1>4, <2>6, <2>10, StepAgrees DEF Same, Inside
<1>7. CASE ~(cache[o] # None \/ (IsObject(doc[o]) /\ (q.op = "Read" => doc[o].complete)))
  <2>1. Goto(t, "leave") /\ UNCHANGED cache BY <1>1, <1>7 DEF Load, Oid
  <2>2. PICK r : r = [q EXCEPT !.pc = "leave"] OBVIOUS
  <2>3. r.pc = "leave" /\ r.loc = r.old BY <1>3, <1>5, <2>2 DEF Thread
  <2>4. View(r, doc[o], cache[o]) BY <1>5, <2>3 DEF View
  <2>5. /\ "leave" \in Inside \ {"load", "cache new", "seal", "entry", "new entry", "settle", "chip"}
        /\ "leave" \notin Copying /\ q.pc \in Inside
    BY <1>2 DEF Inside, Copying
  <2> QED BY <1>1, <1>2, <1>4, <1>5, <2>1, <2>2, <2>4, <2>5, InsideAgrees
<1> QED BY <1>6, <1>7

LEMMA LeaveAgrees ==
    ASSUME AInv, IInv', NEW t \in Threads, Leave(t)
    PROVE  AInv'
<1>1. PICK o, q : o = th[t].oid /\ q = th[t] OBVIOUS
<1>2. /\ q.pc = "leave" /\ UNCHANGED <<doc, entries, data>> /\ lock' = [lock EXCEPT ![o] = FALSE]
      /\ th' = [th EXCEPT ![t] = Idle]
  BY <1>1 DEF Leave, At, Oid, Answer
<1>3. /\ q \in Thread /\ Fit(q) /\ o \in Oids /\ View(q, doc[o], cache[o])
      /\ doc[o] \in Documents \cup {None, Stub} /\ cache[o] \in Records \cup {None}
      /\ lock \in [Oids -> BOOLEAN]
  BY <1>1, <1>2, Here
<1>4. Typed BY <1>2, TypedData
<1>5. PICK c : c = IF q.loc = q.old THEN cache[o] ELSE q.loc OBVIOUS
<1>6. c \in Records \cup {None} /\ CacheOK(doc[o], c)
  BY <1>2, <1>3, <1>5 DEF View, CacheOK, Agrees
<1>7. cache' = [cache EXCEPT ![o] = c] BY <1>1, <1>5 DEF Leave, Oid, AInv, Types
<1>8. View(Idle, doc[o], c) BY IdleRecord DEF View
<1>9. doc' = [doc EXCEPT ![o] = doc[o]] BY <1>2 DEF AInv, Types
<1>10. \A p \in Oids \ {o} : lock'[p] = lock[p] BY <1>2, <1>3
<1>11. Becomes(t, o, Idle, doc[o], c)
  BY <1>1, <1>2, <1>3, <1>6, <1>7, <1>8, <1>9, <1>10, IdleRecord DEF Becomes
<1> QED BY <1>1, <1>2, <1>3, <1>4, <1>11, IdleRecord, StepAgrees DEF Inside
-----------------------------------------------------------------------------
(***************************************************************************)
(* Extents, contents and hashes.                                           *)
(***************************************************************************)
LEMMA AlignUpProperties ==
    ASSUME NEW n \in Nat
    PROVE  /\ AlignUp(n) \in Nat /\ AlignUp(n) >= n
           /\ \A m \in Nat : m <= n => AlignUp(m) <= AlignUp(n)
<1>1. Align \in Nat /\ Align > 0 BY ObjectAssumption
<1>2. ASSUME NEW k \in Nat
      PROVE  /\ k + Align - 1 = Align * ((k + Align - 1) \div Align) + ((k + Align - 1) % Align)
             /\ (k + Align - 1) % Align \in 0..(Align - 1) /\ (k + Align - 1) \div Align \in Nat
             /\ AlignUp(k) = Align * ((k + Align - 1) \div Align) /\ AlignUp(k) \in Nat
  <2>1. PICK s \in Nat : s = k + Align - 1 BY <1>1
  <2>2. /\ s = Align * (s \div Align) + (s % Align) /\ s % Align \in 0..(Align - 1)
        /\ s \div Align \in Nat
    BY <1>1
  <2>3. (s \div Align) * Align = Align * (s \div Align) /\ Align * (s \div Align) \in Nat
    BY <1>1, <2>2
  <2> QED BY <2>1, <2>2, <2>3 DEF AlignUp
<1>3. AlignUp(n) \in Nat /\ AlignUp(n) >= n BY <1>1, <1>2
<1>4. ASSUME NEW m \in Nat, m <= n PROVE AlignUp(m) <= AlignUp(n)
  <2>1. PICK i \in Nat, j \in Nat : i = (m + Align - 1) \div Align /\ j = (n + Align - 1) \div Align
    BY <1>2
  <2>2. /\ AlignUp(m) = Align * i /\ AlignUp(n) = Align * j
        /\ Align * i <= m + Align - 1 /\ n + Align - 1 < Align * j + Align
    BY <1>1, <1>2, <1>4, <2>1
  <2>3. ~(i > j)
    <3>1. ASSUME i > j PROVE Align * i >= Align * j + Align
      <4>1. PICK k \in Nat : i = j + 1 + k BY <3>1
      <4>2. Align * i = Align * j + Align + Align * k BY <1>1, <4>1
      <4> QED BY <1>1, <4>2
    <3> QED BY <1>1, <1>4, <2>2, <3>1
  <2>4. PICK k \in Nat : j = i + k BY <2>3
  <2>5. Align * j = Align * i + Align * k /\ Align * k \in Nat BY <1>1, <2>4
  <2> QED BY <1>1, <2>2, <2>5
<1> QED BY <1>3, <1>4

LEMMA ContentTyped ==
    ASSUME AInv, NEW c \in Records
    PROVE  Content(c.begin, c.size) \in Seq(Nat) /\ Len(Content(c.begin, c.size)) = c.size
<1>1. PICK b \in Nat, n \in Nat : b = c.begin /\ n = c.size BY DEF Records, Inbound, Begins
<1>2. Extent(b, n) \subseteq 0..(Space - 1) BY <1>1 DEF Records, Inbound
<1>3. ASSUME NEW i \in 1..n PROVE store[b + i - 1] \in Nat
  <2>1. b + i - 1 \in b..(b + AlignUp(n) - 1) BY <1>1, AlignUpProperties
  <2> QED BY <1>2, <2>1 DEF Extent, Bytes, AInv, Types
<1>4. Content(b, n) \in [1..n -> Nat] BY <1>3 DEF Content
<1> QED BY <1>1, <1>4, SeqDef, LenProperties

\* What a storage node gets to write.
LEMMA WrittenTyped ==
    ASSUME AInv, NEW t \in Threads, Ready(t, "Write"), Arg(t).off < Loc(t).size
    PROVE  Written(t) \in Seq(Nat) /\ Arg(t).off \in Nat /\ Loc(t) \in Records
<1>1. PICK q : q = th[t] OBVIOUS
<1>2. Fit(q) /\ q.op = "Write" /\ q.pc = "loaded" BY <1>1 DEF AInv, Types, Ready, At
<1>3. q.arg \in Writes /\ q.loc \in Records BY <1>2 DEF Fit, Copying
<1>4. PICK w : w = q.arg.data OBVIOUS
<1>5. w \in Seq(Nat) /\ q.arg.off \in Nat BY <1>3, <1>4, DataAssumption
<1>6. PICK n \in Nat : n = q.loc.size - q.arg.off
  BY <1>1, <1>3, <1>5 DEF Records, Inbound, Arg, Loc
<1>7. PICK l \in Nat : l = Len(w) /\ \A i \in 1..l : w[i] \in Nat
  BY <1>5, LenProperties, ElementOfSeq
<1>8. PICK m \in 0..l : m = Min({l, n})
  <2>0. \E x \in {l, n} : \A y \in {l, n} : x <= y OBVIOUS
  <2>1. Min({l, n}) \in {l, n} /\ Min({l, n}) <= l BY <2>0 DEF Min
  <2>2. Min({l, n}) \in 0..l BY <2>1
  <2> QED BY <2>2
<1>9. SubSeq(w, 1, m) \in Seq(Nat)
  <2>1. \A i \in 1..m : w[i] \in Nat BY <1>7
  <2>2. 1 \in Int /\ m \in Int OBVIOUS
  <2> QED BY ONLY <2>1, <2>2, SubSeqProperties, Zenon
<1>10. Written(t) = SubSeq(w, 1, m) BY <1>1, <1>4, <1>6, <1>7, <1>8 DEF Written, Arg, Loc
<1> QED BY <1>1, <1>3, <1>5, <1>9, <1>10 DEF Arg, Loc

LEMMA WriteDataTyped ==
    ASSUME AInv, NEW t \in Threads, Ready(t, "Write"), Arg(t).off < Loc(t).size, WriteData(t),
           entries' = entries
    PROVE  Typed
<1>1. PICK d \in Seq(Nat), n \in Nat, c \in Records : d = Written(t) /\ n = Arg(t).off /\ c = Loc(t)
  BY WrittenTyped
<1>2. c.begin \in Begins /\ c.begin \in Nat BY DEF Records, Inbound, Begins
<1>3. PICK at \in Nat : at = c.begin + n BY <1>2
<1>4. Len(d) \in Nat /\ \A i \in 1..Len(d) : d[i] \in Nat BY LenProperties, ElementOfSeq
<1>5. store' = [b \in 0..(Space - 1) |-> IF b \in Bytes(at, Len(d)) THEN d[b - at + 1] ELSE store[b]]
  BY <1>1, <1>3 DEF WriteData, AInv, Types
<1>6. ASSUME NEW b \in 0..(Space - 1), b \in Bytes(at, Len(d)) PROVE d[b - at + 1] \in Nat
  <2>1. b - at + 1 \in 1..Len(d) BY <1>4, <1>6 DEF Bytes
  <2> QED BY <1>4, <2>1
<1>7. store' \in [0..(Space - 1) -> Nat] BY <1>5, <1>6 DEF AInv, Types
<1>8. node' = [node EXCEPT ![c.begin] = IF Len(@) = n THEN @ \o d ELSE @]
  BY <1>1 DEF WriteData, Hashed
<1>9. node[c.begin] \in Seq(Nat) BY <1>2 DEF AInv, Types
<1>10. node[c.begin] \o d \in Seq(Nat) BY <1>9, ConcatProperties
<1>11. node' \in [Begins -> Seq(Nat)] BY <1>2, <1>8, <1>9, <1>10 DEF AInv, Types
<1> QED BY <1>7, <1>11 DEF Typed, WriteData, AInv, Types
-----------------------------------------------------------------------------
(***************************************************************************)
(* The steps inside a handler.                                             *)
(***************************************************************************)
\* A handler that was refused, or that has written or failed, leaves.
LEMMA LeavingAgrees ==
    ASSUME AInv, IInv', Typed, NEW t \in Threads, th[t].pc \in {"loaded", "chip"},
           th[t].op \notin {"Create", "Link"}, Goto(t, "leave"), UNCHANGED <<doc, cache, lock>>
    PROVE  AInv'
<1>1. PICK o, q : o = th[t].oid /\ q = th[t] OBVIOUS
<1>2. q.pc # "idle" /\ q.pc \in Inside BY <1>1 DEF Inside
<1>3. q \in Thread /\ Fit(q) /\ View(q, doc[o], cache[o]) BY <1>1, <1>2, Here
<1>4. PICK r : r = [q EXCEPT !.pc = "leave"] OBVIOUS
<1>5. r.pc = "leave" /\ r.loc = q.loc /\ r.old = q.old BY <1>3, <1>4 DEF Thread
<1>6. View(r, doc[o], cache[o])
  <2>1. q.loc \in Records BY <1>1, <1>3 DEF Fit, Copying
  <2>2. Agrees(q.loc, doc[o]) BY <1>1, <1>3 DEF View
  <2>3. q.loc = q.old => CacheOK(doc[o], cache[o])
    <3>1. CASE q.pc = "loaded"
      <4>1. q.loc = q.old /\ cache[o] \in {None, q.old} BY <1>3, <3>1 DEF View
      <4> QED BY <2>2, <4>1 DEF CacheOK, Agrees
    <3>2. CASE q.pc = "chip"
      <4>1. q.loc # q.old BY <1>3, <3>2 DEF View
      <4> QED BY <4>1
    <3> QED BY <1>1, <3>1, <3>2
  <2> QED BY <1>5, <2>1, <2>2, <2>3 DEF View
<1>7. /\ "leave" \in Inside \ {"load", "cache new", "seal", "entry", "new entry", "settle", "chip"}
      /\ "leave" \notin Copying
  BY DEF Inside, Copying
<1> QED BY <1>1, <1>2, <1>4, <1>6, <1>7, InsideAgrees

\* Which calls are at a place inside a handler.
LEMMA CallsInside ==
    ASSUME AInv, NEW t \in Threads, th[t].pc \in Copying
    PROVE  th[t].op \notin {"Create", "Link"} /\ th[t].pc \in Inside
BY DEF AInv, Types, Fit, Copying, Creating, Linking, Inside

LEMMA RefuseAgrees ==
    ASSUME AInv, IInv', NEW t \in Threads, Refuse(t) \/ NodeFails(t) \/ AddChipFails(t)
    PROVE  AInv'
<1>1. /\ th[t].pc \in {"loaded", "chip"} /\ Goto(t, "leave")
      /\ UNCHANGED <<doc, cache, lock, entries, data>>
  BY DEF Refuse, NodeFails, AddChipFails, Ready, At
<1>2. th[t].op \notin {"Create", "Link"} BY <1>1, CallsInside DEF Copying
<1> QED BY <1>1, <1>2, TypedData, LeavingAgrees

LEMMA WriteAgrees ==
    ASSUME AInv, IInv', NEW t \in Threads, Write(t)
    PROVE  AInv'
<1>1. /\ th[t].pc \in {"loaded", "chip"} /\ th[t].op = "Write" /\ Goto(t, "leave")
      /\ UNCHANGED <<doc, cache, lock>>
  BY DEF Write, Ready, At
<1>2. Typed BY WriteDataTyped DEF Write
<1> QED BY <1>1, <1>2, LeavingAgrees

LEMMA ReadAgrees ==
    ASSUME AInv, IInv', NEW t \in Threads, Read(t)
    PROVE  AInv'
<1>1. PICK o, q : o = th[t].oid /\ q = th[t] OBVIOUS
<1>2. q.pc = "loaded" /\ q.op = "Read" /\ UNCHANGED <<doc, cache, lock, entries, data>>
  BY <1>1 DEF Read, Ready, At
<1>3. q \in Thread /\ Fit(q) /\ View(q, doc[o], cache[o]) BY <1>1, <1>2, Here
<1>4. Typed BY <1>2, TypedData
<1>5. PICK v : v = Content(q.loc.begin, q.loc.size) OBVIOUS
<1>6. v \in Seq(Nat) BY <1>2, <1>3, <1>5, ContentTyped DEF Fit, Copying
<1>7. PICK r : r = [q EXCEPT !.pc = "leave", !.seen = v] OBVIOUS
<1>8. "leave" \in Places BY DEF Places, Handling
<1>9. r \in Thread /\ Same(r, q) /\ r.pc = "leave" /\ r.loc = q.loc /\ r.old = q.old
  BY <1>3, <1>6, <1>7, <1>8 DEF Thread, Same
<1>10. Fit(r) /\ Refers(r)'
  BY <1>2, <1>3, <1>9 DEF Fit, Refers, Same, Creating, Linking, Copying
<1>11. View(r, doc[o], cache[o]) BY <1>2, <1>3, <1>9 DEF View, CacheOK, Agrees
<1>12. th' = [th EXCEPT ![t] = r] BY <1>1, <1>5, <1>7 DEF Read, See, Loc
<1> QED BY <1>1, <1>2, <1>4, <1>9, <1>10, <1>11, <1>12, QuietAgrees

LEMMA DeleteDocumentAgrees ==
    ASSUME AInv, IInv', NEW t \in Threads, DeleteDocument(t)
    PROVE  AInv'
<1>1. PICK o, q : o = th[t].oid /\ q = th[t] OBVIOUS
<1>2. /\ q.pc = "loaded" /\ q.op = "Delete" /\ UNCHANGED <<cache, lock, entries, data>>
      /\ doc' = [doc EXCEPT ![o] = None]
  BY <1>1 DEF DeleteDocument, Ready, At, Oid
<1>3. /\ q \in Thread /\ Fit(q) /\ o \in Oids /\ View(q, doc[o], cache[o])
      /\ cache[o] \in Records \cup {None} /\ lock[o]
  BY <1>1, <1>2, Here DEF Inside
<1>4. Typed BY <1>2, TypedData
<1>5. PICK r : r = [q EXCEPT !.pc = "unref"] OBVIOUS
<1>6. "unref" \in Places BY DEF Places, Handling
<1>7. r \in Thread /\ Same(r, q) /\ r.pc = "unref" /\ r.loc = q.loc /\ r.old = q.old
  BY <1>3, <1>5, <1>6, AtPlace
<1>8. Fit(r) /\ Refers(r)' /\ View(r, None, cache[o])
  BY <1>2, <1>3, <1>7 DEF Fit, Refers, View, Same, Creating, Linking, Copying
<1>9. th' = [th EXCEPT ![t] = r] BY <1>1, <1>5 DEF DeleteDocument, Goto
<1>10. cache' = [cache EXCEPT ![o] = cache[o]] BY <1>2 DEF AInv, Types
<1>11. Becomes(t, o, r, None, cache[o])
  BY <1>1, <1>2, <1>3, <1>7, <1>8, <1>9, <1>10 DEF Becomes, Same
<1> QED BY <1>1, <1>2, <1>3, <1>4, <1>7, <1>11, StepAgrees DEF Same, Inside

LEMMA DeleteRefAgrees ==
    ASSUME AInv, IInv', NEW t \in Threads, DeleteRef(t)
    PROVE  AInv'
<1>1. PICK o, q : o = th[t].oid /\ q = th[t] OBVIOUS
<1>2. q.pc = "unref" /\ UNCHANGED <<doc, cache, lock, data>> /\ Goto(t, "uncache")
  BY <1>1 DEF DeleteRef, At
<1>3. /\ q \in Thread /\ Fit(q) /\ o \in Oids /\ View(q, doc[o], cache[o])
      /\ q.op \notin {"Create", "Link"} /\ q.pc \in Inside
  BY <1>1, <1>2, Here, CallsInside DEF Copying
<1>4. entries' = entries \/ \E i \in DOMAIN entries : DropRef(i, o)
  BY <1>1 DEF DeleteRef, Matching, Oid
<1>5. Typed BY <1>2, <1>3, <1>4, TypedData
<1>6. PICK r : r = [q EXCEPT !.pc = "uncache"] OBVIOUS
<1>7. r.pc = "uncache" /\ r.loc = q.loc /\ r.old = q.old BY <1>3, <1>6 DEF Thread
<1>8. View(r, doc[o], cache[o]) BY <1>2, <1>3, <1>7 DEF View
<1>9. /\ "uncache" \in Inside \ {"load", "cache new", "seal", "entry", "new entry", "settle", "chip"}
      /\ q.loc \in Records
  BY <1>2, <1>3 DEF Inside, Fit, Copying
<1> QED BY <1>1, <1>2, <1>3, <1>5, <1>6, <1>8, <1>9, InsideAgrees

LEMMA DeleteCacheAgrees ==
    ASSUME AInv, IInv', NEW t \in Threads, DeleteCache(t)
    PROVE  AInv'
<1>1. PICK o, q : o = th[t].oid /\ q = th[t] OBVIOUS
<1>2. /\ q.pc = "uncache" /\ UNCHANGED <<doc, lock, entries, data>>
      /\ cache' = [cache EXCEPT ![o] = None]
  BY <1>1 DEF DeleteCache, At, Oid
<1>3. /\ q \in Thread /\ Fit(q) /\ o \in Oids /\ View(q, doc[o], cache[o])
      /\ doc[o] \in Documents \cup {None, Stub} /\ lock[o]
      /\ q.op \notin {"Create", "Link"} /\ q.pc \in Inside
  BY <1>1, <1>2, Here, CallsInside DEF Inside, Copying
<1>4. Typed BY <1>2, TypedData
<1>5. PICK r : r = [q EXCEPT !.pc = "leave"] OBVIOUS
<1>6. "leave" \in Places BY DEF Places, Handling
<1>7. r \in Thread /\ Same(r, q) /\ r.pc = "leave" /\ r.loc = q.loc /\ r.old = q.old
  BY <1>3, <1>5, <1>6, AtPlace
<1>8. Fit(r) /\ Refers(r)' /\ View(r, doc[o], None)
  BY <1>2, <1>3, <1>7 DEF Fit, Refers, View, CacheOK, Same, Creating, Linking, Copying
<1>9. th' = [th EXCEPT ![t] = r] BY <1>1, <1>5 DEF DeleteCache, Goto
<1>10. doc' = [doc EXCEPT ![o] = doc[o]] BY <1>2 DEF AInv, Types
<1>11. Becomes(t, o, r, doc[o], None)
  BY <1>1, <1>2, <1>3, <1>7, <1>8, <1>9, <1>10 DEF Becomes, Same
<1> QED BY <1>1, <1>2, <1>3, <1>4, <1>7, <1>11, StepAgrees DEF Same, Inside
-----------------------------------------------------------------------------
(***************************************************************************)
(* ResizeObject.                                                           *)
(***************************************************************************)
LEMMA ExtentShrinks ==
    ASSUME NEW b \in Nat, NEW m \in Nat, NEW n \in Nat, n <= m
    PROVE  Extent(b, n) \subseteq Extent(b, m) /\ TailOf(b, m, n) \subseteq Extent(b, m)
<1>1. AlignUp(n) <= AlignUp(m) /\ AlignUp(n) \in Nat /\ AlignUp(m) \in Nat BY AlignUpProperties
<1> QED BY <1>1 DEF Extent, Bytes, TailOf

LEMMA Resized ==
    ASSUME NEW c \in Records, NEW n \in Nat \ {0}, n <= c.size
    PROVE  /\ [c EXCEPT !.size = n, !.redo = TRUE] \in Records
           /\ [InDoc(c) EXCEPT !.size = n] \in Documents
           /\ InDoc([c EXCEPT !.size = n, !.redo = TRUE]) = [InDoc(c) EXCEPT !.size = n]
           /\ TailOf(c.begin, c.size, n) \subseteq 0..(Space - 1)
<1>1. c.begin \in Nat /\ c.size \in Nat BY DEF Records, Inbound, Begins
<1>2. /\ Extent(c.begin, n) \subseteq Extent(c.begin, c.size)
      /\ TailOf(c.begin, c.size, n) \subseteq Extent(c.begin, c.size)
  BY <1>1, ExtentShrinks
<1>3. Extent(c.begin, c.size) \subseteq 0..(Space - 1) BY DEF Records, Inbound
<1>4. Extent(c.begin, n) \subseteq 0..(Space - 1) /\ TailOf(c.begin, c.size, n) \subseteq 0..(Space - 1)
  BY <1>2, <1>3
<1>5. [c EXCEPT !.size = n, !.redo = TRUE] \in Records BY <1>4 DEF Records, Inbound
<1>6. [InDoc(c) EXCEPT !.size = n] \in Documents BY <1>4 DEF InDoc, Records, Documents, Inbound
<1>7. InDoc([c EXCEPT !.size = n, !.redo = TRUE]) = [InDoc(c) EXCEPT !.size = n]
  BY DEF InDoc, Records, Inbound
<1> QED BY <1>4, <1>5, <1>6, <1>7

LEMMA ResizeAgrees ==
    ASSUME AInv, IInv', NEW t \in Threads, Resize(t)
    PROVE  AInv'
<1>1. PICK o, q : o = th[t].oid /\ q = th[t] OBVIOUS
<1>2. q.pc = "loaded" /\ q.op = "Resize" /\ UNCHANGED <<cache, lock, entries, data>>
  BY <1>1 DEF Resize, Ready, At
<1>3. /\ q \in Thread /\ Fit(q) /\ o \in Oids /\ View(q, doc[o], cache[o])
      /\ cache[o] \in Records \cup {None} /\ lock[o]
  BY <1>1, <1>2, Here DEF Inside
<1>4. Typed BY <1>2, TypedData
<1>5. PICK c \in Records, n \in Nat \ {0} : c = q.loc /\ n = q.arg
  BY <1>2, <1>3, ObjectAssumption DEF Fit, Copying
<1>6. n < c.size /\ ~c.complete /\ c = q.old /\ Agrees(c, doc[o])
  BY <1>1, <1>2, <1>3, <1>5 DEF Resize, Arg, Loc, View
<1>7. c.size \in Nat /\ n <= c.size BY <1>6 DEF Records, Inbound
<1>8. PICK e, d, w : /\ e = [c EXCEPT !.size = n, !.redo = TRUE] /\ d = [doc[o] EXCEPT !.size = n]
                     /\ w = TailOf(c.begin, c.size, n)
  OBVIOUS
<1>9. e \in Records /\ d \in Documents /\ InDoc(e) = d /\ w \subseteq 0..(Space - 1)
  BY <1>6, <1>7, <1>8, Resized DEF Agrees
<1>10. e # c /\ ~e.complete
  <2>1. e.size = n /\ e.complete = c.complete BY <1>8 DEF Records, Inbound
  <2> QED BY <1>6, <1>7, <2>1
<1>11. IsObject(d) BY <1>9, DocumentIsObject
<1>12. PICK l : l = IF AlignUp(n) >= c.size THEN "leave" ELSE "chip" OBVIOUS
<1>13. l \in {"leave", "chip"} /\ l \in Places BY <1>12 DEF Places, Handling
<1>14. PICK r : r = [q EXCEPT !.loc = e, !.pc = l, !.bytes = w] OBVIOUS
<1>15. w \in SUBSET Int BY <1>9
<1>16. r \in Thread /\ Same(r, q) /\ r.pc = l /\ r.loc = e /\ r.old = c /\ r.bytes = w
  BY <1>3, <1>6, <1>9, <1>13, <1>14, <1>15 DEF Thread, Same
<1>17. th' = [th EXCEPT ![t] = r] BY <1>1, <1>5, <1>8, <1>12, <1>14 DEF Resize, Arg, Loc
<1>18. doc' = [doc EXCEPT ![o] = d] BY <1>1, <1>5, <1>6, <1>8 DEF Resize, Arg, Oid, Agrees, AInv, Types
<1>19. Fit(r) /\ Refers(r)'
  BY <1>2, <1>3, <1>9, <1>13, <1>16 DEF Fit, Refers, Same, Creating, Linking, Copying
<1>20. View(r, d, cache[o])
  BY <1>2, <1>9, <1>10, <1>11, <1>13, <1>16 DEF View, Same, Agrees
<1>21. cache' = [cache EXCEPT ![o] = cache[o]] BY <1>2 DEF AInv, Types
<1>22. Becomes(t, o, r, d, cache[o])
  BY <1>1, <1>2, <1>3, <1>9, <1>16, <1>17, <1>18, <1>19, <1>20, <1>21 DEF Becomes, Same
<1> QED BY <1>1, <1>2, <1>3, <1>4, <1>16, <1>22, StepAgrees DEF Same, Inside
-----------------------------------------------------------------------------
(***************************************************************************)
(* CompleteObject.                                                         *)
(***************************************************************************)
LEMMA HashTyped ==
    ASSUME AInv, NEW c \in Records, NEW h \in HashesOf(c)
    PROVE  h \in Seq(Nat)
<1>1. node[c.begin] \in Seq(Nat) BY DEF AInv, Types, Records, Inbound
<1>2. PICK n \in Nat, m \in Nat : n = c.size /\ m = Done(c)
  BY <1>1, LenProperties DEF Records, Inbound, Done
<1>3. PICK s : h = node[c.begin] \o s /\ s \in [1..(n - m) -> Nat]
  <2>1. PICK past \in [1..(n - m) -> Junk] :
            h = node[c.begin] \o [i \in 1..(n - m) |-> IF GoesOnAt(c) + i - 1 \in DOMAIN store
                                                     THEN store[GoesOnAt(c) + i - 1] ELSE past[i]]
    BY <1>2 DEF HashesOf
  <2>2. store \in [0..(Space - 1) -> Nat] BY DEF AInv, Types
  <2>3. Junk \subseteq Nat BY ObjectAssumption
  <2>4. PICK s : s = [i \in 1..(n - m) |-> IF GoesOnAt(c) + i - 1 \in DOMAIN store
                                          THEN store[GoesOnAt(c) + i - 1] ELSE past[i]]
    OBVIOUS
  <2>5. ASSUME NEW i \in 1..(n - m) PROVE s[i] \in Nat
    <3>1. s[i] = IF GoesOnAt(c) + i - 1 \in DOMAIN store THEN store[GoesOnAt(c) + i - 1] ELSE past[i]
      BY <2>4
    <3>2. \A a \in DOMAIN store : store[a] \in Nat BY <2>2
    <3>3. past[i] \in Nat BY <2>3
    <3> QED BY <3>1, <3>2, <3>3
  <2>6. s \in [1..(n - m) -> Nat] BY <2>4, <2>5
  <2> QED BY <2>1, <2>4, <2>6
<1>4. PICK k \in Nat : 1..(n - m) = 1..k
  <2>1. CASE n - m >= 0 BY <1>2, <2>1
  <2>2. CASE n - m < 0
    <3>1. 1..(n - m) = 1..0 BY <1>2, <2>2
    <3> QED BY <3>1
  <2> QED BY <1>2, <2>1, <2>2
<1>5. s \in Seq(Nat) BY <1>3, <1>4, SeqDef, Zenon
<1> QED BY <1>1, <1>3, <1>5, ConcatProperties

\* Nobody moves, and at most a cached record goes.
LEMMA ViewForgets ==
    ASSUME NEW r, NEW d, NEW c, View(r, d, c)
    PROVE  View(r, d, None)
BY DEF View, CacheOK

LEMMA NobodyMovesAgrees ==
    ASSUME AInv, IInv', Typed, UNCHANGED <<th, doc, lock>>,
           UNCHANGED cache \/ \E o \in Oids : cache' = [cache EXCEPT ![o] = None]
    PROVE  AInv'
<1>1. /\ cache' \in [Oids -> Records \cup {None}]
      /\ \A o \in Oids : cache'[o] \in {None, cache[o]}
  BY DEF AInv, Types
<1>2. Types' BY <1>1, ReferencesStay DEF AInv, Types, Typed
<1>3. Alone' BY DEF AInv, Alone
<1>4. ASSUME NEW o \in Oids, ~lock'[o] PROVE CacheOK(doc'[o], cache'[o])
  BY <1>1, <1>4 DEF AInv, Views, CacheOK
<1>5. ASSUME NEW t \in Threads, th'[t].oid \in Oids
      PROVE  View(th'[t], doc'[th'[t].oid], cache'[th'[t].oid])
  BY <1>1, <1>5, ViewForgets DEF AInv, Views
<1>6. Views' BY <1>4, <1>5 DEF Views
<1> QED BY <1>2, <1>3, <1>6 DEF AInv

LEMMA CompleteWriteAgrees ==
    ASSUME AInv, IInv', NEW t \in Threads, CompleteWrite(t)
    PROVE  AInv'
<1>1. PICK o, q : o = th[t].oid /\ q = th[t] OBVIOUS
<1>2. /\ q.pc = "loaded" /\ q.op = "Complete" /\ UNCHANGED <<doc, cache, lock, entries, free, store>>
      /\ ~q.loc.complete
  BY <1>1 DEF CompleteWrite, Ready, At, Loc
<1>3. /\ q \in Thread /\ Fit(q) /\ o \in Oids /\ View(q, doc[o], cache[o]) BY <1>1, <1>2, Here
<1>4. PICK c \in Records : c = q.loc BY <1>2, <1>3 DEF Fit, Copying
<1>5. Typed
  <2>1. node' = [node EXCEPT ![c.begin] = <<>>] BY <1>1, <1>4 DEF CompleteWrite, Loc
  <2>2. <<>> \in Seq(Nat) BY EmptySeq
  <2>3. node' \in [Begins -> Seq(Nat)] BY <2>1, <2>2 DEF AInv, Types
  <2> QED BY <1>2, <2>3 DEF Typed, AInv, Types
<1>6. ASSUME NEW h \in HashesOf(c), See(t, "seal", h) PROVE AInv'
  <2>0. h \in Seq(Nat) BY HashTyped
  <2>1. PICK r : r = [q EXCEPT !.pc = "seal", !.seen = h] OBVIOUS
  <2>2. "seal" \in Places BY DEF Places, Handling
  <2>3. r \in Thread /\ Same(r, q) /\ r.pc = "seal" /\ r.loc = q.loc /\ r.old = q.old
    BY <1>3, <2>0, <2>1, <2>2 DEF Thread, Same
  <2>4. Fit(r) /\ Refers(r)'
    BY <1>2, <1>3, <2>3 DEF Fit, Refers, Same, Creating, Linking, Copying
  <2>5. View(r, doc[o], cache[o]) BY <1>2, <1>3, <2>3 DEF View
  <2>6. th' = [th EXCEPT ![t] = r] BY <1>1, <1>6, <2>1 DEF See
  <2> QED BY <1>1, <1>2, <1>5, <2>3, <2>4, <2>5, <2>6, QuietAgrees
<1>7. CASE UNCHANGED th BY <1>2, <1>5, <1>7, NobodyMovesAgrees
<1> QED BY <1>1, <1>4, <1>6, <1>7 DEF CompleteWrite, Loc

\* A record and its document, with a hash, and with another begin.
LEMMA Completed ==
    ASSUME NEW c \in Records, NEW h \in Seq(Nat)
    PROVE  InDoc([c EXCEPT !.complete = TRUE, !.hash = h]) = [InDoc(c) EXCEPT !.hash = h, !.complete = TRUE]
<1>1. InDoc([c EXCEPT !.complete = TRUE, !.hash = h])
      = [begin |-> c.begin, size |-> c.size, complete |-> TRUE, hash |-> h]
  BY DEF InDoc, Records, Inbound
<1>2. [InDoc(c) EXCEPT !.hash = h, !.complete = TRUE]
      = [begin |-> c.begin, size |-> c.size, complete |-> TRUE, hash |-> h]
  <2>1. PICK d \in Documents : d = InDoc(c) BY DocumentIsObject
  <2>2. d.begin = c.begin /\ d.size = c.size BY <2>1 DEF InDoc
  <2>3. [d EXCEPT !.hash = h, !.complete = TRUE]
        = [begin |-> d.begin, size |-> d.size, complete |-> TRUE, hash |-> h]
    <3>1. PICK e : e = [d EXCEPT !.hash = h, !.complete = TRUE] OBVIOUS
    <3>2. /\ e \in [begin : Begins, size : Nat \ {0}, complete : BOOLEAN, hash : Seq(Nat)]
          /\ e.begin = d.begin /\ e.size = d.size /\ e.complete = TRUE /\ e.hash = h
      BY <3>1 DEF Documents, Inbound
    <3>3. e = [begin |-> e.begin, size |-> e.size, complete |-> e.complete, hash |-> e.hash]
      BY <3>2
    <3> QED BY <3>1, <3>2, <3>3
  <2> QED BY <2>1, <2>2, <2>3
<1> QED BY <1>1, <1>2

LEMMA Moved ==
    ASSUME NEW c \in Records, NEW b
    PROVE  /\ InDoc([c EXCEPT !.begin = b]) = [InDoc(c) EXCEPT !.begin = b]
           /\ InDoc(c) = [InDoc(c) EXCEPT !.begin = c.begin]
BY DEF InDoc, Records, Inbound

LEMMA SealAgrees ==
    ASSUME AInv, IInv', NEW t \in Threads, Seal(t)
    PROVE  AInv'
<1>1. PICK o, q : o = th[t].oid /\ q = th[t] OBVIOUS
<1>2. q.pc = "seal" /\ UNCHANGED <<cache, lock, entries, data>> BY <1>1 DEF Seal, At
<1>3. /\ q \in Thread /\ Fit(q) /\ o \in Oids /\ View(q, doc[o], cache[o])
      /\ cache[o] \in Records \cup {None} /\ lock[o] /\ doc[o] \in Documents \cup {None, Stub}
  BY <1>1, <1>2, Here DEF Inside
<1>4. Typed BY <1>2, TypedData
<1>5. PICK c \in Records, h \in Seq(Nat) : c = q.loc /\ h = q.seen BY <1>2, <1>3 DEF Fit, Copying, Thread
<1>6. c = q.old /\ ~c.complete /\ Agrees(c, doc[o]) /\ doc[o] \in Documents /\ q.op = "Complete"
  BY <1>2, <1>3, <1>5, DocumentIsObject DEF View, Agrees, Fit
<1>7. PICK e, d : /\ e = [c EXCEPT !.complete = TRUE, !.hash = h]
                  /\ d = [doc[o] EXCEPT !.hash = h, !.complete = TRUE]
  OBVIOUS
<1>8. e \in Records /\ e.complete BY <1>7 DEF Records, Inbound
<1>9. d \in Documents BY <1>6, <1>7 DEF Documents, Inbound
<1>10. InDoc(e) = d BY <1>6, <1>7, Completed DEF Agrees
<1>11. IsObject(d) /\ e # c BY <1>6, <1>8, <1>9, DocumentIsObject
<1>12. doc' = [doc EXCEPT ![o] = d] /\ Local(t, "entry", e)
  BY <1>1, <1>5, <1>6, <1>7 DEF Seal, Oid, Loc, Agrees, AInv, Types
<1>13. PICK r : r = [q EXCEPT !.pc = "entry", !.loc = e] OBVIOUS
<1>14. "entry" \in Places BY DEF Places, Handling
<1>15. r \in Thread /\ Same(r, q) /\ r.pc = "entry" /\ r.loc = e /\ r.old = c
  BY <1>3, <1>6, <1>8, <1>13, <1>14 DEF Thread, Same
<1>16. Fit(r) /\ Refers(r)'
  BY <1>3, <1>6, <1>8, <1>15 DEF Fit, Refers, Same, Creating, Linking, Copying
<1>17. View(r, d, cache[o]) BY <1>6, <1>8, <1>10, <1>11, <1>15 DEF View, Agrees
<1>18. th' = [th EXCEPT ![t] = r] BY <1>1, <1>12, <1>13 DEF Local
<1>19. cache' = [cache EXCEPT ![o] = cache[o]] BY <1>2 DEF AInv, Types
<1>20. Becomes(t, o, r, d, cache[o])
  BY <1>1, <1>2, <1>3, <1>9, <1>12, <1>15, <1>16, <1>17, <1>18, <1>19 DEF Becomes, Same
<1> QED BY <1>1, <1>2, <1>3, <1>4, <1>15, <1>20, StepAgrees DEF Same, Inside

LEMMA FindEntryAgrees ==
    ASSUME AInv, IInv', NEW t \in Threads, FindEntry(t)
    PROVE  AInv'
<1>1. PICK o, q : o = th[t].oid /\ q = th[t] OBVIOUS
<1>2. q.pc = "entry" /\ UNCHANGED <<doc, cache, lock, data>> BY <1>1 DEF FindEntry, At
<1>3. q \in Thread /\ Fit(q) /\ o \in Oids /\ View(q, doc[o], cache[o]) /\ q.op = "Complete"
  BY <1>1, <1>2, Here DEF Fit
<1>4. PICK c \in Records : c = q.loc BY <1>2, <1>3 DEF Fit, Copying
<1>5. CASE \E i \in Matching(c.hash, c.size) :
              /\ AddRef(i, o)
              /\ th' = [th EXCEPT ![t] = [q EXCEPT !.pc = "chip", !.bytes = Extent(c.begin, c.size),
                                                    !.num = i]]
  <2>1. PICK i \in Matching(c.hash, c.size) :
              /\ AddRef(i, o)
              /\ th' = [th EXCEPT ![t] = [q EXCEPT !.pc = "chip", !.bytes = Extent(c.begin, c.size),
                                                    !.num = i]]
    BY <1>5
  <2>2. i \in DOMAIN entries BY DEF Matching
  <2>3. Typed /\ i \in Nat BY <1>2, <1>3, <2>1, <2>2, TypedData, EntryAt
  <2>4. PICK w : w = Extent(c.begin, c.size) OBVIOUS
  <2>5. w \subseteq 0..(Space - 1) BY <2>4 DEF Records, Inbound
  <2>6. w \in SUBSET Int BY <2>5
  <2>7. PICK r : r = [q EXCEPT !.pc = "chip", !.bytes = w, !.num = i] OBVIOUS
  <2>8. "chip" \in Places BY DEF Places, Handling
  <2>9. /\ r \in Thread /\ Same(r, q) /\ r.pc = "chip" /\ r.loc = c /\ r.old = q.old
        /\ r.bytes = w /\ r.num = i
    BY <1>3, <1>4, <2>3, <2>6, <2>7, <2>8 DEF Thread, Same
  <2>10. Fit(r) BY <1>3, <2>5, <2>9 DEF Fit, Same, Creating, Linking, Copying
  <2>11. i \in Matching(c.hash, c.size)' BY <2>2, <2>3 DEF Matching, Typed
  <2>12. Extent(c.begin, c.size)' = w BY <2>4 DEF Extent, Bytes, AlignUp
  <2>13. Refers(r)' BY <2>9, <2>11, <2>12 DEF Refers
  <2>14. View(r, doc[o], cache[o]) BY <1>2, <1>3, <1>4, <2>9 DEF View, Same
  <2>15. th' = [th EXCEPT ![t] = r] BY <2>1, <2>4, <2>7
  <2> QED BY <1>1, <1>2, <2>3, <2>9, <2>10, <2>13, <2>14, <2>15, QuietAgrees
<1>6. CASE Goto(t, "new entry") /\ UNCHANGED entries
  <2>1. Typed BY <1>2, <1>6, TypedData
  <2>2. PICK r : r = [q EXCEPT !.pc = "new entry"] OBVIOUS
  <2>3. "new entry" \in Places BY DEF Places, Handling
  <2>4. r \in Thread /\ Same(r, q) /\ r.pc = "new entry" /\ r.loc = q.loc /\ r.old = q.old
    BY <1>3, <2>2, <2>3 DEF Thread, Same
  <2>5. Fit(r) /\ Refers(r)'
    BY <1>2, <1>3, <2>4 DEF Fit, Refers, Same, Creating, Linking, Copying
  <2>6. View(r, doc[o], cache[o]) BY <1>2, <1>3, <2>4 DEF View
  <2>7. th' = [th EXCEPT ![t] = r] BY <1>1, <1>6, <2>2 DEF Goto
  <2> QED BY <1>1, <1>2, <2>1, <2>4, <2>5, <2>6, <2>7, QuietAgrees
<1>7. \/ \E i \in Matching(c.hash, c.size) :
            /\ AddRef(i, o)
            /\ th' = [th EXCEPT ![t].pc = "chip", ![t].bytes = Extent(c.begin, c.size), ![t].num = i]
      \/ Goto(t, "new entry") /\ UNCHANGED entries
  BY <1>1, <1>4 DEF FindEntry, Oid, Loc
<1>8. \A i : [th EXCEPT ![t].pc = "chip", ![t].bytes = Extent(c.begin, c.size), ![t].num = i]
              = [th EXCEPT ![t] = [q EXCEPT !.pc = "chip", !.bytes = Extent(c.begin, c.size), !.num = i]]
  BY <1>1
<1> QED BY <1>5, <1>6, <1>7, <1>8

LEMMA InsertEntryAgrees ==
    ASSUME AInv, IInv', NEW t \in Threads, InsertEntry(t)
    PROVE  AInv'
<1>1. PICK o, q : o = th[t].oid /\ q = th[t] OBVIOUS
<1>2. q.pc = "new entry" /\ UNCHANGED <<doc, cache, lock, data>> BY <1>1 DEF InsertEntry, At
<1>3. /\ q \in Thread /\ Fit(q) /\ o \in Oids /\ View(q, doc[o], cache[o]) /\ q.op = "Complete"
      /\ doc[o] \in Documents \cup {None, Stub}
  BY <1>1, <1>2, Here DEF Fit
<1>4. PICK c \in Records : c = q.loc BY <1>2, <1>3 DEF Fit, Copying
<1>5. PICK e : e = [hash |-> c.hash, size |-> c.size, begin |-> c.begin, refs |-> 1, oids |-> {o}]
  OBVIOUS
<1>6. e \in Entry /\ e.hash = c.hash /\ e.size = c.size /\ e.begin = c.begin
  BY <1>3, <1>5 DEF Entry, Records, Inbound
<1>7. entries' = Append(entries, e) BY <1>1, <1>4, <1>5 DEF InsertEntry, Oid, Loc
<1>8. entries \in Seq(Entry) /\ DOMAIN entries = 1..Len(entries) /\ Len(entries) \in Nat
  BY LenProperties DEF AInv, Types
<1>9. /\ entries' \in Seq(Entry) /\ DOMAIN entries' = 1..(Len(entries) + 1)
      /\ \A i \in DOMAIN entries : entries'[i] = entries[i]
      /\ entries'[Len(entries) + 1] = e
  BY <1>6, <1>7, <1>8, AppendProperties, LenProperties
<1>10. Typed
  <2>1. \A i \in DOMAIN entries :
            /\ i \in DOMAIN entries' /\ entries'[i].begin = entries[i].begin
            /\ entries'[i].hash = entries[i].hash /\ entries'[i].size = entries[i].size
    BY <1>8, <1>9
  <2> QED BY <1>2, <1>9, <2>1 DEF Typed, data, AInv, Types
<1>11. PICK r : r = [q EXCEPT !.pc = "settle"] OBVIOUS
<1>12. "settle" \in Places BY DEF Places, Handling
<1>13. r \in Thread /\ Same(r, q) /\ r.pc = "settle" /\ r.loc = c /\ r.old = q.old
  BY <1>3, <1>4, <1>11, <1>12, AtPlace
<1>14. Fit(r) BY <1>3, <1>13 DEF Fit, Same, Creating, Linking, Copying
<1>15. Len(entries) + 1 \in Matching(c.hash, c.size)' BY <1>6, <1>8, <1>9 DEF Matching
<1>16. Refers(r)' BY <1>6, <1>9, <1>13, <1>15 DEF Refers
<1>17. Agrees(c, doc[o]) /\ doc[o] \in Documents /\ c.complete /\ ~q.old.complete
  BY <1>2, <1>3, <1>4, DocumentIsObject DEF View, Agrees
<1>18. InDoc(c) = [doc[o] EXCEPT !.begin = c.begin] BY <1>17, Moved DEF Agrees
<1>19. View(r, doc[o], cache[o]) BY <1>13, <1>17, <1>18 DEF View, Agrees
<1>20. th' = [th EXCEPT ![t] = r] BY <1>1, <1>11 DEF InsertEntry, Goto
<1> QED BY <1>1, <1>2, <1>10, <1>13, <1>14, <1>16, <1>19, <1>20, QuietAgrees

LEMMA AddChipAgrees ==
    ASSUME AInv, IInv', NEW t \in Threads, AddChip(t)
    PROVE  AInv'
<1>1. PICK o, q : o = th[t].oid /\ q = th[t] OBVIOUS
<1>2. q.pc = "chip" /\ UNCHANGED <<doc, cache, lock, entries, store, node>> BY <1>1 DEF AddChip, At
<1>3. /\ q \in Thread /\ Fit(q) /\ o \in Oids /\ View(q, doc[o], cache[o]) /\ Refers(q)
      /\ q.op \notin {"Create", "Link"} /\ doc[o] \in Documents \cup {None, Stub}
  BY <1>1, <1>2, Here, CallsInside DEF Copying, AInv, Types
<1>4. PICK c \in Records : c = q.loc BY <1>2, <1>3 DEF Fit, Copying
<1>5. Typed
  <2>1. free' = free \cup q.bytes /\ q.bytes \subseteq 0..(Space - 1)
    BY <1>1, <1>2, <1>3 DEF AddChip, Fit
  <2> QED BY <1>2, <2>1 DEF Typed, AInv, Types
<1>6. CASE q.op = "Complete"
  <2>1. q.num \in Matching(c.hash, c.size) BY <1>2, <1>3, <1>4, <1>6 DEF Refers
  <2>2. PICK f \in Entry : f = entries[q.num] /\ f.hash = c.hash /\ f.size = c.size
    BY <2>1, EntryAt DEF Matching
  <2>3. PICK b : b = f.begin OBVIOUS
  <2>4. b \in Begins /\ Extent(b, c.size) \subseteq 0..(Space - 1) BY <2>2, <2>3 DEF Entry, Inbound
  <2>5. PICK e : e = [c EXCEPT !.begin = b] OBVIOUS
  <2>6. /\ e \in Records /\ e.begin = b /\ e.hash = c.hash /\ e.size = c.size
        /\ e.complete = c.complete
    BY <2>4, <2>5 DEF Records, Inbound
  <2>7. PICK r : r = [q EXCEPT !.pc = "settle", !.loc = e] OBVIOUS
  <2>8. "settle" \in Places BY DEF Places, Handling
  <2>9. r \in Thread /\ Same(r, q) /\ r.pc = "settle" /\ r.loc = e /\ r.old = q.old
    BY <1>3, <2>6, <2>7, <2>8 DEF Thread, Same
  <2>10. Fit(r) BY <1>3, <1>6, <2>6, <2>9 DEF Fit, Same, Creating, Linking, Copying
  <2>11. q.num \in Matching(c.hash, c.size)' /\ entries'[q.num].begin = b
    BY <1>2, <2>1, <2>2, <2>3 DEF Matching
  <2>12. Refers(r)' BY <2>6, <2>9, <2>11 DEF Refers
  <2>13. Agrees(c, doc[o]) /\ doc[o] \in Documents /\ c.complete /\ ~q.old.complete
    BY <1>2, <1>3, <1>4, <1>6, DocumentIsObject DEF View, Agrees
  <2>14. InDoc(e) = [doc[o] EXCEPT !.begin = e.begin] BY <2>5, <2>6, <2>13, Moved DEF Agrees
  <2>15. View(r, doc[o], cache[o]) BY <2>6, <2>9, <2>13, <2>14 DEF View, Agrees
  <2>16. th' = [th EXCEPT ![t] = r]
    BY <1>1, <1>4, <1>6, <2>2, <2>3, <2>5, <2>7 DEF AddChip, Local, Loc
  <2> QED BY <1>1, <1>2, <1>5, <2>9, <2>10, <2>12, <2>15, <2>16, QuietAgrees
<1>7. CASE q.op # "Complete"
  <2>1. Goto(t, "leave") BY <1>1, <1>7 DEF AddChip
  <2> QED BY <1>1, <1>2, <1>3, <1>5, <2>1, LeavingAgrees
<1> QED BY <1>6, <1>7

LEMMA SettleAgrees ==
    ASSUME AInv, IInv', NEW t \in Threads, Settle(t)
    PROVE  AInv'
<1>1. PICK o, q : o = th[t].oid /\ q = th[t] OBVIOUS
<1>2. q.pc = "settle" /\ UNCHANGED <<cache, lock, entries, data>> BY <1>1 DEF Settle, At
<1>3. /\ q \in Thread /\ Fit(q) /\ o \in Oids /\ View(q, doc[o], cache[o]) /\ q.op = "Complete"
      /\ cache[o] \in Records \cup {None} /\ lock[o] /\ doc[o] \in Documents \cup {None, Stub}
  BY <1>1, <1>2, Here DEF Inside, Fit
<1>4. Typed BY <1>2, TypedData
<1>5. PICK c \in Records : c = q.loc BY <1>2, <1>3 DEF Fit, Copying
<1>6. c.complete /\ ~q.old.complete /\ IsObject(doc[o]) /\ InDoc(c) = [doc[o] EXCEPT !.begin = c.begin]
  BY <1>2, <1>3, <1>5 DEF View
<1>7. PICK d \in Documents : d = InDoc(c) BY DocumentIsObject
<1>8. doc' = [doc EXCEPT ![o] = d] BY <1>1, <1>5, <1>6, <1>7 DEF Settle, Oid, Loc, AInv, Types
<1>9. IsObject(d) /\ Agrees(c, d) /\ c # q.old BY <1>6, <1>7, DocumentIsObject DEF Agrees
<1>10. PICK r : r = [q EXCEPT !.pc = "leave"] OBVIOUS
<1>11. "leave" \in Places BY DEF Places, Handling
<1>12. r \in Thread /\ Same(r, q) /\ r.pc = "leave" /\ r.loc = c /\ r.old = q.old
  BY <1>3, <1>5, <1>10, <1>11, AtPlace
<1>13. Fit(r) /\ Refers(r)' BY <1>3, <1>12 DEF Fit, Refers, Same, Creating, Linking, Copying
<1>14. View(r, d, cache[o]) BY <1>9, <1>12 DEF View
<1>15. th' = [th EXCEPT ![t] = r] BY <1>1, <1>10 DEF Settle, Goto
<1>16. cache' = [cache EXCEPT ![o] = cache[o]] BY <1>2 DEF AInv, Types
<1>17. Becomes(t, o, r, d, cache[o])
  BY <1>1, <1>2, <1>3, <1>8, <1>12, <1>13, <1>14, <1>15, <1>16 DEF Becomes, Same
<1> QED BY <1>1, <1>2, <1>3, <1>4, <1>12, <1>17, StepAgrees DEF Same, Inside
-----------------------------------------------------------------------------
(***************************************************************************)
(* Calls, and what happens to memcached and to the nodes.                  *)
(***************************************************************************)
LEMMA TroubleAgrees ==
    ASSUME AInv, IInv',
           \/ NodeRestart \/ \E o \in Oids : CacheExpires(o)
           \/ \E t \in Threads : AllocateLost(t) \/ WriteLost(t)
    PROVE  AInv'
<1>1. CASE NodeRestart
  <2>1. <<>> \in Seq(Nat) BY EmptySeq
  <2>2. node' \in [Begins -> Seq(Nat)] BY <1>1, <2>1 DEF NodeRestart
  <2>3. Typed BY <1>1, <2>2 DEF NodeRestart, Typed, AInv, Types
  <2> QED BY <1>1, <2>3, NobodyMovesAgrees DEF NodeRestart
<1>2. CASE \E o \in Oids : CacheExpires(o)
  <2>1. Typed BY <1>2, TypedData DEF CacheExpires
  <2> QED BY <1>2, <2>1, NobodyMovesAgrees DEF CacheExpires
<1>3. ASSUME NEW t \in Threads, AllocateLost(t) PROVE AInv'
  <2>1. free' \subseteq 0..(Space - 1) BY <1>3 DEF AllocateLost, AInv, Types
  <2>2. Typed BY <1>3, <2>1 DEF AllocateLost, Typed, AInv, Types
  <2> QED BY <1>3, <2>2, NobodyMovesAgrees DEF AllocateLost
<1>4. ASSUME NEW t \in Threads, WriteLost(t) PROVE AInv'
  <2>1. Typed BY <1>4, WriteDataTyped DEF WriteLost
  <2> QED BY <1>4, <2>1, NobodyMovesAgrees DEF WriteLost
<1> QED BY <1>1, <1>2, <1>3, <1>4

\* A call reaches a thread: it sees the document as it is.
LEMMA CallAgrees ==
    ASSUME AInv, IInv', ~Eager, NEW t \in Threads, NEW o \in Oids,
           NEW op \in Handlers, NEW arg \in Args, NEW l \in {"insert", "link", "lock"},
           Call(t, o, op, arg, l),
           l = "insert" <=> op = "Create", l = "link" <=> op = "Link",
           op \in {"Create", "Resize"} => arg \in Sizes, op = "Write" => arg \in Writes,
           op = "Link" => arg \in HashAndSize
    PROVE  AInv'
<1>1. PICK r : r = [Idle EXCEPT !.op = op, !.oid = o, !.pc = l, !.arg = arg] OBVIOUS
<1>2. th' = [th EXCEPT ![t] = r] /\ UNCHANGED <<doc, entries, cache, lock, data>>
  BY <1>1 DEF Call
<1>3. l \in Places /\ l # "idle" BY DEF Places, Creating, Linking, Handling
<1>4. r \in Thread /\ r.op = op /\ r.oid = o /\ r.pc = l /\ r.arg = arg /\ r.loc = r.old
  <2>1. Idle \in Thread BY IdleRecord
  <2>2. Idle.loc = Idle.old BY DEF Idle
  <2> QED BY <1>1, <1>3, <2>1, <2>2 DEF Thread
<1>5. Fit(r) /\ Refers(r)'
  <2>1. op # "" BY DEF Handlers
  <2>2. l \in Creating <=> op = "Create" BY DEF Creating
  <2>3. l \in Linking <=> op = "Link" BY DEF Linking
  <2> QED BY <1>3, <1>4, <2>1, <2>2, <2>3 DEF Fit, Refers, Copying
<1>6. \A d, c : View(r, d, c) BY <1>4 DEF View
<1>7. Typed BY <1>2, TypedData
<1>8. th'[t] = r /\ \A u \in Threads \ {t} : th'[u] = th[u] BY <1>2 DEF AInv, Types
<1>9. Types'
  <2>1. th' \in [Threads -> Thread] BY <1>2, <1>4 DEF AInv, Types
  <2>2. ASSUME NEW u \in Threads PROVE Fit(th'[u]) /\ Refers(th[u])'
    <3>1. CASE u = t BY <1>5, <1>8, <3>1
    <3>2. CASE u # t BY <1>7, <1>8, <3>2, ReferencesStay DEF AInv, Types
    <3> QED BY <3>1, <3>2
  <2> QED BY <1>2, <1>7, <2>1, <2>2 DEF Types, Typed, AInv
<1>10. Alone'
  <2>1. ASSUME NEW u \in Threads, th[u].oid = o, op \in {"Create", "Link"} PROVE th[u].op = ""
    <3>1. th[u].op \in Handlers \cup {""} BY DEF AInv, Types, Thread
    <3>2. th[u].op \notin Handlers BY <2>1 DEF Call, MayCall, Busy, Oid
    <3> QED BY <3>1, <3>2
  <2>2. ASSUME NEW u \in Threads, th[u].oid = o, op \notin {"Create", "Link"}
        PROVE  th[u].op \notin {"Create", "Link"}
    BY <2>2 DEF Call, MayCall, Busy, Oid
  <2> SUFFICES ASSUME NEW u \in Threads, NEW v \in Threads, u # v,
                      th'[u].op \in {"Create", "Link"}, th'[v].oid = th'[u].oid
               PROVE  th'[v].op = ""
    BY DEF Alone
  <2>3. CASE u = t
    <3>1. op \in {"Create", "Link"} /\ th'[v] = th[v] /\ th[v].oid = o BY <1>4, <1>8, <2>3
    <3>2. th[v].op = "" BY <2>1, <3>1
    <3> QED BY <3>1, <3>2
  <2>4. CASE v = t
    <3>1. th'[u] = th[u] /\ th[u].op \in {"Create", "Link"} /\ th[u].oid = o BY <1>4, <1>8, <2>4
    <3>2. CASE op \in {"Create", "Link"}
      <4>1. th[u].op = "" BY <2>1, <3>1, <3>2
      <4> QED BY <3>1, <4>1
    <3>3. CASE op \notin {"Create", "Link"}
      <4>1. th[u].op \notin {"Create", "Link"} BY <2>2, <3>1, <3>3
      <4> QED BY <3>1, <4>1
    <3> QED BY <3>2, <3>3
  <2>5. CASE u # t /\ v # t BY <1>8, <2>5 DEF AInv, Alone
  <2> QED BY <2>3, <2>4, <2>5
<1>11. Views'
  <2>1. \A p \in Oids : ~lock'[p] => CacheOK(doc'[p], cache'[p]) BY <1>2 DEF AInv, Views
  <2>2. ASSUME NEW u \in Threads, th'[u].oid \in Oids
        PROVE  View(th'[u], doc'[th'[u].oid], cache'[th'[u].oid])
    <3>1. CASE u = t BY <1>6, <1>8, <3>1
    <3>2. CASE u # t BY <1>2, <1>8, <2>2, <3>2 DEF AInv, Views
    <3> QED BY <3>1, <3>2
  <2> QED BY <2>1, <2>2 DEF Views
<1> QED BY <1>9, <1>10, <1>11 DEF AInv

LEMMA CallsAgree ==
    ASSUME AInv, IInv', ~Eager, NEW t \in Threads, Calls(t)
    PROVE  AInv'
<1>1. PICK o \in Oids : \/ CallCreate(t, o) \/ CallLink(t, o) \/ CallWrite(t, o)
                        \/ CallResize(t, o) \/ CallOther(t, o)
  BY DEF Calls
<1>2. CASE CallCreate(t, o)
  <2>1. PICK n \in Sizes : Call(t, o, "Create", n, "insert") BY <1>2 DEF CallCreate
  <2> QED BY <2>1, CallAgrees DEF Handlers, Args
<1>3. CASE CallLink(t, o)
  <2>1. PICK e \in Range(entries) \cup {[hash |-> <<>>, size |-> 1]} :
             Call(t, o, "Link", [hash |-> e.hash, size |-> e.size], "link")
    BY <1>3 DEF CallLink
  <2>2. [hash |-> e.hash, size |-> e.size] \in HashAndSize
    <3>1. CASE e \in Range(entries)
      <4>1. PICK i \in DOMAIN entries : e = entries[i] BY <3>1 DEF Range
      <4>2. e \in Entry BY <4>1, EntryAt
      <4> QED BY <4>2 DEF Entry, Inbound, HashAndSize
    <3>2. CASE e = [hash |-> <<>>, size |-> 1]
      <4>1. <<>> \in Seq(Nat) BY EmptySeq
      <4> QED BY <3>2, <4>1 DEF HashAndSize
    <3> QED BY <3>1, <3>2
  <2>3. PICK a \in HashAndSize : Call(t, o, "Link", a, "link") BY <2>1, <2>2
  <2> QED BY <2>3, CallAgrees DEF Handlers, Args
<1>4. CASE CallWrite(t, o)
  <2>1. PICK w \in Writes : Call(t, o, "Write", w, "lock") BY <1>4 DEF CallWrite
  <2> QED BY <2>1, CallAgrees DEF Handlers, Args
<1>5. CASE CallResize(t, o)
  <2>1. PICK n \in Sizes : Call(t, o, "Resize", n, "lock") BY <1>5 DEF CallResize
  <2> QED BY <2>1, CallAgrees DEF Handlers, Args
<1>6. CASE CallOther(t, o)
  <2>1. PICK op \in {"Complete", "Delete", "Read", "Info"} : Call(t, o, op, None, "lock")
    BY <1>6 DEF CallOther
  <2>2. op \in Handlers \ {"Create", "Link", "Write", "Resize"} /\ None \in Args
    BY DEF Handlers, Args
  <2> QED BY <2>1, <2>2, CallAgrees
<1> QED BY <1>1, <1>2, <1>3, <1>4, <1>5, <1>6
-----------------------------------------------------------------------------
\* A document that was there before has its type.
LEMMA LayoutDocuments ==
    ASSUME NEW l \in Layouts, NEW o \in Oids, l[o] # None
    PROVE  Object(l[o].begin, l[o].size) \in Documents
<1>1. /\ l[o].begin \in Begins /\ l[o].size \in Nat \ {0}
      /\ Extent(l[o].begin, l[o].size) \subseteq 0..(Space - 1)
  BY DataAssumption
<1>2. <<>> \in Seq(Nat) BY EmptySeq
<1> QED BY <1>1, <1>2 DEF Object, Documents, Inbound

LEMMA InitAgrees == Init => AInv
<1> SUFFICES ASSUME Init PROVE AInv OBVIOUS
<1>1. th = [t \in Threads |-> Idle] /\ cache = [o \in Oids |-> None] /\ entries = <<>>
  BY Zenon DEF Init
<1>2. store = [b \in 0..(Space - 1) |-> 0] /\ node = [b \in Begins |-> <<>>]
  BY Zenon DEF Init
<1>3. PICK l \in Layouts :
        /\ doc = [o \in Oids |-> IF l[o] = None THEN None ELSE Object(l[o].begin, l[o].size)]
        /\ free = (0..(Space - 1)) \ UNION {Extent(l[o].begin, l[o].size) : o \in {p \in Oids : l[p] # None}}
  BY Zenon DEF Init
<1>4. doc \in [Oids -> Documents \cup {None, Stub}] BY <1>3, LayoutDocuments
<1>5. \A t \in Threads : th[t] = Idle BY <1>1
<1>6. Idle \in Thread /\ Fit(Idle) /\ Idle.pc = "idle" /\ Idle.op = "" BY IdleRecord
<1>7. Refers(Idle) BY <1>6 DEF Refers
<1>8. \A d, c : View(Idle, d, c) BY <1>6 DEF View
<1>9. Types
  <2>1. entries \in Seq(Entry) BY <1>1, EmptySeq
  <2>2. <<>> \in Seq(Nat) BY EmptySeq
  <2>3. node \in [Begins -> Seq(Nat)] BY <1>2, <2>2
  <2>4. store \in [0..(Space - 1) -> Nat] BY <1>2
  <2>5. th \in [Threads -> Thread] BY <1>1, <1>6
  <2>6. cache \in [Oids -> Records \cup {None}] BY <1>1
  <2>7. free \subseteq 0..(Space - 1) BY <1>3
  <2> QED BY <1>4, <1>5, <1>6, <1>7, <2>1, <2>3, <2>4, <2>5, <2>6, <2>7 DEF Types
<1>10. Alone BY <1>5, <1>6 DEF Alone
<1>11. Views
  <2>1. \A o \in Oids : CacheOK(doc[o], cache[o]) BY <1>1 DEF CacheOK
  <2> QED BY <1>5, <1>8, <2>1 DEF Views
<1> QED BY <1>9, <1>10, <1>11, InitInvariant DEF AInv

LEMMA StepKeepsAgreement == ASSUME ~Eager PROVE AInv /\ [Next]_vars => AInv'
<1> SUFFICES ASSUME AInv, [Next]_vars PROVE AInv'
  OBVIOUS
<1>1. IInv' BY StepInvariant DEF AInv
<1>2. CASE UNCHANGED vars
  <2>1. UNCHANGED data /\ entries' = entries BY <1>2 DEF vars, data
  <2>2. Typed BY <2>1, TypedData
  <2> QED BY <1>1, <1>2, <2>2, NobodyMovesAgrees DEF vars
<1>3. CASE NodeRestart \/ \E o \in Oids : CacheExpires(o)
  BY <1>1, <1>3, TroubleAgrees
<1>4. ASSUME NEW t \in Threads, Calls(t) \/ Step(t) \/ Trouble(t)
      PROVE  AInv'
  <2>1. CASE Calls(t) BY <1>1, <2>1, CallsAgree
  <2>2. CASE Insert(t) \/ Allocate(t) \/ AllocateFails(t) \/ Undo(t) \/ VolumeInfo(t)
    <3>1. entries' = entries /\ store' = store /\ node' = node /\ free' \subseteq free
      BY <2>2 DEF Insert, Allocate, AllocateFails, Undo, VolumeInfo, data
    <3>2. free' \subseteq 0..(Space - 1) BY <3>1 DEF AInv, Types
    <3>3. Typed BY <3>1, <3>2 DEF Typed, AInv, Types
    <3> QED BY <1>1, <2>2, <3>3, InsertAgrees, AllocateAgrees, UndoAgrees
  <2>3. CASE FillDocument(t) \/ LockNew(t) \/ CacheNew(t)
    <3>1. UNCHANGED data /\ entries' = entries BY <2>3 DEF FillDocument, LockNew, CacheNew
    <3>2. Typed BY <3>1, TypedData
    <3> QED BY <1>1, <2>3, <3>2, FillDocumentAgrees, LockNewAgrees, CacheNewAgrees
  <2>4. CASE Link(t) \/ LinkInsert(t) \/ LinkUpdate(t) \/ LinkUndo(t)
    BY <1>1, <2>4, LinkAgrees, LinkInsertAgrees, LinkUpdateAgrees, LinkUndoAgrees
  <2>5. CASE Lock(t) \/ LockTimeout(t) \/ Load(t) \/ Leave(t)
    BY <1>1, <2>5, LockAgrees, LockTimeoutAgrees, LoadAgrees, LeaveAgrees
  <2>6. CASE Refuse(t) \/ NodeFails(t) \/ AddChipFails(t) BY <1>1, <2>6, RefuseAgrees
  <2>7. CASE Write(t) \/ Read(t) \/ Resize(t) \/ AddChip(t)
    BY <1>1, <2>7, WriteAgrees, ReadAgrees, ResizeAgrees, AddChipAgrees
  <2>8. CASE CompleteWrite(t) \/ Seal(t) \/ FindEntry(t) \/ InsertEntry(t) \/ Settle(t)
    BY <1>1, <2>8, CompleteWriteAgrees, SealAgrees, FindEntryAgrees, InsertEntryAgrees, SettleAgrees
  <2>9. CASE DeleteDocument(t) \/ DeleteRef(t) \/ DeleteCache(t)
    BY <1>1, <2>9, DeleteDocumentAgrees, DeleteRefAgrees, DeleteCacheAgrees
  <2>10. CASE AllocateLost(t) \/ WriteLost(t) BY <1>1, <2>10, TroubleAgrees
  <2> QED
    BY <1>4, <2>1, <2>2, <2>3, <2>4, <2>5, <2>6, <2>7, <2>8, <2>9, <2>10 DEF Step, Trouble
<1> QED BY <1>2, <1>3, <1>4 DEF Next

\* Two of the failures that leave something half done: AddBlkChip done twice,
\* and a block that cannot be written after its data were hashed.
LEMMA FaultsAgree ==
    ASSUME AInv, NEW t \in Threads, AddChipRepeated(t) \/ WriteFails(t)
    PROVE  AInv'
<1>1. CASE AddChipRepeated(t)
  <2>1. IInv' BY <1>1, NothingMoves DEF AddChipRepeated, AInv
  <2>2. free' \subseteq 0..(Space - 1)
    <3>1. At(t, "chip") /\ free' = free \cup th[t].bytes BY <1>1 DEF AddChipRepeated
    <3>2. th[t].bytes \subseteq 0..(Space - 1) BY <3>1 DEF At, AInv, Types, Fit
    <3> QED BY <3>1, <3>2 DEF AInv, Types
  <2>3. Typed BY <1>1, <2>2 DEF AddChipRepeated, Typed, AInv, Types
  <2> QED BY <1>1, <2>1, <2>3, NobodyMovesAgrees DEF AddChipRepeated
<1>2. CASE WriteFails(t)
  <2>1. /\ Ready(t, "Write") /\ Arg(t).off < Loc(t).size /\ lock' = lock /\ Goto(t, "leave")
        /\ node' = Hashed(Loc(t), Arg(t).off, Written(t))
        /\ UNCHANGED <<doc, entries, cache, free, store>>
    BY <1>2 DEF WriteFails
  <2>2. StaysInside(t) BY <2>1, InsideStep DEF Ready, Inside, AInv, IInv
  <2>3. IInv' BY <2>2, StaysInsideKeeps DEF AInv
  <2>4. Typed
    <3>1. PICK d \in Seq(Nat), n \in Nat, c \in Records : d = Written(t) /\ n = Arg(t).off /\ c = Loc(t)
      BY <2>1, WrittenTyped
    <3>2. c.begin \in Begins BY DEF Records, Inbound
    <3>3. node' = [node EXCEPT ![c.begin] = IF Len(@) = n THEN @ \o d ELSE @]
      BY <2>1, <3>1 DEF Hashed
    <3>4. node[c.begin] \in Seq(Nat) BY <3>2 DEF AInv, Types
    <3>5. node[c.begin] \o d \in Seq(Nat) BY <3>4, ConcatProperties
    <3>6. node' \in [Begins -> Seq(Nat)] BY <3>2, <3>3, <3>4, <3>5 DEF AInv, Types
    <3> QED BY <2>1, <3>6 DEF Typed, AInv, Types
  <2>5. th[t].pc \in {"loaded", "chip"} /\ th[t].op \notin {"Create", "Link"}
    BY <2>1 DEF Ready, At
  <2> QED BY <2>1, <2>3, <2>4, <2>5, LeavingAgrees
<1> QED BY <1>1, <1>2

LEMMA FaultyStepKeepsAgreement ==
    ASSUME ~Eager, ~Careless, Faults \subseteq {"chip repeated", "block"}
    PROVE  AInv /\ [FaultyNext]_vars => AInv'
<1> SUFFICES ASSUME AInv, [FaultyNext]_vars PROVE AInv'
  OBVIOUS
<1>1. CASE [Next]_vars BY <1>1, StepKeepsAgreement
<1>2. ASSUME NEW t \in Threads,
             \/ DeleteIncomplete(t) \/ VolumeInfoFails(t) \/ GiveBackNew(t)
             \/ AddChipRepeated(t) \/ ResizeFails(t) \/ WriteFails(t) \/ Die(t)
      PROVE  AInv'
  <2>1. ~GiveBackNew(t)
    <3>1. th[t].pc \in Places BY DEF AInv, Types, Thread
    <3> QED BY <3>1 DEF GiveBackNew, At, Places, Creating, Linking, Handling
  <2>2. ~(DeleteIncomplete(t) \/ VolumeInfoFails(t) \/ ResizeFails(t) \/ Die(t))
    BY DEF DeleteIncomplete, VolumeInfoFails, ResizeFails, Die
  <2> QED BY <1>2, <2>1, <2>2, FaultsAgree
<1>3. ~(\E o \in Oids : LockExpires(o)) BY DEF LockExpires
<1> QED BY <1>1, <1>2, <1>3 DEF FaultyNext

(***************************************************************************)
(* A handler that finds an object's record in memcached may take it for    *)
(* the document: while the object is not locked the two agree, whichever   *)
(* handlers ran on it before (cache_perception in bffs_memcache.cpp), when *)
(*  - clients do not use an object while it is being made (~Eager) and     *)
(*    delete only completed ones (~Careless);                              *)
(*  - AllocateBlks, AddBlkChip and calls of the storage node may fail, and *)
(*    may be repeated after they were done; the storage node may hash data *)
(*    that it cannot write; nodes start again; records expire.             *)
(* These failures are excluded, and the first two of them break it:        *)
(* GetVolumeInfo fails after the record was stored (bfss_api.cpp:172); the *)
(* update of MongoDB in ResizeObject throws (line 640); a lock expires; a  *)
(* server dies.                                                            *)
(***************************************************************************)
THEOREM CacheAgreesWithDocument ==
    ASSUME ~Eager, ~Careless, Faults \subseteq {"chip repeated", "block"}
    PROVE  FaultySpec => []CacheAgrees
<1>1. AInv => CacheAgrees BY DEF AInv, Views, CacheOK, CacheAgrees
<1>2. Init => AInv BY InitAgrees
<1>3. AInv /\ [FaultyNext]_vars => AInv' BY FaultyStepKeepsAgreement
<1> QED BY <1>1, <1>2, <1>3, PTL DEF FaultySpec
-----------------------------------------------------------------------------
(***************************************************************************)
(* Who may use which bytes: RegM's free ones, entries, objects, and threads*)
(* that have an extent of a new object, or bytes to give back, in hand.    *)
(***************************************************************************)
InHand(t) == IF At(t, "update") THEN Extent(th[t].num, Arg(t))
             ELSE IF At(t, "chip") /\ th[t].op = "Resize" THEN th[t].bytes ELSE {}

Claimants == {<<"free", 0>>} \cup ({"entry"} \X Nat) \cup ({"object"} \X Oids) \cup ({"thread"} \X Threads)
Claim(k)  == CASE k[1] = "free"   -> free
               [] k[1] = "entry"  -> IF k[2] \in DOMAIN entries THEN EntryBytes(k[2]) ELSE {}
               [] k[1] = "object" -> IF k[2] \in Private THEN OwnBytes(k[2]) ELSE {}
               [] k[1] = "thread" -> InHand(k[2])

Owned == \A k, l \in Claimants : k # l => Claim(k) \cap Claim(l) = {}

\* An object whose extent CompleteObject is about to exchange has one of its own.
Unshared(r) ==
    r.pc \in {"entry", "new entry"} \/ (r.pc = "chip" /\ r.op = "Complete") =>
        \A i \in Matching(r.loc.hash, r.loc.size) : entries[i].begin # r.loc.begin

SInv == AInv /\ Owned /\ \A t \in Threads : Unshared(th[t])

-----------------------------------------------------------------------------
LEMMA Claims ==
    /\ <<"free", 0>> \in Claimants /\ Claim(<<"free", 0>>) = free
    /\ \A i \in Nat : /\ <<"entry", i>> \in Claimants
                      /\ Claim(<<"entry", i>>) = IF i \in DOMAIN entries THEN EntryBytes(i) ELSE {}
    /\ \A o \in Oids : /\ <<"object", o>> \in Claimants
                       /\ Claim(<<"object", o>>) = IF o \in Private THEN OwnBytes(o) ELSE {}
    /\ \A t \in Threads : /\ <<"thread", t>> \in Claimants /\ Claim(<<"thread", t>>) = InHand(t)
<1>1. <<"free", 0>> \in Claimants /\ Claim(<<"free", 0>>) = free BY DEF Claimants, Claim
<1>2. \A i \in Nat : /\ <<"entry", i>> \in Claimants
                     /\ Claim(<<"entry", i>>) = IF i \in DOMAIN entries THEN EntryBytes(i) ELSE {}
  BY DEF Claimants, Claim
<1>3. \A o \in Oids : /\ <<"object", o>> \in Claimants
                      /\ Claim(<<"object", o>>) = IF o \in Private THEN OwnBytes(o) ELSE {}
  BY DEF Claimants, Claim
<1>4. \A t \in Threads : <<"thread", t>> \in Claimants /\ Claim(<<"thread", t>>) = InHand(t)
  BY DEF Claimants, Claim
<1> QED BY <1>1, <1>2, <1>3, <1>4

\* The same after a step.
LEMMA ClaimsNext ==
    /\ Claim(<<"free", 0>>)' = free'
    /\ \A i \in Nat : Claim(<<"entry", i>>)' = IF i \in DOMAIN entries' THEN EntryBytes(i)' ELSE {}
    /\ \A o \in Oids : Claim(<<"object", o>>)' = IF o \in Private' THEN OwnBytes(o)' ELSE {}
    /\ \A t \in Threads : Claim(<<"thread", t>>)' = InHand(t)'
<1>1. Claim(<<"free", 0>>)' = free' BY DEF Claim
<1>2. \A i \in Nat : Claim(<<"entry", i>>)' = IF i \in DOMAIN entries' THEN EntryBytes(i)' ELSE {}
  BY DEF Claim
<1>3. \A o \in Oids : Claim(<<"object", o>>)' = IF o \in Private' THEN OwnBytes(o)' ELSE {}
  BY DEF Claim
<1>4. \A t \in Threads : Claim(<<"thread", t>>)' = InHand(t)' BY DEF Claim
<1> QED BY <1>1, <1>2, <1>3, <1>4

LEMMA KindOfClaimant ==
    ASSUME NEW k \in Claimants
    PROVE  \/ k = <<"free", 0>>
           \/ \E i \in Nat : k = <<"entry", i>>
           \/ \E o \in Oids : k = <<"object", o>>
           \/ \E t \in Threads : k = <<"thread", t>>
BY DEF Claimants

\* Three claimants may hand bytes to each other.
LEMMA HandOver ==
    ASSUME Owned, NEW a \in Claimants, NEW b \in Claimants, NEW c \in Claimants,
           \A k \in Claimants \ {a, b, c} : Claim(k)' \subseteq Claim(k),
           Claim(a)' \cup Claim(b)' \cup Claim(c)' \subseteq Claim(a) \cup Claim(b) \cup Claim(c),
           Claim(a)' \cap Claim(b)' = {}, Claim(a)' \cap Claim(c)' = {}, Claim(b)' \cap Claim(c)' = {}
    PROVE  Owned'
<1> SUFFICES ASSUME NEW k \in Claimants, NEW l \in Claimants, k # l,
                    NEW x \in Claim(k)' \cap Claim(l)'
             PROVE  FALSE
  BY DEF Owned, Claimants
<1>1. \A m, n \in Claimants : x \in Claim(m) /\ x \in Claim(n) => m = n BY DEF Owned
<1>2. ASSUME NEW m \in {a, b, c}, NEW n \in Claimants \ {a, b, c}, x \in Claim(m)', x \in Claim(n)'
      PROVE  FALSE
  <2>1. x \in Claim(n) BY <1>2
  <2>2. x \in Claim(a) \/ x \in Claim(b) \/ x \in Claim(c) BY <1>2
  <2> QED BY <1>1, <2>1, <2>2
<1>3. CASE k \in {a, b, c} /\ l \in {a, b, c} BY <1>3
<1>4. CASE k \in {a, b, c} /\ l \notin {a, b, c} BY <1>2, <1>4
<1>5. CASE k \notin {a, b, c} /\ l \in {a, b, c} BY <1>2, <1>5
<1>6. CASE k \notin {a, b, c} /\ l \notin {a, b, c}
  <2>1. x \in Claim(k) /\ x \in Claim(l) BY <1>6
  <2> QED BY <1>1, <2>1
<1> QED BY <1>3, <1>4, <1>5, <1>6

LEMMA NobodyGains ==
    ASSUME Owned, \A k \in Claimants : Claim(k)' \subseteq Claim(k)
    PROVE  Owned'
<1> SUFFICES ASSUME NEW k \in Claimants, NEW l \in Claimants, k # l,
                    NEW x \in Claim(k)' \cap Claim(l)'
             PROVE  FALSE
  BY DEF Owned, Claimants
<1>1. x \in Claim(k) /\ x \in Claim(l) OBVIOUS
<1> QED BY <1>1 DEF Owned
-----------------------------------------------------------------------------
(***************************************************************************)
(* A step of one thread on one object, for the others.                     *)
(***************************************************************************)
Kept == \A i \in DOMAIN entries : /\ i \in DOMAIN entries' /\ entries'[i].begin = entries[i].begin
                                  /\ entries'[i].hash = entries[i].hash
                                  /\ entries'[i].size = entries[i].size

LEMMA ObjectKeeps ==
    ASSUME Kept, NEW o \in Oids, doc'[o] = doc[o] \/ ~IsObject(doc'[o]),
           GivenBack(o) => GivenBack(o)'
    PROVE  Claim(<<"object", o>>)' \subseteq Claim(<<"object", o>>)
<1>1. o \in Private' => doc'[o] = doc[o] /\ IsObject(doc[o]) BY DEF Private, Objects, IsObject
<1>2. o \in Private' => ~GivenBack(o) BY DEF Private
<1>3. doc'[o] = doc[o] /\ InEntry(o) => InEntry(o)' BY DEF InEntry, Matching, Kept
<1>4. o \in Private' => o \in Private BY <1>1, <1>2, <1>3 DEF Private, Objects, IsObject
<1>5. doc'[o] = doc[o] => OwnBytes(o)' = OwnBytes(o) BY DEF OwnBytes, Extent, Bytes, AlignUp
<1> QED BY <1>1, <1>4, <1>5, Claims, ClaimsNext

LEMMA EntriesKeep ==
    ASSUME AInv, Kept, DOMAIN entries' = DOMAIN entries, NEW i \in Nat
    PROVE  Claim(<<"entry", i>>)' = Claim(<<"entry", i>>)
<1>1. i \in DOMAIN entries => EntryBytes(i)' = EntryBytes(i)
  BY DEF EntryBytes, Extent, Bytes, AlignUp, Kept
<1> QED BY <1>1, Claims, ClaimsNext

LEMMA ThreadKeeps ==
    ASSUME NEW t \in Threads, th'[t] = th[t]
    PROVE  Claim(<<"thread", t>>)' = Claim(<<"thread", t>>)
<1>1. InHand(t)' = InHand(t) BY DEF InHand, At, Arg, Extent, Bytes, AlignUp
<1> QED BY <1>1, Claims, ClaimsNext

\* Thread t does something to object o and to no other.
Acts(t, o) == /\ \A u \in Threads \ {t} : th'[u] = th[u]
              /\ th[t].pc = "settle" => th[t].oid = o
              /\ \A p \in Oids \ {o} : doc'[p] = doc[p]
              /\ Kept

LEMMA OthersKeep ==
    ASSUME AInv, NEW t \in Threads, NEW o \in Oids, Acts(t, o)
    PROVE  /\ \A p \in Oids \ {o} : Claim(<<"object", p>>)' \subseteq Claim(<<"object", p>>)
           /\ \A u \in Threads \ {t} : Claim(<<"thread", u>>)' = Claim(<<"thread", u>>)
<1>1. ASSUME NEW p \in Oids \ {o} PROVE Claim(<<"object", p>>)' \subseteq Claim(<<"object", p>>)
  <2>1. ASSUME GivenBack(p) PROVE GivenBack(p)'
    <3>1. PICK u \in Threads : Oid(u) = p /\ At(u, "settle") BY <2>1 DEF GivenBack
    <3>2. u # t BY <3>1 DEF Acts, Oid, At
    <3>3. th'[u] = th[u] BY <3>2 DEF Acts
    <3> QED BY <3>1, <3>3 DEF GivenBack, Oid, At
  <2> QED BY <2>1, ObjectKeeps DEF Acts
<1>2. \A u \in Threads \ {t} : Claim(<<"thread", u>>)' = Claim(<<"thread", u>>)
  BY ThreadKeeps DEF Acts
<1> QED BY <1>1, <1>2

\* Nobody gains but the free bytes, o and t, when no entry is added.
LEMMA ThreeMayGain ==
    ASSUME AInv, NEW t \in Threads, NEW o \in Oids, Acts(t, o), DOMAIN entries' = DOMAIN entries,
           NEW k \in Claimants, k \notin {<<"free", 0>>, <<"object", o>>, <<"thread", t>>}
    PROVE  Claim(k)' \subseteq Claim(k)
<1>1. k # <<"free", 0>> OBVIOUS
<1>2. CASE \E i \in Nat : k = <<"entry", i>> BY <1>2, EntriesKeep DEF Acts
<1>3. CASE \E p \in Oids : k = <<"object", p>> BY <1>3, OthersKeep
<1>4. CASE \E u \in Threads : k = <<"thread", u>> BY <1>4, OthersKeep
<1> QED BY <1>1, <1>2, <1>3, <1>4, KindOfClaimant

LEMMA UnsharedKeeps ==
    ASSUME SInv, NEW t \in Threads, NEW o \in Oids, Acts(t, o),
           DOMAIN entries' = DOMAIN entries, Unshared(th[t])'
    PROVE  \A u \in Threads : Unshared(th[u])'
<1> SUFFICES ASSUME NEW u \in Threads PROVE Unshared(th[u])' OBVIOUS
<1>1. CASE u = t BY <1>1
<1>2. CASE u # t
  <2>1. th'[u] = th[u] /\ Unshared(th[u]) BY <1>2 DEF Acts, SInv
  <2>2. ASSUME NEW h, NEW n
        PROVE \A i \in Matching(h, n)' : i \in Matching(h, n) /\ entries'[i].begin = entries[i].begin
    BY DEF Matching, Acts, Kept
  <2>3. PICK r : r = th[u] OBVIOUS
  <2>4. Unshared(r) BY <2>1, <2>3
  <2>5. ASSUME NEW i \in Matching(r.loc.hash, r.loc.size)', i \in Matching(r.loc.hash, r.loc.size),
               entries[i].begin # r.loc.begin
        PROVE  entries'[i].begin # r.loc.begin
    BY <2>2, <2>5
  <2>6. Unshared(r)' BY <2>2, <2>4, <2>5 DEF Unshared
  <2>7. th'[u] = r BY <2>1, <2>3
  <2> QED BY <2>6, <2>7 DEF Unshared
<1> QED BY <1>1, <1>2

\* The three may give bytes to each other.
LEMMA Exchange ==
    ASSUME SInv, AInv', NEW t \in Threads, NEW o \in Oids, Acts(t, o),
           DOMAIN entries' = DOMAIN entries, Unshared(th[t])',
           free' \cup Claim(<<"object", o>>)' \cup InHand(t)'
               \subseteq free \cup Claim(<<"object", o>>) \cup InHand(t),
           free' \cap Claim(<<"object", o>>)' = {}, free' \cap InHand(t)' = {},
           Claim(<<"object", o>>)' \cap InHand(t)' = {}
    PROVE  SInv'
<1>1. PICK a, b, c : a = <<"free", 0>> /\ b = <<"object", o>> /\ c = <<"thread", t>> OBVIOUS
<1>2. a \in Claimants /\ b \in Claimants /\ c \in Claimants BY <1>1, Claims
<1>3. /\ Claim(a) = free /\ Claim(b) = Claim(<<"object", o>>) /\ Claim(c) = InHand(t)
  BY <1>1, Claims
<1>4. \A k \in Claimants \ {a, b, c} : Claim(k)' \subseteq Claim(k)
  BY <1>1, ThreeMayGain DEF SInv
<1>5. /\ Claim(a)' = free' /\ Claim(b)' = Claim(<<"object", o>>)' /\ Claim(c)' = InHand(t)'
  BY <1>1, ClaimsNext
<1>6. /\ Claim(a)' \cup Claim(b)' \cup Claim(c)' \subseteq Claim(a) \cup Claim(b) \cup Claim(c)
      /\ Claim(a)' \cap Claim(b)' = {} /\ Claim(a)' \cap Claim(c)' = {} /\ Claim(b)' \cap Claim(c)' = {}
  BY <1>3, <1>5
<1>7. Owned' BY <1>2, <1>4, <1>6, HandOver DEF SInv
<1> QED BY <1>7, UnsharedKeeps DEF SInv

\* What they had before was disjoint.
LEMMA ThreeAreDisjoint ==
    ASSUME SInv, NEW t \in Threads, NEW o \in Oids
    PROVE  /\ free \cap Claim(<<"object", o>>) = {} /\ free \cap InHand(t) = {}
           /\ Claim(<<"object", o>>) \cap InHand(t) = {}
<1>1. PICK a, b, c : a = <<"free", 0>> /\ b = <<"object", o>> /\ c = <<"thread", t>> OBVIOUS
<1>2. a \in Claimants /\ b \in Claimants /\ c \in Claimants BY <1>1, Claims
<1>3. a # b /\ a # c /\ b # c BY <1>1
<1>4. /\ Claim(a) = free /\ Claim(b) = Claim(<<"object", o>>) /\ Claim(c) = InHand(t)
  BY <1>1, Claims
<1> QED BY <1>2, <1>3, <1>4 DEF Owned, SInv

\* Nobody gains.
LEMMA NoTransfer ==
    ASSUME SInv, AInv', NEW t \in Threads, NEW o \in Oids, Acts(t, o),
           DOMAIN entries' = DOMAIN entries, Unshared(th[t])',
           free' \subseteq free, InHand(t)' = {},
           Claim(<<"object", o>>)' \subseteq Claim(<<"object", o>>)
    PROVE  SInv'
<1>1. Claim(<<"free", 0>>)' \subseteq Claim(<<"free", 0>>) BY Claims, ClaimsNext
<1>2. Claim(<<"thread", t>>)' \subseteq Claim(<<"thread", t>>) BY ClaimsNext
<1>3. \A k \in Claimants : Claim(k)' \subseteq Claim(k) BY <1>1, <1>2, ThreeMayGain DEF SInv
<1>4. Owned' BY <1>3, NobodyGains DEF SInv
<1> QED BY <1>4, UnsharedKeeps DEF SInv

\* The step when the document stays, or goes, and t is not at a place with a claim.
Plain == {"idle", "insert", "alloc", "undo", "undo twice", "lock new", "cache new", "volume info",
          "link", "link insert", "link update", "link undo", "lock", "load", "loaded", "leave",
          "seal", "unref", "uncache"}
LEMMA PlainStep ==
    ASSUME SInv, AInv', NEW t \in Threads, NEW o \in Oids, Acts(t, o),
           DOMAIN entries' = DOMAIN entries, th[t].pc # "settle", th'[t].pc \in Plain,
           free' \subseteq free, doc'[o] = doc[o] \/ ~IsObject(doc'[o])
    PROVE  SInv'
<1>1. InHand(t)' = {} BY DEF InHand, At, Plain
<1>2. Unshared(th[t])' BY DEF Unshared, Plain
<1>3. ASSUME GivenBack(o) PROVE GivenBack(o)'
  <2>1. PICK u \in Threads : Oid(u) = o /\ At(u, "settle") BY <1>3 DEF GivenBack
  <2>2. u # t BY <2>1 DEF At
  <2>3. th'[u] = th[u] BY <2>2 DEF Acts
  <2> QED BY <2>1, <2>3 DEF GivenBack, Oid, At
<1>4. Claim(<<"object", o>>)' \subseteq Claim(<<"object", o>>) BY <1>3, ObjectKeeps DEF Acts
<1> QED BY <1>1, <1>2, <1>4, NoTransfer
-----------------------------------------------------------------------------
LEMMA EntriesStay ==
    ASSUME AInv, entries' = entries \/ \E i \in DOMAIN entries, o \in Oids :
                                           AddRef(i, o) \/ DropRef(i, o)
    PROVE  Kept /\ DOMAIN entries' = DOMAIN entries
<1>1. entries \in Seq(Entry) BY DEF AInv, Types
<1>2. CASE entries' = entries BY <1>2 DEF Kept
<1>3. ASSUME NEW i \in DOMAIN entries, NEW o \in Oids, AddRef(i, o) \/ DropRef(i, o)
      PROVE  Kept /\ DOMAIN entries' = DOMAIN entries
  BY <1>1, <1>3, RefsTyped DEF Kept
<1> QED BY <1>2, <1>3

\* Where a thread goes.
LEMMA WhereTo ==
    ASSUME AInv, NEW t \in Threads
    PROVE  /\ \A l : \/ Goto(t, l)
                     \/ \E v : See(t, l, v) \/ Number(t, l, v) \/ Local(t, l, v)
                     => th'[t].pc = l /\ \A u \in Threads \ {t} : th'[u] = th[u]
           /\ Answer(t) => th'[t].pc = "idle" /\ \A u \in Threads \ {t} : th'[u] = th[u]
<1>1. th \in [Threads -> Thread] /\ th[t] \in Thread BY DEF AInv, Types
<1>2. \A l : Goto(t, l) => th'[t].pc = l /\ \A u \in Threads \ {t} : th'[u] = th[u]
  BY <1>1 DEF Goto, Thread
<1>3. \A l, v : See(t, l, v) => th'[t].pc = l /\ \A u \in Threads \ {t} : th'[u] = th[u]
  BY <1>1 DEF See, Thread
<1>4. \A l, v : Number(t, l, v) => th'[t].pc = l /\ \A u \in Threads \ {t} : th'[u] = th[u]
  BY <1>1 DEF Number, Thread
<1>5. \A l, v : Local(t, l, v) => th'[t].pc = l /\ \A u \in Threads \ {t} : th'[u] = th[u]
  BY <1>1 DEF Local, Thread
<1>6. Answer(t) => th'[t].pc = "idle" /\ \A u \in Threads \ {t} : th'[u] = th[u]
  BY <1>1, IdleRecord DEF Answer
<1> QED BY <1>2, <1>3, <1>4, <1>5, <1>6

\* Most steps: the thread has no claim afterwards, and the document stays or goes.
LEMMA PlainSpace ==
    ASSUME SInv, AInv', NEW t \in Threads, th[t].pc \notin {"idle", "settle"},
           \/ Answer(t)
           \/ \E l \in Plain : \/ Goto(t, l)
                               \/ \E v : See(t, l, v) \/ Number(t, l, v) \/ Local(t, l, v),
           entries' = entries \/ \E i \in DOMAIN entries : AddRef(i, Oid(t)) \/ DropRef(i, Oid(t)),
           free' \subseteq free,
           doc' = doc \/ doc' = [doc EXCEPT ![Oid(t)] = None] \/ doc' = [doc EXCEPT ![Oid(t)] = Stub]
    PROVE  SInv'
<1>1. PICK o \in Oids : o = Oid(t) /\ o = th[t].oid BY Here DEF SInv, Oid
<1>2. Kept /\ DOMAIN entries' = DOMAIN entries BY <1>1, EntriesStay DEF SInv
<1>3. th'[t].pc \in Plain /\ \A u \in Threads \ {t} : th'[u] = th[u]
  BY WhereTo DEF SInv, Plain
<1>4. \A p \in Oids \ {o} : doc'[p] = doc[p] BY <1>1 DEF SInv, AInv, Types
<1>5. doc'[o] = doc[o] \/ ~IsObject(doc'[o]) BY <1>1, DocumentIsObject DEF SInv, AInv, Types
<1>6. Acts(t, o) BY <1>1, <1>2, <1>3, <1>4 DEF Acts
<1> QED BY <1>2, <1>3, <1>5, <1>6, PlainStep

LEMMA CreatingSpace ==
    ASSUME SInv, AInv', NEW t \in Threads,
           \/ Insert(t) \/ AllocateFails(t) \/ Undo(t) \/ LockNew(t) \/ CacheNew(t) \/ VolumeInfo(t)
           \/ LinkInsert(t) \/ LinkUndo(t) \/ LockTimeout(t) \/ Lock(t) \/ Leave(t)
    PROVE  SInv'
<1>1. th[t].pc \notin {"idle", "settle"}
  BY DEF Insert, AllocateFails, Undo, LockNew, CacheNew, VolumeInfo, LinkInsert, LinkUndo,
         LockTimeout, Lock, Leave, At
<1>2. Answer(t) \/ \E l \in Plain : Goto(t, l)
  BY DEF Insert, AllocateFails, Undo, LockNew, CacheNew, VolumeInfo, LinkInsert, LinkUndo,
         LockTimeout, Lock, Leave, Plain
<1>3. free' \subseteq free
  BY DEF Insert, AllocateFails, Undo, LockNew, CacheNew, VolumeInfo, LinkInsert, LinkUndo,
         LockTimeout, Lock, Leave, data
<1>4. doc' = doc \/ doc' = [doc EXCEPT ![Oid(t)] = None] \/ doc' = [doc EXCEPT ![Oid(t)] = Stub]
  BY DEF Insert, AllocateFails, Undo, LockNew, CacheNew, VolumeInfo, LinkInsert, LinkUndo,
         LockTimeout, Lock, Leave
<1>5. entries' = entries \/ \E i \in DOMAIN entries : AddRef(i, Oid(t)) \/ DropRef(i, Oid(t))
  <2>1. CASE LinkUndo(t)
    <3>1. DropRef(th[t].num, Oid(t)) /\ th[t].pc = "link undo" BY <2>1 DEF LinkUndo, At
    <3>2. th[t].num \in DOMAIN entries BY <3>1 DEF SInv, AInv, Types, Refers
    <3> QED BY <3>1, <3>2
  <2>2. CASE ~LinkUndo(t)
    BY <2>2 DEF Insert, AllocateFails, Undo, LockNew, CacheNew, VolumeInfo, LinkInsert,
                LockTimeout, Lock, Leave
  <2> QED BY <2>1, <2>2
<1> QED BY <1>1, <1>2, <1>3, <1>4, <1>5, PlainSpace

LEMMA HandlingSpace ==
    ASSUME SInv, AInv', NEW t \in Threads,
           \/ Refuse(t) \/ Write(t) \/ NodeFails(t) \/ Read(t) \/ AddChipFails(t)
           \/ DeleteDocument(t) \/ DeleteRef(t) \/ DeleteCache(t) \/ Link(t)
    PROVE  SInv'
<1>1. th[t].pc \notin {"idle", "settle"}
  BY DEF Refuse, Write, NodeFails, Read, AddChipFails, DeleteDocument, DeleteRef, DeleteCache,
         Link, Ready, At
<1>2. \/ Answer(t)
      \/ \E l \in Plain : Goto(t, l) \/ \E v : See(t, l, v) \/ Number(t, l, v) \/ Local(t, l, v)
  <2>1. CASE Read(t) BY <2>1 DEF Read, Plain
  <2>2. CASE Link(t) BY <2>2 DEF Link, Plain
  <2>3. CASE ~Read(t) /\ ~Link(t)
    BY <2>3 DEF Refuse, Write, NodeFails, AddChipFails, DeleteDocument, DeleteRef, DeleteCache, Plain
  <2> QED BY <2>1, <2>2, <2>3
<1>3. free' \subseteq free
  BY DEF Refuse, Write, WriteData, NodeFails, Read, AddChipFails, DeleteDocument, DeleteRef,
         DeleteCache, Link, data
<1>4. doc' = doc \/ doc' = [doc EXCEPT ![Oid(t)] = None]
  BY DEF Refuse, Write, NodeFails, Read, AddChipFails, DeleteDocument, DeleteRef, DeleteCache, Link
<1>5. entries' = entries \/ \E i \in DOMAIN entries : AddRef(i, Oid(t)) \/ DropRef(i, Oid(t))
  BY DEF Refuse, Write, NodeFails, Read, AddChipFails, DeleteDocument, DeleteRef, DeleteCache,
         Link, Matching
<1> QED BY <1>1, <1>2, <1>3, <1>4, <1>5, PlainSpace

\* Nobody moves.
LEMMA NobodyMovesSpace ==
    ASSUME SInv, AInv', UNCHANGED <<doc, entries, th>>, free' \subseteq free
    PROVE  SInv'
<1>1. Kept /\ DOMAIN entries' = DOMAIN entries BY DEF Kept
<1>2. \A o \in Oids : GivenBack(o) => GivenBack(o)' BY DEF GivenBack, Oid, At
<1>3. ASSUME NEW k \in Claimants PROVE Claim(k)' \subseteq Claim(k)
  <2>1. CASE k = <<"free", 0>> BY <2>1, Claims, ClaimsNext
  <2>2. CASE \E i \in Nat : k = <<"entry", i>> BY <1>1, <2>2, EntriesKeep DEF SInv
  <2>3. CASE \E o \in Oids : k = <<"object", o>> BY <1>1, <1>2, <2>3, ObjectKeeps
  <2>4. CASE \E t \in Threads : k = <<"thread", t>> BY <2>4, ThreadKeeps
  <2> QED BY <2>1, <2>2, <2>3, <2>4, KindOfClaimant
<1>4. \A t \in Threads : Unshared(th[t])' BY DEF SInv, Unshared, Matching
<1> QED BY <1>3, <1>4, NobodyGains DEF SInv

LEMMA OtherSpace ==
    ASSUME SInv, AInv',
           \/ NodeRestart \/ \E o \in Oids : CacheExpires(o)
           \/ \E t \in Threads : AllocateLost(t) \/ WriteLost(t)
    PROVE  SInv'
<1>1. UNCHANGED <<doc, entries, th>> /\ free' \subseteq free
  BY DEF NodeRestart, CacheExpires, AllocateLost, WriteLost, WriteData, data
<1> QED BY <1>1, NobodyMovesSpace

LEMMA CallsSpace ==
    ASSUME SInv, AInv', NEW t \in Threads, Calls(t)
    PROVE  SInv'
<1>1. PICK o \in Oids : \/ CallCreate(t, o) \/ CallLink(t, o) \/ CallWrite(t, o)
                        \/ CallResize(t, o) \/ CallOther(t, o)
  BY DEF Calls
<1>0. PICK op, arg, l : l \in {"insert", "link", "lock"} /\ Call(t, o, op, arg, l)
  BY <1>1, Zenon DEF CallCreate, CallLink, CallWrite, CallResize, CallOther
<1>2. PICK r : r = [Idle EXCEPT !.op = op, !.oid = o, !.pc = l, !.arg = arg] OBVIOUS
<1>3. /\ th' = [th EXCEPT ![t] = r] /\ UNCHANGED <<doc, entries, free>> /\ th[t].pc = "idle"
  BY <1>0, <1>2 DEF Call, data, At
<1>4. r.pc = l BY <1>2, IdleRecord DEF Thread
<1>5. th'[t].pc \in Plain /\ \A u \in Threads \ {t} : th'[u] = th[u]
  BY <1>0, <1>3, <1>4 DEF SInv, AInv, Types, Plain
<1>6. Kept /\ DOMAIN entries' = DOMAIN entries BY <1>3 DEF Kept
<1>7. Acts(t, o) BY <1>3, <1>5, <1>6 DEF Acts
<1> QED BY <1>3, <1>5, <1>6, <1>7, PlainStep

LEMMA LoadSpace ==
    ASSUME SInv, AInv', NEW t \in Threads, Load(t) \/ CompleteWrite(t)
    PROVE  SInv'
<1>1. UNCHANGED <<doc, entries, free>> /\ th[t].pc \in {"load", "loaded"}
  BY DEF Load, CompleteWrite, data, At, Ready
<1>2. \/ th' = th
      \/ /\ th'[t].pc \in Plain /\ \A u \in Threads \ {t} : th'[u] = th[u]
  <2>1. CASE CompleteWrite(t)
    BY <2>1, WhereTo DEF CompleteWrite, Plain, SInv
  <2>2. CASE Load(t)
    <3>1. CASE Goto(t, "leave") BY <3>1, WhereTo DEF Plain, SInv
    <3>2. CASE \E c : th' = [th EXCEPT ![t].pc = "loaded", ![t].loc = c, ![t].old = c]
      <4>1. th \in [Threads -> Thread] BY DEF SInv, AInv, Types
      <4>2. PICK q \in Thread : q = th[t] BY <4>1
      <4>3. PICK c : th' = [th EXCEPT ![t].pc = "loaded", ![t].loc = c, ![t].old = c] BY <3>2
      <4>4. PICK r : r = [q EXCEPT !.pc = "loaded", !.loc = c, !.old = c] OBVIOUS
      <4>5. r.pc = "loaded" BY ONLY <4>2, <4>4 DEF Thread
      <4>6. th' = [th EXCEPT ![t] = r] BY <4>2, <4>3, <4>4
      <4>7. th'[t] = r /\ \A u \in Threads \ {t} : th'[u] = th[u] BY <4>1, <4>6
      <4> QED BY <4>5, <4>7 DEF Plain
    <3> QED BY <2>2, <3>1, <3>2 DEF Load
  <2> QED BY <2>1, <2>2
<1>3. CASE th' = th BY <1>1, <1>3, NobodyMovesSpace
<1>4. CASE th'[t].pc \in Plain /\ \A u \in Threads \ {t} : th'[u] = th[u]
  <2>1. PICK o \in Oids : o = th[t].oid BY <1>1, Here DEF SInv
  <2>2. Kept /\ DOMAIN entries' = DOMAIN entries BY <1>1 DEF Kept
  <2>3. Acts(t, o) BY <1>1, <1>4, <2>1, <2>2 DEF Acts
  <2> QED BY <1>1, <1>4, <2>2, <2>3, PlainStep
<1> QED BY <1>2, <1>3, <1>4
-----------------------------------------------------------------------------
(***************************************************************************)
(* The steps that hand bytes over.                                         *)
(***************************************************************************)
LEMMA AllocateSpace ==
    ASSUME SInv, AInv', NEW t \in Threads, Allocate(t)
    PROVE  SInv'
<1>0. PICK o \in Oids : o = th[t].oid BY Here DEF SInv, Allocate, At
<1>1. PICK q : o = th[t].oid /\ q = th[t] BY <1>0
<1>2. q.pc = "alloc" /\ UNCHANGED <<doc, entries>> BY <1>1 DEF Allocate, At
<1>3. Kept /\ DOMAIN entries' = DOMAIN entries BY <1>2 DEF Kept
<1>4. CASE Goto(t, "undo twice") /\ UNCHANGED free
  BY <1>1, <1>2, <1>4, PlainSpace DEF Plain, Oid
<1>5. ASSUME NEW b \in Begins, Fits(b, Arg(t)), free' = free \ Extent(b, Arg(t)), Number(t, "update", b)
      PROVE  SInv'
  <2>1. th[t] \in Thread /\ th' = [th EXCEPT ![t] = [q EXCEPT !.pc = "update", !.num = b]]
    BY <1>1, <1>5 DEF Number, SInv, AInv, Types
  <2>2. /\ th'[t].pc = "update" /\ th'[t].num = b /\ th'[t].arg = q.arg
        /\ \A u \in Threads \ {t} : th'[u] = th[u]
    BY <1>1, <2>1 DEF SInv, AInv, Types, Thread
  <2>3. Acts(t, o) BY <1>1, <1>2, <1>3, <2>2 DEF Acts
  <2>4. InHand(t)' = Extent(b, q.arg) BY <2>2 DEF InHand, At, Arg, Extent, Bytes, AlignUp
  <2>5. Unshared(th[t])' BY <2>2 DEF Unshared
  <2>6. ~GivenBack(o) \/ GivenBack(o)'
    <3>1. \A u \in Threads : At(u, "settle") => u # t BY <1>1, <1>2 DEF At
    <3> QED BY <2>2, <3>1 DEF GivenBack, At, Oid
  <2>7. Claim(<<"object", o>>)' \subseteq Claim(<<"object", o>>)
    BY <1>2, <1>3, <2>6, ObjectKeeps
  <2>8. Extent(b, q.arg) \subseteq free BY <1>1, <1>5 DEF Fits, Arg
  <2>9. /\ free' = free \ Extent(b, q.arg) /\ InHand(t) = {}
    BY <1>1, <1>2, <1>5 DEF Arg, InHand, At
  <2> QED BY <1>3, <2>3, <2>4, <2>5, <2>7, <2>8, <2>9, ThreeAreDisjoint, Exchange
<1> QED BY <1>4, <1>5 DEF Allocate

\* The extent that CreateObject has in hand becomes the object's.
LEMMA FillDocumentSpace ==
    ASSUME SInv, AInv', NEW t \in Threads, FillDocument(t)
    PROVE  SInv'
<1>0. PICK o \in Oids : o = th[t].oid BY Here DEF SInv, FillDocument, At
<1>1. PICK q : o = th[t].oid /\ q = th[t] BY <1>0
<1>2. q.pc = "update" /\ UNCHANGED <<free, entries>> BY <1>1 DEF FillDocument, At, data
<1>3. Kept /\ DOMAIN entries' = DOMAIN entries BY <1>2 DEF Kept
<1>4. doc[o] = Stub BY <1>1, <1>2, Here DEF SInv, View
<1>5. doc' = [doc EXCEPT ![o] = Object(q.num, q.arg)]
  BY <1>1, <1>4, DataAssumption DEF FillDocument, Oid, Arg, SInv, AInv, Types
<1>6. doc'[o] = Object(q.num, q.arg) /\ \A p \in Oids \ {o} : doc'[p] = doc[p]
  BY <1>5 DEF SInv, AInv, Types
<1>7. th'[t].pc = "lock new" /\ \A u \in Threads \ {t} : th'[u] = th[u]
  BY WhereTo DEF FillDocument, SInv
<1>8. Acts(t, o) BY <1>1, <1>2, <1>3, <1>6, <1>7 DEF Acts
<1>9. InHand(t)' = {} /\ Unshared(th[t])' BY <1>7 DEF InHand, At, Unshared
<1>10. InHand(t) = Extent(q.num, q.arg) BY <1>1, <1>2 DEF InHand, At, Arg
<1>11. OwnBytes(o)' = Extent(q.num, q.arg) BY <1>6 DEF OwnBytes, Object, Extent, Bytes, AlignUp
<1>12. Claim(<<"object", o>>)' \subseteq InHand(t) BY <1>10, <1>11, ClaimsNext
<1> QED BY <1>2, <1>3, <1>8, <1>9, <1>12, ThreeAreDisjoint, Exchange
-----------------------------------------------------------------------------
\* An object that a handler works on is not one whose extent was given back,
\* unless it is this handler that did it.
LEMMA NotGivenBack ==
    ASSUME AInv, NEW t \in Threads, th[t].pc \in Inside, th[t].pc # "settle"
    PROVE  ~GivenBack(th[t].oid)
<1> SUFFICES ASSUME NEW u \in Threads, th[u].oid = th[t].oid, th[u].pc = "settle" PROVE FALSE
  BY DEF GivenBack, Oid, At
<1>1. th[t].oid \in Oids BY Here DEF Inside
<1>2. InsideOf(u, th[t].oid) /\ InsideOf(t, th[t].oid) BY DEF InsideOf, Inside
<1>3. u = t BY <1>1, <1>2 DEF AInv, IInv, Exclusive
<1> QED BY <1>3

LEMMA BeginsAreNaturals == \A b \in Begins : b \in Nat
BY DEF Begins

\* An extent has its first byte.
LEMMA ExtentsHaveBytes ==
    ASSUME NEW b \in Nat, NEW n \in Nat \ {0}
    PROVE  b \in Extent(b, n)
<1>1. AlignUp(n) \in Nat /\ AlignUp(n) >= n BY AlignUpProperties
<1> QED BY <1>1 DEF Extent, Bytes

\* Where the extent of an object is its own.
LEMMA PrivateExtent ==
    ASSUME SInv, NEW t \in Threads,
           \/ th[t].pc \in {"entry", "new entry"}
           \/ th[t].pc = "chip" /\ th[t].op = "Complete"
           \/ th[t].pc \in {"loaded", "seal"} /\ ~th[t].loc.complete
    PROVE  /\ Claim(<<"object", th[t].oid>>) = Extent(th[t].loc.begin, th[t].loc.size)
           /\ th[t].loc.begin \in Extent(th[t].loc.begin, th[t].loc.size)
<1>1. PICK q : q = th[t] OBVIOUS
<1>2. q.pc # "idle" /\ q.pc \in Inside /\ q.pc \in Copying /\ q.pc # "settle"
  BY <1>1 DEF Inside, Copying
<1>3. PICK o \in Oids : o = q.oid BY <1>1, <1>2, Here DEF SInv
<1>4. /\ q \in Thread /\ Fit(q) /\ View(q, doc[o], cache[o])
      /\ doc[o] \in Documents \cup {None, Stub}
  BY <1>1, <1>2, <1>3, Here DEF SInv
<1>5. PICK c \in Records : c = q.loc BY <1>2, <1>4 DEF Fit
<1>6. IsObject(doc[o]) /\ doc[o] = InDoc(c) BY <1>1, <1>4, <1>5 DEF View, Agrees
<1>7. /\ doc[o].begin = c.begin /\ doc[o].size = c.size /\ doc[o].hash = c.hash
      /\ doc[o].complete = c.complete
  <2>1. PICK d : d = doc[o] OBVIOUS
  <2>2. d = InDoc(c) BY <1>6, <2>1
  <2>3. d.begin = c.begin /\ d.size = c.size /\ d.hash = c.hash /\ d.complete = c.complete
    BY ONLY <2>2 DEF InDoc
  <2> QED BY <2>1, <2>3
<1>8. ~GivenBack(o) BY <1>1, <1>2, <1>3, NotGivenBack DEF SInv
<1>9. ~(doc[o].complete /\ InEntry(o))
  <2>1. CASE q.pc \in {"loaded", "seal"} /\ ~q.loc.complete BY <1>5, <1>7, <2>1
  <2>2. CASE q.pc \in {"entry", "new entry"} \/ (q.pc = "chip" /\ q.op = "Complete")
    <3>1. \A i \in Matching(c.hash, c.size) : entries[i].begin # c.begin
      BY <1>1, <1>5, <2>2 DEF SInv, Unshared
    <3> QED BY <1>7, <3>1 DEF InEntry
  <2> QED BY <1>1, <2>1, <2>2
<1>10. o \in Private BY <1>6, <1>8, <1>9 DEF Private, Objects
<1>11. OwnBytes(o) = Extent(c.begin, c.size) BY <1>7 DEF OwnBytes
<1>12. c.begin \in Extent(c.begin, c.size)
  <2>1. c.begin \in Begins /\ c.size \in Nat \ {0} BY ONLY c \in Records DEF Records, Inbound
  <2>2. c.begin \in Nat BY <2>1, BeginsAreNaturals
  <2> QED BY <2>1, <2>2, ExtentsHaveBytes
<1> QED BY <1>1, <1>3, <1>5, <1>10, <1>11, <1>12, Claims

LEMMA KeepsObject ==
    ASSUME SInv, NEW t \in Threads, NEW o \in Oids, Acts(t, o), th[t].pc # "settle",
           doc'[o] = doc[o]
    PROVE  Claim(<<"object", o>>)' \subseteq Claim(<<"object", o>>)
<1>1. ASSUME GivenBack(o) PROVE GivenBack(o)'
  <2>1. PICK u \in Threads : Oid(u) = o /\ At(u, "settle") BY <1>1 DEF GivenBack
  <2>2. u # t BY <2>1 DEF At
  <2>3. th'[u] = th[u] BY <2>2 DEF Acts
  <2> QED BY <2>1, <2>3 DEF GivenBack, Oid, At
<1> QED BY <1>1, ObjectKeeps DEF Acts

\* A completed object in the extent of an entry has no bytes of its own.
LEMMA SharesExtent ==
    ASSUME NEW o \in Oids, NEW i \in DOMAIN entries', doc'[o].complete,
           entries'[i].hash = doc'[o].hash, entries'[i].size = doc'[o].size,
           entries'[i].begin = doc'[o].begin
    PROVE  Claim(<<"object", o>>)' = {}
<1>1. InEntry(o)' BY DEF InEntry, Matching
<1>2. o \notin Private' BY <1>1 DEF Private
<1> QED BY <1>2, ClaimsNext

LEMMA LinkUpdateSpace ==
    ASSUME SInv, AInv', NEW t \in Threads, LinkUpdate(t)
    PROVE  SInv'
<1>0. PICK o \in Oids : o = th[t].oid BY Here DEF SInv, LinkUpdate, At
<1>1. PICK q, e : q = th[t] /\ e = entries[q.num] OBVIOUS
<1>2. q.pc = "link update" /\ UNCHANGED <<free, entries>> BY <1>1 DEF LinkUpdate, At, data
<1>3. Kept /\ DOMAIN entries' = DOMAIN entries BY <1>2 DEF Kept
<1>4. doc[o] = Stub /\ q.num \in DOMAIN entries
  BY <1>0, <1>1, <1>2, Here DEF SInv, View, AInv, Types, Refers
<1>5. doc' = [doc EXCEPT ![o] = [begin |-> e.begin, size |-> e.size, complete |-> TRUE, hash |-> e.hash]]
  BY <1>0, <1>1, <1>4, DataAssumption DEF LinkUpdate, Oid, SInv, AInv, Types
<1>6. /\ doc'[o] = [begin |-> e.begin, size |-> e.size, complete |-> TRUE, hash |-> e.hash]
      /\ \A p \in Oids \ {o} : doc'[p] = doc[p]
  BY <1>5 DEF SInv, AInv, Types
<1>7. th'[t].pc = "idle" /\ \A u \in Threads \ {t} : th'[u] = th[u]
  BY WhereTo DEF LinkUpdate, SInv
<1>8. Acts(t, o) BY <1>0, <1>1, <1>2, <1>3, <1>6, <1>7 DEF Acts
<1>9. InHand(t)' = {} /\ Unshared(th[t])' BY <1>7 DEF InHand, At, Unshared
<1>10. Claim(<<"object", o>>)' = {}
  <2>1. PICK i \in DOMAIN entries' : i = q.num BY <1>2, <1>4
  <2>2. /\ doc'[o].complete /\ entries'[i].hash = doc'[o].hash
        /\ entries'[i].size = doc'[o].size /\ entries'[i].begin = doc'[o].begin
    <3>1. PICK d : d = doc'[o] OBVIOUS
    <3>2. d = [begin |-> e.begin, size |-> e.size, complete |-> TRUE, hash |-> e.hash] BY <1>6, <3>1
    <3>3. d.complete /\ e.hash = d.hash /\ e.size = d.size /\ e.begin = d.begin BY ONLY <3>2
    <3>4. entries'[i] = e BY <1>1, <1>2, <2>1
    <3> QED BY <3>1, <3>3, <3>4
  <2> QED BY <2>2, SharesExtent
<1> QED BY <1>2, <1>3, <1>8, <1>9, <1>10, NoTransfer

LEMMA SettleSpace ==
    ASSUME SInv, AInv', NEW t \in Threads, Settle(t)
    PROVE  SInv'
<1>0. PICK o \in Oids : o = th[t].oid BY Here DEF SInv, Settle, At
<1>1. PICK q, c : q = th[t] /\ c = q.loc OBVIOUS
<1>2. q.pc = "settle" /\ UNCHANGED <<free, entries>> BY <1>1 DEF Settle, At, data
<1>3. Kept /\ DOMAIN entries' = DOMAIN entries BY <1>2 DEF Kept
<1>4. /\ IsObject(doc[o]) /\ InDoc(c) = [doc[o] EXCEPT !.begin = c.begin] /\ c.complete
      /\ c \in Records
  BY <1>0, <1>1, <1>2, Here DEF SInv, View, Fit, Copying
<1>5. doc' = [doc EXCEPT ![o] = InDoc(c)]
  BY <1>0, <1>1, <1>4 DEF Settle, Oid, Loc, SInv, AInv, Types
<1>6. doc'[o] = InDoc(c) /\ \A p \in Oids \ {o} : doc'[p] = doc[p]
  BY <1>5 DEF SInv, AInv, Types
<1>7. th'[t].pc = "leave" /\ \A u \in Threads \ {t} : th'[u] = th[u]
  BY WhereTo DEF Settle, SInv
<1>8. Acts(t, o) BY <1>0, <1>1, <1>2, <1>3, <1>6, <1>7 DEF Acts
<1>9. InHand(t)' = {} /\ Unshared(th[t])' BY <1>7 DEF InHand, At, Unshared
<1>10. PICK i \in Matching(c.hash, c.size) : entries[i].begin = c.begin
  BY <1>1, <1>2 DEF SInv, AInv, Types, Refers
<1>11. /\ doc'[o].complete /\ i \in DOMAIN entries' /\ entries'[i].hash = doc'[o].hash
       /\ entries'[i].size = doc'[o].size /\ entries'[i].begin = doc'[o].begin
  BY <1>2, <1>4, <1>6, <1>10 DEF Matching, InDoc
<1>12. Claim(<<"object", o>>)' = {} BY <1>11, SharesExtent
<1> QED BY <1>2, <1>3, <1>8, <1>9, <1>12, NoTransfer
-----------------------------------------------------------------------------
\* What ResizeObject cuts off is what it does not keep.
LEMMA CutInTwo ==
    ASSUME NEW b \in Nat, NEW m \in Nat, NEW n \in Nat, n <= m
    PROVE  Extent(b, n) \cap TailOf(b, m, n) = {}
<1>1. AlignUp(n) \in Nat /\ AlignUp(m) \in Nat BY AlignUpProperties
<1> QED BY <1>1 DEF Extent, Bytes, TailOf

LEMMA ResizeSpace ==
    ASSUME SInv, AInv', NEW t \in Threads, Resize(t)
    PROVE  SInv'
<1>0. PICK o \in Oids : o = th[t].oid BY Here DEF SInv, Resize, Ready, At
<1>1. PICK q : q = th[t] OBVIOUS
<1>2. q.pc = "loaded" /\ q.op = "Resize" /\ UNCHANGED <<free, entries>>
  BY <1>1 DEF Resize, Ready, At, data
<1>3. q \in Thread /\ Fit(q) /\ View(q, doc[o], cache[o]) BY <1>0, <1>1, <1>2, Here DEF SInv
<1>4. PICK c \in Records, n \in Nat \ {0} : c = q.loc /\ n = q.arg
  BY <1>2, <1>3, ObjectAssumption DEF Fit, Copying
<1>5. n < c.size /\ ~c.complete /\ IsObject(doc[o]) /\ doc[o] = InDoc(c)
  BY <1>1, <1>2, <1>3, <1>4 DEF Resize, Arg, Loc, View, Agrees
<1>6. c.begin \in Nat /\ c.size \in Nat
  <2>1. c.begin \in Begins /\ c.size \in Nat BY ONLY c \in Records DEF Records, Inbound
  <2> QED BY <2>1, BeginsAreNaturals
<1>7. n \in Nat /\ n <= c.size BY <1>5, <1>6
<1>8. /\ Extent(c.begin, n) \subseteq Extent(c.begin, c.size)
      /\ TailOf(c.begin, c.size, n) \subseteq Extent(c.begin, c.size)
      /\ Extent(c.begin, n) \cap TailOf(c.begin, c.size, n) = {}
  BY <1>6, <1>7, ExtentShrinks, CutInTwo
<1>9. Claim(<<"object", o>>) = Extent(c.begin, c.size)
  BY <1>0, <1>1, <1>2, <1>4, <1>5, PrivateExtent
<1>10. PICK d, w, l : /\ d = [doc[o] EXCEPT !.size = n] /\ w = TailOf(c.begin, c.size, n)
                      /\ l = IF AlignUp(n) >= c.size THEN "leave" ELSE "chip"
  OBVIOUS
<1>11. d.begin = c.begin /\ d.size = n
  <2>1. PICK f : f = doc[o] OBVIOUS
  <2>2. f.begin = c.begin /\ d = [InDoc(c) EXCEPT !.size = n] BY ONLY <1>5, <1>10, <2>1 DEF InDoc
  <2> QED BY ONLY <2>2 DEF InDoc
<1>12. doc' = [doc EXCEPT ![o] = d]
  BY <1>0, <1>1, <1>4, <1>5, <1>10 DEF Resize, Arg, Oid, SInv, AInv, Types
<1>13. doc'[o] = d /\ \A p \in Oids \ {o} : doc'[p] = doc[p] BY <1>12 DEF SInv, AInv, Types
<1>14. PICK e : e = [c EXCEPT !.size = n, !.redo = TRUE] OBVIOUS
<1>15. PICK r : r = [q EXCEPT !.loc = e, !.pc = l, !.bytes = w] OBVIOUS
<1>16. r.pc = l /\ r.op = "Resize" /\ r.bytes = w BY <1>2, <1>3, <1>15 DEF Thread
<1>17. th' = [th EXCEPT ![t] = r] BY <1>1, <1>4, <1>10, <1>14, <1>15 DEF Resize, Arg, Loc
<1>18. th'[t] = r /\ \A u \in Threads \ {t} : th'[u] = th[u] BY <1>17 DEF SInv, AInv, Types
<1>19. Kept /\ DOMAIN entries' = DOMAIN entries BY <1>2 DEF Kept
<1>20. Acts(t, o) BY <1>1, <1>2, <1>13, <1>18, <1>19 DEF Acts
<1>21. l \in {"leave", "chip"} BY <1>10
<1>22. InHand(t)' \subseteq w /\ InHand(t) = {} /\ Unshared(th[t])'
  BY <1>1, <1>2, <1>16, <1>18, <1>21 DEF InHand, At, Unshared
<1>23. OwnBytes(o)' = Extent(c.begin, n) BY <1>11, <1>13 DEF OwnBytes, Extent, Bytes, AlignUp
<1>24. Claim(<<"object", o>>)' \subseteq Extent(c.begin, n) BY <1>23, ClaimsNext
<1>25. free \cap Extent(c.begin, c.size) = {} BY <1>9, ThreeAreDisjoint
<1>26. free' = free BY <1>2
<1>27. /\ free' \cap Claim(<<"object", o>>)' = {} /\ free' \cap InHand(t)' = {}
       /\ Claim(<<"object", o>>)' \cap InHand(t)' = {}
  BY <1>8, <1>10, <1>22, <1>24, <1>25, <1>26
<1>28. free' \cup Claim(<<"object", o>>)' \cup InHand(t)'
           \subseteq free \cup Claim(<<"object", o>>) \cup InHand(t)
  BY <1>8, <1>9, <1>10, <1>22, <1>24, <1>26
<1> QED BY <1>19, <1>20, <1>22, <1>27, <1>28, Exchange

LEMMA AddChipSpace ==
    ASSUME SInv, AInv', NEW t \in Threads, AddChip(t)
    PROVE  SInv'
<1>0. PICK o \in Oids : o = th[t].oid BY Here DEF SInv, AddChip, At
<1>1. PICK q : q = th[t] OBVIOUS
<1>2. q.pc = "chip" /\ UNCHANGED <<doc, entries>> /\ free' = free \cup q.bytes
  BY <1>1 DEF AddChip, At
<1>3. q \in Thread /\ Fit(q) /\ Refers(q) BY <1>1, <1>2, Here DEF SInv, AInv, Types
<1>4. Kept /\ DOMAIN entries' = DOMAIN entries BY <1>2 DEF Kept
<1>5. CASE q.op = "Complete"
  <2>1. th'[t].pc = "settle" /\ \A u \in Threads \ {t} : th'[u] = th[u]
    BY <1>1, <1>5, WhereTo DEF AddChip, SInv
  <2>2. Acts(t, o) BY <1>1, <1>2, <1>4, <2>1 DEF Acts
  <2>3. th'[t].oid = o
    <3>1. PICK e : Local(t, "settle", e) BY <1>1, <1>5 DEF AddChip
    <3>2. th' = [th EXCEPT ![t] = [q EXCEPT !.pc = "settle", !.loc = e]] BY <1>1, <3>1 DEF Local
    <3>3. [q EXCEPT !.pc = "settle", !.loc = e].oid = q.oid BY <1>3 DEF Thread
    <3> QED BY <1>0, <1>1, <3>2, <3>3 DEF SInv, AInv, Types
  <2>4. GivenBack(o)' BY <2>1, <2>3 DEF GivenBack, Oid, At
  <2>5. Claim(<<"object", o>>)' = {} BY <2>4, ClaimsNext DEF Private
  <2>6. Claim(<<"object", o>>) = q.bytes
    BY <1>0, <1>1, <1>2, <1>3, <1>5, PrivateExtent DEF Refers
  <2>7. InHand(t) = {} /\ InHand(t)' = {} /\ Unshared(th[t])'
    BY <1>1, <1>2, <1>5, <2>1 DEF InHand, At, Unshared
  <2> QED BY <1>2, <1>4, <2>2, <2>5, <2>6, <2>7, Exchange
<1>6. CASE q.op # "Complete"
  <2>1. th'[t].pc = "leave" /\ \A u \in Threads \ {t} : th'[u] = th[u]
    BY <1>1, <1>6, WhereTo DEF AddChip, SInv
  <2>2. Acts(t, o) BY <1>1, <1>2, <1>4, <2>1 DEF Acts
  <2>3. q.op = "Resize" BY <1>2, <1>3, <1>6 DEF Fit
  <2>4. InHand(t) = q.bytes /\ InHand(t)' = {} /\ Unshared(th[t])'
    BY <1>1, <1>2, <2>1, <2>3 DEF InHand, At, Unshared
  <2>5. Claim(<<"object", o>>)' \subseteq Claim(<<"object", o>>)
    BY <1>1, <1>2, <2>2, KeepsObject
  <2>6. free' = free \cup InHand(t) BY <1>2, <2>4
  <2> QED BY <1>4, <2>2, <2>4, <2>5, <2>6, ThreeAreDisjoint, Exchange
<1> QED BY <1>5, <1>6

\* An object with an extent of its own begins where no entry and no other such object does.
LEMMA BeginsApart ==
    ASSUME SInv, NEW o \in Oids, NEW b, b \in Claim(<<"object", o>>)
    PROVE  /\ \A i \in DOMAIN entries : b # entries[i].begin
           /\ \A p \in Oids \ {o} : b \notin Claim(<<"object", p>>)
<1>1. PICK k : k = <<"object", o>> OBVIOUS
<1>2. k \in Claimants /\ b \in Claim(k) BY <1>1, Claims
<1>3. ASSUME NEW i \in DOMAIN entries PROVE b # entries[i].begin
  <2>1. PICK l : l = <<"entry", i>> OBVIOUS
  <2>2. PICK e \in Entry : e = entries[i] /\ i \in Nat BY EntryAt DEF SInv, AInv, Types
  <2>3. l \in Claimants /\ Claim(l) = Extent(e.begin, e.size)
    BY <2>1, <2>2, Claims DEF EntryBytes
  <2>4. e.begin \in Nat /\ e.size \in Nat \ {0}
    <3>1. e.begin \in Begins /\ e.size \in Nat \ {0} BY ONLY e \in Entry DEF Entry, Inbound
    <3> QED BY <3>1, BeginsAreNaturals
  <2>5. e.begin \in Claim(l) BY <2>3, <2>4, ExtentsHaveBytes
  <2>6. k # l BY <1>1, <2>1
  <2> QED BY <1>2, <2>2, <2>3, <2>5, <2>6 DEF SInv, Owned
<1>4. ASSUME NEW p \in Oids \ {o} PROVE b \notin Claim(<<"object", p>>)
  <2>1. PICK l : l = <<"object", p>> OBVIOUS
  <2>2. l \in Claimants /\ l # k BY <1>1, <2>1, Claims
  <2> QED BY <1>2, <2>1, <2>2 DEF SInv, Owned
<1> QED BY <1>3, <1>4

LEMMA SealSpace ==
    ASSUME SInv, AInv', NEW t \in Threads, Seal(t)
    PROVE  SInv'
<1>0. PICK o \in Oids : o = th[t].oid BY Here DEF SInv, Seal, At
<1>1. PICK q : q = th[t] OBVIOUS
<1>2. q.pc = "seal" /\ UNCHANGED <<free, entries>> BY <1>1 DEF Seal, At, data
<1>3. q \in Thread /\ Fit(q) /\ View(q, doc[o], cache[o]) BY <1>0, <1>1, <1>2, Here DEF SInv
<1>4. PICK c \in Records : c = q.loc BY <1>2, <1>3 DEF Fit, Copying
<1>5. ~c.complete /\ IsObject(doc[o]) /\ doc[o] = InDoc(c) BY <1>2, <1>3, <1>4 DEF View, Agrees
<1>6. Claim(<<"object", o>>) = Extent(c.begin, c.size) /\ c.begin \in Extent(c.begin, c.size)
  BY <1>0, <1>1, <1>2, <1>4, <1>5, PrivateExtent
<1>7. PICK h, e, d : /\ h = q.seen /\ e = [c EXCEPT !.complete = TRUE, !.hash = h]
                     /\ d = [doc[o] EXCEPT !.hash = h, !.complete = TRUE]
  OBVIOUS
<1>8. e.begin = c.begin /\ e.size = c.size BY <1>7 DEF Records, Inbound
<1>9. d.begin = c.begin /\ d.size = c.size
  <2>1. d = [InDoc(c) EXCEPT !.hash = h, !.complete = TRUE] BY ONLY <1>5, <1>7
  <2> QED BY ONLY <2>1 DEF InDoc
<1>10. doc' = [doc EXCEPT ![o] = d] /\ Local(t, "entry", e)
  BY <1>0, <1>1, <1>4, <1>5, <1>7 DEF Seal, Oid, Loc, SInv, AInv, Types
<1>11. doc'[o] = d /\ \A p \in Oids \ {o} : doc'[p] = doc[p] BY <1>10 DEF SInv, AInv, Types
<1>12. PICK r : r = [q EXCEPT !.pc = "entry", !.loc = e] OBVIOUS
<1>13. r.pc = "entry" /\ r.loc = e BY <1>3, <1>12 DEF Thread
<1>14. th' = [th EXCEPT ![t] = r] BY <1>1, <1>10, <1>12 DEF Local
<1>15. th'[t] = r /\ \A u \in Threads \ {t} : th'[u] = th[u] BY <1>14 DEF SInv, AInv, Types
<1>16. Kept /\ DOMAIN entries' = DOMAIN entries BY <1>2 DEF Kept
<1>17. Acts(t, o) BY <1>1, <1>2, <1>11, <1>15, <1>16 DEF Acts
<1>18. \A i \in DOMAIN entries : c.begin # entries[i].begin BY <1>6, BeginsApart
<1>19. Unshared(th[t])' BY <1>2, <1>8, <1>13, <1>15, <1>18 DEF Unshared, Matching
<1>20. InHand(t)' = {} BY <1>13, <1>15 DEF InHand, At
<1>21. OwnBytes(o)' = Extent(c.begin, c.size)
  BY <1>9, <1>11 DEF OwnBytes, Extent, Bytes, AlignUp
<1>22. Claim(<<"object", o>>)' \subseteq Claim(<<"object", o>>) BY <1>6, <1>21, ClaimsNext
<1> QED BY <1>2, <1>16, <1>17, <1>19, <1>20, <1>22, NoTransfer

LEMMA FindEntrySpace ==
    ASSUME SInv, AInv', NEW t \in Threads, FindEntry(t)
    PROVE  SInv'
<1>0. PICK o \in Oids : o = th[t].oid BY Here DEF SInv, FindEntry, At
<1>1. PICK q, c : q = th[t] /\ c = q.loc OBVIOUS
<1>2. q.pc = "entry" /\ UNCHANGED <<free, doc>> BY <1>1 DEF FindEntry, At, data
<1>3. q \in Thread /\ q.op = "Complete" BY <1>0, <1>1, <1>2, Here DEF SInv, Fit
<1>4. entries' = entries \/ \E i \in DOMAIN entries : AddRef(i, o)
  BY <1>0 DEF FindEntry, Oid, Matching
<1>5. Kept /\ DOMAIN entries' = DOMAIN entries BY <1>4, EntriesStay DEF SInv
<1>6. PICK w : w = Extent(c.begin, c.size) OBVIOUS
<1>7. \/ \E i : th' = [th EXCEPT ![t] = [q EXCEPT !.pc = "chip", !.bytes = w, !.num = i]]
      \/ th' = [th EXCEPT ![t] = [q EXCEPT !.pc = "new entry"]]
  <2>1. \/ \E i : th' = [th EXCEPT ![t].pc = "chip", ![t].bytes = Extent(Loc(t).begin, Loc(t).size),
                                   ![t].num = i]
        \/ Goto(t, "new entry")
    BY Zenon DEF FindEntry
  <2>2. Extent(Loc(t).begin, Loc(t).size) = w BY <1>1, <1>6 DEF Loc
  <2>3. th \in [Threads -> Thread] /\ q = th[t] BY <1>1 DEF SInv, AInv, Types
  <2>4. ASSUME NEW i, th' = [th EXCEPT ![t].pc = "chip", ![t].bytes = w, ![t].num = i]
        PROVE  th' = [th EXCEPT ![t] = [q EXCEPT !.pc = "chip", !.bytes = w, !.num = i]]
    BY ONLY <2>3, <2>4, t \in Threads
  <2>5. Goto(t, "new entry") => th' = [th EXCEPT ![t] = [q EXCEPT !.pc = "new entry"]]
    BY <2>3 DEF Goto
  <2> QED BY <2>1, <2>2, <2>4, <2>5
<1>8. PICK r : /\ th' = [th EXCEPT ![t] = r]
               /\ \/ \E i : r = [q EXCEPT !.pc = "chip", !.bytes = w, !.num = i]
                  \/ r = [q EXCEPT !.pc = "new entry"]
  BY <1>7
<1>9. r.pc \in {"chip", "new entry"} /\ r.op = "Complete" /\ r.loc = c
  BY <1>1, <1>3, <1>8 DEF Thread
<1>10. /\ th'[t].pc \in {"chip", "new entry"} /\ th'[t].op = "Complete" /\ th'[t].loc = c
       /\ \A u \in Threads \ {t} : th'[u] = th[u]
  <2>1. th \in [Threads -> Thread] BY DEF SInv, AInv, Types
  <2>2. th'[t] = r /\ \A u \in Threads \ {t} : th'[u] = th[u] BY ONLY <1>8, <2>1, t \in Threads
  <2> QED BY ONLY <1>9, <2>2
<1>11. Acts(t, o) BY <1>1, <1>2, <1>5, <1>10 DEF Acts
<1>12. InHand(t)' = {} BY <1>10 DEF InHand, At
<1>13. \A i \in Matching(c.hash, c.size) : entries[i].begin # c.begin
  BY <1>1, <1>2 DEF SInv, Unshared
<1>14. Unshared(th[t])' BY <1>5, <1>10, <1>13 DEF Unshared, Matching, Kept
<1>15. Claim(<<"object", o>>)' \subseteq Claim(<<"object", o>>) BY <1>1, <1>2, <1>11, KeepsObject
<1> QED BY <1>2, <1>5, <1>11, <1>12, <1>14, <1>15, NoTransfer

\* The extent of the object becomes that of the new entry.
LEMMA InsertEntrySpace ==
    ASSUME SInv, AInv', NEW t \in Threads, InsertEntry(t)
    PROVE  SInv'
<1>0. PICK o \in Oids : o = th[t].oid BY Here DEF SInv, InsertEntry, At
<1>1. PICK q, c : q = th[t] /\ c = q.loc OBVIOUS
<1>2. q.pc = "new entry" /\ UNCHANGED <<free, doc>> BY <1>1 DEF InsertEntry, At, data
<1>3. /\ Claim(<<"object", o>>) = Extent(c.begin, c.size)
      /\ c.begin \in Claim(<<"object", o>>)
  BY <1>0, <1>1, <1>2, PrivateExtent
<1>4. PICK e : e = [hash |-> c.hash, size |-> c.size, begin |-> c.begin, refs |-> 1, oids |-> {o}]
  OBVIOUS
<1>5. e.begin = c.begin /\ e.size = c.size BY ONLY <1>4
<1>6. entries' = Append(entries, e) BY <1>0, <1>1, <1>4 DEF InsertEntry, Oid, Loc
<1>7. entries \in Seq(Entry) /\ DOMAIN entries = 1..Len(entries) /\ Len(entries) \in Nat
  BY LenProperties DEF SInv, AInv, Types
<1>8. entries' \in Seq(Entry) BY DEF AInv, Types
<1>9. PICK k \in Nat : k = Len(entries) + 1 BY <1>7
<1>10. /\ DOMAIN entries' = 1..k /\ entries'[k] = e
       /\ \A i \in DOMAIN entries : entries'[i] = entries[i]
  BY <1>6, <1>7, <1>9
<1>11. /\ k \notin DOMAIN entries /\ k \in DOMAIN entries'
       /\ \A i \in DOMAIN entries' \ {k} : i \in DOMAIN entries
  BY <1>7, <1>9, <1>10
<1>12. \A i \in DOMAIN entries : i \in DOMAIN entries' BY <1>7, <1>9, <1>10
<1>13. Kept BY <1>10, <1>12 DEF Kept
<1>14. th'[t].pc = "settle" /\ th'[t].oid = o /\ \A u \in Threads \ {t} : th'[u] = th[u]
  <2>1. th \in [Threads -> Thread] /\ q \in Thread BY <1>1 DEF SInv, AInv, Types
  <2>2. PICK r : r = [q EXCEPT !.pc = "settle"] OBVIOUS
  <2>3. th' = [th EXCEPT ![t] = r] BY <1>1, <2>2 DEF InsertEntry, Goto
  <2>4. r.pc = "settle" /\ r.oid = q.oid BY <2>1, <2>2 DEF Thread
  <2> QED BY <1>0, <1>1, <2>1, <2>3, <2>4
<1>15. Acts(t, o) BY <1>1, <1>2, <1>13, <1>14 DEF Acts
<1>16. GivenBack(o)' BY <1>14 DEF GivenBack, Oid, At
<1>17. Claim(<<"object", o>>)' = {} BY <1>16, ClaimsNext DEF Private
<1>18. EntryBytes(k)' = Extent(c.begin, c.size)
  BY <1>5, <1>10 DEF EntryBytes, Extent, Bytes, AlignUp
<1>19. Claim(<<"entry", k>>)' = Claim(<<"object", o>>) BY <1>3, <1>11, <1>18, ClaimsNext
<1>20. ASSUME NEW i \in Nat \ {k} PROVE Claim(<<"entry", i>>)' \subseteq Claim(<<"entry", i>>)
  <2>1. CASE i \in DOMAIN entries'
    <3>1. i \in DOMAIN entries BY <1>11, <2>1
    <3>2. EntryBytes(i)' = EntryBytes(i)
      BY <1>10, <3>1 DEF EntryBytes, Extent, Bytes, AlignUp
    <3> QED BY <2>1, <3>1, <3>2, Claims, ClaimsNext
  <2>2. CASE i \notin DOMAIN entries' BY <2>2, ClaimsNext
  <2> QED BY <2>1, <2>2
<1>21. Claim(<<"thread", t>>)' = {} BY <1>14, ClaimsNext DEF InHand, At
<1>22. PICK a, b, f : a = <<"object", o>> /\ b = <<"entry", k>> /\ f = <<"free", 0>> OBVIOUS
<1>23. ASSUME NEW l \in Claimants \ {a, b, f} PROVE Claim(l)' \subseteq Claim(l)
  <2>1. CASE \E i \in Nat : l = <<"entry", i>> BY <1>20, <1>22, <2>1
  <2>2. CASE \E p \in Oids : l = <<"object", p>> BY <1>15, <1>22, <2>2, OthersKeep DEF SInv
  <2>3. CASE \E u \in Threads : l = <<"thread", u>> BY <1>15, <1>21, <2>3, OthersKeep DEF SInv
  <2> QED BY <1>22, <2>1, <2>2, <2>3, KindOfClaimant
<1>24. a \in Claimants /\ b \in Claimants /\ f \in Claimants /\ a # f BY <1>22, Claims
<1>25. Claim(a)' = {} /\ Claim(b)' = Claim(a) /\ Claim(f)' = Claim(f)
  BY <1>2, <1>17, <1>19, <1>22, Claims, ClaimsNext
<1>26. Claim(a) \cap Claim(f) = {} BY <1>24 DEF SInv, Owned
<1>27. Owned' BY <1>23, <1>24, <1>25, <1>26, HandOver DEF SInv
<1>28. ASSUME NEW u \in Threads PROVE Unshared(th[u])'
  <2>1. CASE u = t BY <1>14, <2>1 DEF Unshared
  <2>2. CASE u # t
    <3>1. PICK v : v = th[u] OBVIOUS
    <3>2. th'[u] = v BY <1>14, <2>2, <3>1
    <3> SUFFICES ASSUME v.pc \in {"entry", "new entry"} \/ (v.pc = "chip" /\ v.op = "Complete"),
                        NEW i \in Matching(v.loc.hash, v.loc.size)'
                 PROVE  entries'[i].begin # v.loc.begin
      BY <3>2 DEF Unshared
    <3>3. v.pc # "idle" /\ v.pc \in Inside BY DEF Inside
    <3>4. PICK p \in Oids : p = v.oid BY <3>1, <3>3, Here DEF SInv
    <3>5. p # o
      <4>1. th[u].pc \in Inside /\ th[t].pc \in Inside BY <1>1, <1>2, <3>1, <3>3 DEF Inside
      <4>2. th[u].oid = p /\ th[t].oid = o BY <1>0, <3>1, <3>4
      <4> QED BY <2>2, <4>1, <4>2 DEF SInv, AInv, IInv, Exclusive, InsideOf
    <3>6. v.loc.begin \in Claim(<<"object", p>>) BY <3>1, <3>4, PrivateExtent
    <3>7. v.loc.begin \notin Claim(<<"object", o>>) BY <3>5, <3>6, BeginsApart
    <3>8. CASE i = k BY <1>3, <1>5, <1>10, <3>7, <3>8
    <3>9. CASE i # k
      <4>1. i \in DOMAIN entries /\ entries'[i] = entries[i] BY <1>10, <1>11, <3>9 DEF Matching
      <4>2. \A j \in DOMAIN entries : v.loc.begin # entries[j].begin BY <3>6, BeginsApart
      <4> QED BY <4>1, <4>2
    <3> QED BY <3>8, <3>9
  <2> QED BY <2>1, <2>2
<1> QED BY <1>27, <1>28 DEF SInv
-----------------------------------------------------------------------------
LEMMA InitSpace == Init => SInv
<1> SUFFICES ASSUME Init PROVE SInv OBVIOUS
<1>1. AInv BY InitAgrees
<1>2. th = [t \in Threads |-> Idle] /\ entries = <<>> BY Zenon DEF Init
<1>3. PICK l \in Layouts :
        /\ doc = [o \in Oids |-> IF l[o] = None THEN None ELSE Object(l[o].begin, l[o].size)]
        /\ free = (0..(Space - 1)) \ UNION {Extent(l[o].begin, l[o].size) : o \in {p \in Oids : l[p] # None}}
  BY Zenon DEF Init
<1>4. \A t \in Threads : th[t].pc = "idle" BY <1>2, IdleRecord
<1>5. \A t \in Threads : Claim(<<"thread", t>>) = {} BY <1>4, Claims DEF InHand, At
<1>6. \A i \in Nat : Claim(<<"entry", i>>) = {}
  <2>1. DOMAIN entries = {} BY <1>2
  <2> QED BY <2>1, Claims
<1>7. ASSUME NEW o \in Oids, NEW x \in Claim(<<"object", o>>)
      PROVE  l[o] # None /\ x \in Extent(l[o].begin, l[o].size)
  <2>1. o \in Private /\ x \in OwnBytes(o) BY <1>7, Claims
  <2>2. IsObject(doc[o]) BY <2>1 DEF Private, Objects
  <2>3. l[o] # None BY <1>3, <2>2 DEF IsObject
  <2>4. doc[o] = Object(l[o].begin, l[o].size) BY <1>3, <2>3
  <2>5. doc[o].begin = l[o].begin /\ doc[o].size = l[o].size
    <3>1. PICK d : d = doc[o] OBVIOUS
    <3>2. d.begin = l[o].begin /\ d.size = l[o].size BY ONLY <2>4, <3>1 DEF Object
    <3> QED BY <3>1, <3>2
  <2> QED BY <2>1, <2>3, <2>5 DEF OwnBytes
<1>8. ASSUME NEW o \in Oids, NEW x \in Claim(<<"object", o>>) PROVE x \notin free
  BY <1>3, <1>7, <1>8
<1>9. ASSUME NEW o \in Oids, NEW p \in Oids \ {o}, NEW x \in Claim(<<"object", o>>)
      PROVE  x \notin Claim(<<"object", p>>)
  <2> SUFFICES ASSUME x \in Claim(<<"object", p>>) PROVE FALSE OBVIOUS
  <2>1. l[o] # None /\ x \in Extent(l[o].begin, l[o].size) BY <1>7, <1>9
  <2>2. l[p] # None /\ x \in Extent(l[p].begin, l[p].size) BY <1>7
  <2> QED BY <2>1, <2>2, DataAssumption
<1>10. Owned
  <2> SUFFICES ASSUME NEW k \in Claimants, NEW m \in Claimants, k # m,
                      NEW x, x \in Claim(k), x \in Claim(m)
               PROVE  FALSE
    BY DEF Owned
  <2>1. ASSUME NEW j \in Claimants, x \in Claim(j)
        PROVE  j = <<"free", 0>> \/ \E o \in Oids : j = <<"object", o>>
    BY <1>5, <1>6, <2>1, KindOfClaimant
  <2>2. CASE k = <<"free", 0>>
    <3>1. PICK o \in Oids : m = <<"object", o>> BY <2>1, <2>2
    <3> QED BY <1>8, <2>2, <3>1, Claims
  <2>3. CASE m = <<"free", 0>>
    <3>1. PICK o \in Oids : k = <<"object", o>> BY <2>1, <2>3
    <3> QED BY <1>8, <2>3, <3>1, Claims
  <2>4. CASE k # <<"free", 0>> /\ m # <<"free", 0>>
    <3>1. PICK o \in Oids : k = <<"object", o>> BY <2>1, <2>4
    <3>2. PICK p \in Oids : m = <<"object", p>> BY <2>1, <2>4
    <3>3. p \in Oids \ {o} BY <3>1, <3>2
    <3> QED BY <1>9, <3>1, <3>2, <3>3
  <2> QED BY <2>2, <2>3, <2>4
<1>11. \A t \in Threads : Unshared(th[t]) BY <1>4 DEF Unshared
<1> QED BY <1>1, <1>10, <1>11 DEF SInv

LEMMA StepKeepsSpace == ASSUME ~Eager PROVE SInv /\ [Next]_vars => SInv'
<1> SUFFICES ASSUME SInv, [Next]_vars PROVE SInv'
  OBVIOUS
<1>1. AInv' BY StepKeepsAgreement DEF SInv
<1>2. CASE UNCHANGED vars
  BY <1>1, <1>2, NobodyMovesSpace DEF vars, data
<1>3. CASE NodeRestart \/ \E o \in Oids : CacheExpires(o)
  BY <1>1, <1>3, OtherSpace
<1>4. ASSUME NEW t \in Threads, Calls(t) \/ Step(t) \/ Trouble(t)
      PROVE  SInv'
  <2>1. CASE Calls(t) BY <1>1, <2>1, CallsSpace
  <2>2. CASE \/ Insert(t) \/ AllocateFails(t) \/ Undo(t) \/ LockNew(t) \/ CacheNew(t) \/ VolumeInfo(t)
             \/ LinkInsert(t) \/ LinkUndo(t) \/ LockTimeout(t) \/ Lock(t) \/ Leave(t)
    BY <1>1, <2>2, CreatingSpace
  <2>3. CASE \/ Refuse(t) \/ Write(t) \/ NodeFails(t) \/ Read(t) \/ AddChipFails(t)
             \/ DeleteDocument(t) \/ DeleteRef(t) \/ DeleteCache(t) \/ Link(t)
    BY <1>1, <2>3, HandlingSpace
  <2>4. CASE Load(t) \/ CompleteWrite(t) BY <1>1, <2>4, LoadSpace
  <2>5. CASE Allocate(t) \/ FillDocument(t) \/ LinkUpdate(t)
    BY <1>1, <2>5, AllocateSpace, FillDocumentSpace, LinkUpdateSpace
  <2>6. CASE Resize(t) \/ AddChip(t) BY <1>1, <2>6, ResizeSpace, AddChipSpace
  <2>7. CASE Seal(t) \/ FindEntry(t) \/ InsertEntry(t) \/ Settle(t)
    BY <1>1, <2>7, SealSpace, FindEntrySpace, InsertEntrySpace, SettleSpace
  <2>8. CASE AllocateLost(t) \/ WriteLost(t) BY <1>1, <2>8, OtherSpace
  <2> QED
    BY <1>4, <2>1, <2>2, <2>3, <2>4, <2>5, <2>6, <2>7, <2>8 DEF Step, Trouble
<1> QED BY <1>2, <1>3, <1>4 DEF Next

(***************************************************************************)
(* The bytes of an entry and of an object that has an extent of its own    *)
(* are nobody else's and not free, whatever CompleteObject, ResizeObject,  *)
(* DeleteObject and AllocateBlks do on other threads, for any volume size  *)
(* and any number of objects, threads and calls (bfss_api.cpp,             *)
(* CompleteObject and ResizeObject).                                       *)
(***************************************************************************)
THEOREM SpaceBelongsToOne == ASSUME ~Eager PROVE Spec => []SpaceIsExclusive
<1>1. ASSUME SInv PROVE SpaceIsExclusive
  <2>1. \A k, l \in Claimants : k # l => Claim(k) \cap Claim(l) = {} BY <1>1 DEF SInv, Owned
  <2>2. ASSUME NEW i \in DOMAIN entries
        PROVE  /\ <<"entry", i>> \in Claimants
               /\ Claim(<<"entry", i>>) = EntryBytes(i)
    BY <1>1, EntryAt, Claims DEF SInv
  <2>3. ASSUME NEW o \in Private
        PROVE  /\ <<"object", o>> \in Claimants
               /\ Claim(<<"object", o>>) = OwnBytes(o)
    BY Claims DEF Private, Objects
  <2>4. ASSUME NEW i \in DOMAIN entries
        PROVE  /\ EntryBytes(i) \cap free = {}
               /\ \A j \in DOMAIN entries \ {i} : EntryBytes(i) \cap EntryBytes(j) = {}
    BY <2>1, <2>2, Claims
  <2>5. ASSUME NEW o \in Private
        PROVE  /\ OwnBytes(o) \cap free = {}
               /\ \A i \in DOMAIN entries : OwnBytes(o) \cap EntryBytes(i) = {}
               /\ \A p \in Private \ {o} : OwnBytes(o) \cap OwnBytes(p) = {}
    <3>1. OwnBytes(o) \cap free = {} BY <2>1, <2>3, Claims
    <3>2. \A i \in DOMAIN entries : OwnBytes(o) \cap EntryBytes(i) = {} BY <2>1, <2>2, <2>3
    <3>3. \A p \in Private \ {o} : OwnBytes(o) \cap OwnBytes(p) = {} BY <2>1, <2>3
    <3> QED BY <3>1, <3>2, <3>3
  <2> QED BY <2>4, <2>5 DEF SpaceIsExclusive
<1>2. Init => SInv BY InitSpace
<1>3. SInv /\ [Next]_vars => SInv' BY StepKeepsSpace
<1> QED BY <1>1, <1>2, <1>3, PTL DEF Spec

LEMMA KindsDiffer ==
    ASSUME NEW t, NEW x, NEW k, k = <<"thread", t>> \/ k = <<"object", x>>
    PROVE  /\ k # <<"free", 0>> /\ \A i : k # <<"entry", i>>
           /\ \A o : o # x => k # <<"object", o>>
<1>1. CASE k = <<"thread", t>> BY ONLY <1>1
<1>2. CASE k = <<"object", x>> BY ONLY <1>2
<1> QED BY <1>1, <1>2

(***************************************************************************)
(* What a handler is about to give back with AddBlkChip is used by nobody, *)
(* neither when CompleteObject took the extent of an equal object nor when *)
(* ResizeObject cut the end off.                                           *)
(***************************************************************************)
THEOREM ChipsAreUnused == ASSUME ~Eager PROVE Spec => []GivenBackIsUnused
<1>1. ASSUME SInv PROVE GivenBackIsUnused
  <2> SUFFICES ASSUME NEW t \in Threads, th[t].pc \in {"chip", "give back"}
               PROVE  /\ th[t].bytes \cap free = {}
                      /\ \A i \in DOMAIN entries : th[t].bytes \cap EntryBytes(i) = {}
                      /\ \A o \in Private \ {Oid(t)} : th[t].bytes \cap OwnBytes(o) = {}
    BY DEF GivenBackIsUnused
  <2>1. th[t] \in Thread /\ Fit(th[t]) /\ Refers(th[t]) BY <1>1 DEF SInv, AInv, Types
  <2>2. th[t].pc = "chip" BY <2>1 DEF Thread, Places, Creating, Linking, Handling
  <2>3. th[t].op \in {"Complete", "Resize"} BY <2>1, <2>2 DEF Fit
  <2>4. PICK x \in Oids : x = th[t].oid BY <1>1, <2>2, Here DEF SInv
  <2>5. PICK k \in Claimants : /\ Claim(k) = th[t].bytes
                               /\ k = <<"thread", t>> \/ k = <<"object", x>>
    <3>1. CASE th[t].op = "Complete"
      BY <1>1, <2>1, <2>2, <2>4, <3>1, PrivateExtent, Claims DEF Refers
    <3>2. CASE th[t].op = "Resize" BY <2>2, <3>2, Claims DEF InHand, At
    <3> QED BY <2>3, <3>1, <3>2
  <2>10. /\ k # <<"free", 0>> /\ \A i : k # <<"entry", i>>
         /\ \A o : o # x => k # <<"object", o>>
    BY <2>5, KindsDiffer
  <2>6. \A l \in Claimants : k # l => Claim(k) \cap Claim(l) = {} BY <1>1 DEF SInv, Owned
  <2>7. th[t].bytes \cap free = {}
    <3>1. k # <<"free", 0>> BY <2>10
    <3> QED BY <2>5, <2>6, <3>1, Claims
  <2>8. ASSUME NEW i \in DOMAIN entries PROVE th[t].bytes \cap EntryBytes(i) = {}
    <3>1. PICK l : l = <<"entry", i>> OBVIOUS
    <3>2. l \in Claimants /\ Claim(l) = EntryBytes(i) BY <1>1, <3>1, EntryAt, Claims DEF SInv
    <3>3. k # l BY <2>10, <3>1
    <3> QED BY <2>5, <2>6, <3>2, <3>3
  <2>9. ASSUME NEW o \in Private \ {Oid(t)} PROVE th[t].bytes \cap OwnBytes(o) = {}
    <3>1. PICK l : l = <<"object", o>> OBVIOUS
    <3>2. l \in Claimants /\ Claim(l) = OwnBytes(o) BY <3>1, Claims DEF Private, Objects
    <3>3. k # l BY <2>4, <2>10, <3>1 DEF Oid
    <3> QED BY <2>5, <2>6, <3>2, <3>3
  <2> QED BY <2>7, <2>8, <2>9
<1>2. Init => SInv BY InitSpace
<1>3. SInv /\ [Next]_vars => SInv' BY StepKeepsSpace
<1> QED BY <1>1, <1>2, <1>3, PTL DEF Spec
-----------------------------------------------------------------------------
(***************************************************************************)
(* What objects hold: the bytes clients sent, those in the store, those    *)
(* that were hashed, and the hash.                                         *)
(***************************************************************************)
\* The bytes sent to an object do not contradict each other; an object that
\* is being resized has none.
Sending == /\ sent \in [Oids -> SUBSET (Nat \X Nat)]
           /\ \A o \in Oids : \A p, q \in sent[o] : p[1] = q[1] => p = q
           /\ \A t \in Threads : /\ th[t].op = "Write" => Pairs(th[t].arg) \subseteq sent[th[t].oid]
                                 /\ th[t].op = "Resize" => sent[th[t].oid] = {}

Incomplete(d) == IsObject(d) /\ ~d.complete

\* The running hash r of n bytes from b on, w of which were sent, in store s.
Follows(r, b, n, w, s) ==
    Len(r) <= n /\ \A i \in 1..Len(r) : <<i - 1, r[i]>> \in w /\ s[b + i - 1] = r[i]

\* Nothing was hashed where no incomplete object begins.
Running == /\ \A b \in Begins : node[b] # <<>> => \E o \in Oids : Incomplete(doc[o]) /\ doc[o].begin = b
           /\ \A o \in Oids : Incomplete(doc[o]) =>
                  Follows(node[doc[o].begin], doc[o].begin, doc[o].size, sent[o], store)

\* The end of a hash is the content, and nothing is before it but in an
\* object that was resized, unless a wrong block was hashed.
End(h, n) == [i \in 1..n |-> h[Len(h) - n + i]]
HashOK(h, n, z) == Trusted(h, n) => z.content = End(h, n) /\ (z.plain => h = z.content)
Sealing == [content : Seq(Nat), plain : BOOLEAN]

ObjectHolds(o) == /\ sealed[o] \in Sealing /\ HashOK(doc[o].hash, doc[o].size, sealed[o])
                  /\ o \in Private => sealed[o].content = Content(doc[o].begin, doc[o].size)
EntryHolds(i)  == Trusted(entries[i].hash, entries[i].size) =>
                      Content(entries[i].begin, entries[i].size) = End(entries[i].hash, entries[i].size)

Contents == /\ sealed \in [Oids -> Sealing \cup {None}]
            /\ \A o \in Sealed : ObjectHolds(o)
            /\ \A i \in DOMAIN entries : EntryHolds(i)

\* What a thread with record r knows of the content z of its object.
Knows(r, z) ==
    /\ r.pc = "seal" => /\ node[r.loc.begin] = <<>> /\ z \in Sealing /\ HashOK(r.seen, r.loc.size, z)
                        /\ z.content = Content(r.loc.begin, r.loc.size)
    /\ r.op = "Read" /\ r.pc # "leave" => r.seen = <<>>
    /\ r.op = "Read" /\ r.pc = "leave" /\ r.seen # <<>> /\ Trusted(r.loc.hash, r.loc.size)
           => r.seen = z.content

Knowledge == \A t \in Threads : th[t].oid \in Oids => Knows(th[t], sealed[th[t].oid])

CInv == SInv /\ Sending /\ Running /\ Contents /\ Knowledge
-----------------------------------------------------------------------------
\* An object that keeps its document does not become the owner of bytes.
LEMMA PrivateKeeps ==
    ASSUME Kept, NEW o \in Oids, doc'[o] = doc[o], GivenBack(o) => GivenBack(o)', o \in Private'
    PROVE  o \in Private
<1>1. InEntry(o) => InEntry(o)' BY DEF InEntry, Matching, Kept
<1> QED BY <1>1 DEF Private, Objects, IsObject

LEMMA OthersPrivate ==
    ASSUME NEW t \in Threads, NEW o \in Oids, Acts(t, o), NEW p \in Oids \ {o}, p \in Private'
    PROVE  p \in Private
<1>1. ASSUME GivenBack(p) PROVE GivenBack(p)'
  <2>1. PICK u \in Threads : Oid(u) = p /\ At(u, "settle") BY <1>1 DEF GivenBack
  <2>2. u # t BY <2>1 DEF Acts, Oid, At
  <2>3. th'[u] = th[u] BY <2>2 DEF Acts
  <2> QED BY <2>1, <2>3 DEF GivenBack, Oid, At
<1> QED BY <1>1, PrivateKeeps DEF Acts

LEMMA ContentKeeps == store' = store => \A b, n : Content(b, n)' = Content(b, n)
BY DEF Content

LEMMA FollowsNothing ==
    ASSUME NEW b, NEW n \in Nat, NEW w, NEW s PROVE Follows(<<>>, b, n, w, s)
<1>1. Len(<<>>) = 0 BY EmptySeq
<1> QED BY <1>1 DEF Follows

\* The running hashes, when data are hashed nowhere.
LEMMA RunningKeeps ==
    ASSUME CInv, SInv', NEW o \in Oids, \A p \in Oids \ {o} : doc'[p] = doc[p] /\ sent[p] \subseteq sent'[p],
           store' = store, \A b \in Begins : node'[b] \in {node[b], <<>>},
           \/ doc'[o] = doc[o] /\ sent[o] \subseteq sent'[o]
           \/ /\ Incomplete(doc[o]) => node'[doc[o].begin] = <<>>
              /\ Incomplete(doc'[o]) => node'[doc'[o].begin] = <<>>
    PROVE  Running'
<1>1. ASSUME NEW b \in Begins, node'[b] # <<>>
      PROVE  \E p \in Oids : Incomplete(doc'[p]) /\ doc'[p].begin = b
  <2>1. node[b] # <<>> BY <1>1
  <2>2. PICK p \in Oids : Incomplete(doc[p]) /\ doc[p].begin = b BY <2>1 DEF CInv, Running
  <2>3. doc'[p] = doc[p] BY <1>1, <2>2
  <2> QED BY <2>2, <2>3
<1>2. ASSUME NEW p \in Oids, NEW d, d = doc'[p], Incomplete(d)
      PROVE  Follows(node'[d.begin], d.begin, d.size, sent'[p], store')
  <2>1. d \in Documents BY <1>2, DocumentIsObject DEF Incomplete, SInv, AInv, Types
  <2>2. d.begin \in Begins /\ d.size \in Nat BY <2>1 DEF Documents, Inbound
  <2>3. CASE node'[d.begin] = <<>> BY <2>2, <2>3, FollowsNothing
  <2>4. CASE node'[d.begin] # <<>>
    <3>1. node'[d.begin] = node[d.begin] BY <2>2, <2>4
    <3>2. doc[p] = d /\ sent[p] \subseteq sent'[p] BY <1>2, <2>4
    <3>3. Follows(node[d.begin], d.begin, d.size, sent[p], store) BY <1>2, <3>2 DEF CInv, Running
    <3> QED BY <3>1, <3>2, <3>3 DEF Follows
  <2> QED BY <2>3, <2>4
<1> QED BY <1>1, <1>2 DEF Running, Incomplete, IsObject

\* A step of thread t on object o that hashes nothing and writes nothing.
LEMMA StepContents ==
    ASSUME CInv, SInv', Sending', stray \subseteq stray', NEW t \in Threads, NEW o \in Oids, Acts(t, o),
           store' = store, \A b \in Begins : node'[b] \in {node[b], <<>>},
           sealed' \in [Oids -> Sealing \cup {None}],
           \A p \in Oids \ {o} : sealed'[p] = sealed[p] /\ sent[p] \subseteq sent'[p],
           \/ doc'[o] = doc[o] /\ sent[o] \subseteq sent'[o]
           \/ /\ Incomplete(doc[o]) => node'[doc[o].begin] = <<>>
              /\ Incomplete(doc'[o]) => node'[doc'[o].begin] = <<>>,
           o \in Sealed' =>
               \/ doc'[o] = doc[o] /\ sealed'[o] = sealed[o] /\ (GivenBack(o) => GivenBack(o)')
               \/ ObjectHolds(o)',
           \A i \in DOMAIN entries' \ DOMAIN entries : EntryHolds(i)',
           \/ sealed'[o] = sealed[o]
           \/ \A u \in Threads \ {t} : th[u].oid = o => th[u].pc \notin {"seal", "leave"},
           th'[t].oid \in Oids => Knows(th[t], sealed[th[t].oid])'
    PROVE  CInv'
<1>1. Running' BY RunningKeeps DEF Acts
<1>2. ASSUME NEW p \in Oids, p \in Sealed', doc'[p] = doc[p], sealed'[p] = sealed[p],
             p \in Private' => p \in Private
      PROVE  ObjectHolds(p)'
  <2>1. p \in Sealed BY <1>2 DEF Sealed, Objects, IsObject
  <2>2. ObjectHolds(p) BY <2>1 DEF CInv, Contents
  <2> QED BY <1>2, <2>2, ContentKeeps DEF ObjectHolds, HashOK, Trusted, End, Sealing
<1>3. ASSUME NEW p \in Oids, p \in Sealed' PROVE ObjectHolds(p)'
  <2>1. CASE p # o BY <1>2, <1>3, <2>1, OthersPrivate DEF Acts
  <2>2. CASE p = o
    <3>1. CASE ObjectHolds(o)' BY <2>2, <3>1
    <3>2. CASE doc'[o] = doc[o] /\ sealed'[o] = sealed[o] /\ (GivenBack(o) => GivenBack(o)')
      BY <1>2, <1>3, <2>2, <3>2, PrivateKeeps DEF Acts
    <3> QED BY <1>3, <2>2, <3>1, <3>2
  <2> QED BY <2>1, <2>2
<1>4. ASSUME NEW i \in DOMAIN entries' PROVE EntryHolds(i)'
  <2>1. CASE i \in DOMAIN entries
    <3>1. EntryHolds(i) BY <2>1 DEF CInv, Contents
    <3>2. /\ entries'[i].begin = entries[i].begin /\ entries'[i].hash = entries[i].hash
          /\ entries'[i].size = entries[i].size
      BY <2>1 DEF Acts, Kept
    <3> QED BY <3>1, <3>2 DEF EntryHolds, Trusted, Content, End
  <2> QED BY <2>1
<1>5. Contents' BY <1>3, <1>4 DEF Contents, Sealed, Objects
<1>6. ASSUME NEW u \in Threads, th'[u].oid \in Oids PROVE Knows(th[u], sealed[th[u].oid])'
  <2>1. CASE u = t BY <1>6, <2>1
  <2>2. CASE u # t
    <3>1. PICK r, z : r = th[u] /\ z = sealed[r.oid] OBVIOUS
    <3>2. th'[u] = r /\ r.oid \in Oids BY <1>6, <2>2, <3>1 DEF Acts
    <3>3. Knows(r, z) BY <3>1, <3>2 DEF CInv, Knowledge
    <3>4. r.pc \in {"seal", "leave"} => sealed'[r.oid] = z BY <2>2, <3>1, <3>2
    <3>5. r.pc = "seal" => node'[r.loc.begin] \in {node[r.loc.begin], <<>>}
      <4> SUFFICES ASSUME r.pc = "seal" PROVE r.loc.begin \in Begins OBVIOUS
      <4>1. Fit(r) BY <3>1 DEF CInv, SInv, AInv, Types
      <4>2. r.loc \in Records BY <4>1 DEF Fit, Copying
      <4> QED BY <4>2 DEF Records, Inbound
    <3>6. Knows(r, sealed[r.oid])'
      BY <3>2, <3>3, <3>4, <3>5, ContentKeeps DEF Knows, HashOK, Trusted, End, Sealing
    <3> QED BY <3>2, <3>6
  <2> QED BY <2>1, <2>2
<1>7. Knowledge' BY <1>6 DEF Knowledge
<1> QED BY <1>1, <1>5, <1>7 DEF CInv
-----------------------------------------------------------------------------
\* Thread t goes on with its call or ends it.
Goes(t) == /\ \A u \in Threads \ {t} : th'[u] = th[u]
           /\ th'[t] = Idle \/ (Same(th'[t], th[t]) /\ th'[t].pc # "seal" /\ th'[t].seen = th[t].seen)

LEMMA FieldsStay ==
    ASSUME NEW q \in Thread, NEW l, NEW v, NEW r,
           \/ r = [q EXCEPT !.pc = l] \/ r = [q EXCEPT !.pc = l, !.num = v]
           \/ r = [q EXCEPT !.pc = l, !.loc = v]
    PROVE  Same(r, q) /\ r.pc = l /\ r.seen = q.seen
BY DEF Thread, Same

LEMMA GoesTo ==
    ASSUME AInv, NEW t \in Threads
    PROVE  /\ \A l : l # "seal" /\ (Goto(t, l) \/ \E v : Number(t, l, v) \/ Local(t, l, v)) => Goes(t)
           /\ Answer(t) => Goes(t) /\ th'[t] = Idle
<1>1. th \in [Threads -> Thread] BY DEF AInv, Types
<1>2. PICK q \in Thread : q = th[t] BY <1>1
<1>3. ASSUME NEW l, l # "seal", Goto(t, l) \/ \E v : Number(t, l, v) \/ Local(t, l, v)
      PROVE  Goes(t)
  <2>1. ASSUME NEW r, th' = [th EXCEPT ![t] = r], Same(r, q) /\ r.pc = l /\ r.seen = q.seen
        PROVE  Goes(t)
    <3>1. th'[t] = r /\ \A u \in Threads \ {t} : th'[u] = th[u] BY <1>1, <2>1
    <3> QED BY <1>2, <1>3, <2>1, <3>1 DEF Goes
  <2>2. CASE Goto(t, l)
    <3>1. PICK r : r = [q EXCEPT !.pc = l] OBVIOUS
    <3>2. th' = [th EXCEPT ![t] = r] BY <1>2, <2>2, <3>1 DEF Goto
    <3> QED BY <2>1, <3>1, <3>2, FieldsStay
  <2>3. ASSUME NEW v, Number(t, l, v) PROVE Goes(t)
    <3>1. PICK r : r = [q EXCEPT !.pc = l, !.num = v] OBVIOUS
    <3>2. th' = [th EXCEPT ![t] = r] BY <1>2, <2>3, <3>1 DEF Number
    <3> QED BY <2>1, <3>1, <3>2, FieldsStay
  <2>4. ASSUME NEW v, Local(t, l, v) PROVE Goes(t)
    <3>1. PICK r : r = [q EXCEPT !.pc = l, !.loc = v] OBVIOUS
    <3>2. th' = [th EXCEPT ![t] = r] BY <1>2, <2>4, <3>1 DEF Local
    <3> QED BY <2>1, <3>1, <3>2, FieldsStay
  <2> QED BY <1>3, <2>2, <2>3, <2>4
<1>4. Answer(t) => Goes(t) /\ th'[t] = Idle BY <1>1 DEF Answer, Goes
<1> QED BY <1>3, <1>4

LEMMA SendingKeeps ==
    ASSUME Sending, NEW t \in Threads, sent' = sent,
           \A u \in Threads \ {t} : th'[u] = th[u], th'[t] = Idle \/ Same(th'[t], th[t])
    PROVE  Sending'
<1>1. ASSUME NEW u \in Threads
      PROVE  /\ th'[u].op = "Write" => Pairs(th'[u].arg) \subseteq sent[th'[u].oid]
             /\ th'[u].op = "Resize" => sent[th'[u].oid] = {}
  <2>1. CASE u = t /\ th'[t] = Idle BY <2>1, IdleRecord
  <2>2. CASE u = t /\ Same(th'[t], th[t]) BY <2>2 DEF Same, Sending
  <2>3. CASE u # t BY <2>3 DEF Sending
  <2> QED BY <2>1, <2>2, <2>3
<1> QED BY <1>1 DEF Sending, Pairs

\* What a thread that goes on knows.
LEMMA GoingKnows ==
    ASSUME CInv, NEW t \in Threads, th[t].pc \notin {"idle", "leave"}, Goes(t)
    PROVE  \A z : Knows(th[t], z)'
<1>1. CASE th'[t] = Idle
  <2>1. PICK r : r = Idle OBVIOUS
  <2>2. th'[t] = r /\ r.pc = "idle" /\ r.op = "" BY <1>1, <2>1, IdleRecord
  <2> QED BY <2>2 DEF Knows
<1>2. CASE Same(th'[t], th[t]) /\ th'[t].pc # "seal" /\ th'[t].seen = th[t].seen
  <2>1. th[t].oid \in Oids BY Here DEF CInv, SInv
  <2>2. th[t].op = "Read" => th[t].seen = <<>> BY <2>1 DEF CInv, Knowledge, Knows
  <2>3. th'[t].op = "Read" => th'[t].seen = <<>> BY <1>2, <2>2 DEF Same
  <2> QED BY <1>2, <2>3 DEF Knows
<1> QED BY <1>1, <1>2 DEF Goes
LEMMA LeavingKnows == ASSUME NEW t \in Threads, th'[t] = Idle PROVE \A z : Knows(th[t], z)'
<1>1. PICK r : r = Idle OBVIOUS
<1>2. th'[t] = r /\ r.pc = "idle" /\ r.op = "" BY <1>1, IdleRecord
<1> QED BY <1>2 DEF Knows

\* The document is not one of an incomplete object, nor is it one afterwards, or it stays.
LEMMA QuietContents ==
    ASSUME CInv, SInv', stray \subseteq stray', NEW t \in Threads, th[t].pc \notin {"idle", "settle"}, Goes(t),
           th[t].pc # "leave" \/ th'[t] = Idle,
           UNCHANGED <<store, node, sent>>, Kept, DOMAIN entries' = DOMAIN entries,
           \/ UNCHANGED <<doc, sealed>>
           \/ /\ \E d : ~IsObject(d) /\ doc' = [doc EXCEPT ![Oid(t)] = d]
              /\ ~Incomplete(doc[Oid(t)])
              /\ \/ UNCHANGED sealed
                 \/ sealed' = [sealed EXCEPT ![Oid(t)] = None] /\ th[t].pc \in Inside
    PROVE  CInv'
<1>1. PICK o \in Oids : o = th[t].oid BY Here DEF CInv, SInv
<1>2. Sending' BY SendingKeeps DEF CInv, Goes
<1>3. doc \in [Oids -> Documents \cup {None, Stub}] BY DEF CInv, SInv, AInv, Types
<1>4. \A p \in Oids \ {o} : doc'[p] = doc[p] BY <1>1, <1>3 DEF Oid
<1>5. Acts(t, o) BY <1>1, <1>4 DEF Acts, Goes
<1>6. \A z : Knows(th[t], z)' BY GoingKnows, LeavingKnows
<1>7. /\ sealed' \in [Oids -> Sealing \cup {None}]
      /\ \A p \in Oids \ {o} : sealed'[p] = sealed[p] /\ sent[p] \subseteq sent'[p]
  BY <1>1 DEF CInv, Contents, Oid
<1>8. \/ doc'[o] = doc[o] /\ sent[o] \subseteq sent'[o]
      \/ ~Incomplete(doc[o]) /\ ~Incomplete(doc'[o])
  BY <1>1, <1>3 DEF Oid, Incomplete
<1>9. o \in Sealed' => doc'[o] = doc[o] /\ sealed'[o] = sealed[o] /\ (GivenBack(o) => GivenBack(o)')
  <2>1. ASSUME GivenBack(o) PROVE GivenBack(o)'
    <3>1. PICK u \in Threads : Oid(u) = o /\ At(u, "settle") BY <2>1 DEF GivenBack
    <3>2. u # t BY <3>1 DEF At
    <3>3. th'[u] = th[u] BY <3>2 DEF Goes
    <3> QED BY <3>1, <3>3 DEF GivenBack, Oid, At
  <2>2. o \in Sealed' => IsObject(doc'[o]) BY DEF Sealed, Objects, IsObject
  <2> QED BY <1>1, <1>3, <2>1, <2>2 DEF Oid
<1>10. \/ sealed'[o] = sealed[o]
       \/ \A u \in Threads \ {t} : th[u].oid = o => th[u].pc \notin {"seal", "leave"}
  <2>1. CASE UNCHANGED sealed BY <2>1
  <2>2. CASE th[t].pc \in Inside
    <3> SUFFICES ASSUME NEW u \in Threads \ {t}, th[u].oid = o, th[u].pc \in {"seal", "leave"}
                 PROVE  FALSE
      OBVIOUS
    <3>1. InsideOf(u, o) /\ InsideOf(t, o) BY <1>1, <2>2 DEF InsideOf, Inside
    <3> QED BY <3>1 DEF CInv, SInv, AInv, IInv, Exclusive
  <2> QED BY <2>1, <2>2
<1> QED BY <1>2, <1>5, <1>6, <1>7, <1>8, <1>9, <1>10, StepContents
-----------------------------------------------------------------------------
LEMMA CreatingContents ==
    ASSUME CInv, SInv', stray \subseteq stray', NEW t \in Threads,
           \/ Allocate(t) \/ AllocateFails(t) \/ LockNew(t) \/ CacheNew(t) \/ VolumeInfo(t)
           \/ Link(t) \/ LinkUndo(t) \/ LockTimeout(t) \/ Lock(t) \/ Leave(t)
    PROVE  CInv'
<1>0. AInv BY DEF CInv, SInv
<1>1. th[t].pc \notin {"idle", "settle"}
  BY DEF Allocate, AllocateFails, LockNew, CacheNew, VolumeInfo, Link, LinkUndo, LockTimeout,
         Lock, Leave, At
<1>2. th[t].pc # "leave" \/ Answer(t)
  BY DEF Allocate, AllocateFails, LockNew, CacheNew, VolumeInfo, Link, LinkUndo, LockTimeout,
         Lock, Leave, At
<1>3. \/ Answer(t)
      \/ \E l : l # "seal" /\ (Goto(t, l) \/ \E v : Number(t, l, v))
  BY DEF Allocate, AllocateFails, LockNew, CacheNew, VolumeInfo, Link, LinkUndo, LockTimeout,
         Lock, Leave
<1>4. Goes(t) /\ (th[t].pc # "leave" \/ th'[t] = Idle) BY <1>0, <1>2, <1>3, GoesTo
<1>5. UNCHANGED <<store, node, sent, doc, sealed>>
  BY DEF Allocate, AllocateFails, LockNew, CacheNew, VolumeInfo, Link, LinkUndo, LockTimeout,
         Lock, Leave, data
<1>6. entries' = entries \/ \E i \in DOMAIN entries : AddRef(i, Oid(t)) \/ DropRef(i, Oid(t))
  <2>1. CASE LinkUndo(t)
    <3>1. DropRef(th[t].num, Oid(t)) /\ th[t].pc = "link undo" BY <2>1 DEF LinkUndo, At
    <3>2. th[t].num \in DOMAIN entries BY <1>0, <3>1 DEF AInv, Types, Refers
    <3> QED BY <3>1, <3>2
  <2>2. CASE ~LinkUndo(t)
    BY <2>2 DEF Allocate, AllocateFails, LockNew, CacheNew, VolumeInfo, Link, Matching,
                LockTimeout, Lock, Leave, data
  <2> QED BY <2>1, <2>2
<1>7. Oid(t) \in Oids BY <1>0, <1>1, Here DEF Oid
<1>8. Kept /\ DOMAIN entries' = DOMAIN entries BY <1>0, <1>6, <1>7, EntriesStay
<1> QED BY <1>1, <1>4, <1>5, <1>8, QuietContents

LEMMA HandlingContents ==
    ASSUME CInv, SInv', stray \subseteq stray', NEW t \in Threads,
           \/ Refuse(t) \/ NodeFails(t) \/ AddChip(t) \/ AddChipFails(t) \/ DeleteRef(t)
           \/ DeleteCache(t) \/ Load(t) \/ FindEntry(t)
    PROVE  CInv'
<1>0. AInv BY DEF CInv, SInv
<1>1. th[t].pc \notin {"idle", "settle", "leave"}
  BY DEF Refuse, NodeFails, AddChip, AddChipFails, DeleteRef, DeleteCache, Load, FindEntry, Ready, At
<1>2. Goes(t)
  <2>1. CASE Load(t)
    <3>1. th \in [Threads -> Thread] BY <1>0 DEF AInv, Types
    <3>2. PICK q \in Thread : q = th[t] BY <3>1
    <3>3. CASE Goto(t, "leave") BY <1>0, <3>3, GoesTo
    <3>4. ASSUME NEW c, th' = [th EXCEPT ![t].pc = "loaded", ![t].loc = c, ![t].old = c]
          PROVE  Goes(t)
      <4>1. PICK r : r = [q EXCEPT !.pc = "loaded", !.loc = c, !.old = c] OBVIOUS
      <4>2. th' = [th EXCEPT ![t] = r] BY <3>2, <3>4, <4>1
      <4>3. Same(r, q) /\ r.pc = "loaded" /\ r.seen = q.seen BY <4>1 DEF Thread, Same
      <4> QED BY <3>1, <3>2, <4>2, <4>3 DEF Goes
    <3> QED BY <2>1, <3>3, <3>4 DEF Load
  <2>2. CASE FindEntry(t)
    <3>1. th \in [Threads -> Thread] BY <1>0 DEF AInv, Types
    <3>2. PICK q \in Thread : q = th[t] BY <3>1
    <3>3. CASE Goto(t, "new entry") BY <1>0, <3>3, GoesTo
    <3>4. ASSUME NEW w, NEW i, th' = [th EXCEPT ![t].pc = "chip", ![t].bytes = w, ![t].num = i]
          PROVE  Goes(t)
      <4>1. PICK r : r = [q EXCEPT !.pc = "chip", !.bytes = w, !.num = i] OBVIOUS
      <4>2. th' = [th EXCEPT ![t] = r] BY <3>2, <3>4, <4>1
      <4>3. Same(r, q) /\ r.pc = "chip" /\ r.seen = q.seen BY <4>1 DEF Thread, Same
      <4> QED BY <3>1, <3>2, <4>2, <4>3 DEF Goes
    <3> QED BY <2>2, <3>3, <3>4 DEF FindEntry
  <2>3. CASE ~Load(t) /\ ~FindEntry(t)
    <3>1. \E l : l # "seal" /\ (Goto(t, l) \/ \E v : Local(t, l, v))
      BY <2>3 DEF Refuse, NodeFails, AddChip, AddChipFails, DeleteRef, DeleteCache
    <3> QED BY <1>0, <3>1, GoesTo
  <2> QED BY <2>1, <2>2, <2>3
<1>5. UNCHANGED <<store, node, sent, doc, sealed>>
  BY DEF Refuse, NodeFails, AddChip, AddChipFails, DeleteRef, DeleteCache, Load, FindEntry, data
<1>6. entries' = entries \/ \E i \in DOMAIN entries : AddRef(i, Oid(t)) \/ DropRef(i, Oid(t))
  BY DEF Refuse, NodeFails, AddChip, AddChipFails, DeleteRef, DeleteCache, Load, FindEntry, Matching
<1>7. Oid(t) \in Oids BY <1>0, <1>1, Here DEF Oid
<1>8. Kept /\ DOMAIN entries' = DOMAIN entries BY <1>0, <1>6, <1>7, EntriesStay
<1> QED BY <1>1, <1>2, <1>5, <1>8, QuietContents

\* A document goes, or becomes a stub.
LEMMA DocumentContents ==
    ASSUME CInv, SInv', stray \subseteq stray', NEW t \in Threads, Undo(t) \/ LinkInsert(t) \/ DeleteDocument(t)
    PROVE  CInv'
<1>0. AInv BY DEF CInv, SInv
<1>1. /\ th[t].pc \in {"undo", "undo twice", "link insert", "loaded"}
      /\ UNCHANGED <<store, node, sent, entries>>
  BY DEF Undo, LinkInsert, DeleteDocument, Ready, At, data
<1>2. Goes(t)
  <2>1. Answer(t) \/ \E l : l # "seal" /\ Goto(t, l) BY DEF Undo, LinkInsert, DeleteDocument
  <2> QED BY <1>0, <2>1, GoesTo
<1>3. Kept /\ DOMAIN entries' = DOMAIN entries BY <1>1 DEF Kept
<1>4. PICK o \in Oids : o = th[t].oid /\ o = Oid(t) BY <1>0, <1>1, Here DEF Oid
<1>5. CASE Undo(t)
  <2>1. View(th[t], doc[o], cache[o]) BY <1>0, <1>1, <1>4, Here
  <2>2. doc[o] \in {Stub, None} BY <1>5, <2>1 DEF Undo, At, View
  <2>3. ~Incomplete(doc[o]) BY <2>2, DocumentIsObject DEF Incomplete
  <2>4. ~IsObject(None) /\ doc' = [doc EXCEPT ![o] = None] /\ UNCHANGED sealed
    BY <1>4, <1>5, DocumentIsObject DEF Undo
  <2> QED BY <1>1, <1>2, <1>3, <1>4, <2>3, <2>4, QuietContents
<1>6. CASE LinkInsert(t)
  <2>1. CASE doc[o] = None
    <3>1. ~Incomplete(doc[o]) BY <2>1, DocumentIsObject DEF Incomplete
    <3>2. ~IsObject(Stub) /\ doc' = [doc EXCEPT ![o] = Stub] /\ UNCHANGED sealed
      BY <1>4, <1>6, <2>1, DocumentIsObject DEF LinkInsert
    <3> QED BY <1>1, <1>2, <1>3, <1>4, <3>1, <3>2, QuietContents
  <2>2. CASE doc[o] # None
    <3>1. UNCHANGED <<doc, sealed>> BY <1>4, <1>6, <2>2 DEF LinkInsert
    <3> QED BY <1>1, <1>2, <1>3, <3>1, QuietContents
  <2> QED BY <2>1, <2>2
<1>7. CASE DeleteDocument(t)
  <2>1. /\ th[t].pc = "loaded" /\ th[t].loc.complete /\ doc' = [doc EXCEPT ![o] = None]
        /\ sealed' = [sealed EXCEPT ![o] = None]
    BY <1>4, <1>7 DEF DeleteDocument, Ready, At, Loc
  <2>2. View(th[t], doc[o], cache[o]) BY <1>0, <1>1, <1>4, Here
  <2>3. IsObject(doc[o]) /\ InDoc(th[t].loc) = doc[o] BY <2>1, <2>2 DEF View, Agrees
  <2>4. ~Incomplete(doc[o]) BY <2>1, <2>3 DEF Incomplete, InDoc
  <2>5. ~IsObject(None) /\ th[t].pc \in Inside BY <2>1, DocumentIsObject DEF Inside
  <2> QED BY <1>1, <1>2, <1>3, <1>4, <2>1, <2>4, <2>5, QuietContents
<1> QED BY <1>5, <1>6, <1>7
-----------------------------------------------------------------------------
(***************************************************************************)
(* Calls, and the steps that make or change a document.                    *)
(***************************************************************************)
LEMMA InsertContents ==
    ASSUME CInv, SInv', stray \subseteq stray', NEW t \in Threads, Insert(t)
    PROVE  CInv'
<1>0. AInv BY DEF CInv, SInv
<1>1. th[t].pc = "insert" /\ UNCHANGED <<store, node, sealed, entries>> BY DEF Insert, At, data
<1>2. PICK o \in Oids : o = th[t].oid /\ o = Oid(t) BY <1>0, <1>1, Here DEF Oid
<1>3. Goes(t)
  <2>1. Answer(t) \/ Goto(t, "alloc") BY DEF Insert
  <2> QED BY <1>0, <2>1, GoesTo
<1>4. Kept /\ DOMAIN entries' = DOMAIN entries BY <1>1 DEF Kept
<1>5. CASE doc[o] # None
  <2>1. UNCHANGED <<doc, sent>> BY <1>2, <1>5 DEF Insert
  <2> QED BY <1>1, <1>3, <1>4, <2>1, QuietContents
<1>6. CASE doc[o] = None
  <2>1. doc' = [doc EXCEPT ![o] = Stub] /\ sent' = [sent EXCEPT ![o] = {}] BY <1>2, <1>6 DEF Insert
  <2>2. doc'[o] = Stub /\ \A p \in Oids \ {o} : doc'[p] = doc[p] BY <1>0, <2>1 DEF AInv, Types
  <2>3. sent \in [Oids -> SUBSET (Nat \X Nat)] BY DEF CInv, Sending
  <2>4. /\ sent' \in [Oids -> SUBSET (Nat \X Nat)] /\ sent'[o] = {}
        /\ \A p \in Oids \ {o} : sent'[p] = sent[p]
    BY <2>1, <2>3
  <2>5. th[t].op = "Create" BY <1>0, <1>1, Here DEF Fit, Creating
  <2>6. \A u \in Threads \ {t} : th[u].oid = o => th[u].op = "" BY <1>0, <1>2, <2>5 DEF AInv, Alone
  <2>7. th'[t].op \in {"", "Create"} BY <1>3, <2>5, IdleRecord DEF Goes, Same
  <2>8. Sending'
    <3>1. \A p \in Oids : \A v, w \in sent'[p] : v[1] = w[1] => v = w BY <2>4 DEF CInv, Sending
    <3>2. ASSUME NEW u \in Threads
          PROVE  /\ th'[u].op = "Write" => Pairs(th'[u].arg) \subseteq sent'[th'[u].oid]
                 /\ th'[u].op = "Resize" => sent'[th'[u].oid] = {}
      <4>1. CASE u = t BY <2>7, <4>1
      <4>2. CASE u # t /\ th[u].oid = o BY <1>3, <2>6, <4>2 DEF Goes
      <4>3. CASE u # t /\ th[u].oid # o
        <5>1. th[u].op # "" => th[u].oid \in Oids BY <1>0 DEF AInv, Types, Fit
        <5>2. /\ th[u].op = "Write" => Pairs(th[u].arg) \subseteq sent[th[u].oid]
              /\ th[u].op = "Resize" => sent[th[u].oid] = {}
          BY DEF CInv, Sending
        <5>3. th'[u] = th[u] BY <1>3, <4>3 DEF Goes
        <5> QED BY <2>4, <4>3, <5>1, <5>2, <5>3
      <4> QED BY <4>1, <4>2, <4>3
    <3> QED BY <2>4, <3>1, <3>2 DEF Sending, Pairs
  <2>9. Acts(t, o) BY <1>1, <1>3, <1>4, <2>2 DEF Acts, Goes
  <2>10. ~Incomplete(doc[o]) /\ ~Incomplete(doc'[o]) BY <1>6, <2>2, DocumentIsObject DEF Incomplete
  <2>11. o \notin Sealed' BY <2>2, DocumentIsObject DEF Sealed, Objects, IsObject
  <2>12. \A z : Knows(th[t], z)' BY <1>1, <1>3, GoingKnows
  <2>13. sealed' \in [Oids -> Sealing \cup {None}] BY <1>1 DEF CInv, Contents
  <2> QED BY <1>1, <1>4, <2>4, <2>8, <2>9, <2>10, <2>11, <2>12, <2>13, StepContents
<1> QED BY <1>5, <1>6

\* The bytes of a write are there once.
LEMMA PairsTyped ==
    ASSUME NEW w \in Writes
    PROVE  /\ Pairs(w) \subseteq Nat \X Nat
           /\ \A p, q \in Pairs(w) : p[1] = q[1] => p = q
           /\ \A i \in 1..Len(w.data) : <<w.off + i - 1, w.data[i]>> \in Pairs(w)
<1>1. PICK n \in Nat, d \in Seq(Nat) : n = w.off /\ d = w.data BY DataAssumption
<1>2. DOMAIN d = 1..Len(d) /\ Len(d) \in Nat /\ \A i \in 1..Len(d) : d[i] \in Nat
  BY LenProperties, ElementOfSeq
<1>3. Pairs(w) = {<<n + i - 1, d[i]>> : i \in 1..Len(d)} BY <1>1, <1>2 DEF Pairs
<1>4. \A i \in 1..Len(d) : n + i - 1 \in Nat BY <1>2
<1>5. ASSUME NEW p \in Pairs(w), NEW q \in Pairs(w), p[1] = q[1] PROVE p = q
  <2>1. PICK i \in 1..Len(d) : p = <<n + i - 1, d[i]>> BY <1>3
  <2>2. PICK j \in 1..Len(d) : q = <<n + j - 1, d[j]>> BY <1>3
  <2>3. i = j BY <1>2, <1>5, <2>1, <2>2
  <2> QED BY <2>1, <2>2, <2>3
<1>6. Pairs(w) \subseteq Nat \X Nat BY <1>2, <1>3, <1>4
<1> QED BY <1>1, <1>3, <1>5, <1>6

LEMMA CallContents ==
    ASSUME CInv, SInv', stray \subseteq stray', NEW t \in Threads, Calls(t)
    PROVE  CInv'
<1>0. AInv BY DEF CInv, SInv
<1>1. PICK o \in Oids : \/ CallCreate(t, o) \/ CallLink(t, o) \/ CallWrite(t, o)
                        \/ CallResize(t, o) \/ CallOther(t, o)
  BY DEF Calls
<1>2. PICK op, arg, l : /\ Call(t, o, op, arg, l) /\ l \in {"insert", "link", "lock"}
                        /\ op = "Write" => arg \in Writes
  <2>1. CASE CallCreate(t, o) BY <2>1 DEF CallCreate
  <2>2. CASE CallLink(t, o) BY <2>2 DEF CallLink
  <2>3. CASE CallWrite(t, o) BY <2>3 DEF CallWrite
  <2>4. CASE CallResize(t, o) BY <2>4 DEF CallResize
  <2>5. CASE CallOther(t, o) BY <2>5 DEF CallOther
  <2> QED BY <1>1, <2>1, <2>2, <2>3, <2>4, <2>5
<1>3. PICK r : r = [Idle EXCEPT !.op = op, !.oid = o, !.pc = l, !.arg = arg] OBVIOUS
<1>4. /\ th' = [th EXCEPT ![t] = r] /\ UNCHANGED <<doc, entries, store, node, sealed>>
      /\ th[t].pc = "idle" /\ MayCall(o, op, arg)
      /\ sent' = IF op = "Write" THEN [sent EXCEPT ![o] = @ \cup Pairs(arg)] ELSE sent
  BY <1>2, <1>3 DEF Call, data, At
<1>5. r.pc = l /\ r.op = op /\ r.oid = o /\ r.arg = arg /\ r.seen = <<>>
  BY <1>3 DEF Idle
<1>6. th'[t] = r /\ \A u \in Threads \ {t} : th'[u] = th[u] BY <1>0, <1>4 DEF AInv, Types
<1>7. Kept /\ DOMAIN entries' = DOMAIN entries BY <1>4 DEF Kept
<1>8. Acts(t, o) BY <1>4, <1>6, <1>7 DEF Acts
<1>9. /\ sent' \in [Oids -> SUBSET (Nat \X Nat)]
      /\ sent[o] \subseteq sent'[o] /\ (op # "Write" => sent'[o] = sent[o])
      /\ op = "Write" => sent'[o] = sent[o] \cup Pairs(arg)
      /\ \A p \in Oids \ {o} : sent'[p] = sent[p]
  <2>1. sent \in [Oids -> SUBSET (Nat \X Nat)] BY DEF CInv, Sending
  <2>2. op = "Write" => Pairs(arg) \subseteq Nat \X Nat BY <1>2, PairsTyped
  <2> QED BY <1>4, <2>1, <2>2
<1>10. Sending'
  <2>1. ASSUME NEW p \in Oids, NEW v \in sent'[p], NEW w \in sent'[p], v[1] = w[1] PROVE v = w
    <3>1. \A x, y \in sent[p] : x[1] = y[1] => x = y BY DEF CInv, Sending
    <3>2. CASE p # o \/ op # "Write" BY <1>9, <2>1, <3>1, <3>2
    <3>3. CASE p = o /\ op = "Write"
      <4>1. \A x \in Pairs(arg), y \in sent[o] : x[1] = y[1] => x = y BY <1>4, <3>3 DEF MayCall
      <4>2. \A x, y \in Pairs(arg) : x[1] = y[1] => x = y BY <1>2, <3>3, PairsTyped
      <4>3. v \in sent[o] \cup Pairs(arg) /\ w \in sent[o] \cup Pairs(arg) BY <1>9, <3>3
      <4> QED BY <2>1, <3>1, <3>3, <4>1, <4>2, <4>3
    <3> QED BY <3>2, <3>3
  <2>2. ASSUME NEW u \in Threads
        PROVE  /\ th'[u].op = "Write" => Pairs(th'[u].arg) \subseteq sent'[th'[u].oid]
               /\ th'[u].op = "Resize" => sent'[th'[u].oid] = {}
    <3>1. CASE u = t
      <4>1. op = "Resize" => sent[o] = {} BY <1>4 DEF MayCall
      <4> QED BY <1>5, <1>6, <1>9, <3>1, <4>1
    <3>2. CASE u # t
      <4>1. PICK q : q = th[u] OBVIOUS
      <4>2. th'[u] = q BY <1>6, <3>2, <4>1
      <4>3. q.op # "" => q.oid \in Oids BY <1>0, <4>1 DEF AInv, Types, Fit
      <4>4. /\ q.op = "Write" => Pairs(q.arg) \subseteq sent[q.oid]
            /\ q.op = "Resize" => sent[q.oid] = {}
        BY <4>1 DEF CInv, Sending
      <4>5. q.op = "Resize" /\ q.oid = o => op # "Write"
        BY <1>4, <4>1 DEF MayCall, Busy, Oid
      <4> QED BY <1>9, <4>2, <4>3, <4>4, <4>5
    <3> QED BY <3>1, <3>2
  <2> QED BY <1>9, <2>1, <2>2 DEF Sending, Pairs
<1>11. o \in Sealed' => doc'[o] = doc[o] /\ sealed'[o] = sealed[o] /\ (GivenBack(o) => GivenBack(o)')
  <2>1. ASSUME GivenBack(o) PROVE GivenBack(o)'
    <3>1. PICK u \in Threads : Oid(u) = o /\ At(u, "settle") BY <2>1 DEF GivenBack
    <3>2. u # t BY <1>4, <3>1 DEF At
    <3>3. th'[u] = th[u] BY <1>6, <3>2
    <3> QED BY <3>1, <3>3 DEF GivenBack, Oid, At
  <2> QED BY <1>4, <2>1
<1>12. \A z : Knows(th[t], z)'
  BY <1>2, <1>5, <1>6 DEF Knows
<1>13. sealed' \in [Oids -> Sealing \cup {None}] BY <1>4 DEF CInv, Contents
<1> QED BY <1>4, <1>7, <1>8, <1>9, <1>10, <1>11, <1>12, <1>13, StepContents
-----------------------------------------------------------------------------
\* An incomplete object has bytes of its own.
LEMMA IncompleteOwns ==
    ASSUME SInv, NEW o \in Oids, Incomplete(doc[o])
    PROVE  /\ doc[o] \in Documents /\ doc[o].begin \in Begins /\ doc[o].begin \in Nat
           /\ doc[o].size \in Nat \ {0} /\ o \in Private
           /\ Claim(<<"object", o>>) = Extent(doc[o].begin, doc[o].size)
           /\ doc[o].begin \in Claim(<<"object", o>>)
<1>1. PICK d : d = doc[o] OBVIOUS
<1>2. d \in Documents BY <1>1, DocumentIsObject DEF Incomplete, SInv, AInv, Types
<1>3. d.begin \in Begins /\ d.size \in Nat \ {0} /\ d.begin \in Nat
  BY <1>2, BeginsAreNaturals DEF Documents, Inbound
<1>4. ~GivenBack(o)
  <2> SUFFICES ASSUME NEW u \in Threads, th[u].oid = o, th[u].pc = "settle" PROVE FALSE
    BY DEF GivenBack, Oid, At
  <2>1. PICK l : l = th[u].loc OBVIOUS
  <2>2. View(th[u], d, cache[o]) BY <1>1, Here DEF SInv
  <2>3. l.complete /\ InDoc(l) = [d EXCEPT !.begin = l.begin] BY <2>1, <2>2 DEF View
  <2>4. d.complete
    <3>1. PICK b : b = l.begin OBVIOUS
    <3>2. [d EXCEPT !.begin = b].complete = d.complete
      BY ONLY <1>2 DEF Documents, Inbound
    <3>3. InDoc(l).complete = l.complete BY ONLY TRUE DEF InDoc
    <3> QED BY <2>3, <3>1, <3>2, <3>3
  <2> QED BY <1>1, <2>4 DEF Incomplete
<1>5. o \in Private BY <1>1, <1>4 DEF Private, Objects, Incomplete
<1>6. Claim(<<"object", o>>) = Extent(d.begin, d.size) BY <1>1, <1>5, Claims DEF OwnBytes
<1>7. d.begin \in Extent(d.begin, d.size) BY <1>3, ExtentsHaveBytes
<1> QED BY <1>1, <1>2, <1>3, <1>5, <1>6, <1>7

LEMMA FillDocumentContents ==
    ASSUME CInv, SInv', stray \subseteq stray', NEW t \in Threads, FillDocument(t)
    PROVE  CInv'
<1>0. AInv BY DEF CInv, SInv
<1>1. th[t].pc = "update" /\ UNCHANGED <<store, node, sent, sealed, entries>>
  BY DEF FillDocument, At, data
<1>2. PICK o \in Oids : o = th[t].oid /\ o = Oid(t) BY <1>0, <1>1, Here DEF Oid
<1>3. PICK q : q = th[t] OBVIOUS
<1>4. /\ doc[o] = Stub /\ Fit(q) /\ q.op = "Create"
      /\ doc[o] \in Documents \cup {None, Stub}
  BY <1>0, <1>1, <1>2, <1>3, Here DEF View, Fit, Creating
<1>5. q.num \in Begins /\ q.num \in Nat /\ q.arg \in Nat \ {0}
  BY <1>1, <1>3, <1>4, BeginsAreNaturals, ObjectAssumption DEF Fit
<1>6. doc' = [doc EXCEPT ![o] = Object(q.num, q.arg)]
  BY <1>0, <1>2, <1>3, <1>4, DataAssumption DEF FillDocument, Oid, Arg, AInv, Types
<1>7. doc'[o] = Object(q.num, q.arg) /\ \A p \in Oids \ {o} : doc'[p] = doc[p]
  BY <1>0, <1>6 DEF AInv, Types
<1>8. Goes(t) /\ Kept /\ DOMAIN entries' = DOMAIN entries
  BY <1>0, <1>1, GoesTo DEF FillDocument, Kept
<1>9. Acts(t, o) BY <1>1, <1>7, <1>8 DEF Acts, Goes
<1>10. node[q.num] = <<>>
  <2> SUFFICES ASSUME node[q.num] # <<>> PROVE FALSE OBVIOUS
  <2>1. PICK p \in Oids : Incomplete(doc[p]) /\ doc[p].begin = q.num BY <1>5 DEF CInv, Running
  <2>2. q.num \in Claim(<<"object", p>>) BY <2>1, IncompleteOwns DEF CInv
  <2>3. InHand(t) = Extent(q.num, q.arg) BY <1>1, <1>3 DEF InHand, At, Arg
  <2>4. q.num \in InHand(t) BY <1>5, <2>3, ExtentsHaveBytes
  <2> QED BY <2>2, <2>4, ThreeAreDisjoint DEF CInv
<1>11. ~Incomplete(doc[o]) BY <1>4, DocumentIsObject DEF Incomplete
<1>12. doc'[o].begin = q.num /\ ~doc'[o].complete BY <1>7 DEF Object
<1>13. o \notin Sealed' BY <1>12 DEF Sealed
<1>14. Sending' BY <1>1, <1>8, SendingKeeps DEF CInv, Goes
<1>15. \A z : Knows(th[t], z)' BY <1>1, <1>8, GoingKnows
<1>16. sealed' \in [Oids -> Sealing \cup {None}] BY <1>1 DEF CInv, Contents
<1> QED BY <1>1, <1>8, <1>9, <1>10, <1>11, <1>12, <1>13, <1>14, <1>15, <1>16, StepContents

LEMMA LinkUpdateContents ==
    ASSUME CInv, SInv', stray \subseteq stray', NEW t \in Threads, LinkUpdate(t)
    PROVE  CInv'
<1>0. AInv BY DEF CInv, SInv
<1>1. th[t].pc = "link update" /\ UNCHANGED <<store, node, sent, entries>>
  BY DEF LinkUpdate, At, data
<1>2. PICK o \in Oids : o = th[t].oid /\ o = Oid(t) BY <1>0, <1>1, Here DEF Oid
<1>3. PICK i : i = th[t].num OBVIOUS
<1>4. /\ doc[o] = Stub /\ i \in DOMAIN entries /\ th[t].op = "Link"
  BY <1>0, <1>1, <1>2, <1>3, Here DEF View, AInv, Types, Refers, Fit, Linking
<1>5. PICK e \in Entry : e = entries[i] BY <1>0, <1>4, EntryAt
<1>6. PICK d, z : /\ d = [begin |-> e.begin, size |-> e.size, complete |-> TRUE, hash |-> e.hash]
                  /\ z = Seen(e.begin, e.size, FALSE)
  OBVIOUS
<1>7. doc' = [doc EXCEPT ![o] = d] /\ sealed' = [sealed EXCEPT ![o] = z]
  BY <1>0, <1>2, <1>3, <1>4, <1>5, <1>6, DataAssumption DEF LinkUpdate, Oid, AInv, Types
<1>8. doc'[o] = d /\ \A p \in Oids \ {o} : doc'[p] = doc[p] BY <1>0, <1>7 DEF AInv, Types
<1>9. Goes(t) /\ th'[t] = Idle /\ Kept /\ DOMAIN entries' = DOMAIN entries
  BY <1>0, <1>1, GoesTo DEF LinkUpdate, Kept
<1>10. Acts(t, o) BY <1>1, <1>8, <1>9 DEF Acts, Goes
<1>11. ~Incomplete(doc[o]) /\ ~Incomplete(doc'[o])
  BY <1>4, <1>6, <1>8, DocumentIsObject DEF Incomplete
<1>12. /\ d.begin = e.begin /\ d.size = e.size /\ d.hash = e.hash
       /\ z.content = Content(e.begin, e.size) /\ z.plain = FALSE
  BY ONLY <1>6 DEF Seen
<1>13. z \in Sealing
  <2>1. PICK c : c = [begin |-> e.begin, size |-> e.size, complete |-> TRUE, hash |-> e.hash, redo |-> FALSE]
    OBVIOUS
  <2>2. c \in Records BY <2>1 DEF Entry, Records, Inbound
  <2>3. c.begin = e.begin /\ c.size = e.size BY ONLY <2>1
  <2>4. Content(e.begin, e.size) \in Seq(Nat) BY <1>0, <2>2, <2>3, ContentTyped
  <2> QED BY <1>6, <2>4 DEF Seen, Sealing
<1>14. sealed' \in [Oids -> Sealing \cup {None}] /\ sealed'[o] = z
       /\ \A p \in Oids \ {o} : sealed'[p] = sealed[p]
  BY <1>7, <1>13 DEF CInv, Contents
<1>15. ObjectHolds(o)'
  <2>1. EntryHolds(i) BY <1>4 DEF CInv, Contents
  <2>2. Trusted(d.hash, d.size) => z.content = End(d.hash, d.size)
    BY <1>5, <1>12, <2>1 DEF EntryHolds
  <2>3. HashOK(d.hash, d.size, z) BY <1>12, <2>2 DEF HashOK
  <2>4. z.content = Content(d.begin, d.size)' BY <1>1, <1>12 DEF Content
  <2>5. doc'[o] = d /\ sealed'[o] = z BY <1>8, <1>14
  <2> QED BY <1>13, <2>3, <2>4, <2>5 DEF ObjectHolds, HashOK, Trusted, End, Sealing, Content
<1>16. Sending' BY <1>1, <1>9, SendingKeeps DEF CInv, Goes
<1>17. \A u \in Threads \ {t} : th[u].oid = o => th[u].pc \notin {"seal", "leave"}
  <2> SUFFICES ASSUME NEW u \in Threads \ {t}, th[u].oid = o PROVE th[u].pc = "idle" OBVIOUS
  <2>1. th[u].op = "" BY <1>0, <1>2, <1>4 DEF AInv, Alone
  <2> QED BY <1>0, <2>1 DEF AInv, Types, Fit
<1>18. \A y : Knows(th[t], y)' BY <1>9, LeavingKnows
<1> QED BY <1>1, <1>9, <1>10, <1>11, <1>14, <1>15, <1>16, <1>17, <1>18, StepContents

LEMMA SettleContents ==
    ASSUME CInv, SInv', stray \subseteq stray', NEW t \in Threads, Settle(t)
    PROVE  CInv'
<1>0. AInv BY DEF CInv, SInv
<1>1. th[t].pc = "settle" /\ UNCHANGED <<store, node, sent, sealed, entries>>
  BY DEF Settle, At, data
<1>2. PICK o \in Oids : o = th[t].oid /\ o = Oid(t) BY <1>0, <1>1, Here DEF Oid
<1>3. PICK c, d : c = th[t].loc /\ d = doc[o] OBVIOUS
<1>4. /\ IsObject(d) /\ InDoc(c) = [d EXCEPT !.begin = c.begin] /\ c.complete /\ c \in Records
      /\ d \in Documents
  BY <1>0, <1>1, <1>2, <1>3, Here, DocumentIsObject DEF View, Fit, Copying
<1>5. d.complete /\ d.hash = c.hash /\ d.size = c.size
  <2>1. PICK b : b = c.begin OBVIOUS
  <2>2. PICK f : f = [d EXCEPT !.begin = b] OBVIOUS
  <2>3. f.complete = d.complete /\ f.hash = d.hash /\ f.size = d.size
    BY ONLY <1>4, <2>2 DEF Documents, Inbound
  <2>4. f = InDoc(c) BY <1>4, <2>1, <2>2
  <2>5. f.complete = c.complete /\ f.hash = c.hash /\ f.size = c.size BY ONLY <2>4 DEF InDoc
  <2> QED BY <1>4, <2>3, <2>5
<1>6. doc' = [doc EXCEPT ![o] = InDoc(c)]
  BY <1>0, <1>2, <1>3, <1>4 DEF Settle, Loc, AInv, Types
<1>7. doc'[o] = InDoc(c) /\ \A p \in Oids \ {o} : doc'[p] = doc[p] BY <1>0, <1>6 DEF AInv, Types
<1>8. Goes(t) /\ Kept /\ DOMAIN entries' = DOMAIN entries
  BY <1>0, <1>1, GoesTo DEF Settle, Kept
<1>9. Acts(t, o) BY <1>2, <1>7, <1>8 DEF Acts, Goes
<1>10. PICK f : f = InDoc(c) OBVIOUS
<1>11. /\ f.begin = c.begin /\ f.size = c.size /\ f.hash = c.hash /\ f.complete = c.complete
  BY ONLY <1>10 DEF InDoc
<1>12. doc'[o] = f BY <1>7, <1>10
<1>13. o \notin Private'
  <2>1. PICK i \in Matching(c.hash, c.size) : entries[i].begin = c.begin
    BY <1>0, <1>1, <1>3 DEF AInv, Types, Refers
  <2>2. InEntry(o)' BY <1>1, <1>11, <1>12, <2>1 DEF InEntry, Matching
  <2> QED BY <1>4, <1>11, <1>12, <2>2 DEF Private
<1>14. ObjectHolds(o)'
  <2>1. o \in Sealed BY <1>3, <1>4, <1>5 DEF Sealed, Objects
  <2>2. ObjectHolds(o) BY <2>1 DEF CInv, Contents
  <2>3. HashOK(f.hash, f.size, sealed[o]) /\ sealed[o] \in Sealing
    BY <1>3, <1>5, <1>11, <2>2 DEF ObjectHolds
  <2> QED BY <1>1, <1>12, <1>13, <2>3 DEF ObjectHolds, HashOK, Trusted, End, Sealing
<1>15. ~Incomplete(doc[o]) /\ ~Incomplete(doc'[o])
  BY <1>3, <1>4, <1>5, <1>11, <1>12 DEF Incomplete
<1>16. Sending' BY <1>1, <1>8, SendingKeeps DEF CInv, Goes
<1>17. \A z : Knows(th[t], z)' BY <1>1, <1>8, GoingKnows
<1>18. sealed' \in [Oids -> Sealing \cup {None}] BY <1>1 DEF CInv, Contents
<1> QED BY <1>1, <1>8, <1>9, <1>14, <1>15, <1>16, <1>17, <1>18, StepContents

LEMMA SealContents ==
    ASSUME CInv, SInv', stray \subseteq stray', NEW t \in Threads, Seal(t)
    PROVE  CInv'
<1>0. AInv BY DEF CInv, SInv
<1>1. th[t].pc = "seal" /\ UNCHANGED <<store, node, sent, sealed, entries>>
  BY DEF Seal, At, data
<1>2. PICK o \in Oids : o = th[t].oid /\ o = Oid(t) BY <1>0, <1>1, Here DEF Oid
<1>3. PICK c, d, h, z : c = th[t].loc /\ d = doc[o] /\ h = th[t].seen /\ z = sealed[o] OBVIOUS
<1>4. /\ IsObject(d) /\ d = InDoc(c) /\ ~c.complete /\ c \in Records /\ d \in Documents
  BY <1>0, <1>1, <1>2, <1>3, Here, DocumentIsObject DEF View, Agrees, Fit, Copying
<1>5. d.begin = c.begin /\ d.size = c.size /\ ~d.complete BY <1>4 DEF InDoc
<1>6. PICK f : f = [d EXCEPT !.hash = h, !.complete = TRUE] OBVIOUS
<1>7. f.begin = c.begin /\ f.size = c.size /\ f.hash = h /\ f.complete
  <2>1. f.begin = d.begin /\ f.size = d.size /\ f.hash = h /\ f.complete
    BY ONLY <1>4, <1>6 DEF Documents, Inbound
  <2> QED BY <1>5, <2>1
<1>8. doc' = [doc EXCEPT ![o] = f]
  BY <1>0, <1>2, <1>3, <1>4, <1>6 DEF Seal, AInv, Types
<1>9. doc'[o] = f /\ \A p \in Oids \ {o} : doc'[p] = doc[p] BY <1>0, <1>8 DEF AInv, Types
<1>10. Goes(t) /\ Kept /\ DOMAIN entries' = DOMAIN entries
  <2>1. \E l : l # "seal" /\ (Goto(t, l) \/ \E v : Local(t, l, v)) BY DEF Seal
  <2> QED BY <1>0, <1>1, <2>1, GoesTo DEF Kept
<1>11. Acts(t, o) BY <1>1, <1>9, <1>10 DEF Acts, Goes
<1>12. /\ node[c.begin] = <<>> /\ z \in Sealing /\ HashOK(h, c.size, z)
       /\ z.content = Content(c.begin, c.size)
  BY <1>1, <1>2, <1>3 DEF CInv, Knowledge, Knows
<1>13. ObjectHolds(o)'
  <2>1. z.content = Content(f.begin, f.size)' BY <1>1, <1>7, <1>12 DEF Content
  <2>2. sealed'[o] = z BY <1>1, <1>3
  <2> QED BY <1>7, <1>9, <1>12, <2>1, <2>2 DEF ObjectHolds, HashOK, Trusted, End, Sealing, Content
<1>14. ~Incomplete(doc'[o]) /\ node'[doc[o].begin] = <<>>
  BY <1>1, <1>3, <1>5, <1>7, <1>9, <1>12 DEF Incomplete
<1>15. Sending' BY <1>1, <1>10, SendingKeeps DEF CInv, Goes
<1>16. \A y : Knows(th[t], y)' BY <1>1, <1>10, GoingKnows
<1>17. sealed' \in [Oids -> Sealing \cup {None}] BY <1>1 DEF CInv, Contents
<1> QED BY <1>1, <1>10, <1>11, <1>13, <1>14, <1>15, <1>16, <1>17, StepContents

\* What an object has before ResizeObject.
LEMMA NothingSent ==
    ASSUME NEW r \in Seq(Nat), NEW b, NEW n, NEW s, Follows(r, b, n, {}, s)
    PROVE  r = <<>>
<1>1. Len(r) \in Nat /\ (r # <<>> => Len(r) \in Nat \ {0}) BY EmptySeq, LenProperties
<1>2. ~(1 \in 1..Len(r)) BY DEF Follows
<1> QED BY <1>1, <1>2

LEMMA ResizeContents ==
    ASSUME CInv, SInv', stray \subseteq stray', NEW t \in Threads, Resize(t)
    PROVE  CInv'
<1>0. AInv BY DEF CInv, SInv
<1>1. /\ th[t].pc = "loaded" /\ th[t].op = "Resize"
      /\ UNCHANGED <<store, node, sent, sealed, entries>>
  BY DEF Resize, Ready, At, data
<1>2. PICK o \in Oids : o = th[t].oid /\ o = Oid(t) BY <1>0, <1>1, Here DEF Oid
<1>3. PICK c, d, n : c = th[t].loc /\ d = doc[o] /\ n = th[t].arg OBVIOUS
<1>4. /\ IsObject(d) /\ d = InDoc(c) /\ ~c.complete /\ c \in Records /\ d \in Documents
  BY <1>0, <1>1, <1>2, <1>3, Here, DocumentIsObject DEF View, Agrees, Fit, Copying, Resize, Loc
<1>5. Incomplete(doc[o]) BY <1>3, <1>4 DEF Incomplete, InDoc
<1>6. PICK f : f = [d EXCEPT !.size = n] OBVIOUS
<1>7. f.begin = d.begin /\ f.complete = d.complete BY ONLY <1>4, <1>6 DEF Documents, Inbound
<1>8. doc' = [doc EXCEPT ![o] = f]
  BY <1>0, <1>2, <1>3, <1>4, <1>6 DEF Resize, Arg, AInv, Types
<1>9. doc'[o] = f /\ \A p \in Oids \ {o} : doc'[p] = doc[p] BY <1>0, <1>8 DEF AInv, Types
<1>10. th[t] \in Thread /\ th \in [Threads -> Thread] BY <1>0 DEF AInv, Types
<1>11. Goes(t)
  <2>1. PICK q \in Thread : q = th[t] BY <1>10
  <2>2. PICK e, l, w : /\ e = [c EXCEPT !.size = n, !.redo = TRUE]
                       /\ l = IF AlignUp(n) >= c.size THEN "leave" ELSE "chip"
                       /\ w = TailOf(c.begin, c.size, n)
    OBVIOUS
  <2>3. PICK r : r = [q EXCEPT !.loc = e, !.pc = l, !.bytes = w] OBVIOUS
  <2>4. th' = [th EXCEPT ![t] = r]
    BY <1>3, <2>1, <2>2, <2>3 DEF Resize, Arg, Loc
  <2>5. Same(r, q) /\ r.pc = l /\ r.seen = q.seen BY <2>3 DEF Thread, Same
  <2>6. l # "seal" BY <2>2
  <2> QED BY <1>10, <2>1, <2>4, <2>5, <2>6 DEF Goes
<1>12. Kept /\ DOMAIN entries' = DOMAIN entries BY <1>1 DEF Kept
<1>13. Acts(t, o) BY <1>1, <1>9, <1>11, <1>12 DEF Acts, Goes
<1>14. node[d.begin] = <<>>
  <2>1. sent[o] = {} BY <1>1, <1>2 DEF CInv, Sending
  <2>2. Follows(node[d.begin], d.begin, d.size, sent[o], store) BY <1>3, <1>5 DEF CInv, Running
  <2>3. d.begin \in Begins BY <1>3, <1>5, IncompleteOwns DEF CInv
  <2>4. node[d.begin] \in Seq(Nat) BY <1>0, <2>3 DEF AInv, Types
  <2> QED BY <2>1, <2>2, <2>4, NothingSent
<1>15. node'[doc[o].begin] = <<>> /\ node'[doc'[o].begin] = <<>> BY <1>1, <1>3, <1>7, <1>9, <1>14
<1>16. o \notin Sealed' BY <1>3, <1>5, <1>7, <1>9 DEF Sealed, Incomplete
<1>17. Sending' BY <1>1, <1>11, SendingKeeps DEF CInv, Goes
<1>18. \A y : Knows(th[t], y)' BY <1>1, <1>11, GoingKnows
<1>19. sealed' \in [Oids -> Sealing \cup {None}] BY <1>1 DEF CInv, Contents
<1> QED BY <1>1, <1>11, <1>12, <1>13, <1>15, <1>16, <1>17, <1>18, <1>19, StepContents

LEMMA InsertEntryContents ==
    ASSUME CInv, SInv', stray \subseteq stray', NEW t \in Threads, InsertEntry(t)
    PROVE  CInv'
<1>0. AInv BY DEF CInv, SInv
<1>1. th[t].pc = "new entry" /\ UNCHANGED <<doc, store, node, sent, sealed>>
  BY DEF InsertEntry, At, data
<1>2. PICK o \in Oids : o = th[t].oid /\ o = Oid(t) BY <1>0, <1>1, Here DEF Oid
<1>3. PICK c, d : c = th[t].loc /\ d = doc[o] OBVIOUS
<1>4. /\ IsObject(d) /\ d = InDoc(c) /\ c.complete /\ c \in Records
  BY <1>0, <1>1, <1>2, <1>3, Here DEF View, Agrees, Fit, Copying
<1>5. d.begin = c.begin /\ d.size = c.size /\ d.complete /\ d.hash = c.hash BY <1>4 DEF InDoc
<1>6. PICK e : e = [hash |-> c.hash, size |-> c.size, begin |-> c.begin, refs |-> 1, oids |-> {o}]
  OBVIOUS
<1>7. e.begin = c.begin /\ e.size = c.size /\ e.hash = c.hash BY ONLY <1>6
<1>8. entries' = Append(entries, e) BY <1>2, <1>3, <1>6 DEF InsertEntry, Loc
<1>9. entries \in Seq(Entry) /\ DOMAIN entries = 1..Len(entries) /\ Len(entries) \in Nat
  BY <1>0, LenProperties DEF AInv, Types
<1>10. PICK k \in Nat : k = Len(entries) + 1 BY <1>9
<1>11. /\ DOMAIN entries' = 1..k /\ entries'[k] = e
       /\ \A i \in DOMAIN entries : entries'[i] = entries[i]
  BY <1>8, <1>9, <1>10
<1>12. /\ \A i \in DOMAIN entries : i \in DOMAIN entries'
       /\ \A i \in DOMAIN entries' \ DOMAIN entries : i = k
  BY <1>9, <1>10, <1>11
<1>13. Goes(t) /\ Kept
  BY <1>0, <1>11, <1>12, GoesTo DEF InsertEntry, Kept
<1>14. Acts(t, o) BY <1>1, <1>13 DEF Acts, Goes
<1>15. o \in Sealed BY <1>3, <1>4, <1>5 DEF Sealed, Objects
<1>16. o \in Private
  <2>1. ~GivenBack(o) BY <1>0, <1>1, <1>2, NotGivenBack DEF Inside
  <2>2. \A i \in Matching(c.hash, c.size) : entries[i].begin # c.begin
    BY <1>1, <1>3 DEF CInv, SInv, Unshared
  <2>3. ~InEntry(o) BY <1>3, <1>5, <2>2 DEF InEntry
  <2> QED BY <1>3, <1>4, <2>1, <2>3 DEF Private, Objects
<1>17. Trusted(c.hash, c.size) => Content(c.begin, c.size) = End(c.hash, c.size)
  <2>1. ObjectHolds(o) BY <1>15 DEF CInv, Contents
  <2> QED BY <1>3, <1>5, <1>16, <2>1 DEF ObjectHolds, HashOK
<1>18. EntryHolds(k)' BY <1>1, <1>7, <1>11, <1>17 DEF EntryHolds, Trusted, Content, End
<1>19. ASSUME GivenBack(o) PROVE GivenBack(o)'
  <2>1. PICK u \in Threads : Oid(u) = o /\ At(u, "settle") BY <1>19 DEF GivenBack
  <2>2. u # t BY <1>1, <2>1 DEF At
  <2>3. th'[u] = th[u] BY <1>13, <2>2 DEF Goes
  <2> QED BY <2>1, <2>3 DEF GivenBack, Oid, At
<1>20. Sending' BY <1>1, <1>13, SendingKeeps DEF CInv, Goes
<1>21. \A y : Knows(th[t], y)' BY <1>1, <1>13, GoingKnows
<1>22. sealed' \in [Oids -> Sealing \cup {None}] BY <1>1 DEF CInv, Contents
<1> QED BY <1>1, <1>12, <1>14, <1>18, <1>19, <1>20, <1>21, <1>22, StepContents
-----------------------------------------------------------------------------
(***************************************************************************)
(* Reading, and the hash that CompleteObject makes.                        *)
(***************************************************************************)
\* A completed object whose extent was not given back has its content where
\* its document says, be it an extent of its own or that of an entry, when no
\* wrong block was hashed for its hash.
LEMMA SealedContent ==
    ASSUME CInv, NEW o \in Oids, o \in Sealed, ~GivenBack(o), Trusted(doc[o].hash, doc[o].size)
    PROVE  sealed[o].content = Content(doc[o].begin, doc[o].size)
<1>1. ObjectHolds(o) BY DEF CInv, Contents
<1>2. CASE o \in Private BY <1>1, <1>2 DEF ObjectHolds
<1>3. CASE o \notin Private
  <2>1. InEntry(o) BY <1>3 DEF Private, Sealed
  <2>2. PICK i \in Matching(doc[o].hash, doc[o].size) : entries[i].begin = doc[o].begin
    BY <2>1 DEF InEntry
  <2>3. EntryHolds(i) BY <2>2 DEF CInv, Contents, Matching
  <2> QED BY <1>1, <2>2, <2>3 DEF ObjectHolds, HashOK, EntryHolds, Matching
<1> QED BY <1>2, <1>3

LEMMA ReadContents ==
    ASSUME CInv, SInv', stray \subseteq stray', NEW t \in Threads, Read(t)
    PROVE  CInv'
<1>0. AInv BY DEF CInv, SInv
<1>1. /\ th[t].pc = "loaded" /\ th[t].op = "Read"
      /\ UNCHANGED <<doc, store, node, sent, sealed, entries>>
  BY DEF Read, Ready, At, data
<1>2. PICK o \in Oids : o = th[t].oid /\ o = Oid(t) BY <1>0, <1>1, Here DEF Oid
<1>3. PICK c, d, q : c = th[t].loc /\ d = doc[o] /\ q = th[t] OBVIOUS
<1>4. /\ IsObject(d) /\ d = InDoc(c) /\ c.complete
  BY <1>0, <1>1, <1>2, <1>3, Here DEF View, Agrees, Read, Loc
<1>5. d.begin = c.begin /\ d.size = c.size /\ d.complete /\ d.hash = c.hash BY <1>4 DEF InDoc
<1>6. Trusted(c.hash, c.size) => sealed[o].content = Content(c.begin, c.size)
  <2>1. ~GivenBack(o) BY <1>0, <1>1, <1>2, NotGivenBack DEF Inside
  <2>2. o \in Sealed BY <1>3, <1>4, <1>5 DEF Sealed, Objects
  <2> QED BY <1>3, <1>5, <2>1, <2>2, SealedContent
<1>7. th \in [Threads -> Thread] BY <1>0 DEF AInv, Types
<1>8. PICK r : r = [q EXCEPT !.pc = "leave", !.seen = Content(c.begin, c.size)] OBVIOUS
<1>9. Same(r, q) /\ r.pc = "leave" /\ r.seen = Content(c.begin, c.size) /\ r.loc = c
  BY <1>3, <1>7, <1>8 DEF Thread, Same
<1>10. th' = [th EXCEPT ![t] = r] BY <1>3, <1>8 DEF Read, See, Loc
<1>11. th'[t] = r /\ \A u \in Threads \ {t} : th'[u] = th[u] BY <1>7, <1>10
<1>12. Kept /\ DOMAIN entries' = DOMAIN entries BY <1>1 DEF Kept
<1>13. Acts(t, o) BY <1>1, <1>11, <1>12 DEF Acts
<1>14. Knows(th[t], sealed[th[t].oid])'
  <2>1. r.oid = o BY <1>2, <1>3, <1>9 DEF Same
  <2>2. Trusted(c.hash, c.size)' => r.seen = sealed'[o].content BY <1>1, <1>6, <1>9 DEF Trusted
  <2> QED BY <1>9, <1>11, <2>1, <2>2 DEF Knows
<1>15. ASSUME GivenBack(o) PROVE GivenBack(o)'
  <2>1. PICK u \in Threads : Oid(u) = o /\ At(u, "settle") BY <1>15 DEF GivenBack
  <2>2. u # t BY <1>1, <2>1 DEF At
  <2>3. th'[u] = th[u] BY <1>11, <2>2
  <2> QED BY <2>1, <2>3 DEF GivenBack, Oid, At
<1>16. Sending' BY <1>1, <1>3, <1>9, <1>11, SendingKeeps DEF CInv
<1>17. sealed' \in [Oids -> Sealing \cup {None}] BY <1>1 DEF CInv, Contents
<1> QED BY <1>1, <1>12, <1>13, <1>14, <1>15, <1>16, <1>17, StepContents

\* What is left of a sequence behind its first m elements.
LEMMA SubSeqFrom ==
    ASSUME NEW k \in Seq(Nat), NEW m \in Nat, NEW n \in Nat, m <= n, n <= Len(k)
    PROVE  /\ SubSeq(k, m + 1, n) \in Seq(Nat) /\ Len(SubSeq(k, m + 1, n)) = n - m
           /\ \A i \in 1..(n - m) : SubSeq(k, m + 1, n)[i] = k[m + i]
<1>1. PICK a \in Int : a = m + 1 OBVIOUS
<1>2. \A i \in a..n : k[i] \in Nat
  <2> SUFFICES ASSUME NEW i \in a..n PROVE k[i] \in Nat OBVIOUS
  <2>1. Len(k) \in Nat BY LenProperties
  <2>2. i \in 1..Len(k) BY <1>1, <2>1
  <2> QED BY <2>2, ElementOfSeq
<1>3. n \in Int OBVIOUS
<1>4. SubSeq(k, a, n) \in Seq(Nat) BY ONLY <1>2, <1>3, SubSeqProperties, Zenon
<1>5. Len(SubSeq(k, a, n)) = IF a <= n THEN n - a + 1 ELSE 0
  BY ONLY <1>2, <1>3, SubSeqProperties, Zenon
<1>6. \A i \in 1..(n - a + 1) : SubSeq(k, a, n)[i] = k[a + i - 1]
  <2> SUFFICES ASSUME NEW i \in 1..(n - a + 1) PROVE SubSeq(k, a, n)[i] = k[a + i - 1] OBVIOUS
  <2> QED OBVIOUS
<1>7. PICK s : s = SubSeq(k, a, n) OBVIOUS
<1>8. Len(s) = n - m BY <1>1, <1>5, <1>7
<1>9. \A i \in 1..(n - m) : s[i] = k[m + i]
  <2> SUFFICES ASSUME NEW i \in 1..(n - m) PROVE s[i] = k[m + i] OBVIOUS
  <2>1. i \in 1..(n - a + 1) /\ a + i - 1 = m + i BY <1>1
  <2>2. s[i] = k[a + i - 1] BY <1>6, <1>7, <2>1
  <2> QED BY <2>1, <2>2
<1> QED BY <1>1, <1>4, <1>7, <1>8, <1>9

LEMMA Concatenated ==
    ASSUME NEW r \in Seq(Nat), NEW s \in Seq(Nat)
    PROVE  /\ r \o s \in Seq(Nat) /\ Len(r \o s) = Len(r) + Len(s)
           /\ \A i \in 1..Len(r) : (r \o s)[i] = r[i]
           /\ \A i \in 1..Len(s) : (r \o s)[Len(r) + i] = s[i]
<1>1. PICK l \in Nat, m \in Nat : l = Len(r) /\ m = Len(s) BY LenProperties
<1>2. PICK h : h = r \o s OBVIOUS
<1>3. r \o s \in Seq(Nat) BY ConcatProperties, Zenon
<1>4. Len(r \o s) = Len(r) + Len(s) BY ConcatProperties, Zenon
<1>5. \A i \in 1..(Len(r) + Len(s)) : (r \o s)[i] = IF i <= Len(r) THEN r[i] ELSE s[i - Len(r)]
  BY ConcatProperties, Zenon
<1>6. \A i \in 1..(l + m) : h[i] = IF i <= l THEN r[i] ELSE s[i - l] BY <1>1, <1>2, <1>5
<1>7. ASSUME NEW i \in 1..l PROVE h[i] = r[i]
  <2>1. i \in 1..(l + m) /\ i <= l OBVIOUS
  <2> QED BY <1>6, <2>1
<1>8. ASSUME NEW i \in 1..m PROVE h[l + i] = s[i]
  <2>1. PICK j \in 1..(l + m) : j = l + i OBVIOUS
  <2>2. ~(j <= l) /\ j - l = i BY <2>1
  <2> QED BY <1>6, <2>1, <2>2
<1> QED BY <1>1, <1>2, <1>3, <1>4, <1>7, <1>8

\* complete_hash adds what was not hashed, or everything, unless it goes on in
\* a wrong block.
LEMMA NumbersAreSeq ==
    ASSUME NEW e \in Nat, NEW s \in [1..e -> Nat]
    PROVE  s \in Seq(Nat) /\ Len(s) = e
<1>1. s \in Seq(Nat) BY SeqDef, Zenon
<1>2. Len(s) \in Nat /\ DOMAIN s = 1..Len(s) BY <1>1, LenProperties
<1>3. DOMAIN s = 1..e OBVIOUS
<1> QED BY <1>1, <1>2, <1>3

\* An object is within the space, and so is what follows the part hashed so far.
LEMMA WithinSpace ==
    ASSUME NEW b \in Nat, NEW n \in Nat \ {0}, Extent(b, n) \subseteq 0..(Space - 1)
    PROVE  b + n <= Space
<1>1. PICK m \in Nat : m = AlignUp(n) /\ m >= n BY AlignUpProperties
<1>2. b + n - 1 \in b..(b + m - 1) BY <1>1
<1>3. b..(b + m - 1) \subseteq 0..(Space - 1) BY <1>1 DEF Extent, Bytes
<1>4. b + n - 1 \in 0..(Space - 1) BY <1>2, <1>3
<1> QED BY <1>4, ObjectAssumption

LEMMA AddressInSpace ==
    ASSUME NEW b \in Nat, NEW n \in Nat, NEW m \in Nat, b + n <= Space, NEW i \in 1..(n - m)
    PROVE  (b + m) + i - 1 \in 0..(Space - 1)
BY ObjectAssumption

LEMMA HashEnds ==
    ASSUME AInv, NEW c \in Records, NEW w, Follows(node[c.begin], c.begin, c.size, w, store),
           ~GoesAstray(c), NEW h \in HashesOf(c)
    PROVE  /\ End(h, c.size) = Content(c.begin, c.size)
           /\ ~c.redo => h = Content(c.begin, c.size)
<1>0. AInv OBVIOUS
<1>1. PICK b \in Nat, n \in Nat : b = c.begin /\ n = c.size /\ b \in Begins
  BY BeginsAreNaturals DEF Records, Inbound
<1>2. PICK r \in Seq(Nat) : r = node[b] BY <1>1 DEF AInv, Types
<1>3. PICK k \in Seq(Nat) : k = Content(b, n) /\ Len(k) = n BY <1>1, ContentTyped
<1>4. \A i \in 1..n : k[i] = store[b + i - 1] BY <1>3 DEF Content
<1>5. PICK l \in Nat : l = Len(r) /\ l <= n
  BY <1>1, <1>2, LenProperties DEF Follows
<1>6. \A i \in 1..l : r[i] = k[i]
  <2> SUFFICES ASSUME NEW i \in 1..l PROVE r[i] = k[i] OBVIOUS
  <2>1. store[b + i - 1] = r[i] BY <1>1, <1>2, <1>5 DEF Follows
  <2>2. i \in 1..n BY <1>5
  <2> QED BY <1>4, <2>1, <2>2
<1>7. PICK done \in {0, l} : done = IF c.redo THEN 0 ELSE l OBVIOUS
<1>8. done \in Nat /\ done <= n /\ n - done \in Nat BY <1>5, <1>7
<1>9. done = Done(c) BY <1>1, <1>2, <1>5, <1>7 DEF Done
<1>10. PICK s : /\ h = r \o s /\ s \in Seq(Nat) /\ Len(s) = n - done
                /\ \A i \in 1..(n - done) : s[i] = k[done + i]
  <2>1. GoesOnAt(c) = b + done BY <1>1, <1>8, <1>9 DEF GoesOnAt
  <2>2. PICK past \in [1..(n - done) -> Junk] :
            h = r \o [i \in 1..(n - done) |-> IF (b + done) + i - 1 \in DOMAIN store
                                           THEN store[(b + done) + i - 1] ELSE past[i]]
    BY <1>1, <1>2, <1>9, <2>1 DEF HashesOf
  <2>3. PICK s : s = [i \in 1..(n - done) |-> IF (b + done) + i - 1 \in DOMAIN store
                                           THEN store[(b + done) + i - 1] ELSE past[i]]
    OBVIOUS
  <2>4. DOMAIN store = 0..(Space - 1) BY <1>0 DEF AInv, Types
  <2>5. b + n <= Space
    <3>1. Extent(b, n) \subseteq 0..(Space - 1) /\ n \in Nat \ {0} BY <1>1 DEF Records, Inbound
    <3> QED BY <3>1, WithinSpace
  <2>6. ASSUME NEW i \in 1..(n - done) PROVE s[i] = k[done + i]
    <3>1. (b + done) + i - 1 \in 0..(Space - 1) BY <1>8, <2>5, AddressInSpace
    <3>2. s[i] = store[(b + done) + i - 1] BY <2>3, <2>4, <3>1
    <3>3. PICK j \in 1..n : j = done + i BY <1>8
    <3>4. k[j] = store[b + j - 1] BY <1>4
    <3>5. b + j - 1 = (b + done) + i - 1 BY <1>1, <1>8, <3>3
    <3> QED BY <3>2, <3>3, <3>4, <3>5
  <2>7. \A i \in 1..(n - done) : s[i] \in Nat
    <3> SUFFICES ASSUME NEW i \in 1..(n - done) PROVE s[i] \in Nat OBVIOUS
    <3>1. PICK j \in 1..n : j = done + i BY <1>8
    <3>2. k[j] \in Nat BY <1>3
    <3> QED BY <2>6, <3>1, <3>2
  <2>8. s \in [1..(n - done) -> Nat] BY <2>3, <2>7
  <2>9. s \in Seq(Nat) /\ Len(s) = n - done
    <3>1. PICK e \in Nat : e = n - done BY <1>8
    <3>2. s \in [1..e -> Nat] BY <2>8, <3>1
    <3>3. s \in Seq(Nat) /\ Len(s) = e BY <3>2, NumbersAreSeq
    <3> QED BY <3>1, <3>3
  <2> QED BY <2>2, <2>3, <2>6, <2>9
<1>11. /\ h \in Seq(Nat) /\ Len(h) = l + (n - done)
       /\ \A i \in 1..l : h[i] = r[i]
       /\ \A i \in 1..(n - done) : h[l + i] = s[i]
  <2>1. /\ r \o s \in Seq(Nat) /\ Len(r \o s) = Len(r) + Len(s)
        /\ \A i \in 1..Len(r) : (r \o s)[i] = r[i]
        /\ \A i \in 1..Len(s) : (r \o s)[Len(r) + i] = s[i]
    BY <1>10, Concatenated
  <2> QED BY ONLY <1>5, <1>10, <2>1
<1>12. ASSUME NEW i \in 1..n PROVE h[Len(h) - n + i] = k[i]
  <2>1. CASE done = 0
    <3>1. Len(h) - n + i = l + i /\ i \in 1..(n - done) BY <1>11, <2>1
    <3>2. h[l + i] = s[i] BY <1>11, <3>1
    <3>3. s[i] = k[done + i] /\ done + i = i BY <1>10, <2>1, <3>1
    <3> QED BY <3>1, <3>2, <3>3
  <2>2. CASE done = l
    <3>1. Len(h) - n + i = i BY <1>11, <2>2
    <3>2. CASE i <= l
      <4>1. i \in 1..l BY <3>2
      <4> QED BY <1>6, <1>11, <3>1, <4>1
    <3>3. CASE i > l
      <4>1. PICK j \in 1..(n - done) : j = i - l BY <2>2, <3>3
      <4>2. l + j = i /\ done + j = i BY <2>2, <4>1
      <4>3. h[l + j] = s[j] /\ s[j] = k[done + j] BY <1>10, <1>11, <4>1
      <4> QED BY <3>1, <4>2, <4>3
    <3> QED BY <3>2, <3>3
  <2> QED BY <1>7, <2>1, <2>2
<1>13. End(h, n) = Content(b, n)
  <2>1. \A i \in 1..n : h[Len(h) - n + i] = store[b + i - 1] BY <1>4, <1>12
  <2> QED BY <2>1 DEF End, Content
<1>14. ASSUME ~c.redo PROVE h = k
  <2>1. done = l /\ Len(h) = n BY <1>5, <1>7, <1>11, <1>14
  <2>2. \A i \in 1..n : h[i] = k[i]
    <3> SUFFICES ASSUME NEW i \in 1..n PROVE h[i] = k[i] OBVIOUS
    <3>1. PICK j : j = Len(h) - n + i OBVIOUS
    <3>2. j = i BY <2>1, <3>1
    <3>3. h[j] = k[i] BY <1>12, <3>1
    <3> QED BY <3>2, <3>3
  <2>3. k \in Seq(Nat) /\ h \in Seq(Nat) /\ Len(h) = Len(k) BY <1>3, <1>11, <2>1
  <2>4. \A i \in 1..Len(h) : h[i] = k[i] BY <2>1, <2>2
  <2> QED BY ONLY <2>3, <2>4, SeqEqual, Zenon
<1> QED BY <1>1, <1>3, <1>13, <1>14

LEMMA CompleteWriteContents ==
    ASSUME CInv, SInv', stray \subseteq stray', NEW t \in Threads, CompleteWrite(t)
    PROVE  CInv'
<1>0. AInv BY DEF CInv, SInv
<1>1. /\ th[t].pc = "loaded" /\ th[t].op = "Complete"
      /\ UNCHANGED <<doc, store, sent, entries>>
  BY DEF CompleteWrite, Ready, At
<1>2. PICK o \in Oids : o = th[t].oid /\ o = Oid(t) BY <1>0, <1>1, Here DEF Oid
<1>3. PICK c, d, q : c = th[t].loc /\ d = doc[o] /\ q = th[t] OBVIOUS
<1>4. /\ IsObject(d) /\ d = InDoc(c) /\ ~c.complete /\ c \in Records
  BY <1>0, <1>1, <1>2, <1>3, Here DEF View, Agrees, Fit, Copying, CompleteWrite, Loc
<1>5. d.begin = c.begin /\ d.size = c.size /\ ~d.complete BY <1>4 DEF InDoc
<1>6. Incomplete(doc[o]) BY <1>3, <1>4, <1>5 DEF Incomplete
<1>7. c.begin \in Begins BY <1>4 DEF Records, Inbound
<1>8. /\ node' = [node EXCEPT ![c.begin] = <<>>] /\ node \in [Begins -> Seq(Nat)]
  BY <1>0, <1>3 DEF CompleteWrite, Loc, AInv, Types
<1>9. node'[c.begin] = <<>> /\ \A b \in Begins : node'[b] \in {node[b], <<>>} BY <1>7, <1>8
<1>10. Kept /\ DOMAIN entries' = DOMAIN entries BY <1>1 DEF Kept
<1>11. o \notin Sealed' BY <1>1, <1>3, <1>5 DEF Sealed
<1>12. \A u \in Threads \ {t} : th[u].oid = o => th[u].pc \notin {"seal", "leave"}
  <2> SUFFICES ASSUME NEW u \in Threads \ {t}, th[u].oid = o, th[u].pc \in {"seal", "leave"}
               PROVE  FALSE
    OBVIOUS
  <2>1. InsideOf(u, o) /\ InsideOf(t, o) BY <1>1, <1>2 DEF InsideOf, Inside
  <2> QED BY <2>1 DEF CInv, SInv, AInv, IInv, Exclusive
<1>13. node'[doc[o].begin] = <<>> /\ node'[doc'[o].begin] = <<>> BY <1>1, <1>3, <1>5, <1>9
<1>14. CASE UNCHANGED <<th, sealed>>
  <2>1. Goes(t) BY <1>1, <1>14 DEF Goes, Same
  <2>2. Acts(t, o) BY <1>1, <1>10, <1>14 DEF Acts
  <2>3. Sending' BY <1>1, <2>1, SendingKeeps DEF CInv, Goes
  <2>4. \A y : Knows(th[t], y)' BY <1>1, <2>1, GoingKnows
  <2>5. sealed' \in [Oids -> Sealing \cup {None}] BY <1>14 DEF CInv, Contents
  <2> QED BY <1>1, <1>9, <1>10, <1>11, <1>13, <1>14, <2>2, <2>3, <2>4, <2>5, StepContents
<1>15. ASSUME NEW h \in HashesOf(Loc(t)), See(t, "seal", h),
              sealed' = [sealed EXCEPT ![Oid(t)] = Seen(Loc(t).begin, Loc(t).size, ~Loc(t).redo)],
              GoesAstray(Loc(t)) => <<h, Loc(t).size>> \in stray'
       PROVE  CInv'
  <2>1. PICK z : z = Seen(c.begin, c.size, ~c.redo) OBVIOUS
  <2>2. z.content = Content(c.begin, c.size) /\ z.plain = ~c.redo BY <2>1 DEF Seen
  <2>3. z \in Sealing
    <3>1. Content(c.begin, c.size) \in Seq(Nat) BY <1>0, <1>4, ContentTyped
    <3>2. (~c.redo) \in BOOLEAN OBVIOUS
    <3> QED BY ONLY <2>1, <3>1, <3>2 DEF Seen, Sealing
  <2>4. sealed' = [sealed EXCEPT ![o] = z] BY <1>2, <1>3, <1>15, <2>1 DEF Loc
  <2>5. /\ sealed' \in [Oids -> Sealing \cup {None}] /\ sealed'[o] = z
        /\ \A p \in Oids \ {o} : sealed'[p] = sealed[p]
    BY <2>3, <2>4 DEF CInv, Contents
  <2>6. th \in [Threads -> Thread] BY <1>0 DEF AInv, Types
  <2>7. h \in HashesOf(c) BY <1>3, <1>15 DEF Loc
  <2>8. PICK r : r = [q EXCEPT !.pc = "seal", !.seen = h] OBVIOUS
  <2>9. Same(r, q) /\ r.pc = "seal" /\ r.seen = h /\ r.loc = c
    BY <1>3, <2>6, <2>8 DEF Thread, Same
  <2>10. th' = [th EXCEPT ![t] = r] BY <1>3, <1>15, <2>7, <2>8 DEF See, Loc
  <2>11. th'[t] = r /\ \A u \in Threads \ {t} : th'[u] = th[u] BY <2>6, <2>10
  <2>12. Acts(t, o) BY <1>1, <1>10, <2>11 DEF Acts
  <2>13. Sending' BY <1>1, <1>3, <2>9, <2>11, SendingKeeps DEF CInv
  <2>14. Follows(node[c.begin], c.begin, c.size, sent[o], store)
    BY <1>3, <1>5, <1>6 DEF CInv, Running
  <2>15. ASSUME ~GoesAstray(c)
         PROVE  End(h, c.size) = Content(c.begin, c.size) /\ (~c.redo => h = Content(c.begin, c.size))
    BY <1>0, <1>4, <2>7, <2>14, <2>15, HashEnds
  <2>16. HashOK(h, c.size, z)'
    <3>1. CASE GoesAstray(c)
      <4>1. <<h, c.size>> \in stray' BY <1>3, <1>15, <3>1 DEF Loc
      <4> QED BY <4>1 DEF HashOK, Trusted
    <3>2. CASE ~GoesAstray(c) BY <2>2, <2>15, <3>2 DEF HashOK, End
    <3> QED BY <3>1, <3>2
  <2>17. Knows(th[t], sealed[th[t].oid])'
    <3>1. r.oid = o /\ r.op = "Complete" BY <1>1, <1>2, <1>3, <2>9 DEF Same
    <3>2. z.content = Content(c.begin, c.size)' BY <1>1, <2>2 DEF Content
    <3>3. sealed'[r.oid] = z /\ th'[t] = r /\ node'[r.loc.begin] = <<>>
      BY <1>9, <2>5, <2>9, <2>11, <3>1
    <3>4. /\ z \in Sealing /\ HashOK(r.seen, r.loc.size, z)'
          /\ z.content = Content(r.loc.begin, r.loc.size)'
      BY <2>3, <2>9, <2>16, <3>2 DEF HashOK, Trusted, End
    <3>5. Knows(r, z)' BY <3>1, <3>3, <3>4 DEF Knows, HashOK, Trusted, End, Sealing
    <3> QED BY <3>3, <3>5 DEF Knows, HashOK, Trusted, End, Sealing, Content
  <2> QED BY <1>1, <1>9, <1>10, <1>11, <1>12, <1>13, <2>5, <2>12, <2>13, <2>17, StepContents
<1> QED
  <2>1. CASE \E h \in HashesOf(Loc(t)) :
                 /\ See(t, "seal", h)
                 /\ sealed' = [sealed EXCEPT ![Oid(t)] = Seen(Loc(t).begin, Loc(t).size, ~Loc(t).redo)]
                 /\ stray' = IF GoesAstray(Loc(t)) THEN stray \cup {<<h, Loc(t).size>>} ELSE stray
    BY <1>15, <2>1
  <2> QED BY <1>14, <2>1 DEF CompleteWrite
-----------------------------------------------------------------------------
(***************************************************************************)
(* Writing.                                                                *)
(***************************************************************************)
\* What is written lies inside the object, and is what the client sent.
LEMMA WrittenIsSent ==
    ASSUME AInv, NEW t \in Threads, Ready(t, "Write"), Arg(t).off < Loc(t).size
    PROVE  /\ Arg(t).off + Len(Written(t)) <= Loc(t).size
           /\ \A j \in 1..Len(Written(t)) : <<Arg(t).off + j - 1, Written(t)[j]>> \in Pairs(Arg(t))
<1>1. PICK q, a : q = th[t] /\ a = q.arg OBVIOUS
<1>2. Fit(q) /\ q.op = "Write" /\ q.pc = "loaded" BY <1>1 DEF AInv, Types, Ready, At
<1>3. a \in Writes /\ q.loc \in Records BY <1>1, <1>2 DEF Fit, Copying
<1>4. PICK w \in Seq(Nat), off \in Nat : w = a.data /\ off = a.off BY <1>3, DataAssumption
<1>5. PICK size \in Nat : size = q.loc.size /\ off < size
  BY <1>1, <1>3, <1>4 DEF Records, Inbound, Arg, Loc
<1>6. PICK l \in Nat : l = Len(w) BY LenProperties
<1>7. PICK m \in Nat : m = Min({l, size - off}) /\ m <= l /\ m <= size - off
  <2>1. PICK n \in Nat : n = size - off BY <1>5
  <2>2. \E x \in {l, n} : \A y \in {l, n} : x <= y OBVIOUS
  <2>3. Min({l, n}) \in {l, n} /\ Min({l, n}) <= l /\ Min({l, n}) <= n BY <2>2 DEF Min
  <2> QED BY <2>1, <2>3
<1>8. PICK z \in Nat : z = 0 OBVIOUS
<1>9. PICK d : d = SubSeq(w, z + 1, m) OBVIOUS
<1>10. Len(d) = m /\ \A j \in 1..m : d[j] = w[j]
  <2>1. z <= m /\ m <= Len(w) BY <1>6, <1>7, <1>8
  <2>2. Len(d) = m - z /\ \A j \in 1..(m - z) : d[j] = w[z + j]
    BY ONLY <1>9, <2>1, SubSeqFrom
  <2> QED BY <1>8, <2>2
<1>11. Written(t) = d BY <1>1, <1>4, <1>5, <1>6, <1>7, <1>8, <1>9 DEF Written, Arg, Loc
<1>12. off + m <= size BY <1>7
<1>13. ASSUME NEW j \in 1..m PROVE <<off + j - 1, d[j]>> \in Pairs(a)
  <2>1. j \in 1..Len(w) BY <1>6, <1>7
  <2> QED BY <1>3, <1>4, <1>10, <2>1, PairsTyped
<1> QED BY <1>1, <1>4, <1>5, <1>10, <1>11, <1>12, <1>13 DEF Arg, Loc

\* The running hash goes on to follow what was sent, whether the data were
\* hashed or not.
LEMMA HashFollows ==
    ASSUME NEW S \in SUBSET (Nat \X Nat), \A p, q \in S : p[1] = q[1] => p = q,
           NEW b \in Nat, NEW n \in Nat, NEW off \in Nat,
           NEW r \in Seq(Nat), NEW d \in Seq(Nat), off + Len(d) <= n,
           \A j \in 1..Len(d) : <<off + j - 1, d[j]>> \in S,
           NEW s, NEW u,
           \A i \in 1..n : s[b + i - 1] =
               IF b + i - 1 \in Bytes(b + off, Len(d)) THEN d[b + i - 1 - (b + off) + 1] ELSE u[b + i - 1],
           Follows(r, b, n, S, u)
    PROVE  Follows(IF Len(r) = off THEN r \o d ELSE r, b, n, S, s)
<1>1. PICK l \in Nat, m \in Nat : l = Len(r) /\ m = Len(d) BY LenProperties
<1>2. l <= n /\ \A i \in 1..l : <<i - 1, r[i]>> \in S /\ u[b + i - 1] = r[i] BY <1>1 DEF Follows
<1>3. ASSUME NEW i \in 1..n, NEW j \in 1..m, i = off + j
      PROVE  s[b + i - 1] = d[j] /\ <<i - 1, d[j]>> \in S
  <2>1. b + i - 1 \in Bytes(b + off, Len(d)) BY <1>1, <1>3 DEF Bytes
  <2>2. b + i - 1 - (b + off) + 1 = j /\ off + j - 1 = i - 1 BY <1>3
  <2> QED BY <1>1, <2>1, <2>2
<1>4. ASSUME NEW i \in 1..l PROVE s[b + i - 1] = r[i]
  <2>1. i \in 1..n BY <1>2
  <2>2. CASE \E j \in 1..m : i = off + j
    <3>1. PICK j \in 1..m : i = off + j BY <2>2
    <3>2. s[b + i - 1] = d[j] /\ <<i - 1, d[j]>> \in S BY <1>3, <2>1, <3>1
    <3>3. <<i - 1, r[i]>> \in S BY <1>2
    <3>4. <<i - 1, r[i]>> = <<i - 1, d[j]>> BY <3>2, <3>3
    <3> QED BY <3>2, <3>4
  <2>3. CASE ~\E j \in 1..m : i = off + j
    <3>1. b + i - 1 \notin Bytes(b + off, Len(d))
      <4> SUFFICES ASSUME b + i - 1 \in Bytes(b + off, Len(d)) PROVE FALSE OBVIOUS
      <4>1. PICK j \in 1..m : j = i - off BY <1>1 DEF Bytes
      <4>2. i = off + j BY <4>1
      <4> QED BY <2>3, <4>2
    <3>2. s[b + i - 1] = u[b + i - 1] BY <2>1, <3>1
    <3> QED BY <1>2, <3>2
  <2> QED BY <2>2, <2>3
<1>5. CASE Len(r) # off BY <1>1, <1>2, <1>4, <1>5 DEF Follows
<1>6. CASE Len(r) = off
  <2>1. PICK h : h = r \o d OBVIOUS
  <2>2. /\ Len(h) = l + m /\ \A i \in 1..l : h[i] = r[i]
        /\ \A j \in 1..m : h[l + j] = d[j]
    <3>1. /\ Len(r \o d) = Len(r) + Len(d)
          /\ \A i \in 1..Len(r) : (r \o d)[i] = r[i]
          /\ \A i \in 1..Len(d) : (r \o d)[Len(r) + i] = d[i]
      BY Concatenated
    <3> QED BY ONLY <1>1, <2>1, <3>1
  <2>3. l + m <= n BY <1>1, <1>6
  <2>4. ASSUME NEW i \in 1..(l + m) PROVE <<i - 1, h[i]>> \in S /\ s[b + i - 1] = h[i]
    <3>1. CASE i <= l
      <4>1. i \in 1..l BY <3>1
      <4> QED BY <1>2, <1>4, <2>2, <4>1
    <3>2. CASE i > l
      <4>1. PICK j \in 1..m : i = l + j
        <5>1. i - l \in 1..m /\ i = l + (i - l) BY <3>2
        <5> QED BY <5>1
      <4>2. i \in 1..n BY <2>3
      <4>3. i = off + j BY <1>1, <1>6, <4>1
      <4>4. s[b + i - 1] = d[j] /\ <<i - 1, d[j]>> \in S BY <1>3, <4>2, <4>3
      <4>5. h[i] = d[j] BY <2>2, <4>1
      <4> QED BY <4>4, <4>5
    <3> QED BY <3>1, <3>2
  <2>5. Follows(h, b, n, S, s) BY <2>2, <2>3, <2>4 DEF Follows
  <2> QED BY <1>6, <2>1, <2>5
<1> QED BY <1>5, <1>6

\* Which bytes a write touches, and what the running hash is afterwards.
LEMMA WriteTouches ==
    ASSUME CInv, NEW t \in Threads, Ready(t, "Write"), ~Loc(t).complete, Arg(t).off < Loc(t).size,
           WriteData(t), NEW o, o = th[t].oid
    PROVE  /\ o \in Oids /\ Incomplete(doc[o])
           /\ \A b \in (0..(Space - 1)) \ Claim(<<"object", o>>) : store'[b] = store[b]
           /\ \A b \in Begins \ {doc[o].begin} : node'[b] = node[b]
           /\ Follows(node'[doc[o].begin], doc[o].begin, doc[o].size, sent[o], store')
<1>0. AInv BY DEF CInv, SInv
<1>1. th[t].pc = "loaded" /\ th[t].op = "Write" BY DEF Ready, At
<1>2. o \in Oids BY <1>0, <1>1, Here
<1>3. PICK c, f : c = Loc(t) /\ f = doc[o] OBVIOUS
<1>4. IsObject(f) /\ f = InDoc(c) /\ ~c.complete /\ c \in Records
  BY <1>0, <1>1, <1>3, Here DEF View, Agrees, Loc, Fit, Copying
<1>5. f.begin = c.begin /\ f.size = c.size /\ ~f.complete BY <1>4 DEF InDoc
<1>6. Incomplete(doc[o]) BY <1>3, <1>4, <1>5 DEF Incomplete
<1>7. PICK B \in Nat, n \in Nat \ {0} : B = f.begin /\ n = f.size /\ B \in Begins
  BY <1>2, <1>3, <1>6, IncompleteOwns DEF CInv
<1>8. Claim(<<"object", o>>) = Extent(B, n) BY <1>2, <1>3, <1>6, <1>7, IncompleteOwns DEF CInv
<1>9. PICK off \in Nat, d \in Seq(Nat) : off = Arg(t).off /\ d = Written(t)
  BY <1>0, WrittenTyped
<1>10. PICK m \in Nat : m = Len(d) BY LenProperties
<1>11. off + m <= n /\ \A j \in 1..Len(d) : <<off + j - 1, d[j]>> \in sent[o]
  <2>1. off + m <= n BY <1>0, <1>3, <1>5, <1>7, <1>9, <1>10, WrittenIsSent
  <2>2. Pairs(Arg(t)) \subseteq sent[o] BY <1>1 DEF CInv, Sending, Arg
  <2>3. \A j \in 1..Len(d) : <<off + j - 1, d[j]>> \in Pairs(Arg(t)) BY <1>0, <1>9, WrittenIsSent
  <2> QED BY <2>1, <2>2, <2>3
<1>12. /\ store' = [b \in 0..(Space - 1) |->
                       IF b \in Bytes(B + off, Len(d)) THEN d[b - (B + off) + 1] ELSE store[b]]
       /\ node' = [node EXCEPT ![B] = IF Len(@) = off THEN @ \o d ELSE @]
  BY <1>0, <1>3, <1>5, <1>7, <1>9 DEF WriteData, Hashed, AInv, Types
<1>13. PICK r \in Seq(Nat) : r = node[B] BY <1>0, <1>7 DEF AInv, Types
<1>14. /\ node'[B] = IF Len(r) = off THEN r \o d ELSE r
       /\ \A b \in Begins \ {B} : node'[b] = node[b]
  BY <1>0, <1>7, <1>12, <1>13 DEF AInv, Types
<1>15. AlignUp(n) \in Nat /\ AlignUp(n) >= n BY AlignUpProperties
<1>16. \A b \in (0..(Space - 1)) \ Extent(B, n) : store'[b] = store[b]
  <2> SUFFICES ASSUME NEW b \in 0..(Space - 1), b \in Bytes(B + off, Len(d)) PROVE b \in Extent(B, n)
    BY <1>12
  <2> QED BY <1>10, <1>11, <1>15 DEF Extent, Bytes
<1>17. \A i \in 1..n : store'[B + i - 1] =
           IF B + i - 1 \in Bytes(B + off, Len(d)) THEN d[B + i - 1 - (B + off) + 1] ELSE store[B + i - 1]
  <2>1. Extent(B, n) \subseteq 0..(Space - 1)
    BY <1>2, <1>3, <1>6, <1>7, IncompleteOwns DEF Documents, Inbound, CInv
  <2> SUFFICES ASSUME NEW i \in 1..n
               PROVE  store'[B + i - 1] = IF B + i - 1 \in Bytes(B + off, Len(d))
                                          THEN d[B + i - 1 - (B + off) + 1] ELSE store[B + i - 1]
    OBVIOUS
  <2>2. PICK k : k = B + i - 1 OBVIOUS
  <2>3. k \in 0..(Space - 1) BY <1>15, <2>1, <2>2 DEF Extent, Bytes
  <2>4. store'[k] = IF k \in Bytes(B + off, Len(d)) THEN d[k - (B + off) + 1] ELSE store[k]
    BY <1>12, <2>3
  <2> QED BY ONLY <2>2, <2>4
<1>18. Follows(node'[B], B, n, sent[o], store')
  <2>1. PICK S \in SUBSET (Nat \X Nat) : S = sent[o] BY <1>2 DEF CInv, Sending
  <2>2. \A p, q \in S : p[1] = q[1] => p = q BY <1>2, <2>1 DEF CInv, Sending
  <2>3. Follows(r, B, n, S, store) BY <1>2, <1>3, <1>6, <1>7, <1>13, <2>1 DEF CInv, Running
  <2>4. off + Len(d) <= n /\ \A j \in 1..Len(d) : <<off + j - 1, d[j]>> \in S BY <1>10, <1>11, <2>1
  <2>5. Follows(IF Len(r) = off THEN r \o d ELSE r, B, n, S, store')
    BY <1>17, <2>2, <2>3, <2>4, HashFollows
  <2> QED BY <1>14, <2>1, <2>5
<1> QED BY <1>2, <1>3, <1>6, <1>7, <1>8, <1>14, <1>16, <1>18

\* Bytes that others own keep their content.
LEMMA OthersUntouched ==
    ASSUME AInv, NEW E, \A b \in (0..(Space - 1)) \ E : store'[b] = store[b],
           NEW b \in Begins, NEW n \in Nat \ {0}, Extent(b, n) \subseteq 0..(Space - 1),
           Extent(b, n) \cap E = {}
    PROVE  /\ \A i \in 1..n : store'[b + i - 1] = store[b + i - 1]
           /\ Content(b, n)' = Content(b, n)
<1>1. b \in Nat BY BeginsAreNaturals
<1>2. AlignUp(n) \in Nat /\ AlignUp(n) >= n BY AlignUpProperties
<1>3. \A i \in 1..n : b + i - 1 \in Extent(b, n) BY <1>1, <1>2 DEF Extent, Bytes
<1>4. \A i \in 1..n : store'[b + i - 1] = store[b + i - 1] BY <1>3
<1> QED BY <1>4 DEF Content

\* Data are written, whether the answer arrives or not.
LEMMA WriteContents ==
    ASSUME CInv, SInv', stray \subseteq stray', NEW t \in Threads, Write(t) \/ WriteLost(t)
    PROVE  CInv'
<1>0. AInv BY DEF CInv, SInv
<1>1. /\ Ready(t, "Write") /\ ~Loc(t).complete /\ Arg(t).off < Loc(t).size /\ WriteData(t)
      /\ UNCHANGED <<doc, entries, sent, sealed>>
  BY DEF Write, WriteLost
<1>2. th[t].pc = "loaded" /\ th[t].op = "Write" BY <1>1 DEF Ready, At
<1>o. PICK o \in Oids :
          /\ o = th[t].oid /\ Incomplete(doc[o])
          /\ \A b \in (0..(Space - 1)) \ Claim(<<"object", o>>) : store'[b] = store[b]
          /\ \A b \in Begins \ {doc[o].begin} : node'[b] = node[b]
          /\ Follows(node'[doc[o].begin], doc[o].begin, doc[o].size, sent[o], store')
  BY <1>1, WriteTouches
<1>e. PICK E : E = Claim(<<"object", o>>) OBVIOUS
<1>3. /\ o = th[t].oid /\ E = Claim(<<"object", o>>) /\ Incomplete(doc[o])
      /\ \A b \in (0..(Space - 1)) \ E : store'[b] = store[b]
      /\ \A b \in Begins \ {doc[o].begin} : node'[b] = node[b]
      /\ Follows(node'[doc[o].begin], doc[o].begin, doc[o].size, sent[o], store')
  BY <1>o, <1>e
<1>4. Goes(t)
  <2>1. CASE Write(t) BY <1>0, <2>1, GoesTo DEF Write
  <2>2. CASE WriteLost(t) BY <1>2, <2>2 DEF WriteLost, Goes, Same
  <2> QED BY <2>1, <2>2
<1>5. Acts(t, o) BY <1>1, <1>2, <1>4 DEF Acts, Kept, Goes
<1>6. Sending' BY <1>1, <1>4, SendingKeeps DEF CInv, Goes
<1>7. doc[o].begin \in E /\ doc[o].begin \in Begins BY <1>3, IncompleteOwns DEF CInv
\* Another object with bytes of its own.
<1>8. ASSUME NEW p \in Oids \ {o}, p \in Private
      PROVE  /\ \A i \in 1..doc[p].size : store'[doc[p].begin + i - 1] = store[doc[p].begin + i - 1]
             /\ Content(doc[p].begin, doc[p].size)' = Content(doc[p].begin, doc[p].size)
             /\ node'[doc[p].begin] = node[doc[p].begin] /\ doc[p].begin # doc[o].begin
             /\ doc[p].size \in Nat
  <2>1. PICK g : g = doc[p] OBVIOUS
  <2>2. g \in Documents
    BY <1>0, <1>8, <2>1, DocumentIsObject DEF Private, Objects, AInv, Types
  <2>3. /\ g.begin \in Begins /\ g.begin \in Nat /\ g.size \in Nat \ {0}
        /\ Extent(g.begin, g.size) \subseteq 0..(Space - 1)
    BY <2>2, BeginsAreNaturals DEF Documents, Inbound
  <2>4. Claim(<<"object", p>>) = Extent(g.begin, g.size) BY <1>8, <2>1, Claims DEF OwnBytes
  <2>5. Extent(g.begin, g.size) \cap E = {}
    <3>1. <<"object", p>> # <<"object", o>> BY <1>8
    <3>2. <<"object", p>> \in Claimants /\ <<"object", o>> \in Claimants BY Claims
    <3> QED BY <1>3, <2>4, <3>1, <3>2 DEF CInv, SInv, Owned
  <2>6. g.begin # doc[o].begin BY <1>7, <2>3, <2>5, ExtentsHaveBytes
  <2>7. /\ \A i \in 1..g.size : store'[g.begin + i - 1] = store[g.begin + i - 1]
        /\ Content(g.begin, g.size)' = Content(g.begin, g.size)
    <3>1. PICK b \in Begins, n \in Nat \ {0} : b = g.begin /\ n = g.size BY <2>3
    <3>2. Extent(b, n) \subseteq 0..(Space - 1) /\ Extent(b, n) \cap E = {} BY <2>3, <2>5, <3>1
    <3>3. \A x \in (0..(Space - 1)) \ E : store'[x] = store[x] BY <1>3
    <3>4. Content(b, n)' = Content(b, n) BY ONLY <1>0, <3>2, <3>3, OthersUntouched
    <3>5. \A i \in 1..n : store'[b + i - 1] = store[b + i - 1]
      BY ONLY <1>0, <3>2, <3>3, OthersUntouched
    <3> QED BY <3>1, <3>4, <3>5
  <2>8. Content(doc[p].begin, doc[p].size)' = Content(g.begin, g.size)'
    BY <1>1, <2>1 DEF Content
  <2> QED BY <1>3, <2>1, <2>3, <2>6, <2>7, <2>8
<1>9. Running'
  <2>1. ASSUME NEW b \in Begins, node'[b] # <<>>
        PROVE  \E p \in Oids : Incomplete(doc[p]) /\ doc[p].begin = b
    <3>1. CASE b = doc[o].begin BY <1>3, <3>1
    <3>2. CASE b # doc[o].begin
      <4>1. node[b] # <<>> BY <1>3, <2>1, <3>2
      <4> QED BY <4>1 DEF CInv, Running
    <3> QED BY <3>1, <3>2
  <2>2. ASSUME NEW p \in Oids, Incomplete(doc[p])
        PROVE  Follows(node'[doc[p].begin], doc[p].begin, doc[p].size, sent[p], store')
    <3>1. CASE p = o BY <1>3, <3>1
    <3>2. CASE p # o
      <4>1. p \in Private /\ doc[p].begin \in Begins BY <2>2, IncompleteOwns DEF CInv
      <4>2. Follows(node[doc[p].begin], doc[p].begin, doc[p].size, sent[p], store)
        BY <2>2 DEF CInv, Running
      <4>3. PICK r \in Seq(Nat) : r = node[doc[p].begin] BY <1>0, <4>1 DEF AInv, Types
      <4>4. /\ \A i \in 1..doc[p].size : store'[doc[p].begin + i - 1] = store[doc[p].begin + i - 1]
            /\ node'[doc[p].begin] = r /\ doc[p].size \in Nat
        BY <1>8, <3>2, <4>1, <4>3
      <4>5. PICK b, n : b = doc[p].begin /\ n = doc[p].size /\ n \in Nat BY <4>4
      <4>6. PICK l \in Nat : l = Len(r) BY LenProperties
      <4>7. l <= n /\ \A i \in 1..l : <<i - 1, r[i]>> \in sent[p] /\ store[b + i - 1] = r[i]
        BY <4>2, <4>3, <4>5, <4>6 DEF Follows
      <4>8. \A i \in 1..l : store'[b + i - 1] = r[i]
        <5> SUFFICES ASSUME NEW i \in 1..l PROVE store'[b + i - 1] = r[i] OBVIOUS
        <5>1. i \in 1..n BY <4>5, <4>6, <4>7
        <5>2. store'[b + i - 1] = store[b + i - 1] BY ONLY <4>4, <4>5, <5>1
        <5>3. store[b + i - 1] = r[i] BY <4>7
        <5> QED BY <5>2, <5>3
      <4>9. Follows(r, b, n, sent[p], store') BY <4>6, <4>7, <4>8 DEF Follows
      <4> QED BY <4>4, <4>5, <4>9
    <3> QED BY <3>1, <3>2
  <2> QED BY <1>1, <2>1, <2>2 DEF Running, Incomplete, IsObject
<1>10. Contents'
  <2>1. ASSUME NEW p \in Oids, p \in Sealed' PROVE ObjectHolds(p)'
    <3>1. p \in Sealed /\ doc'[p] = doc[p] /\ sealed'[p] = sealed[p]
      BY <1>1, <2>1 DEF Sealed, Objects, IsObject
    <3>2. p # o BY <1>3, <3>1 DEF Sealed, Incomplete
    <3>3. ObjectHolds(p) BY <3>1 DEF CInv, Contents
    <3>4. ASSUME p \in Private' PROVE sealed'[p].content = Content(doc[p].begin, doc[p].size)'
      <4>1. p \in Private BY <1>5, <3>2, <3>4, OthersPrivate
      <4> QED BY <1>8, <3>1, <3>2, <3>3, <4>1 DEF ObjectHolds
    <3> QED BY <1>1, <3>1, <3>3, <3>4 DEF ObjectHolds, HashOK, Trusted, End, Sealing
  <2>2. ASSUME NEW i \in DOMAIN entries' PROVE EntryHolds(i)'
    <3>1. i \in DOMAIN entries /\ entries' = entries BY <1>1, <2>2
    <3>2. EntryHolds(i) BY <3>1 DEF CInv, Contents
    <3>3. PICK e : e = entries[i] OBVIOUS
    <3>4. e \in Entry /\ i \in Nat BY <1>0, <3>1, <3>3, EntryAt
    <3>5. /\ e.begin \in Begins /\ e.size \in Nat \ {0}
          /\ Extent(e.begin, e.size) \subseteq 0..(Space - 1)
      BY <3>4 DEF Entry, Inbound
    <3>6. Extent(e.begin, e.size) \cap E = {}
      <4>1. Claim(<<"entry", i>>) = Extent(e.begin, e.size)
        BY <3>1, <3>3, <3>4, Claims DEF EntryBytes
      <4>2. <<"entry", i>> # <<"object", o>> OBVIOUS
      <4>3. <<"entry", i>> \in Claimants /\ <<"object", o>> \in Claimants BY <3>4, Claims
      <4> QED BY <1>3, <4>1, <4>2, <4>3 DEF CInv, SInv, Owned
    <3>7. Content(e.begin, e.size)' = Content(e.begin, e.size)
      <4>1. PICK b \in Begins, n \in Nat \ {0} : b = e.begin /\ n = e.size BY <3>5
      <4>2. Extent(b, n) \subseteq 0..(Space - 1) /\ Extent(b, n) \cap E = {} BY <3>5, <3>6, <4>1
      <4>3. Content(b, n)' = Content(b, n) BY ONLY <1>0, <1>3, <4>2, OthersUntouched, Zenon
      <4> QED BY <4>1, <4>3
    <3> QED BY <3>1, <3>2, <3>3, <3>7 DEF EntryHolds, Trusted, End, Content
  <2>3. sealed' \in [Oids -> Sealing \cup {None}] BY <1>1 DEF CInv, Contents
  <2> QED BY <2>1, <2>2, <2>3 DEF Contents, Sealed, Objects, Sealing
<1>11. ASSUME NEW u \in Threads, th'[u].oid \in Oids PROVE Knows(th[u], sealed[th[u].oid])'
  <2>1. CASE u = t BY <1>2, <1>4, <2>1, GoingKnows
  <2>2. CASE u # t
    <3>1. PICK q, z : q = th[u] /\ z = sealed[q.oid] OBVIOUS
    <3>2. th'[u] = q /\ sealed' = sealed BY <1>1, <1>4, <2>2, <3>1 DEF Goes
    <3>3. Knows(q, z) BY <1>11, <3>1, <3>2 DEF CInv, Knowledge
    <3>4. ASSUME q.pc = "seal"
          PROVE  /\ node'[q.loc.begin] = <<>>
                 /\ Content(q.loc.begin, q.loc.size)' = Content(q.loc.begin, q.loc.size)
      <4>1. PICK p \in Oids : p = q.oid BY <1>11, <3>2
      <4>2. PICK c, g : c = q.loc /\ g = doc[p] OBVIOUS
      <4>3. IsObject(g) /\ g = InDoc(c) /\ ~c.complete
        BY <1>0, <3>1, <3>4, <4>1, <4>2, Here DEF View, Agrees
      <4>4. g.begin = c.begin /\ g.size = c.size /\ ~g.complete BY <4>3 DEF InDoc
      <4>5. p # o
        <5> SUFFICES ASSUME p = o PROVE FALSE OBVIOUS
        <5>1. InsideOf(u, o) /\ InsideOf(t, o) BY <1>2, <1>3, <3>1, <3>4, <4>1 DEF InsideOf, Inside
        <5> QED BY <2>2, <5>1 DEF CInv, SInv, AInv, IInv, Exclusive
      <4>6. p \in Private BY <4>2, <4>3, <4>4, IncompleteOwns DEF CInv, Incomplete
      <4>7. /\ node'[c.begin] = node[c.begin]
            /\ Content(doc[p].begin, doc[p].size)' = Content(c.begin, c.size)
        BY <1>8, <4>2, <4>4, <4>5, <4>6
      <4>8. Content(doc[p].begin, doc[p].size)' = Content(c.begin, c.size)'
        BY <1>1, <4>2, <4>4 DEF Content
      <4>9. node[c.begin] = <<>> BY <3>3, <3>4, <4>2 DEF Knows
      <4> QED BY <4>2, <4>7, <4>8, <4>9
    <3>5. q.pc = "seal" => /\ node'[q.loc.begin] = <<>> /\ z \in Sealing
                           /\ HashOK(q.seen, q.loc.size, z)
                           /\ z.content = Content(q.loc.begin, q.loc.size)'
      BY <3>3, <3>4 DEF Knows
    <3>6. /\ q.op = "Read" /\ q.pc # "leave" => q.seen = <<>>
          /\ q.op = "Read" /\ q.pc = "leave" /\ q.seen # <<>> /\ Trusted(q.loc.hash, q.loc.size)
                 => q.seen = z.content
      BY <3>3 DEF Knows
    <3>7. sealed'[th'[u].oid] = z BY <3>1, <3>2
    <3> QED BY <3>2, <3>5, <3>6, <3>7 DEF Knows, HashOK, Trusted, End, Sealing, Content
  <2> QED BY <2>1, <2>2
<1>12. Knowledge' BY <1>11 DEF Knowledge
<1> QED BY <1>6, <1>9, <1>10, <1>12 DEF CInv
-----------------------------------------------------------------------------
\* What moves no thread: records expire, an answer of RegM is lost, storage
\* nodes start again.
LEMMA NobodyMovesContents ==
    ASSUME CInv, SInv', stray \subseteq stray', UNCHANGED <<doc, entries, th, store, sent, sealed>>,
           \A b \in Begins : node'[b] \in {node[b], <<>>}
    PROVE  CInv'
<1>0. AInv BY DEF CInv, SInv
<1>1. Sending' BY DEF CInv, Sending, Pairs
<1>2. Running'
  <2>1. \A b \in Begins : node'[b] # <<>> => \E o \in Oids : Incomplete(doc[o]) /\ doc[o].begin = b
    BY DEF CInv, Running
  <2>2. ASSUME NEW o \in Oids, Incomplete(doc[o])
        PROVE  Follows(node'[doc[o].begin], doc[o].begin, doc[o].size, sent[o], store)
    <3>1. doc[o].begin \in Begins /\ doc[o].size \in Nat BY <2>2, IncompleteOwns DEF CInv
    <3>2. Follows(node[doc[o].begin], doc[o].begin, doc[o].size, sent[o], store)
      BY <2>2 DEF CInv, Running
    <3>3. Follows(<<>>, doc[o].begin, doc[o].size, sent[o], store) BY <3>1, FollowsNothing
    <3>4. node'[doc[o].begin] = node[doc[o].begin] \/ node'[doc[o].begin] = <<>> BY <3>1
    <3> QED BY <3>2, <3>3, <3>4
  <2> QED BY <2>1, <2>2 DEF Running, Incomplete, IsObject
<1>3. Contents'
  <2>1. ASSUME NEW o \in Oids, o \in Sealed' PROVE ObjectHolds(o)'
    <3>1. o \in Sealed BY <2>1 DEF Sealed, Objects, IsObject
    <3>2. ObjectHolds(o) BY <3>1 DEF CInv, Contents
    <3>3. o \in Private' => o \in Private
      BY DEF Private, Objects, IsObject, GivenBack, InEntry, Matching, Oid, At
    <3> QED BY <3>2, <3>3, ContentKeeps DEF ObjectHolds, HashOK, Trusted, End, Sealing
  <2>2. ASSUME NEW i \in DOMAIN entries' PROVE EntryHolds(i)'
    <3>1. EntryHolds(i) BY <2>2 DEF CInv, Contents
    <3> QED BY <3>1, ContentKeeps DEF EntryHolds, Trusted, End
  <2>3. sealed' \in [Oids -> Sealing \cup {None}] BY DEF CInv, Contents
  <2> QED BY <2>1, <2>2, <2>3 DEF Contents, Sealed, Objects, Sealing
<1>4. ASSUME NEW u \in Threads, th'[u].oid \in Oids PROVE Knows(th[u], sealed[th[u].oid])'
  <2>1. PICK q, z : q = th[u] /\ z = sealed[q.oid] OBVIOUS
  <2>2. th'[u] = q /\ sealed'[th'[u].oid] = z BY <2>1
  <2>3. Knows(q, z) BY <1>4, <2>1 DEF CInv, Knowledge
  <2>4. q.pc = "seal" => q.loc.begin \in Begins
    <3> SUFFICES ASSUME q.pc = "seal" PROVE q.loc.begin \in Begins OBVIOUS
    <3>1. q.loc \in Records BY <1>0, <2>1 DEF AInv, Types, Fit, Copying
    <3> QED BY <3>1 DEF Records, Inbound
  <2>5. q.pc = "seal" => /\ node'[q.loc.begin] = <<>> /\ z \in Sealing
                         /\ HashOK(q.seen, q.loc.size, z)
                         /\ z.content = Content(q.loc.begin, q.loc.size)'
    <3>1. Content(q.loc.begin, q.loc.size)' = Content(q.loc.begin, q.loc.size) BY DEF Content
    <3> QED BY <2>3, <2>4, <3>1 DEF Knows
  <2>6. /\ q.op = "Read" /\ q.pc # "leave" => q.seen = <<>>
        /\ q.op = "Read" /\ q.pc = "leave" /\ q.seen # <<>> /\ Trusted(q.loc.hash, q.loc.size)
               => q.seen = z.content
    BY <2>3 DEF Knows
  <2> QED BY <2>2, <2>5, <2>6 DEF Knows, HashOK, Trusted, End, Sealing, Content
<1>5. Knowledge' BY <1>4 DEF Knowledge
<1> QED BY <1>1, <1>2, <1>3, <1>5 DEF CInv

LEMMA InitContents == Init => CInv
<1> SUFFICES ASSUME Init PROVE CInv OBVIOUS
<1>1. SInv BY InitSpace
<1>2. /\ th = [t \in Threads |-> Idle] /\ entries = <<>> /\ node = [b \in Begins |-> <<>>]
      /\ sent = [o \in Oids |-> {}] /\ sealed = [o \in Oids |-> None]
  BY Zenon DEF Init
<1>3. PICK l \in Layouts :
          doc = [o \in Oids |-> IF l[o] = None THEN None ELSE Object(l[o].begin, l[o].size)]
  BY Zenon DEF Init
<1>4. PICK r : r = Idle OBVIOUS
<1>5. r.pc = "idle" /\ r.op = "" /\ r.oid = None /\ \A t \in Threads : th[t] = r
  BY <1>2, <1>4, IdleRecord
<1>6. Sending BY <1>2, <1>5 DEF Sending
<1>7. Running
  <2>1. ASSUME NEW o \in Oids, Incomplete(doc[o])
        PROVE  Follows(node[doc[o].begin], doc[o].begin, doc[o].size, sent[o], store)
    <3>1. doc[o].begin \in Begins /\ doc[o].size \in Nat BY <1>1, <2>1, IncompleteOwns
    <3> QED BY <1>2, <3>1, FollowsNothing
  <2> QED BY <1>2, <2>1 DEF Running
<1>8. Contents
  <2>1. ASSUME NEW o \in Oids, o \in Sealed PROVE FALSE
    <3>1. IsObject(doc[o]) /\ doc[o].complete BY <2>1 DEF Sealed, Objects
    <3>2. doc[o] = Object(l[o].begin, l[o].size) BY <1>3, <3>1 DEF IsObject
    <3>3. PICK d : d = doc[o] OBVIOUS
    <3>4. ~d.complete BY ONLY <3>2, <3>3 DEF Object
    <3> QED BY <3>1, <3>3, <3>4
  <2>2. Sealed \subseteq Oids BY DEF Sealed, Objects
  <2>3. DOMAIN entries = {} BY <1>2
  <2>4. sealed \in [Oids -> Sealing \cup {None}] BY <1>2
  <2> QED BY <2>1, <2>2, <2>3, <2>4 DEF Contents
<1>9. Knowledge BY <1>5 DEF Knowledge, Knows
<1> QED BY <1>1, <1>6, <1>7, <1>8, <1>9 DEF CInv

\* What was hashed of a wrong block stays known.
LEMMA StrayGrows == ASSUME [Next]_vars PROVE stray \subseteq stray'
<1>1. CASE UNCHANGED vars BY <1>1 DEF vars
<1>2. CASE NodeRestart \/ \E o \in Oids : CacheExpires(o) BY <1>2 DEF NodeRestart, CacheExpires
<1>3. ASSUME NEW t \in Threads, Calls(t) \/ Step(t) \/ Trouble(t)
      PROVE  stray \subseteq stray'
  <2>1. CASE Calls(t) BY <2>1 DEF Calls, CallCreate, CallLink, CallWrite, CallResize, CallOther, Call
  <2>2. CASE Step(t)
    <3>1. CASE \/ Insert(t) \/ Allocate(t) \/ Undo(t) \/ FillDocument(t) \/ LockNew(t)
               \/ CacheNew(t) \/ VolumeInfo(t)
               \/ Link(t) \/ LinkInsert(t) \/ LinkUpdate(t) \/ LinkUndo(t)
      BY <3>1 DEF Insert, Allocate, Undo, FillDocument, LockNew, CacheNew, VolumeInfo,
                  Link, LinkInsert, LinkUpdate, LinkUndo
    <3>2. CASE \/ Lock(t) \/ LockTimeout(t) \/ Load(t) \/ Leave(t) \/ Refuse(t)
               \/ Write(t) \/ Read(t) \/ Resize(t) \/ AddChip(t)
      BY <3>2 DEF Lock, LockTimeout, Load, Leave, Refuse, Write, Read, Resize, AddChip
    <3>3. CASE \/ Seal(t) \/ FindEntry(t) \/ InsertEntry(t) \/ Settle(t)
               \/ DeleteDocument(t) \/ DeleteRef(t) \/ DeleteCache(t)
      BY <3>3 DEF Seal, FindEntry, InsertEntry, Settle, DeleteDocument, DeleteRef, DeleteCache
    <3>4. CASE CompleteWrite(t) BY <3>4 DEF CompleteWrite
    <3> QED BY <2>2, <3>1, <3>2, <3>3, <3>4 DEF Step
  <2>3. CASE Trouble(t) BY <2>3 DEF Trouble, AllocateLost, AllocateFails, WriteLost, NodeFails, AddChipFails
  <2> QED BY <1>3, <2>1, <2>2, <2>3
<1> QED BY <1>1, <1>2, <1>3 DEF Next

LEMMA StepKeepsContents == ASSUME ~Eager PROVE CInv /\ [Next]_vars => CInv'
<1> SUFFICES ASSUME CInv, [Next]_vars PROVE CInv'
  OBVIOUS
<1>0. stray \subseteq stray' BY StrayGrows
<1>1. SInv' BY StepKeepsSpace DEF CInv
<1>2. node \in [Begins -> Seq(Nat)] BY DEF CInv, SInv, AInv, Types
<1>3. CASE UNCHANGED vars BY <1>0, <1>1, <1>3, NobodyMovesContents DEF vars, data
<1>4. CASE NodeRestart \/ \E o \in Oids : CacheExpires(o)
  BY <1>0, <1>1, <1>4, NobodyMovesContents DEF NodeRestart, CacheExpires, data
<1>5. ASSUME NEW t \in Threads, Calls(t) \/ Step(t) \/ Trouble(t)
      PROVE  CInv'
  <2>1. CASE Calls(t) BY <1>0, <1>1, <2>1, CallContents
  <2>2. CASE \/ Allocate(t) \/ AllocateFails(t) \/ LockNew(t) \/ CacheNew(t) \/ VolumeInfo(t)
             \/ Link(t) \/ LinkUndo(t) \/ LockTimeout(t) \/ Lock(t) \/ Leave(t)
    BY <1>0, <1>1, <2>2, CreatingContents
  <2>3. CASE \/ Refuse(t) \/ NodeFails(t) \/ AddChip(t) \/ AddChipFails(t) \/ DeleteRef(t)
             \/ DeleteCache(t) \/ Load(t) \/ FindEntry(t)
    BY <1>0, <1>1, <2>3, HandlingContents
  <2>4. CASE Insert(t) \/ Undo(t) \/ LinkInsert(t) \/ DeleteDocument(t)
    BY <1>0, <1>1, <2>4, InsertContents, DocumentContents
  <2>5. CASE FillDocument(t) \/ LinkUpdate(t)
    BY <1>0, <1>1, <2>5, FillDocumentContents, LinkUpdateContents
  <2>6. CASE Write(t) \/ WriteLost(t) BY <1>0, <1>1, <2>6, WriteContents
  <2>7. CASE Read(t) \/ Resize(t) \/ CompleteWrite(t)
    BY <1>0, <1>1, <2>7, ReadContents, ResizeContents, CompleteWriteContents
  <2>8. CASE Seal(t) \/ InsertEntry(t) \/ Settle(t)
    BY <1>0, <1>1, <2>8, SealContents, InsertEntryContents, SettleContents
  <2>9. CASE AllocateLost(t) BY <1>0, <1>1, <2>9, NobodyMovesContents DEF AllocateLost
  <2> QED
    BY <1>5, <2>1, <2>2, <2>3, <2>4, <2>5, <2>6, <2>7, <2>8, <2>9 DEF Step, Trouble
<1> QED BY <1>3, <1>4, <1>5 DEF Next

(***************************************************************************)
(* CompleteObject may exchange the extent of an object for that of another *)
(* one with its hash and size: the two were completed with the same bytes. *)
(* And the hash of an object that was never resized is that of its bytes,  *)
(* in whatever order they were written, however often a call of the        *)
(* storage node was repeated and wherever the node lost its running hash   *)
(* (update_hash and complete_hash in bfss_sn.cpp).  Of a hash that         *)
(* complete_hash ever answered after get_index had taken it to a wrong     *)
(* block nothing is said: there HashGoesOn is violated.                    *)
(***************************************************************************)
THEOREM HashStandsForContent == ASSUME ~Eager PROVE Spec => []EqualHashesEqualContent
<1>1. ASSUME CInv PROVE EqualHashesEqualContent
  <2>1. ASSUME NEW o \in TrustedObjects
        PROVE  /\ sealed[o].content = End(doc[o].hash, doc[o].size)
               /\ sealed[o].plain => doc[o].hash = sealed[o].content
    BY <1>1 DEF CInv, Contents, ObjectHolds, HashOK, TrustedObjects
  <2>2. ASSUME NEW o \in TrustedObjects, NEW p \in TrustedObjects,
               doc[o].hash = doc[p].hash, doc[o].size = doc[p].size
        PROVE  sealed[o].content = sealed[p].content
    <3>1. sealed[o].content = End(doc[o].hash, doc[o].size) BY <2>1
    <3>2. sealed[p].content = End(doc[p].hash, doc[p].size) BY <2>1
    <3> QED BY <2>2, <3>1, <3>2
  <2> QED BY <2>1, <2>2 DEF EqualHashesEqualContent
<1>2. Init => CInv BY InitContents
<1>3. CInv /\ [Next]_vars => CInv' BY StepKeepsContents
<1> QED BY <1>1, <1>2, <1>3, PTL DEF Spec

(***************************************************************************)
(* What is true of resized objects too, which complete_hash in bfss_sn.cpp *)
(* hashes from the beginning (Flags == 1) without forgetting what it       *)
(* hashed before: the hash is that of some bytes followed by those of the  *)
(* object, unless get_index ever took complete_hash to a wrong block for   *)
(* this hash.                                                              *)
(***************************************************************************)
HashEndsInContent == \A o \in TrustedObjects : sealed[o].content = End(doc[o].hash, doc[o].size)

THEOREM HashesEndInContent == ASSUME ~Eager PROVE Spec => []HashEndsInContent
<1>1. CInv => HashEndsInContent
  BY DEF CInv, Contents, ObjectHolds, HashOK, HashEndsInContent, TrustedObjects
<1>2. Init => CInv BY InitContents
<1>3. CInv /\ [Next]_vars => CInv' BY StepKeepsContents
<1> QED BY <1>1, <1>2, <1>3, PTL DEF Spec

(***************************************************************************)
(* Read answers with the bytes an object was completed with, also after    *)
(* CompleteObject exchanged its extent for that of an equal object, while  *)
(* other objects of that extent are made, written and deleted, and for a   *)
(* link that never had bytes of its own (Read in bfss_api.cpp): of every   *)
(* object whose hash was not made of a wrong block.                        *)
(***************************************************************************)
THEOREM ReadersGetContent == ASSUME ~Eager PROVE Spec => []ReadersSeeContent
<1>1. ASSUME CInv PROVE ReadersSeeContent
  <2> SUFFICES ASSUME NEW t \in Threads, th[t].op = "Read", th[t].pc = "leave", th[t].seen # <<>>,
                      Trusted(th[t].loc.hash, th[t].loc.size)
               PROVE  th[t].seen = sealed[th[t].oid].content
    BY DEF ReadersSeeContent, At, Oid, Loc
  <2>1. th[t].oid \in Oids BY <1>1, Here DEF CInv, SInv
  <2> QED BY <1>1, <2>1 DEF CInv, Knowledge, Knows
<1>2. Init => CInv BY InitContents
<1>3. CInv /\ [Next]_vars => CInv' BY StepKeepsContents
<1> QED BY <1>1, <1>2, <1>3, PTL DEF Spec
=============================================================================
