-------------------------- MODULE ThriftCallProofs --------------------------
(***************************************************************************)
(* Proof that the calls of one user return their own answers, for any      *)
(* number of calls, any structures and any versions of the interface.      *)
(*                                                                         *)
(* The invariant says that the counter names the call that is under way,   *)
(* that the buffer holds its message alone, and that every frame and every *)
(* reply carries the number of the call it belongs to as sequence number.  *)
(* A second one, that frames and replies stand in the order of the calls,  *)
(* shows that a client once out of step stays so.                          *)
(***************************************************************************)
EXTENDS ThriftCall, FiniteSetTheorems, SequenceTheorems, TLAPS

\* The arguments a handler gets for call i, and what it may answer.
Arg(i)     == DecodeArgs(Method(i), EncodeArgs(req[i], peer)).val
MayGive(i) == Answers(Method(i), Arg(i))

\* The messages of call i: its frame, and the replies there may be to it.
HeaderOf(i) == [kind |-> "header", method |-> Method(i), seq |-> i, call |-> i]
BodyOf(i)   == [kind |-> "args", wire |-> EncodeArgs(req[i], peer), call |-> i]
FrameOf(i)  == <<HeaderOf(i), BodyOf(i)>>
Frames      == {FrameOf(i) : i \in Calls}

Wires(i)   == {<<>>} \cup {EncodeResult(Method(i), v, peer) : v \in MayGive(i)}
Kinds      == {"reply", "UNKNOWN_METHOD", "PROTOCOL_ERROR", "INTERNAL_ERROR"}
ReplyTo(i, k, w) == [kind |-> k, method |-> Method(i), seq |-> i, wire |-> w, call |-> i]
Replies    == UNION {{ReplyTo(i, k, w) : k \in Kinds, w \in Wires(i)} : i \in Calls}

HandledFor(i) == {[call |-> i, args |-> Arg(i), val |-> v] :
                  v \in {<<>>} \cup {<<x>> : x \in MayGive(i)}}
History    == UNION {HandledFor(i) : i \in Calls}

\* A handler answered call i with what the reply m carries.
Given(m) == \E h \in 1..Len(handled) :
                /\ handled[h].call = m.call /\ handled[h].val # <<>>
                /\ m.wire = EncodeResult(m.method, handled[h].val[1], peer)

Types == /\ req \in Seq(Requests)
         /\ seqId \in Nat /\ open \in BOOLEAN
         /\ pc \in [Calls -> Locations] /\ seq \in [Calls -> Nat]
         /\ DOMAIN val = Calls

\* The calls are made in their order, one at a time.
Order == \A i, j \in Calls : i < j /\ pc[j] # "idle" => pc[i] \in {"ok", "error"}

\* The counter has the number of the last call that incremented it.
Counter == \A i \in Calls :
    /\ pc[i] = "idle" /\ (\A j \in Calls : j < i => pc[j] \in {"ok", "error"}) => seqId = i - 1
    /\ pc[i] = "store" => seqId = i - 1 /\ seq[i] = i - 1
    /\ pc[i] \in {"header", "args", "flush", "recv", "body"} => seqId = i
    /\ pc[i] \in {"args", "flush", "recv", "body"} => seq[i] = i

\* The buffer holds the message of the call that is writing.
Buffer == /\ \A i \in Calls : /\ pc[i] = "args" => wbuf = <<HeaderOf(i)>>
                              /\ pc[i] = "flush" => wbuf = FrameOf(i)
          /\ (\A i \in Calls : pc[i] \notin {"args", "flush"}) => wbuf = <<>>

\* What is under way are whole messages of calls, and replies that were given.
Stream == /\ toServer \in Seq(Frames)
          /\ toClient \in Seq(Replies)
          /\ unread = <<>> \/ \E m \in Replies : unread = <<m>>
          /\ handled \in Seq(History)
          /\ \A k \in 1..Len(toClient) : toClient[k].kind = "reply" => Given(toClient[k])
          /\ unread # <<>> /\ unread[1].kind = "reply" => Given(unread[1])

\* A call reads the body of a reply to itself.
Reading == \A i \in Calls : pc[i] = "body" => unread # <<>> /\ unread[1].call = i

OneUser == Types /\ Order /\ Counter /\ Buffer /\ Stream /\ Reading
           /\ \A i \in Calls : ReturnsOwn(i)
-----------------------------------------------------------------------------
(***************************************************************************)
(* The definitions above depend on given alone, which never changes.       *)
(***************************************************************************)
LEMMA GivenStays ==
    ASSUME UNCHANGED given
    PROVE  /\ Calls' = Calls /\ Frames' = Frames /\ Replies' = Replies /\ History' = History
           /\ \A i : /\ Method(i)' = Method(i) /\ HeaderOf(i)' = HeaderOf(i)
                     /\ FrameOf(i)' = FrameOf(i) /\ BodyOf(i)' = BodyOf(i)
                     /\ Arg(i)' = Arg(i) /\ MayGive(i)' = MayGive(i)
<1>1. Calls' = Calls
  BY DEF given, Calls
<1>2. \A i : /\ Method(i)' = Method(i) /\ HeaderOf(i)' = HeaderOf(i)
             /\ FrameOf(i)' = FrameOf(i) /\ BodyOf(i)' = BodyOf(i)
             /\ Arg(i)' = Arg(i) /\ MayGive(i)' = MayGive(i)
  BY DEF given, Method, HeaderOf, FrameOf, BodyOf, Arg, MayGive
<1>3. Frames' = Frames
  BY <1>1, <1>2 DEF Frames
<1>4. Replies' = Replies
  BY <1>1 DEF given, Replies, ReplyTo, Wires, Method, MayGive, Arg
<1>5. History' = History
  BY <1>1 DEF given, History, HandledFor, Method, MayGive, Arg
<1> QED
  BY <1>1, <1>2, <1>3, <1>4, <1>5

(***************************************************************************)
(* Initially nothing is under way.                                         *)
(***************************************************************************)
LEMMA OneUserInit == Init => OneUser
<1> SUFFICES ASSUME Init PROVE OneUser
  OBVIOUS
<1>1. Types
  BY CallAssumption DEF Init, Types, Locations
<1>2. Order /\ Counter /\ Buffer /\ Reading
  BY DEF Init, Order, Counter, Buffer, Reading, Calls
<1>3. Stream
  BY DEF Init, Stream
<1>4. \A i \in Calls : ReturnsOwn(i)
  BY DEF Init, ReturnsOwn
<1> QED
  BY <1>1, <1>2, <1>3, <1>4 DEF OneUser

(***************************************************************************)
(* Around the call that is under way all earlier ones have returned and    *)
(* all later ones were not made.                                           *)
(***************************************************************************)
LEMMA Alone ==
    ASSUME Types, Order, NEW i \in Calls, pc[i] \notin {"idle", "ok", "error"}
    PROVE  \A j \in Calls : /\ j < i => pc[j] \in {"ok", "error"}
                            /\ j > i => pc[j] = "idle"
BY DEF Order, Calls

(***************************************************************************)
(* The call under way goes on, or returns.                                 *)
(***************************************************************************)
LEMMA OrderKept ==
    ASSUME Types, Order, UNCHANGED given, NEW i \in Calls, NEW l,
           pc[i] \notin {"idle", "ok", "error"}, pc' = [pc EXCEPT ![i] = l], l # "idle"
    PROVE  Order'
<1>1. \A j \in Calls : pc'[j] = IF j = i THEN l ELSE pc[j]
  BY DEF Types
<1>2. Calls' = Calls
  BY GivenStays
<1>3. \A j \in Calls : j \in Int
  BY DEF Calls
<1> QED
  BY <1>1, <1>2, <1>3, Alone DEF Order

LEMMA CounterKept ==
    ASSUME NEW i \in Calls, NEW l, Types, Order, Counter, UNCHANGED <<given, seqId, seq>>,
           pc[i] \in {"args", "flush", "recv", "body"},
           l \in {"flush", "recv", "body", "ok", "error"}, pc' = [pc EXCEPT ![i] = l]
    PROVE  Counter'
<1>1. \A j \in Calls : pc'[j] = IF j = i THEN l ELSE pc[j]
  BY DEF Types
<1>2. Calls' = Calls /\ seqId' = seqId /\ seq' = seq
  BY GivenStays
<1>3. \A j \in Calls : j \in Int /\ i \in Int
  BY DEF Calls
<1>4. \A j \in Calls : (j < i => pc[j] \in {"ok", "error"}) /\ (j > i => pc[j] = "idle")
  BY Alone
<1>5. seqId = i /\ seq[i] = i
  BY DEF Counter
<1>6. ASSUME NEW j \in Calls, pc'[j] = "idle",
             \A k \in Calls : k < j => pc'[k] \in {"ok", "error"}
      PROVE  seqId = j - 1
  <2>1. j > i
    BY <1>1, <1>3, <1>4, <1>6
  <2>2. CASE j = i + 1
    BY <1>5, <2>2, <1>3
  <2>3. CASE j > i + 1
    <3>1. i + 1 \in Calls /\ i + 1 < j
      BY <2>3, <1>3 DEF Calls
    <3>2. pc'[i + 1] = "idle"
      BY <3>1, <1>1, <1>3, <1>4
    <3> QED
      BY <3>1, <3>2, <1>6
  <2> QED
    BY <2>1, <2>2, <2>3, <1>3
<1>7. ASSUME NEW j \in Calls
      PROVE  /\ pc'[j] = "store" => seqId = j - 1 /\ seq[j] = j - 1
             /\ pc'[j] \in {"header", "args", "flush", "recv", "body"} => seqId = j
             /\ pc'[j] \in {"args", "flush", "recv", "body"} => seq[j] = j
  BY <1>1, <1>5 DEF Counter
<1> QED
  BY <1>2, <1>6, <1>7 DEF Counter

(***************************************************************************)
(* While nothing is read or answered, what is under way stays as it is.    *)
(***************************************************************************)
LEMMA StreamKept ==
    ASSUME Stream, UNCHANGED <<given, toServer, toClient, unread, handled>>
    PROVE  Stream'
<1>1. /\ Frames' = Frames /\ Replies' = Replies /\ History' = History
  BY GivenStays
<1>2. \A m : Given(m)' = Given(m)
  BY DEF Given, given
<1> QED
  BY <1>1, <1>2 DEF Stream

LEMMA OwnKept ==
    ASSUME Types, UNCHANGED <<given, val, handled>>, \A j \in Calls : ReturnsOwn(j),
           NEW i \in Calls, NEW l, l # "ok", pc' = [pc EXCEPT ![i] = l]
    PROVE  (\A j \in Calls : ReturnsOwn(j))'
<1>1. \A j \in Calls : pc'[j] = "ok" => pc[j] = "ok"
  BY DEF Types
<1>2. Calls' = Calls /\ \A j : Method(j)' = Method(j)
  BY GivenStays
<1>3. ASSUME NEW j \in Calls, ReturnsOwn(j) PROVE ReturnsOwn(j)'
  BY <1>1, <1>2, <1>3 DEF ReturnsOwn, given
<1> QED
  BY <1>2, <1>3

(***************************************************************************)
(* A step that moves call i, outside the writing of a message, disturbs    *)
(* neither the types nor the buffer.                                       *)
(***************************************************************************)
LEMMA TypesKept ==
    ASSUME Types, UNCHANGED given, NEW i \in Calls, NEW l \in Locations,
           pc' = [pc EXCEPT ![i] = l], seqId' \in Nat, seq' \in [Calls -> Nat],
           open' \in BOOLEAN, DOMAIN val' = Calls
    PROVE  Types'
<1>1. Calls' = Calls /\ req' = req
  BY GivenStays DEF given
<1> QED
  BY <1>1 DEF Types

LEMMA BufferKept ==
    ASSUME Types, Buffer, UNCHANGED <<given, wbuf>>, NEW i \in Calls, NEW l,
           pc[i] \notin {"args", "flush"}, l \notin {"args", "flush"},
           pc' = [pc EXCEPT ![i] = l]
    PROVE  Buffer'
<1>1. \A j \in Calls : pc'[j] = IF j = i THEN l ELSE pc[j]
  BY DEF Types
<1>2. /\ Calls' = Calls
      /\ \A j : HeaderOf(j)' = HeaderOf(j) /\ FrameOf(j)' = FrameOf(j)
  BY GivenStays
<1> QED
  BY <1>1, <1>2 DEF Buffer

LEMMA ReadingKept ==
    ASSUME Types, Reading, UNCHANGED <<given, unread>>, NEW i \in Calls, NEW l,
           l # "body", pc' = [pc EXCEPT ![i] = l]
    PROVE  Reading'
<1>1. \A j \in Calls : pc'[j] = IF j = i THEN l ELSE pc[j]
  BY DEF Types
<1>2. Calls' = Calls
  BY GivenStays
<1> QED
  BY <1>1, <1>2 DEF Reading
-----------------------------------------------------------------------------
(***************************************************************************)
(* The actions of the client.                                              *)
(***************************************************************************)
LEMMA InvokeKeeps ==
    ASSUME OneUser, users = 1, NEW i \in Calls, Invoke(i)
    PROVE  OneUser'
<1> USE DEF OneUser
<1>1. \A j \in Calls : pc[j] \in {"idle", "ok", "error"}
  <2>1. IsFiniteSet({j \in Calls : Active(j)})
    BY FS_Interval, FS_Subset, Len(req) \in Int DEF Calls, Types
  <2>2. Cardinality({j \in Calls : Active(j)}) \in Nat /\ Cardinality({j \in Calls : Active(j)}) < 1
    BY <2>1, FS_CardinalityType DEF Invoke
  <2>3. {j \in Calls : Active(j)} = {}
    BY <2>1, <2>2, FS_EmptySet
  <2> QED
    BY <2>3 DEF Active
<1>2. /\ \A j \in Calls : pc'[j] = IF j = i THEN "store" ELSE pc[j]
      /\ \A j \in Calls : seq'[j] = IF j = i THEN seqId ELSE seq[j]
      /\ Calls' = Calls /\ seqId' = seqId /\ \A j \in Calls : j \in Int
      /\ \A j \in Calls : j < i => pc[j] \in {"ok", "error"}
  BY <1>1, GivenStays DEF Invoke, Goto, Types, Calls
<1>3. seqId = i - 1
  BY <1>2 DEF Invoke, Counter
<1>4. Types'
  BY TypesKept DEF Invoke, Goto, Types, Locations
<1>5. Order'
  <2>1. ASSUME NEW j \in Calls, NEW k \in Calls, j < k, pc'[k] # "idle"
        PROVE  pc'[j] \in {"ok", "error"}
    <3>1. CASE k = i
      BY <2>1, <3>1, <1>2
    <3>2. CASE k # i
      <4>1. pc[k] # "idle" /\ pc[i] = "idle"
        BY <2>1, <3>2, <1>2 DEF Invoke
      <4>2. ~(i < k)
        BY <4>1 DEF Order
      <4> QED
        BY <2>1, <3>2, <4>2, <1>2
    <3> QED
      BY <3>1, <3>2
  <2> QED
    BY <2>1, <1>2 DEF Order
<1>6. Counter'
  <2>1. ASSUME NEW j \in Calls, pc'[j] = "idle",
               \A k \in Calls : k < j => pc'[k] \in {"ok", "error"}
        PROVE  FALSE
    BY <2>1, <1>2
  <2> QED
    BY <2>1, <1>1, <1>2, <1>3 DEF Counter
<1>7. Buffer' /\ Stream' /\ Reading' /\ (\A j \in Calls : ReturnsOwn(j))'
  BY BufferKept, StreamKept, ReadingKept, OwnKept DEF Invoke, Goto
<1> QED
  BY <1>4, <1>5, <1>6, <1>7

LEMMA StoreSeqKeeps ==
    ASSUME OneUser, NEW i \in Calls, StoreSeq(i)
    PROVE  OneUser'
<1> USE DEF OneUser
<1>1. /\ \A j \in Calls : pc'[j] = IF j = i THEN "header" ELSE pc[j]
      /\ Calls' = Calls /\ \A j \in Calls : j \in Int
      /\ \A j \in Calls : (j < i => pc[j] \in {"ok", "error"}) /\ (j > i => pc[j] = "idle")
  BY GivenStays, Alone DEF StoreSeq, Goto, Types, Calls
<1>2. seqId' = i
  BY <1>1 DEF StoreSeq, Counter
<1>3. Types'
  <2>1. seqId' \in Nat
    BY DEF StoreSeq, Types
  <2>2. /\ UNCHANGED <<given, seq, open, val>> /\ pc' = [pc EXCEPT ![i] = "header"]
        /\ "header" \in Locations
    BY DEF StoreSeq, Goto, Locations
  <2>3. seq' \in [Calls -> Nat] /\ open' \in BOOLEAN /\ DOMAIN val' = Calls
    BY <2>2 DEF Types
  <2> QED
    BY <2>1, <2>2, <2>3, TypesKept
<1>4. Order'
  BY OrderKept DEF StoreSeq, Goto
<1>5. Counter'
  <2>1. ASSUME NEW j \in Calls, pc'[j] = "idle",
               \A k \in Calls : k < j => pc'[k] \in {"ok", "error"}
        PROVE  FALSE
    BY <2>1, <1>1
  <2> QED
    BY <2>1, <1>1, <1>2 DEF Counter, StoreSeq
<1>6. Buffer' /\ Stream' /\ Reading' /\ (\A j \in Calls : ReturnsOwn(j))'
  BY BufferKept, StreamKept, ReadingKept, OwnKept DEF StoreSeq, Goto
<1> QED
  BY <1>3, <1>4, <1>5, <1>6

LEMMA WriteHeaderKeeps ==
    ASSUME OneUser, NEW i \in Calls, WriteHeader(i)
    PROVE  OneUser'
<1> USE DEF OneUser
<1>1. /\ \A j \in Calls : pc'[j] = IF j = i THEN "args" ELSE pc[j]
      /\ \A j \in Calls : seq'[j] = IF j = i THEN seqId ELSE seq[j]
      /\ Calls' = Calls /\ seqId' = seqId /\ \A j \in Calls : j \in Int
      /\ \A j \in Calls : (j < i => pc[j] \in {"ok", "error"}) /\ (j > i => pc[j] = "idle")
      /\ \A j : HeaderOf(j)' = HeaderOf(j) /\ FrameOf(j)' = FrameOf(j)
  <2>1. /\ UNCHANGED <<given, seqId>> /\ pc' = [pc EXCEPT ![i] = "args"]
        /\ pc[i] = "header" /\ seq' = [seq EXCEPT ![i] = seqId]
    BY DEF WriteHeader, Goto
  <2>2. /\ \A j \in Calls : pc'[j] = IF j = i THEN "args" ELSE pc[j]
        /\ \A j \in Calls : seq'[j] = IF j = i THEN seqId ELSE seq[j]
    BY <2>1 DEF Types
  <2>3. /\ Calls' = Calls /\ seqId' = seqId
        /\ \A j : HeaderOf(j)' = HeaderOf(j) /\ FrameOf(j)' = FrameOf(j)
    BY <2>1, GivenStays
  <2>4. /\ \A j \in Calls : j \in Int
        /\ \A j \in Calls : (j < i => pc[j] \in {"ok", "error"}) /\ (j > i => pc[j] = "idle")
    BY <2>1, Alone DEF Calls
  <2> QED
    BY <2>2, <2>3, <2>4
<1>2. seqId = i
  BY DEF WriteHeader, Counter
<1>3. wbuf' = <<HeaderOf(i)>>
  <2>1. \A j \in Calls : pc[j] \notin {"args", "flush"}
    <3>1. pc[i] = "header" /\ \A j \in Calls : j < i \/ j = i \/ j > i
      BY <1>1 DEF WriteHeader
    <3> QED
      BY <3>1, <1>1
  <2>2. wbuf = <<>>
    BY <2>1 DEF Buffer
  <2> QED
    BY <1>2, <2>2 DEF WriteHeader, Header, HeaderOf
<1>4. Types'
  <2>1. /\ UNCHANGED <<given, seqId, open, val>> /\ pc' = [pc EXCEPT ![i] = "args"]
        /\ "args" \in Locations /\ seq' = [seq EXCEPT ![i] = seqId]
    BY DEF WriteHeader, Goto, Locations
  <2>2. seqId' \in Nat /\ seq' \in [Calls -> Nat] /\ open' \in BOOLEAN /\ DOMAIN val' = Calls
    BY <2>1 DEF Types
  <2> QED
    BY <2>1, <2>2, TypesKept
<1>5. Order'
  BY OrderKept DEF WriteHeader, Goto
<1>6. Counter'
  <2>1. ASSUME NEW j \in Calls, pc'[j] = "idle",
               \A k \in Calls : k < j => pc'[k] \in {"ok", "error"}
        PROVE  FALSE
    BY <2>1, <1>1
  <2> QED
    BY <2>1, <1>1, <1>2 DEF Counter
<1>7. Buffer'
  <2>1. \A j \in Calls : pc'[j] = "args" => j = i
    BY <1>1
  <2>2. \A j \in Calls : pc'[j] # "flush"
    BY <1>1
  <2> QED
    BY <1>1, <1>3, <2>1, <2>2 DEF Buffer
<1>8. Stream' /\ Reading' /\ (\A j \in Calls : ReturnsOwn(j))'
  BY StreamKept, ReadingKept, OwnKept DEF WriteHeader, Goto
<1> QED
  BY <1>4, <1>5, <1>6, <1>7, <1>8

LEMMA AppendOne ==
    ASSUME NEW S, NEW a \in S, NEW b \in S
    PROVE  Append(<<a>>, b) = <<a, b>>
<1>1. ASSUME NEW s \in Seq(S), s = <<a>>, NEW t \in Seq(S), t = <<a, b>>
      PROVE  Append(s, b) = t
  <2>1. Append(s, b) \in Seq(S) /\ Len(Append(s, b)) = 2 /\ Len(t) = 2
    BY <1>1
  <2>2. Append(s, b)[1] = t[1] /\ Append(s, b)[2] = t[2]
    BY <1>1
  <2>3. \A i \in 1..Len(Append(s, b)) : Append(s, b)[i] = t[i]
    BY <2>1, <2>2
  <2> QED
    BY <2>1, <2>3, SeqEqual, Zenon
<1>2. <<a>> \in Seq(S) /\ <<a, b>> \in Seq(S)
  OBVIOUS
<1> QED
  BY <1>1, <1>2

LEMMA WriteBodyKeeps ==
    ASSUME OneUser, NEW i \in Calls, WriteBody(i)
    PROVE  OneUser'
<1> USE DEF OneUser
<1>1. /\ \A j \in Calls : pc'[j] = IF j = i THEN "flush" ELSE pc[j]
      /\ Calls' = Calls /\ \A j \in Calls : j \in Int
      /\ \A j \in Calls : (j < i => pc[j] \in {"ok", "error"}) /\ (j > i => pc[j] = "idle")
      /\ \A j : HeaderOf(j)' = HeaderOf(j) /\ FrameOf(j)' = FrameOf(j)
  BY GivenStays, Alone DEF WriteBody, Goto, Types, Calls
<1>2. wbuf' = FrameOf(i)
  <2>1. wbuf = <<HeaderOf(i)>> /\ wbuf' = Append(wbuf, BodyOf(i))
    BY DEF WriteBody, Buffer, Body, BodyOf
  <2>3. Append(<<HeaderOf(i)>>, BodyOf(i)) = <<HeaderOf(i), BodyOf(i)>>
    BY AppendOne, HeaderOf(i) \in {HeaderOf(i), BodyOf(i)}, BodyOf(i) \in {HeaderOf(i), BodyOf(i)}
  <2> QED
    BY <2>1, <2>3 DEF FrameOf
<1>3. Types'
  <2>1. /\ UNCHANGED <<given, seqId, seq, open, val>> /\ pc' = [pc EXCEPT ![i] = "flush"]
        /\ "flush" \in Locations
    BY DEF WriteBody, Goto, Locations
  <2> QED
    BY <2>1, TypesKept DEF Types
<1>4. Order' /\ Counter'
  BY OrderKept, CounterKept DEF WriteBody, Goto
<1>5. Buffer'
  <2>1. \A j \in Calls : pc'[j] # "args" /\ (pc'[j] = "flush" => j = i)
    BY <1>1
  <2> QED
    BY <1>1, <1>2, <2>1 DEF Buffer
<1>6. Stream' /\ Reading' /\ (\A j \in Calls : ReturnsOwn(j))'
  BY StreamKept, ReadingKept, OwnKept DEF WriteBody, Goto
<1> QED
  BY <1>3, <1>4, <1>5, <1>6

LEMMA FlushKeeps ==
    ASSUME OneUser, NEW i \in Calls, Flush(i)
    PROVE  OneUser'
<1> USE DEF OneUser
<1> DEFINE l == IF open THEN "recv" ELSE "error"
<1>1. /\ UNCHANGED <<given, seqId, seq, open, val, handled, unread, toClient>>
      /\ pc[i] = "flush" /\ pc' = [pc EXCEPT ![i] = l] /\ wbuf' = <<>>
      /\ toServer' = IF open THEN Append(toServer, wbuf) ELSE toServer
  BY DEF Flush, Goto, Fail
<1>2. /\ \A j \in Calls : pc'[j] = IF j = i THEN l ELSE pc[j]
      /\ Calls' = Calls /\ \A j \in Calls : j \in Int
      /\ \A j \in Calls : (j < i => pc[j] \in {"ok", "error"}) /\ (j > i => pc[j] = "idle")
  BY <1>1, GivenStays, Alone DEF Types, Calls
<1>3. l \in {"recv", "error"} /\ l \in Locations
  BY DEF Locations
<1> HIDE DEF l
<1>4. Types'
  BY <1>1, <1>3, TypesKept DEF Types
<1>5. Order'
  BY <1>1, <1>3, OrderKept
<1>6. Counter'
  <2>1. pc[i] \in {"args", "flush", "recv", "body"}
    BY <1>1
  <2>2. given' = given /\ seqId' = seqId /\ seq' = seq
    BY <1>1
  <2>3. pc' = [pc EXCEPT ![i] = l] /\ l \in {"flush", "recv", "body", "ok", "error"}
    BY <1>1, <1>3
  <2> QED
    BY <2>1, <2>2, <2>3, CounterKept
<1>7. Buffer'
  <2>1. \A j \in Calls : pc'[j] \notin {"args", "flush"}
    <3>1. ASSUME NEW j \in Calls PROVE pc'[j] \notin {"args", "flush"}
      <4>1. j < i \/ j = i \/ j > i
        BY <1>2
      <4> QED
        BY <4>1, <1>2, <1>3
    <3> QED
      BY <3>1
  <2> QED
    BY <1>1, <1>2, <2>1 DEF Buffer
<1>8. Stream'
  <2>1. wbuf = FrameOf(i) /\ wbuf \in Frames
    BY <1>1 DEF Buffer, Frames
  <2>2. toServer' \in Seq(Frames)
    BY <1>1, <2>1 DEF Stream
  <2>3. Frames' = Frames /\ Replies' = Replies /\ History' = History /\ \A m : Given(m)' = Given(m)
    BY <1>1, GivenStays DEF Given, given
  <2> QED
    BY <1>1, <2>2, <2>3 DEF Stream
<1>9. Reading'
  BY <1>1, <1>3, ReadingKept
<1>10. (\A j \in Calls : ReturnsOwn(j))'
  BY <1>1, <1>3, OwnKept
<1> QED
  BY <1>4, <1>5, <1>6, <1>7, <1>8, <1>9, <1>10

(***************************************************************************)
(* What a read leaves of the replies, and what it takes from them.         *)
(***************************************************************************)
LEMMA StreamRead ==
    ASSUME Stream, UNCHANGED <<given, toServer, handled>>,
           \/ toClient' = toClient
           \/ toClient # <<>> /\ toClient' = Tail(toClient),
           \/ unread' = <<>> \/ unread' = unread
           \/ toClient # <<>> /\ unread' = <<Head(toClient)>>
    PROVE  Stream'
<1>1. Frames' = Frames /\ Replies' = Replies /\ History' = History
  BY GivenStays
<1>2. \A m : Given(m)' = Given(m)
  BY DEF Given, given
<1>3. /\ toClient' \in Seq(Replies)
      /\ \A k \in 1..Len(toClient') : toClient'[k].kind = "reply" => Given(toClient'[k])
  <2>1. CASE toClient' = toClient
    BY <2>1 DEF Stream
  <2>2. CASE toClient # <<>> /\ toClient' = Tail(toClient)
    <3>1. /\ toClient' \in Seq(Replies) /\ Len(toClient') = Len(toClient) - 1
          /\ \A k \in 1..Len(toClient') : toClient'[k] = toClient[k + 1]
      BY <2>2 DEF Stream
    <3>2. \A k \in 1..Len(toClient') : k + 1 \in 1..Len(toClient)
      BY <3>1
    <3> QED
      BY <3>1, <3>2 DEF Stream
  <2> QED
    BY <2>1, <2>2
<1>4. ASSUME toClient # <<>>
      PROVE  Head(toClient) \in Replies /\ (Head(toClient).kind = "reply" => Given(Head(toClient)))
  <2>1. 1 \in 1..Len(toClient) /\ Head(toClient) = toClient[1]
    BY <1>4 DEF Stream
  <2> QED
    BY <2>1 DEF Stream
<1>5. \/ unread' = <<>>
      \/ \E m \in Replies : unread' = <<m>> /\ (m.kind = "reply" => Given(m))
  BY <1>4 DEF Stream
<1> QED
  BY <1>1, <1>2, <1>3, <1>5 DEF Stream

(***************************************************************************)
(* A call that reads moves on, or returns with an error.                   *)
(***************************************************************************)
LEMMA ReaderKeeps ==
    ASSUME NEW i \in Calls, NEW l \in {"body", "error"}, OneUser,
           UNCHANGED <<given, seqId, seq, open, val, wbuf, handled>>,
           pc[i] \in {"recv", "body"}, pc' = [pc EXCEPT ![i] = l],
           Stream', Reading'
    PROVE  OneUser'
<1> USE DEF OneUser
<1>1. l \in Locations /\ l # "idle" /\ l # "ok" /\ l \notin {"args", "flush"}
  BY DEF Locations
<1>2. Types'
  BY <1>1, TypesKept DEF Types
<1>3. Order' /\ Buffer'
  BY <1>1, OrderKept, BufferKept
<1>4. Counter'
  BY CounterKept
<1>5. (\A j \in Calls : ReturnsOwn(j))'
  BY <1>1, OwnKept
<1> QED
  BY <1>2, <1>3, <1>4, <1>5

LEMMA ReadHeaderKeeps ==
    ASSUME NEW i \in Calls, OneUser, ReadHeader(i)
    PROVE  OneUser'
<1> USE DEF OneUser
<1> DEFINE m == Head(toClient)
           l == IF IsReplyTo(m, i) THEN "body" ELSE "error"
<1>1. /\ UNCHANGED <<given, seqId, seq, open, val, wbuf, handled, toServer>>
      /\ pc[i] = "recv" /\ pc' = [pc EXCEPT ![i] = l] /\ toClient # <<>>
      /\ unread' = <<m>> /\ toClient' = Tail(toClient) /\ unread = <<>>
  BY DEF ReadHeader, Goto, Fail
<1>2. m \in Replies
  BY <1>1 DEF Stream
<1>3. IsReplyTo(m, i) => m.call = i
  <2>1. seq[i] = i
    BY <1>1 DEF Counter
  <2>2. m.seq = m.call
    BY <1>2 DEF Replies, ReplyTo
  <2> QED
    BY <2>1, <2>2 DEF IsReplyTo
<1>4. Stream'
  BY <1>1, StreamRead
<1>5. l \in {"body", "error"}
  OBVIOUS
<1>6. Reading'
  <2>1. \A j \in Calls : pc'[j] = IF j = i THEN l ELSE pc[j]
    BY <1>1 DEF Types
  <2>2. \A j \in Calls : pc[j] # "body"
    BY <1>1 DEF Reading
  <2>3. Calls' = Calls /\ unread' # <<>> /\ unread'[1] = m
    BY <1>1, GivenStays
  <2> QED
    BY <2>1, <2>2, <2>3, <1>3 DEF Reading
<1> HIDE DEF l
<1> QED
  BY <1>1, <1>4, <1>5, <1>6, ReaderKeeps

LEMMA ReadingElsewhere ==
    ASSUME NEW i \in Calls, Types, Order, UNCHANGED given, pc[i] \in {"recv", "body"},
           NEW l, l # "body", pc' = [pc EXCEPT ![i] = l]
    PROVE  Reading'
<1>1. Calls' = Calls /\ \A j \in Calls : pc'[j] = IF j = i THEN l ELSE pc[j]
  BY GivenStays DEF Types
<1>2. \A j \in Calls : j \in Int
  BY DEF Calls
<1>3. \A j \in Calls : (j < i => pc[j] \in {"ok", "error"}) /\ (j > i => pc[j] = "idle")
  BY Alone
<1>4. ASSUME NEW j \in Calls PROVE pc'[j] # "body"
  <2>1. j < i \/ j = i \/ j > i
    BY <1>2
  <2> QED
    BY <2>1, <1>1, <1>3
<1> QED
  BY <1>1, <1>4 DEF Reading

\* A call that gives up, whatever it has taken from the replies.
LEMMA GivesUp ==
    ASSUME NEW i \in Calls, OneUser, pc[i] \in {"recv", "body"}, Fail(i),
           UNCHANGED <<given, seqId, seq, open, val, wbuf, handled, toServer>>,
           NEW c \in {toClient, Tail(toClient)}, toClient' = c, toClient = <<>> => c = toClient,
           NEW r \in {<<>>, unread}, unread' = r
    PROVE  OneUser'
<1>1. pc' = [pc EXCEPT ![i] = "error"]
  BY DEF Fail, Goto
<1>2. Stream'
  BY StreamRead DEF OneUser
<1>3. Reading'
  BY <1>1, ReadingElsewhere DEF OneUser
<1> QED
  BY <1>1, <1>2, <1>3, ReaderKeeps

LEMMA ReadBodyKeeps ==
    ASSUME NEW i \in Calls, OneUser, ReadBody(i)
    PROVE  OneUser'
<1> DEFINE m == unread[1]
           u == Understood(i, m)
<1>1. /\ UNCHANGED <<given, seqId, seq, open, wbuf, handled, toServer, toClient>>
      /\ pc[i] = "body" /\ unread # <<>>
      /\ (unread' = <<>> \/ unread' = unread)
      /\ \/ Fail(i) /\ UNCHANGED val
         \/ /\ m.kind = "reply" /\ Goto(i, "ok") /\ val' = [val EXCEPT ![i] = <<u.val>>]
            /\ unread' = <<>>
  <2>1. /\ UNCHANGED <<given, seqId, seq, open, wbuf, handled, toServer, toClient>>
        /\ pc[i] = "body" /\ unread # <<>>
    BY DEF ReadBody
  <2>2. \/ unread' = <<>> /\ Fail(i) /\ UNCHANGED val
        \/ unread' = (IF u.left THEN unread ELSE <<>>) /\ Fail(i) /\ UNCHANGED val
        \/ /\ m.kind = "reply" /\ Goto(i, "ok") /\ val' = [val EXCEPT ![i] = <<u.val>>]
           /\ unread' = <<>>
    BY Zenon DEF ReadBody
  <2> QED
    BY <2>1, <2>2
<1>2. CASE Fail(i) /\ UNCHANGED val
  <2>1. /\ pc[i] \in {"recv", "body"} /\ Fail(i) /\ toClient' = toClient
        /\ (unread' = <<>> \/ unread' = unread)
    BY <1>1, <1>2
  <2>2. UNCHANGED <<given, seqId, seq, open, val, wbuf, handled, toServer>>
    BY <1>1, <1>2
  <2> QED
    BY <2>1, <2>2, GivesUp
<1>3. CASE /\ m.kind = "reply" /\ Goto(i, "ok") /\ val' = [val EXCEPT ![i] = <<u.val>>]
           /\ unread' = <<>>
  <2> USE DEF OneUser
  <2>1. pc' = [pc EXCEPT ![i] = "ok"] /\ "ok" \in Locations
    BY <1>3 DEF Goto, Locations
  <2>2. Types'
    <3>1. DOMAIN val' = Calls
      BY <1>3 DEF Types
    <3> QED
      BY <1>1, <2>1, <3>1, TypesKept DEF Types
  <2>3. Order' /\ Buffer' /\ Counter'
    BY <1>1, <2>1, OrderKept, BufferKept, CounterKept
  <2>4. Stream' /\ Reading'
    BY <1>1, <2>1, StreamRead, ReadingElsewhere
  <2>5. m \in Replies /\ m.call = i /\ Given(m)
    BY <1>1, <1>3 DEF Stream, Reading
  <2>6. m.method = Method(i)
    BY <2>5 DEF Replies, ReplyTo
  <2>7. PICK k \in 1..Len(handled) : /\ handled[k].call = i /\ handled[k].val # <<>>
                                     /\ m.wire = EncodeResult(Method(i), handled[k].val[1], peer)
    BY <2>5, <2>6 DEF Given
  <2>8. /\ Calls' = Calls /\ (\A j : Method(j)' = Method(j))
        /\ handled' = handled /\ peer' = peer /\ DOMAIN handled = 1..Len(handled)
    BY <1>1, GivenStays DEF given, Stream
  <2>9. \A j \in Calls :  /\ val'[j] = IF j = i THEN <<DecodeResult(Method(i), m.wire).val>> ELSE val[j]
                          /\ pc'[j] = IF j = i THEN "ok" ELSE pc[j]
    <3>1. val' = [val EXCEPT ![i] = <<DecodeResult(Method(i), m.wire).val>>]
      BY <1>3 DEF Understood
    <3>2. \A j \in Calls : val'[j] = IF j = i THEN <<DecodeResult(Method(i), m.wire).val>> ELSE val[j]
      BY <3>1 DEF Types
    <3>3. \A j \in Calls : pc'[j] = IF j = i THEN "ok" ELSE pc[j]
      BY <2>1 DEF Types
    <3> QED
      BY <3>2, <3>3
  <2>10. ASSUME NEW j \in Calls PROVE ReturnsOwn(j)'
    <3>1. CASE j = i
      <4>1. val'[j] = <<DecodeResult(Method(j)', EncodeResult(Method(j)', handled'[k].val[1], peer')).val>>
        BY <2>7, <2>8, <2>9, <3>1
      <4>2. k \in DOMAIN handled' /\ handled'[k].call = j /\ handled'[k].val # <<>>
        BY <2>7, <2>8, <3>1
      <4> QED
        BY <4>1, <4>2 DEF ReturnsOwn
    <3>2. CASE j # i
      <4>1. val'[j] = val[j] /\ pc'[j] = pc[j] /\ ReturnsOwn(j)
        BY <2>9, <3>2
      <4> QED
        BY <4>1, <2>8 DEF ReturnsOwn
    <3> QED
      BY <3>1, <3>2
  <2> QED
    BY <2>2, <2>3, <2>4, <2>8, <2>10
<1> QED
  BY <1>1, <1>2, <1>3

LEMMA ClientKeeps ==
    ASSUME NEW i \in Calls, OneUser, Client(i)
    PROVE  OneUser'
<1>1. CASE StoreSeq(i)
  BY <1>1, StoreSeqKeeps
<1>2. CASE WriteHeader(i)
  BY <1>2, WriteHeaderKeeps
<1>3. CASE WriteBody(i)
  BY <1>3, WriteBodyKeeps
<1>4. CASE Flush(i)
  BY <1>4, FlushKeeps
<1>5. CASE ReadHeader(i)
  BY <1>5, ReadHeaderKeeps
<1>6. CASE ReadGarbage(i)
  <2>1. /\ pc[i] \in {"recv", "body"} /\ Fail(i)
        /\ toClient' = toClient /\ unread' = <<>>
    BY <1>6 DEF ReadGarbage
  <2>2. UNCHANGED <<given, seqId, seq, open, val, wbuf, handled, toServer>>
    BY <1>6 DEF ReadGarbage
  <2> QED
    BY <2>1, <2>2, GivesUp
<1>7. CASE ReadBody(i)
  BY <1>7, ReadBodyKeeps
<1>8. CASE ReadWrongBody(i)
  <2>1. /\ pc[i] \in {"recv", "body"} /\ Fail(i)
        /\ toClient # <<>> /\ toClient' = Tail(toClient) /\ unread' = unread
    BY <1>8 DEF ReadWrongBody
  <2>2. UNCHANGED <<given, seqId, seq, open, val, wbuf, handled, toServer>>
    BY <1>8 DEF ReadWrongBody
  <2> QED
    BY <2>1, <2>2, GivesUp
<1>9. CASE ReadFails(i)
  <2>1. /\ pc[i] \in {"recv", "body"} /\ Fail(i)
        /\ toClient' = toClient /\ unread' = unread
    BY <1>9 DEF ReadFails
  <2>2. UNCHANGED <<given, seqId, seq, open, val, wbuf, handled, toServer>>
    BY <1>9 DEF ReadFails
  <2> QED
    BY <2>1, <2>2, GivesUp
<1>10. CASE Timeout(i)
  <2>1. /\ pc[i] \in {"recv", "body"} /\ Fail(i)
        /\ toClient' = toClient /\ unread' = unread
    BY <1>10 DEF Timeout
  <2>2. UNCHANGED <<given, seqId, seq, open, val, wbuf, handled, toServer>>
    BY <1>10 DEF Timeout
  <2> QED
    BY <2>1, <2>2, GivesUp
<1> QED
  BY <1>1, <1>2, <1>3, <1>4, <1>5, <1>6, <1>7, <1>8, <1>9, <1>10 DEF Client
-----------------------------------------------------------------------------
(***************************************************************************)
(* The server, and the connection that goes down.  No call moves.          *)
(***************************************************************************)
LEMMA CallsStay ==
    ASSUME OneUser, UNCHANGED <<given, seqId, seq, pc, val, wbuf, unread>>, open' \in BOOLEAN,
           Stream', \A k \in DOMAIN handled : k \in DOMAIN handled' /\ handled'[k] = handled[k]
    PROVE  OneUser'
<1>1. /\ Calls' = Calls
      /\ \A j : /\ Method(j)' = Method(j) /\ HeaderOf(j)' = HeaderOf(j)
               /\ FrameOf(j)' = FrameOf(j)
  BY GivenStays
<1>2. Types'
  BY <1>1 DEF OneUser, Types, given
<1>3. Order' /\ Counter' /\ Buffer' /\ Reading'
  BY <1>1 DEF OneUser, Order, Counter, Buffer, Reading
<1>4. ASSUME NEW j \in Calls PROVE ReturnsOwn(j)'
  BY <1>1 DEF OneUser, ReturnsOwn, given
<1> QED
  BY <1>1, <1>2, <1>3, <1>4 DEF OneUser

\* The server takes a frame and sends one reply; handled grows by hs.
LEMMA Answered ==
    ASSUME Stream, UNCHANGED <<given, unread>>, Pending,
           NEW m \in Replies, toClient' = Append(toClient, m), toServer' = Tail(toServer),
           handled' \in Seq(History),
           \A k \in 1..Len(handled) : k \in 1..Len(handled') /\ handled'[k] = handled[k],
           m.kind = "reply" => Given(m)'
    PROVE  Stream'
<1>1. Frames' = Frames /\ Replies' = Replies /\ History' = History
  BY GivenStays
<1>2. \A r : Given(r) => Given(r)'
  BY DEF Given, given
<1>3. toServer' \in Seq(Frames)
  BY DEF Stream, Pending
<1>4. /\ toClient' \in Seq(Replies) /\ Len(toClient') = Len(toClient) + 1
      /\ \A k \in 1..Len(toClient') : toClient'[k] = IF k <= Len(toClient) THEN toClient[k] ELSE m
  BY DEF Stream
<1>5. ASSUME NEW k \in 1..Len(toClient'), NEW r, r = toClient'[k], r.kind = "reply"
      PROVE  Given(r)'
  <2>1. CASE k <= Len(toClient)
    <3>1. k \in 1..Len(toClient) /\ r = toClient[k]
      BY <1>4, <1>5, <2>1 DEF Stream
    <3>2. Given(r)
      BY <3>1, <1>5 DEF Stream
    <3> QED
      BY <3>2, <1>2
  <2>2. CASE ~(k <= Len(toClient))
    BY <1>4, <1>5, <2>2
  <2> QED
    BY <2>1, <2>2
<1>6. (\A k \in 1..Len(toClient) : toClient[k].kind = "reply" => Given(toClient[k]))'
  BY <1>5 DEF Given
<1>7. (unread # <<>> /\ unread[1].kind = "reply" => Given(unread[1]))'
  BY <1>2 DEF Stream, Given, given
<1> QED
  BY <1>1, <1>3, <1>4, <1>6, <1>7 DEF Stream

LEMMA RequestIsOfCall ==
    ASSUME Stream, Pending
    PROVE  \E i \in Calls : Request = FrameOf(i) /\ Request[1] = HeaderOf(i)
                             /\ Request[2] = BodyOf(i) /\ Len(Request) = 2
<1>1. Request \in Frames
  BY DEF Stream, Pending, Request
<1>2. PICK i \in Calls : Request = FrameOf(i)
  BY <1>1 DEF Frames
<1>3. Request[1] = HeaderOf(i) /\ Request[2] = BodyOf(i) /\ Len(Request) = 2
  BY <1>2 DEF FrameOf
<1> QED
  BY <1>2, <1>3

\* A message about call i is one of the replies to it.
LEMMA MessageIsReply ==
    ASSUME NEW i \in Calls, NEW f, f[1] = HeaderOf(i), f[2] = BodyOf(i),
           NEW k \in Kinds, NEW w \in Wires(i)
    PROVE  /\ Message(k, f, w) = ReplyTo(i, k, w)
           /\ Message(k, f, w) \in Replies
<1>1. Message(k, f, w) = ReplyTo(i, k, w)
  BY DEF Message, ReplyTo, HeaderOf, BodyOf
<1>2. ReplyTo(i, k, w) \in Replies
  BY DEF Replies
<1> QED
  BY <1>1, <1>2

\* A reply that is no answer leaves the history as it is, or adds a failure.
LEMMA Refused ==
    ASSUME NEW k \in Kinds \ {"reply"}, OneUser, Pending, Send(Message(k, Request, <<>>)),
           UNCHANGED <<seqId, wbuf, unread, open, pc, seq, val, given>>,
           \/ handled' = handled
           \/ \E h \in History : handled' = Append(handled, h)
    PROVE  OneUser'
<1> DEFINE m == Message(k, Request, <<>>)
<1>1. Stream
  BY DEF OneUser
<1>2. PICK i \in Calls : Request[1] = HeaderOf(i) /\ Request[2] = BodyOf(i)
  BY <1>1, RequestIsOfCall
<1>3. m = ReplyTo(i, k, <<>>) /\ m \in Replies
  BY <1>2, MessageIsReply DEF Wires
<1>4. m.kind # "reply"
  BY <1>3 DEF ReplyTo
<1>5. /\ handled' \in Seq(History)
      /\ \A h \in 1..Len(handled) : h \in 1..Len(handled') /\ handled'[h] = handled[h]
  <2>1. handled \in Seq(History) /\ History' = History
    BY <1>1, GivenStays DEF Stream
  <2>2. CASE handled' = handled
    BY <2>1, <2>2
  <2>3. ASSUME NEW h \in History, handled' = Append(handled, h)
        PROVE  /\ handled' \in Seq(History)
               /\ \A n \in 1..Len(handled) : n \in 1..Len(handled') /\ handled'[n] = handled[n]
    BY <2>1, <2>3
  <2> QED
    BY <2>2, <2>3
<1>6. UNCHANGED <<given, unread>> /\ toClient' = Append(toClient, m) /\ toServer' = Tail(toServer)
  BY DEF Send
<1> HIDE DEF m
<1>7. Stream'
  BY <1>1, <1>3, <1>4, <1>5, <1>6, Answered
<1>8. DOMAIN handled = 1..Len(handled) /\ DOMAIN handled' = 1..Len(handled')
  BY <1>1, <1>5 DEF Stream
<1>9. open' \in BOOLEAN
  BY DEF OneUser, Types
<1>10. UNCHANGED <<given, seqId, seq, pc, val, wbuf, unread>>
  OBVIOUS
<1> QED
  BY <1>5, <1>7, <1>8, <1>9, <1>10, CallsStay

LEMMA ProcessKeeps ==
    ASSUME OneUser, Process
    PROVE  OneUser'
<1> DEFINE a == DecodeArgs(Request[1].method, Request[2].wire).val
<1>1. Stream
  BY DEF OneUser
<1>2. Pending /\ UNCHANGED <<seqId, wbuf, unread, open, pc, seq, val, given>>
  BY DEF Process
<1>3. PICK i \in Calls : Request[1] = HeaderOf(i) /\ Request[2] = BodyOf(i)
  BY <1>1, <1>2, RequestIsOfCall
<1>4. Request[1].method = Method(i) /\ Request[2].call = i /\ a = Arg(i)
  BY <1>3 DEF HeaderOf, BodyOf, Arg
<1>5. \/ \E v \in MayGive(i) :
            /\ handled' = Append(handled, [call |-> i, args |-> Arg(i), val |-> <<v>>])
            /\ Send(Message("reply", Request, EncodeResult(Method(i), v, peer)))
      \/ /\ handled' = Append(handled, [call |-> i, args |-> Arg(i), val |-> <<>>])
         /\ Send(Message("INTERNAL_ERROR", Request, <<>>))
  BY <1>4 DEF Process, Handle, MayGive
<1>6. ASSUME NEW v \in MayGive(i),
             handled' = Append(handled, [call |-> i, args |-> Arg(i), val |-> <<v>>]),
             Send(Message("reply", Request, EncodeResult(Method(i), v, peer)))
      PROVE  OneUser'
  <2> DEFINE h == [call |-> i, args |-> Arg(i), val |-> <<v>>]
             w == EncodeResult(Method(i), v, peer)
             m == Message("reply", Request, w)
  <2>1. h \in History
    BY DEF History, HandledFor
  <2>2. w \in Wires(i) /\ "reply" \in Kinds
    BY DEF Wires, Kinds
  <2>3. m = ReplyTo(i, "reply", w) /\ m \in Replies
    BY <1>3, <2>2, MessageIsReply
  <2>4. /\ handled' \in Seq(History) /\ Len(handled') = Len(handled) + 1
        /\ \A k \in 1..Len(handled) : k \in 1..Len(handled') /\ handled'[k] = handled[k]
        /\ Len(handled') \in 1..Len(handled') /\ handled'[Len(handled')] = h
    BY <1>1, <1>6, <2>1 DEF Stream
  <2>5. m.call = i /\ m.method = Method(i) /\ m.wire = w
    BY <2>3 DEF ReplyTo
  <2>6. h.call = i /\ h.val = <<v>> /\ h.val # <<>> /\ h.val[1] = v
    OBVIOUS
  <2>7. peer' = peer /\ Method(i)' = Method(i)
    BY <1>2, GivenStays DEF given
  <2> HIDE DEF h
  <2>8. \E k \in 1..Len(handled') : /\ handled'[k].call = m.call /\ handled'[k].val # <<>>
                                    /\ m.wire = EncodeResult(m.method, handled'[k].val[1], peer)
    BY <2>4, <2>5, <2>6
  <2> DEFINE c == toClient'
  <2>9. \A r : r = m => Given(r)'
    BY <2>7, <2>8 DEF Given
  <2>10. UNCHANGED <<given, unread>> /\ toClient' = Append(toClient, m) /\ toServer' = Tail(toServer)
    BY <1>2, <1>6 DEF Send
  <2>11. Stream'
    <3> HIDE DEF m
    <3>1. PICK r \in Replies : r = m
      BY <2>3
    <3>2. Given(r)' /\ toClient' = Append(toClient, r)
      BY <3>1, <2>9, <2>10
    <3> QED
      BY <1>1, <1>2, <2>4, <2>10, <3>1, <3>2, Answered
  <2>12. DOMAIN handled = 1..Len(handled) /\ DOMAIN handled' = 1..Len(handled')
    BY <1>1, <2>4 DEF Stream
  <2>13. open' \in BOOLEAN /\ UNCHANGED <<given, seqId, seq, pc, val, wbuf, unread>>
    BY <1>2 DEF OneUser, Types
  <2> QED
    BY <2>4, <2>11, <2>12, <2>13, CallsStay
<1>7. ASSUME handled' = Append(handled, [call |-> i, args |-> Arg(i), val |-> <<>>]),
             Send(Message("INTERNAL_ERROR", Request, <<>>))
      PROVE  OneUser'
  <2>1. [call |-> i, args |-> Arg(i), val |-> <<>>] \in History
    BY DEF History, HandledFor
  <2>2. "INTERNAL_ERROR" \in Kinds \ {"reply"}
    BY DEF Kinds
  <2> QED
    BY <1>2, <1>7, <2>1, <2>2, Refused
<1> QED
  BY <1>5, <1>6, <1>7

LEMMA ServerKeeps ==
    ASSUME OneUser, Server
    PROVE  OneUser'
<1>1. Stream
  BY DEF OneUser
<1>2. CASE Garbled
  <2>1. Pending /\ ~Headed(Request)
    BY <1>2 DEF Garbled
  <2>2. PICK i \in Calls : /\ Request[1] = HeaderOf(i) /\ Request[2] = BodyOf(i)
                            /\ Len(Request) = 2
    BY <1>1, <2>1, RequestIsOfCall
  <2> QED
    BY <2>1, <2>2 DEF Headed, HeaderOf, BodyOf
<1>3. CASE UnknownMethod
  <2>1. "UNKNOWN_METHOD" \in Kinds \ {"reply"}
    BY DEF Kinds
  <2> QED
    BY <1>3, <2>1, Refused DEF UnknownMethod
<1>4. CASE ProtocolError
  <2>1. "PROTOCOL_ERROR" \in Kinds \ {"reply"}
    BY DEF Kinds
  <2> QED
    BY <1>4, <2>1, Refused DEF ProtocolError
<1> QED
  BY <1>2, <1>3, <1>4, ProcessKeeps DEF Server

LEMMA DisconnectKeeps ==
    ASSUME OneUser, Disconnect
    PROVE  OneUser'
<1>1. UNCHANGED <<given, seqId, seq, pc, val, wbuf, unread, handled>> /\ open' \in BOOLEAN
  BY DEF Disconnect
<1>2. Stream'
  <2>1. Frames' = Frames /\ Replies' = Replies /\ History' = History /\ \A m : Given(m)' = Given(m)
    BY <1>1, GivenStays DEF Given, given
  <2>2. toServer' \in Seq(Frames) /\ (toClient' = toClient \/ toClient' = <<>>)
    BY DEF Disconnect
  <2>3. CASE toClient' = toClient
    BY <1>1, <2>1, <2>2, <2>3 DEF OneUser, Stream
  <2>4. CASE toClient' = <<>>
    BY <1>1, <2>1, <2>2, <2>4 DEF OneUser, Stream
  <2> QED
    BY <2>2, <2>3, <2>4
<1> QED
  BY <1>1, <1>2, CallsStay
-----------------------------------------------------------------------------
(***************************************************************************)
(* On a client with one user the invariant holds ...                       *)
(***************************************************************************)
LEMMA OneUserStep == OneUser /\ users = 1 /\ [Next]_vars => (OneUser /\ users = 1)'
<1> SUFFICES ASSUME OneUser, users = 1, [Next]_vars PROVE (OneUser /\ users = 1)'
  OBVIOUS
<1>1. ASSUME NEW i \in Calls, Invoke(i) PROVE (OneUser /\ users = 1)'
  BY <1>1, InvokeKeeps DEF Invoke, given
<1>2. ASSUME NEW i \in Calls, Client(i) PROVE (OneUser /\ users = 1)'
  <2>1. UNCHANGED users
    BY <1>2 DEF Client, StoreSeq, WriteHeader, WriteBody, Flush, ReadHeader, ReadGarbage,
                ReadBody, ReadWrongBody, ReadFails, Timeout, given
  <2> QED
    BY <1>2, <2>1, ClientKeeps
<1>3. CASE Server
  <2>1. UNCHANGED users
    BY <1>3 DEF Server, Garbled, UnknownMethod, ProtocolError, Process, given
  <2> QED
    BY <1>3, <2>1, ServerKeeps
<1>4. CASE Disconnect
  BY <1>4, DisconnectKeeps DEF Disconnect, given
<1>5. CASE UNCHANGED vars
  <2>1. UNCHANGED <<given, users, seqId, seq, pc, val, wbuf, unread, handled, open,
                    toServer, toClient>>
    BY <1>5 DEF vars, given
  <2>2. Stream'
    BY <2>1, StreamKept DEF OneUser
  <2>3. open' \in BOOLEAN
    BY <2>1 DEF OneUser, Types
  <2> QED
    BY <2>1, <2>2, <2>3, CallsStay
<1> QED
  BY <1>1, <1>2, <1>3, <1>4, <1>5 DEF Next, Finished

\* ... it has one user for ever, or never had ...
LEMMA UsersStay == [Next]_vars => UNCHANGED users
BY DEF Next, Invoke, Client, StoreSeq, WriteHeader, WriteBody, Flush, ReadHeader,
       ReadGarbage, ReadBody, ReadWrongBody, ReadFails, Timeout, Server, Garbled,
       UnknownMethod, ProtocolError, Process, Disconnect, Finished, vars, given

(***************************************************************************)
(* ... so that every call which returns without an error returns what the  *)
(* handler answered to this very call, whatever was lost, late or left     *)
(* half read before: Send, Recv and the Process functions of               *)
(* bfss_web/BFSS_API/bfss_api.go over one connection.                      *)
(***************************************************************************)
THEOREM CallsReturnTheirOwnAnswers == Spec => []AnswerIsOwn
<1>1. users = 1 /\ Init => OneUser
  BY OneUserInit
<1>2. users # 1 /\ [Next]_vars => users' # 1
  BY UsersStay
<1> DEFINE I == (users = 1 /\ OneUser) \/ users # 1
<1>3. Init => I
  BY <1>1
<1>4. I /\ [Next]_vars => I'
  BY <1>2, OneUserStep
<1>5. I => AnswerIsOwn
  BY DEF OneUser, AnswerIsOwn
<1> QED
  BY <1>3, <1>4, <1>5, PTL DEF Spec
-----------------------------------------------------------------------------
(* What is under way stands in the order of the calls.                     *)

Writing == {"idle", "store", "header", "args", "flush"}

\* Call n is earlier than all those of the replies and frames under way.
BeforeAll(n) == /\ \A k \in 1..Len(toClient) : n < toClient[k].call
                /\ \A k \in 1..Len(toServer) : n < toServer[k][2].call

\* All replies and frames under way are about calls before call n.
AllBefore(n) == /\ \A k \in 1..Len(toClient) : toClient[k].call < n
                /\ \A k \in 1..Len(toServer) : toServer[k][2].call < n
                /\ unread # <<>> => unread[1].call < n

\* The reply being read is about the earliest call, then come the replies and
\* then the frames, each in the order of the calls; a call that still writes is
\* later than them all.
InLine ==
    /\ \A k, l \in 1..Len(toServer) : k < l => toServer[k][2].call < toServer[l][2].call
    /\ \A k, l \in 1..Len(toClient) : k < l => toClient[k].call < toClient[l].call
    /\ \A k \in 1..Len(toClient), l \in 1..Len(toServer) :
          toClient[k].call < toServer[l][2].call
    /\ unread # <<>> => BeforeAll(unread[1].call)
    /\ \A i \in Calls : pc[i] \in Writing => AllBefore(i)

\* No call begins to write but the one that wrote before.
NoneWrites == \A i \in Calls : pc'[i] \in Writing => pc[i] \in Writing

\* Nothing is sent, and of the replies at most the one being read is dropped.
LEMMA LineKept ==
    ASSUME InLine, NoneWrites, UNCHANGED <<toServer, toClient, given>>,
           unread' \in {<<>>, unread}
    PROVE  InLine'
<1>1. Calls' = Calls BY GivenStays
<1> QED BY <1>1 DEF InLine, BeforeAll, AllBefore, NoneWrites

\* A sequence without its first member.
LEMMA TailMembers ==
    ASSUME NEW S, NEW s \in Seq(S), s # <<>>
    PROVE  /\ 1 \in 1..Len(s) /\ Head(s) = s[1]
           /\ \A k \in 1..Len(Tail(s)) : /\ k + 1 \in 1..Len(s) /\ Tail(s)[k] = s[k + 1]
                                         /\ k \in Int /\ 1 < k + 1
<1>1. Len(s) \in Nat /\ Len(Tail(s)) = Len(s) - 1 /\ Len(s) >= 1 /\ Head(s) = s[1] OBVIOUS
<1>2. ASSUME NEW k \in 1..Len(Tail(s)) PROVE Tail(s)[k] = s[k + 1] BY HeadTailProperties
<1> QED BY <1>1, <1>2

\* A reply is taken; it becomes the one being read, or is dropped.
LEMMA LineTaken ==
    ASSUME Stream, InLine, NoneWrites, UNCHANGED <<toServer, given>>,
           toClient # <<>>, toClient' = Tail(toClient),
           unread' \in {<<>>, <<Head(toClient)>>} \/ unread' = unread
    PROVE  InLine'
<1>1. Calls' = Calls BY GivenStays
<1>2. toClient \in Seq(Replies) BY DEF Stream
<1>3. PICK t, h : t = toClient' /\ h = toClient[1] OBVIOUS
<1>4. /\ 1 \in 1..Len(toClient) /\ Head(toClient) = h
      /\ \A k \in 1..Len(t) : /\ k + 1 \in 1..Len(toClient) /\ t[k] = toClient[k + 1]
                              /\ k \in Int /\ 1 < k + 1
  BY <1>2, <1>3, TailMembers
<1>5. \A k, l \in 1..Len(t) : k < l => t[k].call < t[l].call
  BY <1>4 DEF InLine
<1>6. \A k \in 1..Len(t), l \in 1..Len(toServer) : t[k].call < toServer[l][2].call
  BY <1>4 DEF InLine
<1>7. /\ \A k \in 1..Len(t) : h.call < t[k].call
      /\ \A l \in 1..Len(toServer) : h.call < toServer[l][2].call
  BY <1>3, <1>4 DEF InLine
<1>8. unread' # <<>> => /\ \A k \in 1..Len(t) : unread'[1].call < t[k].call
                        /\ \A l \in 1..Len(toServer) : unread'[1].call < toServer[l][2].call
  <2>1. CASE unread' = <<h>> BY <1>7, <2>1
  <2>2. CASE unread' = unread BY <1>4, <2>2 DEF InLine, BeforeAll
  <2> QED BY <1>4, <2>1, <2>2
<1>9. ASSUME NEW i \in Calls, pc'[i] \in Writing
      PROVE  /\ \A k \in 1..Len(t) : t[k].call < i
             /\ \A k \in 1..Len(toServer) : toServer[k][2].call < i
             /\ unread' # <<>> => unread'[1].call < i
  <2>1. AllBefore(i) BY <1>9 DEF InLine, NoneWrites
  <2>2. h.call < i BY <1>3, <1>4, <2>1 DEF AllBefore
  <2> QED BY <1>4, <2>1, <2>2 DEF AllBefore
<1>10. t = toClient' BY <1>3
<1> QED BY <1>1, <1>5, <1>6, <1>8, <1>9, <1>10 DEF InLine, BeforeAll, AllBefore

\* The frame of the call that wrote is sent.
LEMMA LineSent ==
    ASSUME OneUser, InLine, NEW i \in Calls, pc[i] = "flush", pc' = [pc EXCEPT ![i] = "recv"],
           toServer' = Append(toServer, wbuf), UNCHANGED <<toClient, unread, given>>
    PROVE  InLine'
<1>1. Calls' = Calls BY GivenStays
<1>2. wbuf = FrameOf(i) /\ FrameOf(i)[2].call = i BY DEF OneUser, Buffer, FrameOf, BodyOf
<1>3. toServer \in Seq(Frames) /\ wbuf \in Frames BY <1>2 DEF OneUser, Stream, Frames
<1>4. PICK s : s = toServer' OBVIOUS
<1>5. Len(s) = Len(toServer) + 1 /\ Len(toServer) \in Nat BY <1>3, <1>4
<1>6. ASSUME NEW k \in 1..Len(s)
      PROVE  \/ k \in 1..Len(toServer) /\ s[k] = toServer[k]
             \/ k = Len(s) /\ s[k][2].call = i
  <2>1. CASE k = Len(s) BY <1>2, <1>3, <1>4, <1>5, <2>1
  <2>2. CASE k # Len(s)
    <3>1. k \in 1..Len(toServer) BY <1>5, <2>2
    <3> QED BY <1>3, <1>4, <3>1
  <2> QED BY <2>1, <2>2
<1>7. AllBefore(i) BY DEF InLine, Writing
<1>8. ASSUME NEW k \in 1..Len(s), NEW l \in 1..Len(s), k < l
      PROVE  s[k][2].call < s[l][2].call
  <2>1. k # Len(s) BY <1>5, <1>8
  <2>2. k \in 1..Len(toServer) /\ s[k] = toServer[k] BY <1>6, <2>1
  <2> QED BY <1>6, <1>7, <1>8, <2>2 DEF InLine, AllBefore
<1>9. \A k \in 1..Len(toClient), l \in 1..Len(s) : toClient[k].call < s[l][2].call
  BY <1>6, <1>7 DEF InLine, AllBefore
<1>10. unread # <<>> => \A l \in 1..Len(s) : unread[1].call < s[l][2].call
  BY <1>6, <1>7 DEF InLine, AllBefore, BeforeAll
<1>11. ASSUME NEW j \in Calls, pc'[j] \in Writing
       PROVE  AllBefore(j) /\ \A l \in 1..Len(s) : s[l][2].call < j
  <2>1. j # i /\ pc[j] \in Writing BY <1>11 DEF OneUser, Types, Writing
  <2>2. ~(j < i) BY <2>1, Alone DEF OneUser, Writing
  <2>3. i < j BY <2>1, <2>2 DEF Calls
  <2>4. AllBefore(j) BY <2>1 DEF InLine
  <2> QED BY <1>6, <2>3, <2>4 DEF AllBefore
<1>12. s = toServer' BY <1>4
<1> QED BY <1>1, <1>8, <1>9, <1>10, <1>11, <1>12 DEF InLine, BeforeAll, AllBefore

\* The first frame is answered.
LEMMA LineAnswered ==
    ASSUME Stream, InLine, UNCHANGED <<unread, given, pc>>, toServer # <<>>,
           NEW m \in Replies, m.call = Head(toServer)[2].call,
           toClient' = Append(toClient, m), toServer' = Tail(toServer)
    PROVE  InLine'
<1>1. Calls' = Calls BY GivenStays
<1>2. toServer \in Seq(Frames) /\ toClient \in Seq(Replies) BY DEF Stream
<1>3. PICK s, c, h : s = toServer' /\ c = toClient' /\ h = m.call OBVIOUS
<1>4. /\ 1 \in 1..Len(toServer) /\ h = toServer[1][2].call
      /\ \A k \in 1..Len(s) : /\ k + 1 \in 1..Len(toServer) /\ s[k] = toServer[k + 1]
                              /\ k \in Int /\ 1 < k + 1
  BY <1>2, <1>3, TailMembers
<1>5. Len(c) = Len(toClient) + 1 /\ Len(toClient) \in Nat BY <1>2, <1>3
<1>6. ASSUME NEW k \in 1..Len(c)
      PROVE  \/ k \in 1..Len(toClient) /\ c[k] = toClient[k]
             \/ k = Len(c) /\ c[k].call = h
  <2>1. CASE k = Len(c) BY <1>2, <1>3, <1>5, <2>1
  <2>2. CASE k # Len(c)
    <3>1. k \in 1..Len(toClient) BY <1>5, <2>2
    <3> QED BY <1>2, <1>3, <3>1
  <2> QED BY <2>1, <2>2
<1>7. \A k, l \in 1..Len(s) : k < l => s[k][2].call < s[l][2].call BY <1>4 DEF InLine
<1>8. ASSUME NEW k \in 1..Len(c), NEW l \in 1..Len(c), k < l PROVE c[k].call < c[l].call
  <2>1. k # Len(c) BY <1>5, <1>8
  <2>2. k \in 1..Len(toClient) /\ c[k] = toClient[k] BY <1>6, <2>1
  <2>3. toClient[k].call < h BY <1>4, <2>2 DEF InLine
  <2> QED BY <1>6, <1>8, <2>2, <2>3 DEF InLine
<1>9. \A k \in 1..Len(c), l \in 1..Len(s) : c[k].call < s[l][2].call BY <1>4, <1>6 DEF InLine
<1>10. unread # <<>> => /\ \A k \in 1..Len(c) : unread[1].call < c[k].call
                        /\ \A l \in 1..Len(s) : unread[1].call < s[l][2].call
  BY <1>4, <1>6 DEF InLine, BeforeAll
<1>11. ASSUME NEW j \in Calls, pc[j] \in Writing
       PROVE  /\ \A k \in 1..Len(c) : c[k].call < j
              /\ \A l \in 1..Len(s) : s[l][2].call < j
              /\ unread # <<>> => unread[1].call < j
  <2>1. AllBefore(j) BY <1>11 DEF InLine
  <2> QED BY <1>4, <1>6, <2>1 DEF AllBefore
<1>12. s = toServer' /\ c = toClient' BY <1>3
<1> QED BY <1>1, <1>7, <1>8, <1>9, <1>10, <1>11, <1>12 DEF InLine, BeforeAll, AllBefore

LEMMA ClientInLine ==
    ASSUME OneUser, InLine, NEW i \in Calls, Invoke(i) \/ Client(i)
    PROVE  InLine'
<1> USE DEF Goto, Fail
<1>1. Stream /\ pc \in [Calls -> Locations] BY DEF OneUser, Types
<1>2. CASE Flush(i) /\ open
  BY <1>2, LineSent DEF Flush
<1>3. CASE \/ Invoke(i) \/ StoreSeq(i) \/ WriteHeader(i) \/ WriteBody(i)
           \/ Flush(i) /\ ~open
  <2>1. pc[i] \in Writing /\ UNCHANGED <<toServer, toClient, unread, given>>
    BY <1>3 DEF Invoke, StoreSeq, WriteHeader, WriteBody, Flush, Writing
  <2>2. PICK l : pc' = [pc EXCEPT ![i] = l]
    BY <1>3 DEF Invoke, StoreSeq, WriteHeader, WriteBody, Flush
  <2>3. NoneWrites BY <1>1, <2>1, <2>2 DEF NoneWrites
  <2> QED BY <2>1, <2>3, LineKept
<1>4. CASE \/ ReadHeader(i) \/ ReadGarbage(i) \/ ReadBody(i) \/ ReadWrongBody(i)
           \/ ReadFails(i) \/ Timeout(i)
  <2>1. PICK l \in {"body", "ok", "error"} : pc' = [pc EXCEPT ![i] = l]
    BY <1>4 DEF ReadHeader, ReadGarbage, ReadBody, ReadWrongBody, ReadFails, Timeout
  <2>2. NoneWrites BY <1>1, <2>1 DEF NoneWrites, Writing
  <2>3. CASE ReadHeader(i) \/ ReadWrongBody(i)
    BY <1>1, <2>2, <2>3, LineTaken DEF ReadHeader, ReadWrongBody
  <2>4. CASE ReadGarbage(i) \/ ReadBody(i) \/ ReadFails(i) \/ Timeout(i)
    <3>1. UNCHANGED <<toServer, toClient, given>> /\ unread' \in {<<>>, unread}
      BY <2>4 DEF ReadGarbage, ReadBody, ReadFails, Timeout
    <3> QED BY <2>2, <3>1, LineKept
  <2> QED BY <1>4, <2>3, <2>4
<1> QED BY <1>2, <1>3, <1>4 DEF Client

LEMMA ServerInLine ==
    ASSUME OneUser, InLine, Server
    PROVE  InLine'
<1>1. Stream BY DEF OneUser
<1>2. Pending /\ UNCHANGED <<unread, given, pc>>
  BY DEF Server, Garbled, UnknownMethod, ProtocolError, Process
<1>3. PICK i \in Calls : /\ Request[1] = HeaderOf(i) /\ Request[2] = BodyOf(i)
                         /\ Len(Request) = 2
  BY <1>1, <1>2, RequestIsOfCall
<1>4. ~Garbled BY <1>3 DEF Garbled, Headed, HeaderOf
<1>5. /\ Request[1].method = Method(i) /\ Request[2].call = i
      /\ DecodeArgs(Request[1].method, Request[2].wire).val = Arg(i)
  BY <1>3 DEF HeaderOf, BodyOf, Arg
<1>6. \E k \in Kinds, w \in Wires(i) : Send(Message(k, Request, w))
  <2>1. CASE UnknownMethod \/ ProtocolError
    BY <2>1 DEF UnknownMethod, ProtocolError, Kinds, Wires
  <2>2. CASE Process
    <3>1. \/ \E v \in MayGive(i) :
                Send(Message("reply", Request, EncodeResult(Method(i), v, peer)))
          \/ Send(Message("INTERNAL_ERROR", Request, <<>>))
      BY <1>5, <2>2 DEF Process, MayGive
    <3> QED BY <3>1 DEF Kinds, Wires
  <2> QED BY <1>4, <2>1, <2>2 DEF Server
<1>7. PICK k \in Kinds, w \in Wires(i) : Send(Message(k, Request, w)) BY <1>6
<1>8. PICK m \in Replies : m = Message(k, Request, w) /\ m.call = i
  <2>1. Message(k, Request, w) = ReplyTo(i, k, w) /\ Message(k, Request, w) \in Replies
    BY <1>3, MessageIsReply
  <2> QED BY <2>1 DEF ReplyTo
<1>9. /\ toServer # <<>> /\ m.call = Head(toServer)[2].call
      /\ toClient' = Append(toClient, m) /\ toServer' = Tail(toServer)
  BY <1>2, <1>5, <1>7, <1>8 DEF Pending, Request, Send
<1> QED BY <1>1, <1>2, <1>9, LineAnswered

LEMMA NextInLine ==
    ASSUME OneUser, InLine, Next
    PROVE  InLine'
<1>1. CASE Disconnect
  <2>1. /\ toServer' = <<>> /\ toClient' \in {toClient, <<>>}
        /\ UNCHANGED <<unread, pc, given>> /\ Calls' = Calls
    BY <1>1, GivenStays DEF Disconnect
  <2> QED BY <2>1 DEF InLine, BeforeAll, AllBefore
<1>2. CASE Finished
  BY <1>2, LineKept DEF Finished, vars, NoneWrites
<1> QED BY <1>1, <1>2, ClientInLine, ServerInLine DEF Next

\* A call returns without an error only after it read the reply to itself, and
\* then nothing is under way that an earlier call has left behind.
LEMMA InStep ==
    ASSUME OneUser, InLine, OutOfStep, Next, NEW i \in Calls, pc'[i] = "ok"
    PROVE  pc[i] = "ok"
<1> SUFFICES ASSUME pc[i] # "ok" PROVE FALSE OBVIOUS
<1>1. pc \in [Calls -> Locations] BY DEF OneUser, Types
<1>2. pc[i] = "body"
  <2>1. PICK j \in Calls : Invoke(j) \/ Client(j)
    BY DEF Next, Server, Garbled, UnknownMethod, ProtocolError, Process, Disconnect,
           Finished, vars
  <2>2. ReadBody(j)
    BY <1>1, <2>1 DEF Client, Invoke, StoreSeq, WriteHeader, WriteBody, Flush, ReadHeader,
                      ReadGarbage, ReadWrongBody, ReadFails, Timeout, Goto, Fail
  <2>3. pc[j] = "body" /\ \E l : pc' = [pc EXCEPT ![j] = l]
    BY <2>2 DEF ReadBody, Goto, Fail
  <2> QED BY <1>1, <2>3
<1>3. unread # <<>> /\ unread[1].call = i BY <1>2 DEF OneUser, Reading
<1>4. PICK j \in Calls : /\ pc[j] = "error"
                         /\ \/ \E k \in DOMAIN toServer : toServer[k][2].call = j
                            \/ \E k \in DOMAIN toClient : toClient[k].call = j
  BY <1>2 DEF OutOfStep
<1>5. i < j
  <2>1. DOMAIN toServer = 1..Len(toServer) /\ DOMAIN toClient = 1..Len(toClient)
    BY DEF OneUser, Stream
  <2> QED BY <1>3, <1>4, <2>1 DEF InLine, BeforeAll
<1>6. pc[j] = "idle" BY <1>2, <1>5, Alone DEF OneUser
<1> QED BY <1>4, <1>6

(***************************************************************************)
(* A client out of step with its server, after a timeout whose reply is    *)
(* still due or a reply left half read, never gets a result again: Recv    *)
(* compares sequence numbers but never skips a reply.                      *)
(***************************************************************************)
THEOREM NeverInStepAgain == Spec => OutOfStepForEver
<1> DEFINE I == (users = 1 /\ OneUser /\ InLine) \/ users # 1
<1>1. Init => I
  <2>1. ASSUME Init PROVE InLine BY <2>1 DEF Init, InLine, AllBefore
  <2> QED BY <2>1, OneUserInit
<1>2. I /\ [Next]_vars => I'
  <2>1. [Next]_vars => UNCHANGED users BY UsersStay
  <2>2. ASSUME InLine, UNCHANGED vars PROVE InLine'
    BY <2>2, LineKept DEF vars, NoneWrites
  <2> QED BY <2>1, <2>2, NextInLine, OneUserStep
<1>3. I /\ [Next]_vars =>
        [users = 1 /\ OutOfStep => \A i \in Calls : pc'[i] = "ok" => pc[i] = "ok"]_vars
  BY InStep
<1> QED BY <1>1, <1>2, <1>3, PTL DEF Spec, OutOfStepForEver
=============================================================================
