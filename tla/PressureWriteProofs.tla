------------------------ MODULE PressureWriteProofs ------------------------
(***************************************************************************)
(* Proofs that the buffers of FastWrite are never shared, that no object   *)
(* is counted twice and that no send waits, for any number of buffers and  *)
(* of loops, and any sizes.                                                *)
(*                                                                         *)
(* OneOwner alone is almost inductive.  The invariant adds what the data   *)
(* of a buffer says of its place: a buffer that is ready to be written has *)
(* an object that no statistics name yet, and the data of a buffer only    *)
(* grows, so the object of refilled data is new.                           *)
(***************************************************************************)
EXTENDS PressureWrite, FiniteSetTheorems, SequenceTheorems, TLAPS

\* Buffers that FastWrite has or will read.
ToWrite == Range(readChan) \cup Range(main.files)

Objects ==
    /\ \A f \in ToWrite : Object(f) \in created /\ Object(f) \notin Range(stats)
    /\ \A l \in Loops : loop[l].pc \in {"object", "send"} => Object(loop[l].file) \notin Range(stats)
    /\ \A l \in Loops : loop[l].pc = "send" => Object(loop[l].file) \in created
    /\ \A s \in Range(stats) : s[2] <= data[s[1]]

Writing == main.pc \in {"write", "create"} =>
               main.files # <<>> /\ main.fs = Object(Head(main.files))

\* What done() has sent and still has to send is no more than doneChan holds.
Tokens == doneChan + main.left <= Cardinality(Loops)

IInv == TypeOK /\ OneOwner /\ WrittenOnce /\ Objects /\ Writing /\ Tokens
-----------------------------------------------------------------------------
(***************************************************************************)
(* Sequences without repetition.                                           *)
(***************************************************************************)
LEMMA AppendOne ==
    ASSUME NEW S, NEW s \in Seq(S), NEW e \in S
    PROVE  /\ Append(s, e) \in Seq(S)
           /\ Range(Append(s, e)) = Range(s) \cup {e}
           /\ IsInjective(s) /\ e \notin Range(s) => IsInjective(Append(s, e))
<1>1. Append(s, e) \in Seq(S) /\ Len(Append(s, e)) = Len(s) + 1 OBVIOUS
<1>2. \A i \in 1..Len(s) : Append(s, e)[i] = s[i]  OBVIOUS
<1>3. Append(s, e)[Len(s) + 1] = e OBVIOUS
<1>4. DOMAIN s = 1..Len(s) /\ DOMAIN Append(s, e) = 1..(Len(s) + 1) /\ Len(s) \in Nat
  BY <1>1, LenProperties
<1>5. Range(Append(s, e)) = Range(s) \cup {e}
  <2>1. ASSUME NEW x \in Range(Append(s, e)) PROVE x \in Range(s) \cup {e}
    BY <1>2, <1>3, <1>4 DEF Range
  <2>2. ASSUME NEW x \in Range(s) \cup {e} PROVE x \in Range(Append(s, e))
    <3>1. CASE x = e BY <3>1, <1>3, <1>4 DEF Range
    <3>2. CASE x \in Range(s)
      <4>1. PICK i \in 1..Len(s) : s[i] = x BY <3>2, <1>4 DEF Range
      <4>2. i \in 1..(Len(s) + 1) BY <1>4
      <4> QED BY <4>1, <4>2, <1>2, <1>4 DEF Range
    <3> QED BY <3>1, <3>2
  <2> QED BY <2>1, <2>2
<1>6. IsInjective(s) /\ e \notin Range(s) => IsInjective(Append(s, e))
  BY <1>2, <1>3, <1>4 DEF IsInjective, Range
<1> QED BY <1>1, <1>5, <1>6

LEMMA TailOne ==
    ASSUME NEW S, NEW s \in Seq(S), s # <<>>
    PROVE  /\ Head(s) \in S /\ Head(s) \in Range(s)
           /\ Tail(s) \in Seq(S)
           /\ Range(Tail(s)) \subseteq Range(s)
           /\ IsInjective(s) => IsInjective(Tail(s)) /\ Head(s) \notin Range(Tail(s))
<1>1. /\ Head(s) \in S /\ Tail(s) \in Seq(S) /\ Len(Tail(s)) = Len(s) - 1
      /\ \A i \in 1..Len(Tail(s)) : Tail(s)[i] = s[i + 1]
  BY HeadTailProperties
<1>2. /\ Len(s) \in Nat \ {0} /\ DOMAIN s = 1..Len(s)
      /\ DOMAIN Tail(s) = 1..(Len(s) - 1) /\ Head(s) = s[1]
  BY <1>1, EmptySeq, LenProperties
<1>3. Head(s) \in Range(s) BY <1>2 DEF Range
<1>4. Range(Tail(s)) \subseteq Range(s)
  <2> SUFFICES ASSUME NEW i \in 1..(Len(s) - 1) PROVE Tail(s)[i] \in Range(s)
    BY <1>2 DEF Range
  <2>1. Tail(s)[i] = s[i + 1] /\ i + 1 \in 1..Len(s) BY <1>1, <1>2
  <2> QED BY <2>1, <1>2 DEF Range
<1>5. ASSUME IsInjective(s) PROVE IsInjective(Tail(s))
  <2> SUFFICES ASSUME NEW i \in 1..(Len(s) - 1), NEW j \in 1..(Len(s) - 1), Tail(s)[i] = Tail(s)[j]
               PROVE  i = j
    BY <1>2 DEF IsInjective
  <2>1. s[i + 1] = s[j + 1] /\ i + 1 \in 1..Len(s) /\ j + 1 \in 1..Len(s) BY <1>1, <1>2
  <2>2. i + 1 = j + 1 BY <2>1, <1>2, <1>5 DEF IsInjective
  <2> QED BY <2>2
<1>6. ASSUME IsInjective(s) PROVE Head(s) \notin Range(Tail(s))
  <2> SUFFICES ASSUME NEW i \in 1..(Len(s) - 1), Tail(s)[i] = s[1] PROVE FALSE
    BY <1>2 DEF Range
  <2>1. s[i + 1] = s[1] /\ i + 1 \in 1..Len(s) /\ 1 \in 1..Len(s) BY <1>1, <1>2
  <2>2. i + 1 = 1 BY <2>1, <1>2, <1>6 DEF IsInjective
  <2> QED BY <2>2
<1> QED BY <1>1, <1>3, <1>4, <1>5, <1>6

LEMMA LenInjective ==
    ASSUME NEW S, NEW s \in Seq(S), NEW T, IsFiniteSet(T), Range(s) \subseteq T, IsInjective(s)
    PROVE  Len(s) <= Cardinality(T)
<1>1. Len(s) \in Nat /\ DOMAIN s = 1..Len(s) /\ s \in [1..Len(s) -> S] BY LenProperties
<1>2. s \in Injection(1..Len(s), T) BY <1>1 DEF Injection, Range
<1>3. Cardinality(1..Len(s)) <= Cardinality(T) BY <1>2, FS_Injection
<1>4. Cardinality(1..Len(s)) = Len(s) BY <1>1, FS_Interval
<1> QED BY <1>3, <1>4
-----------------------------------------------------------------------------
(***************************************************************************)
(* Steps of FastWrite.                                                     *)
(***************************************************************************)
LEMMA InitHolds == Init => IInv
<1> SUFFICES ASSUME Init PROVE IInv OBVIOUS
<1> USE DEF Init
<1>1. Cardinality(Loops) \in Nat BY WriteAssumption, FS_CardinalityType
<1>2. readChan \in Seq(Files) /\ Range(readChan) = Files /\ IsInjective(readChan)
  BY WriteAssumption DEF Files, Range, IsInjective
<1>3. <<>> \in Seq(Files) /\ Range(<<>>) = {} /\ IsInjective(<<>>) /\ <<>> \in Seq(Files \X Nat)
  BY DEF Range, IsInjective
<1>4. TypeOK BY <1>1, <1>2, <1>3 DEF TypeOK
<1>5. OneOwner BY <1>2, <1>3 DEF OneOwner, Busy
<1>6. WrittenOnce BY <1>3 DEF WrittenOnce
<1>7. Objects BY <1>2, <1>3 DEF Objects, ToWrite, Object
<1>8. Writing /\ Tokens BY <1>1 DEF Writing, Tokens
<1> QED BY <1>4, <1>5, <1>6, <1>7, <1>8 DEF IInv

LEMMA ReceiveKeeps == ASSUME IInv, Receive PROVE IInv'
<1> USE DEF Receive
<1> DEFINE f == Head(readChan)
<1>1. /\ readChan \in Seq(Files) /\ readChan # <<>> /\ main.files \in Seq(Files)
      /\ IsInjective(readChan) /\ IsInjective(main.files) BY DEF IInv, TypeOK, OneOwner
<1>2. /\ f \in Files /\ f \in Range(readChan) /\ Tail(readChan) \in Seq(Files)
      /\ Range(Tail(readChan)) \subseteq Range(readChan)
      /\ IsInjective(Tail(readChan)) /\ f \notin Range(Tail(readChan))
  BY <1>1, TailOne
<1>3. f \notin Range(main.files) BY <1>2 DEF IInv, OneOwner
<1>4. /\ Append(main.files, f) \in Seq(Files) /\ IsInjective(Append(main.files, f))
      /\ Range(Append(main.files, f)) = Range(main.files) \cup {f}
  BY <1>1, <1>2, <1>3, AppendOne
<1>5. main'.files = Append(main.files, f) /\ main'.pc = "read" /\ readChan' = Tail(readChan)
  BY DEF IInv, TypeOK
<1> HIDE DEF f
<1>6. TypeOK' BY <1>1, <1>2, <1>4 DEF IInv, TypeOK, f
<1>7. OneOwner' BY <1>2, <1>4, <1>5 DEF IInv, OneOwner
<1>8. WrittenOnce' BY DEF IInv, WrittenOnce
<1>9. ToWrite' \subseteq ToWrite BY <1>2, <1>4, <1>5 DEF ToWrite
<1>10. Objects' BY <1>9 DEF IInv, Objects, Object
<1>11. Writing' BY <1>5 DEF Writing
<1>12. Tokens' BY DEF IInv, TypeOK, Tokens
<1> QED BY <1>6, <1>7, <1>8, <1>10, <1>11, <1>12 DEF IInv

LEMMA MainMoves ==
    ASSUME IInv, TypeOK', Writing', Tokens', main'.files = main.files,
           UNCHANGED <<readChan, createChan, data, created, loop, stats>>
    PROVE  IInv'
<1>1. OneOwner' BY DEF IInv, OneOwner
<1>2. WrittenOnce' BY DEF IInv, WrittenOnce
<1>3. Objects' BY DEF IInv, Objects, ToWrite, Object
<1> QED BY <1>1, <1>2, <1>3 DEF IInv

LEMMA ObjectType == ASSUME TypeOK, NEW f \in Files PROVE Object(f) \in Files \X Nat
  BY DEF TypeOK, Object

LEMMA LoopType ==
    ASSUME TypeOK, NEW l \in Loops
    PROVE  IF loop[l].pc \in Busy THEN loop[l] \in [pc : Busy, file : Files]
                                  ELSE loop[l] \in [pc : {"dial", "select", "returned"}, file : {None}]
<1>1. loop[l] \in [pc : {"dial", "select", "returned"}, file : {None}] \cup [pc : Busy, file : Files]
  BY DEF TypeOK
<1>2. CASE loop[l] \in [pc : {"dial", "select", "returned"}, file : {None}] BY <1>2 DEF Busy
<1>3. CASE loop[l] \in [pc : Busy, file : Files] BY <1>3
<1> QED BY <1>1, <1>2, <1>3

LEMMA MainKeeps == ASSUME IInv, ReadDone \/ NextFile \/ WriteFile \/ WriteFails \/ SendDone \/ Close PROVE IInv'
<1>0. Cardinality(Loops) \in Nat BY WriteAssumption, FS_CardinalityType
<1>1. CASE ReadDone
  <2>1. TypeOK' BY <1>1 DEF IInv, TypeOK, ReadDone
  <2>2. Writing' BY <1>1 DEF IInv, TypeOK, Writing, ReadDone
  <2>3. Tokens' BY <1>1 DEF IInv, TypeOK, Tokens, ReadDone
  <2> QED BY <1>1, <2>1, <2>2, <2>3, MainMoves DEF IInv, TypeOK, ReadDone
<1>2. CASE NextFile
  <2>1. main.files # <<>> => Object(Head(main.files)) \in Files \X Nat
    BY ObjectType, TailOne DEF IInv, TypeOK
  <2>2. TypeOK' BY <1>2, <2>1 DEF IInv, TypeOK, NextFile
  <2>3. Writing' BY <1>2 DEF IInv, TypeOK, Writing, NextFile, Object
  <2>4. Tokens' BY <1>2 DEF IInv, TypeOK, Tokens, NextFile
  <2> QED BY <1>2, <2>2, <2>3, <2>4, MainMoves DEF IInv, TypeOK, NextFile
<1>3. CASE WriteFile
  <2>1. TypeOK' BY <1>3 DEF IInv, TypeOK, WriteFile
  <2>2. Writing' BY <1>3 DEF IInv, TypeOK, Writing, WriteFile, Object
  <2>3. Tokens' BY <1>3 DEF IInv, TypeOK, Tokens, WriteFile
  <2> QED BY <1>3, <2>1, <2>2, <2>3, MainMoves DEF IInv, TypeOK, WriteFile
<1>4. CASE WriteFails
  <2>1. TypeOK' BY <1>4 DEF IInv, TypeOK, WriteFails
  <2>2. Writing' BY <1>4 DEF IInv, TypeOK, Writing, WriteFails
  <2>3. Tokens' BY <1>4 DEF IInv, TypeOK, Tokens, WriteFails
  <2> QED BY <1>4, <2>1, <2>2, <2>3, MainMoves DEF IInv, TypeOK, WriteFails
<1>5. CASE SendDone
  <2>0. /\ doneChan \in Nat /\ doneChan' = doneChan + 1 /\ doneChan < Cardinality(Loops)
        /\ main.left \in 1..Cardinality(Loops) /\ main'.left = main.left - 1
    BY <1>0, <1>5 DEF IInv, TypeOK, SendDone
  <2>4. doneChan' \in 0..Cardinality(Loops) /\ main.left - 1 \in 0..Cardinality(Loops) BY <1>0, <2>0
  <2>1. TypeOK' BY <1>5, <2>4 DEF IInv, TypeOK, SendDone
  <2>2. Writing' BY <1>5 DEF IInv, TypeOK, Writing, SendDone
  <2>3. Tokens' BY <1>0, <2>0 DEF IInv, Tokens
  <2> QED BY <1>5, <2>1, <2>2, <2>3, MainMoves DEF IInv, TypeOK, SendDone
<1>6. CASE Close
  <2>1. TypeOK' BY <1>6 DEF IInv, TypeOK, Close
  <2>2. Writing' BY <1>6 DEF IInv, TypeOK, Writing, Close
  <2>3. Tokens' BY <1>6 DEF IInv, TypeOK, Tokens, Close
  <2> QED BY <1>6, <2>1, <2>2, <2>3, MainMoves DEF IInv, TypeOK, Close
<1> QED BY <1>1, <1>2, <1>3, <1>4, <1>5, <1>6

LEMMA CreateKeeps == ASSUME IInv, Create PROVE IInv'
<1> USE DEF Create
<1> DEFINE f == Head(main.files)
<1>1. /\ main.pc = "create" /\ main.files # <<>> /\ main.fs = Object(f)
      /\ createChan \in Seq(Files) /\ main.files \in Seq(Files) /\ stats \in Seq(Files \X Nat)
      /\ IsInjective(createChan) /\ IsInjective(main.files) /\ IsInjective(stats)
  BY DEF IInv, TypeOK, OneOwner, WrittenOnce, Writing
<1>2. /\ f \in Files /\ f \in Range(main.files) /\ Tail(main.files) \in Seq(Files)
      /\ Range(Tail(main.files)) \subseteq Range(main.files)
      /\ IsInjective(Tail(main.files)) /\ f \notin Range(Tail(main.files))
  BY <1>1, TailOne
<1>3. f \notin Range(createChan) /\ f \notin Range(readChan) BY <1>2 DEF IInv, OneOwner
<1>4. /\ Append(createChan, f) \in Seq(Files) /\ IsInjective(Append(createChan, f))
      /\ Range(Append(createChan, f)) = Range(createChan) \cup {f}
  BY <1>1, <1>2, <1>3, AppendOne
<1>5. Object(f) \in created /\ Object(f) \notin Range(stats) /\ Object(f) \in Files \X Nat
  BY <1>2, ObjectType DEF IInv, Objects, ToWrite
<1>6. /\ Append(stats, Object(f)) \in Seq(Files \X Nat) /\ IsInjective(Append(stats, Object(f)))
      /\ Range(Append(stats, Object(f))) = Range(stats) \cup {Object(f)}
  <2> DEFINE S == Files \X Nat
             e == Object(f)
  <2>1. stats \in Seq(S) /\ e \in S /\ IsInjective(stats) /\ e \notin Range(stats)
    BY <1>1, <1>5
  <2> HIDE DEF S, e
  <2>2. Append(stats, e) \in Seq(S) /\ IsInjective(Append(stats, e)) /\ Range(Append(stats, e)) = Range(stats) \cup {e}
    BY <2>1, AppendOne
  <2> QED
    BY <2>2 DEF S, e
<1>7. /\ main'.files = Tail(main.files) /\ main'.pc = "range" /\ main'.left = main.left
      /\ createChan' = Append(createChan, f) /\ stats' = Append(stats, Object(f))
  BY <1>1 DEF IInv, TypeOK
<1> HIDE DEF f
<1>8. TypeOK'
  <2>1. total' \in Nat BY <1>2, WriteAssumption DEF IInv, TypeOK, f
  <2>2. main' \in [pc : {"read", "range", "write", "create", "done", "closed"}, files : Seq(Files),
                   fs : (Files \X Nat) \cup {None}, left : 0..Cardinality(Loops), err : BOOLEAN]
    BY <1>2 DEF IInv, TypeOK
  <2> QED BY <2>1, <2>2, <1>4, <1>6, <1>7 DEF IInv, TypeOK
<1>9. OneOwner'
  <2>1. \A l \in Loops : loop[l].pc \in Busy => loop[l].file # f BY <1>2 DEF IInv, OneOwner
  <2> QED BY <2>1, <1>2, <1>3, <1>4, <1>7 DEF IInv, OneOwner
<1>10. WrittenOnce' BY <1>5, <1>6, <1>7 DEF IInv, WrittenOnce
<1>11. Objects'
  <2>1. ToWrite' \subseteq ToWrite \ {f} BY <1>2, <1>3, <1>7 DEF ToWrite
  <2>2. \A g : Object(g) = Object(f) => g = f BY DEF Object
  <2>3. \A l \in Loops : loop[l].pc \in {"object", "send"} => loop[l].file # f
    BY <1>2 DEF IInv, OneOwner, Busy
  <2>4. data' = data /\ loop' = loop /\ created' = created OBVIOUS
  <2>5. Objects BY DEF IInv
  <2>6. \A g \in ToWrite' : Object(g) \in created /\ Object(g) \notin Range(stats')
    BY <2>1, <2>2, <2>5, <1>6, <1>7 DEF Objects
  <2>7. \A l \in Loops : loop[l].pc \in {"object", "send"} => Object(loop[l].file) \notin Range(stats')
    BY <2>2, <2>3, <2>5, <1>6, <1>7 DEF Objects
  <2>8. \A s \in Range(stats') : s[2] <= data[s[1]]
    <3>1. data[f] \in Nat BY <1>2 DEF IInv, TypeOK
    <3>2. Object(f)[2] <= data[Object(f)[1]] BY <3>1 DEF Object
    <3> QED BY <3>2, <2>5, <1>6, <1>7 DEF Objects
  <2> QED BY <2>4, <2>5, <2>6, <2>7, <2>8 DEF Objects, Object
<1>12. Writing' BY <1>7 DEF Writing
<1>13. Tokens' BY <1>7 DEF IInv, Tokens
<1> QED BY <1>8, <1>9, <1>10, <1>11, <1>12, <1>13 DEF IInv
-----------------------------------------------------------------------------
(***************************************************************************)
(* Steps of a loop.                                                        *)
(***************************************************************************)
\* Where loop l is after a step, the others being where they were.
LEMMA LoopMoves ==
    ASSUME TypeOK, NEW l \in Loops, NEW r,
           r \in [pc : {"dial", "select", "returned"}, file : {None}] \cup [pc : Busy, file : Files],
           loop' = [loop EXCEPT ![l] = r]
    PROVE  /\ loop' \in [Loops -> [pc : {"dial", "select", "returned"}, file : {None}]
                                    \cup [pc : Busy, file : Files]]
           /\ loop'[l] = r /\ \A k \in Loops \ {l} : loop'[k] = loop[k]
  BY DEF TypeOK

LEMMA RestKeeps ==
    ASSUME IInv, UNCHANGED <<main, data, stats>>
    PROVE  Writing'
  BY DEF IInv, Writing, Object

\* A loop without a buffer that takes none.
LEMMA LoopIdles ==
    ASSUME IInv, NEW l \in Loops, Dial(l) \/ Stop(l)
    PROVE  IInv'
<1>1. /\ loop[l].pc \notin Busy /\ loop[l] \in [pc : {"dial", "select", "returned"}, file : {None}]
      /\ UNCHANGED <<readChan, createChan, data, created, main, total, stats>>
  <2>1. loop[l].pc \notin Busy BY DEF Dial, Stop, Busy
  <2> QED BY <2>1, LoopType DEF IInv, Dial, Stop
<1>2. PICK p \in {"select", "returned"} : loop' = [loop EXCEPT ![l] = [loop[l] EXCEPT !.pc = p]]
  BY DEF Dial, Stop
<1> DEFINE r == [loop[l] EXCEPT !.pc = p]
<1>3. r \in [pc : {"dial", "select", "returned"}, file : {None}] /\ r.pc = p /\ p \notin Busy
  BY <1>1 DEF Busy
<1> HIDE DEF r
<1>4. /\ loop' \in [Loops -> [pc : {"dial", "select", "returned"}, file : {None}] \cup [pc : Busy, file : Files]]
      /\ loop'[l] = r /\ \A k \in Loops \ {l} : loop'[k] = loop[k]
  BY <1>2, <1>3, LoopMoves DEF IInv, r
<1>5. \A k \in Loops : loop'[k].pc \in Busy => loop'[k] = loop[k] BY <1>3, <1>4
<1>6. Cardinality(Loops) \in Nat BY WriteAssumption, FS_CardinalityType
<1>7. doneChan' \in 0..Cardinality(Loops) /\ doneChan' <= doneChan
  BY <1>6 DEF IInv, TypeOK, Dial, Stop
<1>8. TypeOK' BY <1>1, <1>4, <1>7 DEF IInv, TypeOK
<1>9. OneOwner' BY <1>1, <1>5 DEF IInv, OneOwner
<1>10. WrittenOnce' BY <1>1 DEF IInv, WrittenOnce
<1>11. Objects' BY <1>1, <1>5 DEF IInv, Objects, ToWrite, Object, Busy
<1>12. Writing' BY <1>1, RestKeeps
<1>13. Tokens'
  <2>1. main.left \in Int /\ doneChan \in Int /\ doneChan' \in Int BY <1>6, <1>7 DEF IInv, TypeOK
  <2> QED BY <2>1, <1>1, <1>6, <1>7 DEF IInv, Tokens
<1> QED BY <1>8, <1>9, <1>10, <1>11, <1>12, <1>13 DEF IInv

LEMMA TakeKeeps == ASSUME IInv, NEW l \in Loops, Take(l) PROVE IInv'
<1> DEFINE f == Head(createChan)
           r == [pc |-> "fill", file |-> f]
<1>1. /\ createChan \in Seq(Files) /\ createChan # <<>> /\ IsInjective(createChan)
      /\ createChan' = Tail(createChan) /\ loop' = [loop EXCEPT ![l] = r] /\ loop[l].pc = "select"
      /\ UNCHANGED <<readChan, doneChan, data, created, main, total, stats>>
  BY DEF IInv, TypeOK, OneOwner, Take
<1>2. /\ f \in Files /\ f \in Range(createChan) /\ Tail(createChan) \in Seq(Files)
      /\ Range(Tail(createChan)) \subseteq Range(createChan)
      /\ IsInjective(Tail(createChan)) /\ f \notin Range(Tail(createChan))
  BY <1>1, TailOne
<1>3. f \notin Range(readChan) /\ f \notin Range(main.files) BY <1>2 DEF IInv, OneOwner
<1>4. /\ loop' \in [Loops -> [pc : {"dial", "select", "returned"}, file : {None}] \cup [pc : Busy, file : Files]]
      /\ loop'[l] = r /\ \A k \in Loops \ {l} : loop'[k] = loop[k]
  <2>1. r \in [pc : Busy, file : Files] BY <1>2 DEF Busy
  <2> HIDE DEF r
  <2> QED BY <2>1, <1>1, LoopMoves DEF IInv
<1>5. loop'[l].pc = "fill" /\ loop'[l].file = f BY <1>4
<1>6. \A k \in Loops : loop[k].pc \in Busy => loop[k].file # f BY <1>2 DEF IInv, OneOwner
<1> HIDE DEF f, r
<1>7. TypeOK' BY <1>1, <1>2, <1>4 DEF IInv, TypeOK
<1>8. OneOwner'
  <2>1. \A k \in Loops : loop'[k].pc \in Busy =>
           loop'[k].file \notin Range(readChan') \cup Range(createChan') \cup Range(main'.files)
    BY <1>1, <1>2, <1>3, <1>4, <1>5 DEF IInv, OneOwner
  <2>2. \A k, m \in Loops : loop'[k].pc \in Busy /\ loop'[m].pc \in Busy /\ loop'[m].file = loop'[k].file => m = k
    BY <1>4, <1>5, <1>6 DEF IInv, OneOwner
  <2>3. /\ IsInjective(readChan') /\ IsInjective(createChan') /\ IsInjective(main'.files)
        /\ Range(readChan') \cap Range(createChan') = {}
        /\ Range(main'.files) \cap (Range(readChan') \cup Range(createChan')) = {}
    BY <1>1, <1>2 DEF IInv, OneOwner
  <2> QED BY <2>1, <2>2, <2>3 DEF OneOwner
<1>9. WrittenOnce' BY <1>1 DEF IInv, WrittenOnce
<1>10. Objects' BY <1>1, <1>4, <1>5 DEF IInv, Objects, ToWrite, Object
<1>11. Writing' BY <1>1, RestKeeps
<1>12. Tokens' BY <1>1 DEF IInv, Tokens
<1> QED BY <1>7, <1>8, <1>9, <1>10, <1>11, <1>12 DEF IInv

\* The data of f grows, no other buffer's does, and f is nobody else's.
LEMMA FillKeeps == ASSUME IInv, NEW l \in Loops, Fill(l) PROVE IInv'
<1> DEFINE f == loop[l].file
           r == [loop[l] EXCEPT !.pc = "object"]
<1>1. /\ loop[l].pc = "fill" /\ data' = [data EXCEPT ![f] = @ + 1] /\ loop' = [loop EXCEPT ![l] = r]
      /\ UNCHANGED <<readChan, createChan, doneChan, created, main, total, stats>>
  BY DEF Fill
<1>2. f \in Files /\ r \in [pc : Busy, file : Files] /\ r.pc = "object" /\ r.file = f
  BY <1>1, LoopType DEF IInv, Busy
<1>3. /\ f \notin ToWrite
      /\ \A k \in Loops \ {l} : loop[k].pc \in Busy => loop[k].file # f
  BY <1>1 DEF IInv, OneOwner, ToWrite, Busy
<1> HIDE DEF f, r
<1>4. /\ loop' \in [Loops -> [pc : {"dial", "select", "returned"}, file : {None}] \cup [pc : Busy, file : Files]]
      /\ loop'[l] = r /\ \A k \in Loops \ {l} : loop'[k] = loop[k]
  BY <1>1, <1>2, LoopMoves DEF IInv
<1>5. /\ data \in [Files -> Nat] /\ data' \in [Files -> Nat] /\ data'[f] = data[f] + 1
      /\ \A g : g # f => data'[g] = data[g]
  BY <1>1, <1>2 DEF IInv, TypeOK
<1>6. TypeOK' BY <1>1, <1>4, <1>5 DEF IInv, TypeOK
<1>7. OneOwner'
  <2>1. \A k \in Loops : loop'[k].file = loop[k].file /\ (loop'[k].pc \in Busy <=> loop[k].pc \in Busy)
    BY <1>1, <1>2, <1>4 DEF Busy, f
  <2> QED BY <2>1, <1>1 DEF IInv, OneOwner
<1>8. WrittenOnce' BY <1>1 DEF IInv, WrittenOnce
<1>9. Objects'
  <2>0. Objects /\ stats \in Seq(Files \X Nat) BY DEF IInv, TypeOK
  <2>1. \A s \in Range(stats) : s \in Files \X Nat BY <2>0, LenProperties DEF Range
  <2>2. <<f, data'[f]>> \notin Range(stats) BY <2>0, <2>1, <1>2, <1>5 DEF Objects
  <2>3. \A s \in Range(stats) : s[2] <= data'[s[1]]
    <3> SUFFICES ASSUME NEW s \in Range(stats) PROVE s[2] <= data'[s[1]] OBVIOUS
    <3>1. s[2] <= data[s[1]] /\ s[1] \in Files /\ s[2] \in Nat BY <2>0, <2>1 DEF Objects
    <3>2. CASE s[1] = f BY <3>1, <3>2, <1>2, <1>5
    <3>3. CASE s[1] # f BY <3>1, <3>3, <1>5
    <3> QED BY <3>2, <3>3
  <2>4. \A g \in ToWrite : <<g, data'[g]>> \in created /\ <<g, data'[g]>> \notin Range(stats)
    BY <2>0, <1>3, <1>5 DEF Objects, Object
  <2>5. \A k \in Loops : loop'[k].pc \in {"object", "send"} => <<loop'[k].file, data'[loop'[k].file]>> \notin Range(stats)
    <3> SUFFICES ASSUME NEW k \in Loops, loop'[k].pc \in {"object", "send"}
                 PROVE  <<loop'[k].file, data'[loop'[k].file]>> \notin Range(stats)
      OBVIOUS
    <3>1. CASE k = l BY <3>1, <2>2, <1>2, <1>4
    <3>2. CASE k # l
      <4>1. loop'[k] = loop[k] /\ loop[k].file # f BY <3>2, <1>3, <1>4 DEF Busy
      <4> QED BY <4>1, <2>0, <1>5 DEF Objects, Object
    <3> QED BY <3>1, <3>2
  <2>6. \A k \in Loops : loop'[k].pc = "send" => <<loop'[k].file, data'[loop'[k].file]>> \in created
    <3> SUFFICES ASSUME NEW k \in Loops, loop'[k].pc = "send"
                 PROVE  <<loop'[k].file, data'[loop'[k].file]>> \in created
      OBVIOUS
    <3>1. k # l BY <1>2, <1>4
    <3>2. loop'[k] = loop[k] /\ loop[k].file # f BY <3>1, <1>3, <1>4 DEF Busy
    <3> QED BY <3>2, <2>0, <1>5 DEF Objects, Object
  <2>7. ToWrite' = ToWrite BY <1>1 DEF ToWrite
  <2> QED BY <2>3, <2>4, <2>5, <2>6, <2>7, <1>1 DEF Objects, Object
<1>10. Writing'
  <2>1. main.files # <<>> => Head(main.files) \in ToWrite
    BY TailOne DEF IInv, TypeOK, ToWrite
  <2>2. main.files # <<>> => data'[Head(main.files)] = data[Head(main.files)] BY <2>1, <1>3, <1>5
  <2> QED BY <2>2, <1>1 DEF IInv, Writing, Object
<1>11. Tokens' BY <1>1 DEF IInv, Tokens
<1> QED BY <1>6, <1>7, <1>8, <1>9, <1>10, <1>11 DEF IInv

LEMMA CreateObjectKeeps == ASSUME IInv, NEW l \in Loops, CreateObject(l) PROVE IInv'
<1> DEFINE f == loop[l].file
           r == [loop[l] EXCEPT !.pc = "send"]
<1>1. /\ loop[l].pc = "object" /\ created' = created \cup {Object(f)} /\ loop' = [loop EXCEPT ![l] = r]
      /\ UNCHANGED <<readChan, createChan, doneChan, data, main, total, stats>>
  BY DEF CreateObject
<1>2. f \in Files /\ r \in [pc : Busy, file : Files] /\ r.pc = "send" /\ r.file = f
  BY <1>1, LoopType DEF IInv, Busy
<1>3. Object(f) \in Files \X Nat BY <1>2, ObjectType DEF IInv
<1> HIDE DEF f, r
<1>4. /\ loop' \in [Loops -> [pc : {"dial", "select", "returned"}, file : {None}] \cup [pc : Busy, file : Files]]
      /\ loop'[l] = r /\ \A k \in Loops \ {l} : loop'[k] = loop[k]
  BY <1>1, <1>2, LoopMoves DEF IInv
<1>5. TypeOK' BY <1>1, <1>3, <1>4 DEF IInv, TypeOK
<1>6. OneOwner'
  <2>1. \A k \in Loops : loop'[k].file = loop[k].file /\ (loop'[k].pc \in Busy <=> loop[k].pc \in Busy)
    BY <1>1, <1>2, <1>4 DEF Busy, f
  <2> QED BY <2>1, <1>1 DEF IInv, OneOwner
<1>7. WrittenOnce' BY <1>1 DEF IInv, WrittenOnce
<1>8. Objects'
  <2>1. \A k \in Loops : loop'[k].file = loop[k].file
                         /\ (loop'[k].pc \in {"object", "send"} => loop[k].pc \in {"object", "send"})
                         /\ (loop'[k].pc = "send" => loop[k].pc = "send" \/ loop[k].file = f)
    BY <1>1, <1>2, <1>4 DEF f
  <2> QED BY <2>1, <1>1 DEF IInv, Objects, ToWrite, Object
<1>9. Writing' BY <1>1, RestKeeps
<1>10. Tokens' BY <1>1 DEF IInv, Tokens
<1> QED BY <1>5, <1>6, <1>7, <1>8, <1>9, <1>10 DEF IInv

LEMMA CreateFailsKeeps == ASSUME IInv, NEW l \in Loops, CreateFails(l) PROVE IInv'
<1> DEFINE r == [pc |-> "select", file |-> None]
<1>1. /\ loop' = [loop EXCEPT ![l] = r]
      /\ UNCHANGED <<readChan, createChan, doneChan, data, created, main, total, stats>>
  BY DEF CreateFails
<1>2. r \in [pc : {"dial", "select", "returned"}, file : {None}] /\ r.pc = "select" OBVIOUS
<1> HIDE DEF r
<1>3. /\ loop' \in [Loops -> [pc : {"dial", "select", "returned"}, file : {None}] \cup [pc : Busy, file : Files]]
      /\ loop'[l] = r /\ \A k \in Loops \ {l} : loop'[k] = loop[k]
  BY <1>1, <1>2, LoopMoves DEF IInv
<1>4. \A k \in Loops : loop'[k].pc \in Busy => loop'[k] = loop[k] BY <1>2, <1>3 DEF Busy
<1>5. TypeOK' BY <1>1, <1>3 DEF IInv, TypeOK
<1>6. OneOwner' BY <1>1, <1>4 DEF IInv, OneOwner
<1>7. WrittenOnce' BY <1>1 DEF IInv, WrittenOnce
<1>8. Objects' BY <1>1, <1>4 DEF IInv, Objects, ToWrite, Object, Busy
<1>9. Writing' BY <1>1, RestKeeps
<1>10. Tokens' BY <1>1 DEF IInv, Tokens
<1> QED BY <1>5, <1>6, <1>7, <1>8, <1>9, <1>10 DEF IInv

LEMMA SendKeeps == ASSUME IInv, NEW l \in Loops, Send(l) PROVE IInv'
<1> DEFINE f == loop[l].file
           r == [pc |-> "select", file |-> None]
<1>1. /\ loop[l].pc = "send" /\ readChan' = Append(readChan, f) /\ loop' = [loop EXCEPT ![l] = r]
      /\ UNCHANGED <<createChan, doneChan, data, created, main, total, stats>>
  BY DEF Send
<1>2. f \in Files BY <1>1, LoopType DEF IInv, Busy
<1>3. /\ f \notin Range(readChan) \cup Range(createChan) \cup Range(main.files)
      /\ \A k \in Loops : loop[k].pc \in Busy /\ loop[k].file = f => k = l
  BY <1>1 DEF IInv, OneOwner, Busy
<1>4. /\ readChan' \in Seq(Files) /\ Range(readChan') = Range(readChan) \cup {f} /\ IsInjective(readChan')
  BY <1>1, <1>2, <1>3, AppendOne DEF IInv, TypeOK, OneOwner
<1>5. r \in [pc : {"dial", "select", "returned"}, file : {None}] /\ r.pc = "select" OBVIOUS
<1> HIDE DEF r
<1>6. /\ loop' \in [Loops -> [pc : {"dial", "select", "returned"}, file : {None}] \cup [pc : Busy, file : Files]]
      /\ loop'[l] = r /\ \A k \in Loops \ {l} : loop'[k] = loop[k]
  BY <1>1, <1>5, LoopMoves DEF IInv
<1>7. \A k \in Loops : loop'[k].pc \in Busy => loop'[k] = loop[k] /\ loop[k].file # f
  BY <1>3, <1>5, <1>6 DEF Busy
<1>8. Object(f) \in created /\ Object(f) \notin Range(stats) BY <1>1 DEF IInv, Objects
<1> HIDE DEF f
<1>9. TypeOK' BY <1>1, <1>4, <1>6 DEF IInv, TypeOK
<1>10. OneOwner'
  <2>1. /\ IsInjective(createChan') /\ IsInjective(main'.files)
        /\ Range(readChan') \cap Range(createChan') = {}
        /\ Range(main'.files) \cap (Range(readChan') \cup Range(createChan')) = {}
    BY <1>1, <1>3, <1>4 DEF IInv, OneOwner
  <2>2. \A k \in Loops : loop'[k].pc \in Busy =>
           /\ loop'[k].file \notin Range(readChan') \cup Range(createChan') \cup Range(main'.files)
           /\ \A m \in Loops : loop'[m].pc \in Busy /\ loop'[m].file = loop'[k].file => m = k
    BY <1>1, <1>4, <1>7 DEF IInv, OneOwner
  <2> QED BY <2>1, <2>2, <1>4 DEF OneOwner
<1>11. WrittenOnce' BY <1>1 DEF IInv, WrittenOnce
<1>12. Objects'
  <2>1. ToWrite' = ToWrite \cup {f} BY <1>1, <1>4 DEF ToWrite
  <2> QED BY <2>1, <1>1, <1>7, <1>8 DEF IInv, Objects, Object, Busy
<1>13. Writing' BY <1>1, RestKeeps
<1>14. Tokens' BY <1>1 DEF IInv, Tokens
<1> QED BY <1>9, <1>10, <1>11, <1>12, <1>13, <1>14 DEF IInv
-----------------------------------------------------------------------------
(***************************************************************************)
(* The types, the places and the data of the buffers of FastWrite are an   *)
(* invariant, whatever fails and however the goroutines are scheduled.     *)
(***************************************************************************)
THEOREM PipelineInvariant == Spec => []IInv
<1>1. Init => IInv BY InitHolds
<1>2. IInv /\ [Next]_vars => IInv'
  <2> SUFFICES ASSUME IInv, [Next]_vars PROVE IInv' OBVIOUS
  <2>1. CASE Main
    <3>1. CASE Receive BY <3>1, ReceiveKeeps
    <3>2. CASE Create BY <3>2, CreateKeeps
    <3>3. CASE ReadDone \/ NextFile \/ WriteFile \/ WriteFails \/ SendDone \/ Close BY <3>3, MainKeeps
    <3> QED BY <2>1, <3>1, <3>2, <3>3 DEF Main
  <2>2. CASE \E l \in Loops : Loop(l)
    <3>1. PICK l \in Loops : Loop(l) BY <2>2
    <3>2. CASE Dial(l) \/ Stop(l) BY <3>2, LoopIdles
    <3>3. CASE Take(l) BY <3>3, TakeKeeps
    <3>4. CASE Fill(l) BY <3>4, FillKeeps
    <3>5. CASE CreateObject(l) BY <3>5, CreateObjectKeeps
    <3>6. CASE CreateFails(l) BY <3>6, CreateFailsKeeps
    <3>7. CASE Send(l) BY <3>7, SendKeeps
    <3> QED BY <3>1, <3>2, <3>3, <3>4, <3>5, <3>6, <3>7 DEF Loop
  <2>3. CASE UNCHANGED vars
    BY <2>3 DEF vars, IInv, TypeOK, OneOwner, WrittenOnce, Objects, ToWrite, Writing, Tokens, Object
  <2> QED BY <2>1, <2>2, <2>3 DEF Next
<1> QED BY <1>1, <1>2, PTL DEF Spec

(***************************************************************************)
(* No buffer of asyncFile is ever in two places: filled by one goroutine   *)
(* and sent, or filled, by another.                                        *)
(***************************************************************************)
THEOREM BuffersAreNotShared == Spec => []OneOwner
<1>1. IInv => OneOwner BY DEF IInv
<1> QED BY <1>1, PipelineInvariant, PTL

(***************************************************************************)
(* The statistics of FastWrite name no object twice, and only objects that *)
(* the server has created.                                                 *)
(***************************************************************************)
THEOREM ObjectsAreCountedOnce == Spec => []WrittenOnce
<1>1. IInv => WrittenOnce BY DEF IInv
<1> QED BY <1>1, PipelineInvariant, PTL

(***************************************************************************)
(* No send of FastWrite, of done() or of a loop ever waits: a channel      *)
(* misses the buffer that is about to be sent, and has room for all.       *)
(***************************************************************************)
THEOREM ChannelsHaveRoom == Spec => []SendsDoNotWait
<1>1. IInv => SendsDoNotWait
  <2> SUFFICES ASSUME IInv PROVE SendsDoNotWait OBVIOUS
  <2>1. NFiles \in Nat /\ IsFiniteSet(Files) /\ Cardinality(Files) = NFiles
    BY WriteAssumption, FS_Interval DEF Files
  <2>2. ASSUME NEW c \in Seq(Files), IsInjective(c), NEW f \in Files, f \notin Range(c)
        PROVE  Len(c) < Clen
    <3>1. IsFiniteSet(Files \ {f}) /\ Cardinality(Files \ {f}) = NFiles - 1 BY <2>1, FS_RemoveElement
    <3>2. Range(c) \subseteq Files \ {f} BY <2>2, LenProperties DEF Range
    <3>3. Len(c) <= NFiles - 1 BY <2>2, <3>1, <3>2, LenInjective
    <3>4. NFiles > 0 BY <2>1, <2>2 DEF Files
    <3> QED BY <3>3, <3>4, <2>1, <2>2, LenProperties DEF Clen
  <2>3. ASSUME NEW l \in Loops, loop[l].pc = "send" PROVE Len(readChan) < Clen
    <3>1. loop[l].file \in Files BY <2>3, LoopType DEF IInv, Busy
    <3>2. loop[l].file \notin Range(readChan) BY <2>3 DEF IInv, OneOwner, Busy
    <3> QED BY <3>1, <3>2, <2>2 DEF IInv, TypeOK, OneOwner
  <2>4. ASSUME main.pc = "create" PROVE Len(createChan) < Clen
    <3>1. main.files # <<>> /\ main.files \in Seq(Files) BY <2>4 DEF IInv, Writing, TypeOK
    <3>2. Head(main.files) \in Files /\ Head(main.files) \in Range(main.files) BY <3>1, TailOne
    <3>3. Head(main.files) \notin Range(createChan) BY <3>2 DEF IInv, OneOwner
    <3> QED BY <3>2, <3>3, <2>2 DEF IInv, TypeOK, OneOwner
  <2>5. main.left > 0 => doneChan < Cardinality(Loops)
    <3>1. Cardinality(Loops) \in Nat /\ main.left \in Int /\ doneChan \in Int
      BY WriteAssumption, FS_CardinalityType DEF IInv, TypeOK
    <3> QED BY <3>1 DEF IInv, Tokens
  <2> QED BY <2>3, <2>4, <2>5 DEF SendsDoNotWait
<1> QED BY <1>1, PipelineInvariant, PTL
=============================================================================
