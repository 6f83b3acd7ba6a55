--------------------------- MODULE PressureWrite ---------------------------
(***************************************************************************)
(* FastWrite of the load generator (TestCase/pressure/test).  A fixed set  *)
(* of buffers goes round between the goroutine that writes them to the     *)
(* server and the loops of asyncFile, which fill them with new data and    *)
(* create an object for it.  Two channels carry the buffers, a third one   *)
(* stops the loops.                                                        *)
(***************************************************************************)
EXTENDS Integers, Sequences, FiniteSets, Functions

CONSTANTS NFiles,   \* how many buffers genCacheFiles made; 0 if the first is above CacheSize
          Loops,    \* the goroutines of asyncFile, 4 in the code
          Size,     \* Size of a buffer
          Expected, \* ExpectedWrites
          None

Files == 1..NFiles

ASSUME WriteAssumption ==
    /\ NFiles \in Nat /\ IsFiniteSet(Loops) /\ Expected \in Nat \ {0}
    /\ Size \in [Files -> Nat \ {0}] /\ None \notin Files

VARIABLES readChan,   \* buffers with data
          createChan, \* buffers to fill
          doneChan,   \* how many values are in doneChan
          data,       \* data of a buffer, as how often it was filled
          created,    \* objects the server has: buffer and data that they were made for
          loop,       \* goroutines of asyncFile
          main,       \* the goroutine of FastWrite: files still to write, FileStats of the
                      \* one it writes, what done() still has to send
          total,      \* TotalWrites
          stats       \* Files of the statistics, as objects

vars == <<readChan, createChan, doneChan, data, created, loop, main, total, stats>>

\* Wrong on purpose: channels for one buffer.
Clen_One == 1

\* The capacity of both channels.
Clen == IF NFiles > 0 THEN NFiles ELSE 1

Init == /\ readChan = [i \in Files |-> i] /\ createChan = <<>> /\ doneChan = 0
        /\ data = [f \in Files |-> 0] /\ created = {<<f, 0>> : f \in Files}
        /\ loop = [l \in Loops |-> [pc |-> "dial", file |-> None]]
        /\ main = [pc |-> "read", files |-> <<>>, fs |-> None,
                  left |-> Cardinality(Loops), err |-> FALSE]
        /\ total = 0 /\ stats = <<>>

Object(f) == <<f, data[f]>>
-----------------------------------------------------------------------------
(***************************************************************************)
(* FastWrite.                                                              *)
(***************************************************************************)
\* read takes what is in readChan, without waiting.
Receive ==
    /\ main.pc = "read" /\ readChan # <<>>
    /\ main' = [main EXCEPT !.files = Append(@, Head(readChan))]
    /\ readChan' = Tail(readChan)
    /\ UNCHANGED <<createChan, doneChan, data, created, loop, total, stats>>

ReadDone ==
    /\ main.pc = "read" /\ readChan = <<>>
    /\ main' = [main EXCEPT !.pc = "range"]
    /\ UNCHANGED <<readChan, createChan, doneChan, data, created, loop, total, stats>>

\* Wrong on purpose: the next data is asked for before the file is written.
NextFile_CreatesFirst ==
    /\ main.pc = "range"
    /\ IF main.files # <<>> /\ total < Expected
       THEN /\ main' = [main EXCEPT !.pc = "write", !.fs = Object(Head(main.files))]
            /\ createChan' = Append(createChan, Head(main.files))
       ELSE /\ main' = [main EXCEPT !.pc = IF main.files = <<>> THEN "read" ELSE "done"]
            /\ UNCHANGED createChan
    /\ UNCHANGED <<readChan, doneChan, data, created, loop, total, stats>>

\* The loop over what was read looks at the total before every file, and only
\* then; it fills FileStats from the buffer.
NextFile ==
    /\ main.pc = "range"
    /\ main' = IF main.files = <<>> THEN [main EXCEPT !.pc = "read"]
               ELSE IF total >= Expected THEN [main EXCEPT !.pc = "done"]
               ELSE [main EXCEPT !.pc = "write", !.fs = Object(Head(main.files))]
    /\ UNCHANGED <<readChan, createChan, doneChan, data, created, loop, total, stats>>

\* fastWriteFile: all slices of the file.
WriteFile ==
    /\ main.pc = "write"
    /\ main' = [main EXCEPT !.pc = "create"]
    /\ UNCHANGED <<readChan, createChan, doneChan, data, created, loop, total, stats>>

WriteFails ==
    /\ main.pc = "write"
    /\ main' = [main EXCEPT !.pc = "done", !.err = TRUE]
    /\ UNCHANGED <<readChan, createChan, doneChan, data, created, loop, total, stats>>

\* create(f), then the statistics.
Create ==
    /\ main.pc = "create" /\ Len(createChan) < Clen
    /\ createChan' = Append(createChan, Head(main.files))
    /\ stats' = Append(stats, main.fs)
    /\ total' = total + Size[Head(main.files)]
    /\ main' = [main EXCEPT !.pc = "range", !.files = Tail(@), !.fs = None]
    /\ UNCHANGED <<readChan, doneChan, data, created, loop>>

\* Wrong on purpose: doneChan has room for one value.
SendDone_Small ==
    /\ main.pc = "done" /\ main.left > 0
    /\ doneChan < 1
    /\ doneChan' = doneChan + 1
    /\ main' = [main EXCEPT !.left = @ - 1]
    /\ UNCHANGED <<readChan, createChan, data, created, loop, total, stats>>

\* done(), which FastWrite defers: a value for every loop,
SendDone ==
    /\ main.pc = "done" /\ main.left > 0
    /\ doneChan < Cardinality(Loops)
    /\ doneChan' = doneChan + 1
    /\ main' = [main EXCEPT !.left = @ - 1]
    /\ UNCHANGED <<readChan, createChan, data, created, loop, total, stats>>

\* then it waits for the loops and closes the channels.
Close ==
    /\ main.pc = "done" /\ main.left = 0
    /\ \A l \in Loops : loop[l].pc = "returned"
    /\ main' = [main EXCEPT !.pc = "closed"]
    /\ UNCHANGED <<readChan, createChan, doneChan, data, created, loop, total, stats>>

Main == Receive \/ ReadDone \/ NextFile \/ WriteFile \/ WriteFails \/ Create \/ SendDone \/ Close
-----------------------------------------------------------------------------
(***************************************************************************)
(* loop of asyncFile.                                                      *)
(***************************************************************************)
Dial(l) ==
    /\ loop[l].pc = "dial"
    /\ \E r \in {"select", "returned"} : loop' = [loop EXCEPT ![l].pc = r]
    /\ UNCHANGED <<readChan, createChan, doneChan, data, created, main, total, stats>>

\* When both channels have something, select takes either.
Take(l) ==
    /\ loop[l].pc = "select" /\ createChan # <<>>
    /\ loop' = [loop EXCEPT ![l] = [pc |-> "fill", file |-> Head(createChan)]]
    /\ createChan' = Tail(createChan)
    /\ UNCHANGED <<readChan, doneChan, data, created, main, total, stats>>

Stop(l) ==
    /\ loop[l].pc = "select" /\ doneChan > 0
    /\ doneChan' = doneChan - 1
    /\ loop' = [loop EXCEPT ![l].pc = "returned"]
    /\ UNCHANGED <<readChan, createChan, data, created, main, total, stats>>

\* genFile: new data and a new name, then the object.
Fill(l) ==
    /\ loop[l].pc = "fill"
    /\ data' = [data EXCEPT ![loop[l].file] = @ + 1]
    /\ loop' = [loop EXCEPT ![l].pc = "object"]
    /\ UNCHANGED <<readChan, createChan, doneChan, created, main, total, stats>>

CreateObject(l) ==
    /\ loop[l].pc = "object"
    /\ created' = created \cup {Object(loop[l].file)}
    /\ loop' = [loop EXCEPT ![l].pc = "send"]
    /\ UNCHANGED <<readChan, createChan, doneChan, data, main, total, stats>>

\* Wrong on purpose: the buffer goes on without an object.
CreateFails_Sends(l) ==
    /\ loop[l].pc = "object"
    /\ loop' = [loop EXCEPT ![l].pc = "send"]
    /\ UNCHANGED <<readChan, createChan, doneChan, data, created, main, total, stats>>

\* The buffer is not used again.
CreateFails(l) ==
    /\ loop[l].pc = "object"
    /\ loop' = [loop EXCEPT ![l] = [pc |-> "select", file |-> None]]
    /\ UNCHANGED <<readChan, createChan, doneChan, data, created, main, total, stats>>

Send(l) ==
    /\ loop[l].pc = "send" /\ Len(readChan) < Clen
    /\ readChan' = Append(readChan, loop[l].file)
    /\ loop' = [loop EXCEPT ![l] = [pc |-> "select", file |-> None]]
    /\ UNCHANGED <<createChan, doneChan, data, created, main, total, stats>>

Loop(l) == Dial(l) \/ Take(l) \/ Stop(l) \/ Fill(l) \/ CreateObject(l) \/ CreateFails(l) \/ Send(l)

Next == Main \/ \E l \in Loops : Loop(l)

\* Goroutines are scheduled and calls to the server return.
Fairness == WF_vars(Main) /\ \A l \in Loops : WF_vars(Loop(l))

Spec == Init /\ [][Next]_vars /\ Fairness
-----------------------------------------------------------------------------
Busy == {"fill", "object", "send"}  \* where a loop has a buffer

TypeOK ==
    /\ readChan \in Seq(Files) /\ createChan \in Seq(Files)
    /\ doneChan \in 0..Cardinality(Loops)
    /\ data \in [Files -> Nat] /\ created \subseteq Files \X Nat
    /\ loop \in [Loops -> [pc : {"dial", "select", "returned"}, file : {None}]
                            \cup [pc : Busy, file : Files]]
    /\ main \in [pc : {"read", "range", "write", "create", "done", "closed"}, files : Seq(Files),
                 fs : (Files \X Nat) \cup {None}, left : 0..Cardinality(Loops), err : BOOLEAN]
    /\ total \in Nat /\ stats \in Seq(Files \X Nat)

(***************************************************************************)
(* A buffer is in one place: in one channel, with the writer or with one   *)
(* loop, and there once.  The goroutines share the buffers without a lock; *)
(* a buffer in two places is written to the server while it is filled.     *)
(***************************************************************************)
OneOwner ==
    /\ IsInjective(readChan) /\ IsInjective(createChan) /\ IsInjective(main.files)
    /\ Range(readChan) \cap Range(createChan) = {}
    /\ Range(main.files) \cap (Range(readChan) \cup Range(createChan)) = {}
    /\ \A l \in Loops : loop[l].pc \in Busy =>
           /\ loop[l].file \notin Range(readChan) \cup Range(createChan) \cup Range(main.files)
           /\ \A k \in Loops : loop[k].pc \in Busy /\ loop[k].file = loop[l].file => k = l

(***************************************************************************)
(* No send waits: there is room in readChan for the loop that filled a     *)
(* buffer, in createChan for the writer and in doneChan for done(), so the *)
(* writer and the loops never wait for each other in a circle.             *)
(***************************************************************************)
SendsDoNotWait ==
    /\ \A l \in Loops : loop[l].pc = "send" => Len(readChan) < Clen
    /\ main.pc = "create" => Len(createChan) < Clen
    /\ main.pc = "done" /\ main.left > 0 => doneChan < Cardinality(Loops)

(***************************************************************************)
(* Every file of the statistics is an object the server has created, and   *)
(* is there once: TotalWrites counts no object twice, and no buffer is     *)
(* written whose object could not be created.                              *)
(***************************************************************************)
WrittenOnce == IsInjective(stats) /\ Range(stats) \subseteq created

(***************************************************************************)
(* FastWrite returns, or its buffers are gone: lost by loops that could    *)
(* not create an object, or waiting for loops that have all returned.      *)
(* Then read returns nothing and FastWrite turns round for ever.           *)
(***************************************************************************)
Starved ==
    /\ main.pc \in {"read", "range"} /\ main.files = <<>> /\ readChan = <<>>
    /\ \A l \in Loops : loop[l].pc \notin Busy
    /\ createChan # <<>> => \A l \in Loops : loop[l].pc = "returned"

TestEnds == <>(main.pc = "closed" \/ Starved)

(***************************************************************************)
(* When FastWrite has returned, VerifyHash looks for each object with the  *)
(* head of its buffer, which FileStats shares with the buffer.             *)
(***************************************************************************)
HeadsAgree == main.pc = "closed" => \A i \in DOMAIN stats : stats[i] = Object(stats[i][1])
=============================================================================
