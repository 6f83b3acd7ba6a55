---------------------------- MODULE PressureTask ----------------------------
(***************************************************************************)
(* The load generator TestCase/pressure as a server of test tasks.  Web    *)
(* requests create tasks, queue them for the scheduler loop, start them at *)
(* once or export their results; starting a task spawns child processes,   *)
(* which fetch their configuration, report their status and commit their   *)
(* results by RPC.  A Task has a mutex; the handlers also read its Status  *)
(* without it.                                                             *)
(***************************************************************************)
EXTENDS Naturals, Sequences, FiniteSets, SequencesExt

CONSTANTS Names,      \* names of tasks
          Web, Loop,  \* goroutines that serve web requests; the one of startLoop
          Processes,  \* ProcessCount of each task
          MaxPid,     \* processes that can be spawned
          ChanCap,    \* capacity of taskChan, 1000 in the code
          MaxCalls,   \* bound on the web requests
          None, NoChan

ASSUME PressureAssumption ==
    /\ Processes \in [Names -> Nat] /\ Loop \notin Web
    /\ MaxPid \in Nat /\ ChanCap \in Nat \ {0} /\ MaxCalls \in Nat
    /\ None \notin Names \cup Web \cup {Loop} /\ NoChan \notin Seq(Names)

VARIABLES tasks,    \* tasks, in the order of their creation
          status,   \* Status of a task
          units,    \* Units of a task
          mutex,    \* who holds the mutex of a task from one step to the next
          queue,    \* taskChan, NoChan until startLoop has made it
          proc,     \* child processes, with what the server knows of them
          th,       \* goroutines of the server
          calls,    \* how many web requests were made
          failed    \* history: tasks whose Start failed

vars  == <<tasks, status, units, mutex, queue, proc, th, calls, failed>>
Pids  == 1..MaxPid
Goroutines == Web \cup {Loop}

Unused == [task |-> None, by |-> None, pc |-> "unused",
           done |-> FALSE, stats |-> FALSE, refused |-> FALSE]
Idle   == [pc |-> "idle", task |-> None, rest |-> <<>>,  \* what is still to do
           left |-> 0, pid |-> 0, out |-> None]

Init == /\ tasks = <<>> /\ queue = NoChan /\ calls = 0 /\ failed = {}
        /\ status = [t \in Names |-> "Ready"] /\ units = [t \in Names |-> <<>>]
        /\ mutex = [t \in Names |-> None]
        /\ proc = [p \in Pids |-> Unused]
        /\ th = [x \in Goroutines |-> IF x = Loop THEN [Idle EXCEPT !.pc = "make"] ELSE Idle]

At(x, l)   == th[x].pc = l
Goto(x, l) == th' = [th EXCEPT ![x].pc = l]
Task(x)    == th[x].task
Free(t)    == mutex[t] = None
-----------------------------------------------------------------------------
(***************************************************************************)
(* Task.Start, called by the loop and by web requests.                     *)
(***************************************************************************)
AfterStart(x) == IF x = Loop THEN "wait all" ELSE "idle"

\* A task that is neither Ready nor Waiting is an error.
Start(x) ==
    /\ At(x, "start") /\ Free(Task(x))
    /\ IF status[Task(x)] \in {"Ready", "Waiting"}
       THEN /\ mutex' = [mutex EXCEPT ![Task(x)] = x]
            /\ th' = [th EXCEPT ![x].pc = "spawn", ![x].left = IF Processes[Task(x)] = 0 THEN 1 ELSE Processes[Task(x)]]
       ELSE Goto(x, AfterStart(x)) /\ UNCHANGED mutex
    /\ UNCHANGED <<tasks, status, units, queue, proc, calls, failed>>

\* cmd.Start: the child runs from here on.
Spawn(x) ==
    /\ At(x, "spawn")
    /\ \E p \in Pids : /\ proc[p] = Unused /\ \A q \in 1..(p - 1) : proc[q] # Unused
                       /\ proc' = [proc EXCEPT ![p] = [@ EXCEPT !.task = Task(x), !.by = x, !.pc = "spawned"]]
                       /\ th' = [th EXCEPT ![x].pc = "append", ![x].pid = p]
    /\ UNCHANGED <<tasks, status, units, mutex, queue, calls, failed>>

\* Wrong on purpose: the loop turns to the next task.
SpawnFails_NoWait(x) ==
    /\ At(x, "spawn")
    /\ mutex' = [mutex EXCEPT ![Task(x)] = None]
    /\ failed' = failed \cup {Task(x)}
    /\ Goto(x, IF x = Loop THEN "receive" ELSE "idle")
    /\ UNCHANGED <<tasks, status, units, queue, proc, calls>>

\* The children that were spawned go on; the status is what it was.
SpawnFails(x) ==
    /\ At(x, "spawn")
    /\ mutex' = [mutex EXCEPT ![Task(x)] = None]
    /\ failed' = failed \cup {Task(x)}
    /\ Goto(x, AfterStart(x))
    /\ UNCHANGED <<tasks, status, units, queue, proc, calls>>

\* With the last one the task is Running.
AppendUnit(x) ==
    LET t == Task(x) last == th[x].left = 1
    IN  /\ At(x, "append")
        /\ units' = [units EXCEPT ![t] = Append(@, th[x].pid)]
        /\ status' = IF last THEN [status EXCEPT ![t] = "Running"] ELSE status
        /\ mutex' = IF last THEN [mutex EXCEPT ![t] = None] ELSE mutex
        /\ th' = [th EXCEPT ![x].left = @ - 1, ![x].pc = IF last THEN AfterStart(x) ELSE "spawn"]
        /\ UNCHANGED <<tasks, queue, proc, calls, failed>>

Starting(x) == Start(x) \/ Spawn(x) \/ SpawnFails(x) \/ AppendUnit(x)
-----------------------------------------------------------------------------
(***************************************************************************)
(* startLoop.                                                              *)
(***************************************************************************)
MakeChan ==
    /\ At(Loop, "make")
    /\ queue' = <<>>
    /\ Goto(Loop, "receive")
    /\ UNCHANGED <<tasks, status, units, mutex, proc, calls, failed>>

Receive ==
    /\ At(Loop, "receive") /\ queue # <<>>
    /\ th' = [th EXCEPT ![Loop].pc = "check", ![Loop].task = Head(queue)]
    /\ queue' = Tail(queue)
    /\ UNCHANGED <<tasks, status, units, mutex, proc, calls, failed>>

\* The status is read without the mutex.
Check ==
    /\ At(Loop, "check")
    /\ Goto(Loop, IF status[Task(Loop)] = "Waiting" THEN "start" ELSE "receive")
    /\ UNCHANGED <<tasks, status, units, mutex, queue, proc, calls, failed>>

Ended == {"exited", "died"}

\* Wrong on purpose: it waits until the processes said that they are done.
Waited_Status(s) == \A p \in Range(s) : proc[p].done

Waited(s) == \A p \in Range(s) : proc[p].pc \in Ended

\* WaitAll, for the units there are when it begins; an error of Start is ignored.
WaitAll ==
    /\ \/ /\ At(Loop, "wait all")
          /\ th' = [th EXCEPT ![Loop].pc = "waiting", ![Loop].rest = units[Task(Loop)]]
       \/ /\ At(Loop, "waiting") /\ Waited(th[Loop].rest)
          /\ th' = [th EXCEPT ![Loop] = [Idle EXCEPT !.pc = "receive"]]
    /\ UNCHANGED <<tasks, status, units, mutex, queue, proc, calls, failed>>
-----------------------------------------------------------------------------
(***************************************************************************)
(* Web requests.                                                           *)
(***************************************************************************)
\* The mutex of the list is held for all of it.
NewTask(w, n) ==
    /\ At(w, "idle") /\ calls < MaxCalls /\ calls' = calls + 1
    /\ n \notin Range(tasks)
    /\ tasks' = Append(tasks, n)
    /\ UNCHANGED <<status, units, mutex, queue, proc, th, failed>>

Call(w, r) ==
    /\ At(w, "idle") /\ calls < MaxCalls
    /\ calls' = calls + 1
    /\ th' = [th EXCEPT ![w] = r]
    /\ UNCHANGED <<tasks, status, units, mutex, queue, proc, failed>>

CallStartAll(w) == Call(w, [Idle EXCEPT !.pc = "each", !.rest = tasks])
CallStart(w)    == \E n \in Range(tasks) : Call(w, [Idle EXCEPT !.pc = "start", !.task = n])

\* ExportStats, or one round of the loops in exportAll and QueryTaskSummary:
\* the status is read without the mutex.
CallExport(w)   == \E n \in Range(tasks) : status[n] = "Done" /\ Call(w, [Idle EXCEPT !.pc = "stats", !.task = n])

\* The loop of startAllTasks, which reads the status without the mutex.
Each(w) ==
    /\ At(w, "each")
    /\ LET r == th[w].rest
       IN  th' = [th EXCEPT ![w] =
                     IF r = <<>> THEN Idle
                     ELSE IF status[Head(r)] = "Ready"
                          THEN [@ EXCEPT !.pc = "schedule", !.task = Head(r), !.rest = Tail(r)]
                          ELSE [@ EXCEPT !.rest = Tail(r)]]
    /\ UNCHANGED <<tasks, status, units, mutex, queue, proc, calls, failed>>

\* AddSchedule, whatever the status is by now.
Schedule(w) ==
    /\ At(w, "schedule") /\ Free(Task(w))
    /\ status' = [status EXCEPT ![Task(w)] = "Waiting"]
    /\ Goto(w, "send")
    /\ UNCHANGED <<tasks, units, mutex, queue, proc, calls, failed>>

\* Wrong on purpose: it does not wait for a place in the channel.
Send_Drops(w) ==
    /\ At(w, "send")
    /\ \/ queue = NoChan /\ Goto(w, "stuck") /\ UNCHANGED queue
       \/ /\ queue # NoChan /\ Goto(w, "each")
          /\ queue' = IF Len(queue) < ChanCap THEN Append(queue, Task(w)) ELSE queue
    /\ UNCHANGED <<tasks, status, units, mutex, proc, calls, failed>>

\* A full channel blocks; a nil one, before startLoop has made it, for ever.
Send(w) ==
    /\ At(w, "send")
    /\ \/ queue = NoChan /\ Goto(w, "stuck") /\ UNCHANGED queue
       \/ /\ queue # NoChan /\ Len(queue) < ChanCap
          /\ queue' = Append(queue, Task(w))
          /\ Goto(w, "each")
    /\ UNCHANGED <<tasks, status, units, mutex, proc, calls, failed>>

\* Wrong on purpose: the status is not looked at again.
Stats_Unchecked(t) == {p \in Range(units[t]) : proc[p].stats}

Stats(t) == IF status[t] = "Done" THEN {p \in Range(units[t]) : proc[p].stats} ELSE None

\* GetStats; the units are noted for the property.
GetStats(w) ==
    /\ At(w, "stats") /\ Free(Task(w))
    /\ th' = [th EXCEPT ![w].pc = "answer", ![w].out = Stats(Task(w)), ![w].rest = units[Task(w)]]
    /\ UNCHANGED <<tasks, status, units, mutex, queue, proc, calls, failed>>

Answer(w) ==
    /\ At(w, "answer")
    /\ th' = [th EXCEPT ![w] = Idle]
    /\ UNCHANGED <<tasks, status, units, mutex, queue, proc, calls, failed>>
-----------------------------------------------------------------------------
(***************************************************************************)
(* A child process, one RPC after the other, and the IPC server.           *)
(***************************************************************************)
\* Wrong on purpose: the units are searched without the mutex.
Searchable_Always(p) == TRUE

\* FindProcess takes the mutex.
Searchable(p) == Free(proc[p].task)

\* A request of process p: validateRequest finds the process among the units
\* and r is what it becomes, or the request is refused, which the child ignores.
Request(p, r) ==
    /\ Searchable(p)
    /\ proc' = [proc EXCEPT ![p] = IF p \in Range(units[@.task]) THEN r
                                   ELSE [@ EXCEPT !.pc = r.pc, !.refused = TRUE]]
    /\ UNCHANGED <<tasks, status, units, mutex, queue, th, calls, failed>>

FetchCfg(p)    == proc[p].pc = "spawned" /\ Request(p, [proc[p] EXCEPT !.pc = "testing"])
CommitStats(p) == proc[p].pc = "testing" /\ Request(p, [proc[p] EXCEPT !.pc = "committed", !.stats = TRUE])

\* UpdateStatus(Done) first stores the status of the process, without the
\* mutex.  (The reports of Ready and Running tell the task nothing but that
\* the process is not Done, which it knows; they are left out.)
Report(p) == proc[p].pc = "committed" /\ Request(p, [proc[p] EXCEPT !.pc = "reporting", !.done = TRUE])

AllDone(t) == units[t] # <<>> /\ \A p \in Range(units[t]) : proc[p].done

\* Wrong on purpose: the task is done when one process is.
UpdateStatus_One(p) ==
    LET t == proc[p].task
    IN  /\ proc[p].pc = "reporting" /\ Free(t)
        /\ status' = IF proc[p].done THEN [status EXCEPT ![t] = "Done"] ELSE status
        /\ proc' = [proc EXCEPT ![p].pc = "exited"]
        /\ UNCHANGED <<tasks, units, mutex, queue, th, calls, failed>>

\* Wrong on purpose: only the last unit looks at the others.
UpdateStatus_Last(p) ==
    LET t == proc[p].task
    IN  /\ proc[p].pc = "reporting" /\ Free(t)
        /\ status' = IF AllDone(t) /\ p = Last(units[t]) THEN [status EXCEPT ![t] = "Done"] ELSE status
        /\ proc' = [proc EXCEPT ![p].pc = "exited"]
        /\ UNCHANGED <<tasks, units, mutex, queue, th, calls, failed>>

\* It then sums up the task with it; the process has nothing left to do but to exit.
UpdateStatus(p) ==
    LET t == proc[p].task
    IN  /\ proc[p].pc = "reporting" /\ Free(t)
        /\ status' = IF AllDone(t) THEN [status EXCEPT ![t] = "Done"] ELSE status
        /\ proc' = [proc EXCEPT ![p].pc = "exited"]
        /\ UNCHANGED <<tasks, units, mutex, queue, th, calls, failed>>

\* A panic, log.Fatal or a signal.
Die(p) ==
    /\ proc[p].pc \notin Ended \cup {"unused"}
    /\ proc' = [proc EXCEPT ![p].pc = "died"]
    /\ UNCHANGED <<tasks, status, units, mutex, queue, th, calls, failed>>

Child(p) == FetchCfg(p) \/ Report(p) \/ UpdateStatus(p) \/ CommitStats(p)
LoopStep == MakeChan \/ Receive \/ Check \/ Starting(Loop) \/ WaitAll
WebStep(w) == Each(w) \/ Schedule(w) \/ Send(w) \/ Starting(w) \/ GetStats(w) \/ Answer(w)

Next == \/ LoopStep
        \/ \E w \in Web : CallStartAll(w) \/ CallStart(w) \/ CallExport(w) \/ WebStep(w)
        \/ \E w \in Web, n \in Names : NewTask(w, n)
        \/ \E p \in Pids : Child(p) \/ Die(p)

\* Goroutines are scheduled, and so are the children between their requests.
\* Nothing makes a test return.
Fairness == /\ WF_vars(LoopStep) /\ \A w \in Web : WF_vars(WebStep(w))
            /\ \A p \in Pids : WF_vars(FetchCfg(p) \/ Report(p) \/ UpdateStatus(p))

Spec == Init /\ [][Next]_vars /\ Fairness
-----------------------------------------------------------------------------
TypeOK ==
    /\ IsInjective(tasks) /\ status \in [Names -> {"Ready", "Running", "Done", "Waiting"}]
    /\ \A t \in Names : units[t] \in Seq(Pids) /\ IsInjective(units[t])
    /\ mutex \in [Names -> Goroutines \cup {None}]
    /\ queue # NoChan => queue \in Seq(Names) /\ Len(queue) <= ChanCap

(***************************************************************************)
(* No request of a child is refused, however early it comes: Start holds   *)
(* the mutex of the task from before the first spawn until the last unit   *)
(* is in Units, and FindProcess waits for it.                              *)
(***************************************************************************)
NoRequestRefused == \A p \in Pids : ~proc[p].refused

(***************************************************************************)
(* A task is Done only when every process of it said so, and has committed *)
(* its results before, also when the task was started again.               *)
(***************************************************************************)
DoneMeansCommitted ==
    \A t \in Names : status[t] = "Done" =>
        \A p \in Range(units[t]) : proc[p].done /\ proc[p].stats

(***************************************************************************)
(* When all processes of a task are back from their last report, the       *)
(* task is Done, or was queued again: no report gets lost between the      *)
(* store of the process's status and the sum over all units, nor while     *)
(* Start is at work.                                                       *)
(***************************************************************************)
FinishedIsDone ==
    \A t \in Names : Free(t) /\ units[t] # <<>> /\ (\A p \in Range(units[t]) : proc[p].pc = "exited")
                     => status[t] \in {"Done", "Waiting"}

(***************************************************************************)
(* What is exported of a task are the results of all its processes or      *)
(* nothing, though the handler looks at the status before it has the       *)
(* mutex and the task may be started again in between.                     *)
(***************************************************************************)
ExportIsComplete ==
    \A w \in Web : At(w, "answer") /\ th[w].out # None => th[w].out = Range(th[w].rest)

(***************************************************************************)
(* The processes of two tasks that the loop started never run at the same  *)
(* time, also when Start failed half way.                                  *)
(***************************************************************************)
OneAtATime ==
    \A p \in Pids : proc[p].by = Loop /\ proc[p].pc \notin Ended =>
        /\ proc[p].task = Task(Loop)
        /\ th[Loop].pc \in {"spawn", "append", "wait all", "waiting"}

(***************************************************************************)
(* A Waiting task is in the queue, on its way into it or being started:    *)
(* it is not forgotten, unless starting it failed.                         *)
(***************************************************************************)
WaitingIsQueued ==
    \A t \in Names : status[t] = "Waiting" /\ t \notin failed =>
        \/ queue # NoChan /\ t \in Range(queue)
        \/ \E x \in Goroutines : Task(x) = t /\ th[x].pc \in {"send", "stuck", "check", "start", "spawn", "append"}

(***************************************************************************)
(* The loop gets to every task in the queue, whether the processes of the  *)
(* tasks before it exit, die or could not be spawned: or WaitAll waits for *)
(* ever for one of them whose test does not return.                        *)
(***************************************************************************)
NeverReturns(p) == <>[](At(Loop, "waiting") /\ p \in Range(th[Loop].rest) /\ proc[p].pc = "testing")
QueuedIsTaken ==
    \/ \E p \in Pids : NeverReturns(p)
    \/ \A t \in Names : (queue # NoChan /\ t \in Range(queue)) ~> (At(Loop, "check") /\ Task(Loop) = t)

(***************************************************************************)
(* A task is not started twice.                                            *)
(***************************************************************************)
StartedOnce == \A t \in Names : Len(units[t]) <= Processes[t]
=============================================================================
