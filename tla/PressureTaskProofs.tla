------------------------- MODULE PressureTaskProofs -------------------------
(***************************************************************************)
(* The tasks of the load generator, for any tasks, web goroutines, numbers *)
(* of processes and capacity of the channel: what the mutex of a task      *)
(* protects, although handlers, the loop and the children's reports look   *)
(* at the status and the units from all sides.                             *)
(***************************************************************************)
EXTENDS PressureTask, Integers, SequenceTheorems, TLAPS

Statuses == {"Ready", "Running", "Done", "Waiting"}
Phases == {"unused", "spawned", "testing", "committed", "reporting", "exited", "died"}
Places == {"idle", "make", "receive", "check", "start", "spawn", "append", "wait all",
           "waiting", "each", "schedule", "send", "stuck", "stats", "answer"}

\* Where a goroutine has a task, where it goes through a list of tasks, where
\* it has the task's mutex, and where a task is that is about to be started.
Tasked   == {"check", "start", "spawn", "append", "wait all", "waiting", "schedule",
             "send", "stuck", "stats", "answer"}
Listing  == {"each", "schedule", "send"}
Holding  == {"spawn", "append"}
Carrying == {"send", "stuck", "check", "start", "spawn", "append"}

Process == [task : Names \cup {None}, by : Goroutines \cup {None}, pc : Phases,
            done : BOOLEAN, stats : BOOLEAN, refused : BOOLEAN]
Thread == [pc : Places, task : Names \cup {None}, rest : Seq(Names) \cup Seq(Pids),
           left : Int, pid : Nat, out : (SUBSET Pids) \cup {None}]

\* The locals of a goroutine fit the place where it is.
Local(r) == /\ r.pc \in Tasked => r.task \in Names
            /\ r.pc \in Listing => r.rest \in Seq(Names)
            /\ r.pc = "answer" /\ r.out # None => r.out = Range(r.rest)

Types == /\ tasks \in Seq(Names)
         /\ status \in [Names -> Statuses]
         /\ units \in [Names -> Seq(Pids)]
         /\ mutex \in [Names -> Goroutines \cup {None}]
         /\ queue = NoChan \/ queue \in Seq(Names)
         /\ proc \in [Pids -> Process]
         /\ th \in [Goroutines -> Thread]
         /\ \A x \in Goroutines : Local(th[x])

\* The mutex is held exactly by the goroutine that is starting the task, and
\* while it is held the task stays startable.
Locks == /\ \A t \in Names, x \in Goroutines : mutex[t] = x <=> th[x].pc \in Holding /\ Task(x) = t
         /\ \A x \in Goroutines : th[x].pc \in Holding => status[Task(x)] \in {"Ready", "Waiting"}

\* A process is one of its task's units, but for the one that a goroutine has
\* just spawned, which nobody has answered yet.
Belongs ==
    /\ \A t \in Names : \A p \in Range(units[t]) : proc[p].task = t /\ proc[p].pc # "unused"
    /\ \A p \in Pids : proc[p].pc # "unused" =>
          /\ proc[p].task \in Names
          /\ \/ p \in Range(units[proc[p].task])
             \/ \E x \in Goroutines : At(x, "append") /\ th[x].pid = p
    /\ \A p \in Pids : proc[p].pc = "unused" => proc[p].by = None
    /\ \A x \in Goroutines : At(x, "append") =>
          LET p == th[x].pid
          IN  /\ p \in Pids /\ proc[p].task = Task(x) /\ proc[p].by = x
              /\ proc[p].pc \in {"spawned", "died"}

\* What a process has behind it at each phase.
Progress == \A p \in Pids :
    /\ proc[p].done \/ proc[p].pc \in {"committed", "reporting", "exited"} => proc[p].stats
    /\ proc[p].pc \in {"reporting", "exited"} => proc[p].done

\* FinishedIsDone, also while the mutex is held.
Summed == \A t \in Names :
    units[t] # <<>> /\ (\A p \in Range(units[t]) : proc[p].pc = "exited")
        => status[t] \in {"Done", "Waiting"}

\* The channel is there once the loop has begun.
Chan == queue = NoChan => At(Loop, "make")

TaskInv == /\ Types /\ Locks /\ Belongs /\ Progress /\ Summed /\ Chan
           /\ NoRequestRefused /\ DoneMeansCommitted
-----------------------------------------------------------------------------
(***************************************************************************)
(* Steps of goroutines that neither hold a mutex nor take one.             *)
(***************************************************************************)
LEMMA Elsewhere ==
    ASSUME TaskInv, NEW x \in Goroutines, NEW r \in Thread, th' = [th EXCEPT ![x] = r],
           Local(r), th[x].pc \notin Holding, r.pc \notin Holding,
           tasks' \in Seq(Names), queue' = NoChan \/ queue' \in Seq(Names),
           queue' = NoChan => queue = NoChan /\ th[x].pc # "make",
           UNCHANGED <<status, units, mutex, proc>>
    PROVE  TaskInv'
<1>1. \A y \in Goroutines : th'[y] = IF y = x THEN r ELSE th[y] BY DEF TaskInv, Types
<1>2. Types'
  <2>1. th' \in [Goroutines -> Thread] BY DEF TaskInv, Types
  <2>2. \A y \in Goroutines : Local(th'[y]) BY <1>1 DEF TaskInv, Types
  <2> QED BY <2>1, <2>2 DEF TaskInv, Types, Local
<1>3. Locks'
  <2>1. ASSUME NEW t \in Names, NEW y \in Goroutines
        PROVE  mutex[t] = y <=> th'[y].pc \in Holding /\ th'[y].task = t
    BY <1>1 DEF TaskInv, Locks, Task
  <2>2. ASSUME NEW y \in Goroutines, th'[y].pc \in Holding
        PROVE  status[th'[y].task] \in {"Ready", "Waiting"}
    BY <1>1, <2>2 DEF TaskInv, Locks, Task
  <2> QED BY <2>1, <2>2 DEF Locks, Task
<1>4. Belongs'
  <2>1. ~At(x, "append") /\ r.pc # "append" BY DEF At, Holding
  <2>2. \A y \in Goroutines : /\ At(y, "append")' <=> At(y, "append")
                              /\ At(y, "append") => th'[y] = th[y]
    BY <1>1, <2>1 DEF At
  <2> QED BY <2>2 DEF TaskInv, Belongs, Task
<1>5. Progress' /\ Summed' /\ NoRequestRefused' /\ DoneMeansCommitted'
  BY DEF TaskInv, Progress, Summed, NoRequestRefused, DoneMeansCommitted
<1>6. Chan' BY <1>1 DEF TaskInv, Chan, At, Goroutines
<1> QED BY <1>2, <1>3, <1>4, <1>5, <1>6 DEF TaskInv

\* The local definitions of a goroutine after a step of another or of its own.
LEMMA ThreadAfter ==
    ASSUME Types, NEW x \in Goroutines, NEW r \in Thread, Local(r), th' = [th EXCEPT ![x] = r]
    PROVE  /\ th' \in [Goroutines -> Thread]
           /\ \A y \in Goroutines : th'[y] = IF y = x THEN r ELSE th[y]
           /\ \A y \in Goroutines : Local(th'[y])
BY DEF Types

\* A goroutine that is not making the channel goes on.
LEMMA ChanKept ==
    ASSUME Types, Chan, NEW x \in Goroutines, NEW r, th' = [th EXCEPT ![x] = r],
           th[x].pc # "make", queue' = queue
    PROVE  Chan'
BY DEF Types, Chan, At, Goroutines

\* Goroutine x has task t, holds its mutex, and no one else holds it.
LEMMA Holder ==
    ASSUME TaskInv, NEW x \in Goroutines, th[x].pc \in Holding
    PROVE  /\ Task(x) \in Names /\ mutex[Task(x)] = x
           /\ \A y \in Goroutines : th[y].pc \in Holding /\ Task(y) = Task(x) => y = x
           /\ \A t \in Names : mutex[t] = x => t = Task(x)
<1>1. Task(x) \in Names BY DEF TaskInv, Types, Local, Holding, Tasked, Task
<1>2. mutex[Task(x)] = x BY <1>1 DEF TaskInv, Locks
<1>3. ASSUME NEW y \in Goroutines, th[y].pc \in Holding, Task(y) = Task(x) PROVE y = x
  <2>1. mutex[Task(x)] = y BY <1>1, <1>3 DEF TaskInv, Locks
  <2> QED BY <1>2, <2>1
<1>4. ASSUME NEW t \in Names, mutex[t] = x PROVE t = Task(x) BY <1>4 DEF TaskInv, Locks
<1> QED BY <1>1, <1>2, <1>3, <1>4

\* None is nobody, and no task.
LEMMA Nobody == None \notin Goroutines /\ None \notin Names
BY PressureAssumption DEF Goroutines

\* Start takes the mutex.
LEMMA StartHolds ==
    ASSUME TaskInv, NEW x \in Goroutines, Start(x), status[Task(x)] \in {"Ready", "Waiting"}
    PROVE  TaskInv'
<1>1. PICK n : n = IF Processes[Task(x)] = 0 THEN 1 ELSE Processes[Task(x)] OBVIOUS
<1>2. PICK r : r = [th[x] EXCEPT !.pc = "spawn", !.left = n] OBVIOUS
<1>3. PICK t : t = Task(x) OBVIOUS
<1>4. /\ th[x].pc = "start" /\ mutex[t] = None
      /\ mutex' = [mutex EXCEPT ![t] = x] /\ th' = [th EXCEPT ![x] = r]
      /\ UNCHANGED <<tasks, status, units, queue, proc, calls, failed>>
  BY <1>1, <1>2, <1>3 DEF Start, At, Free
<1>5. t \in Names BY <1>3, <1>4 DEF TaskInv, Types, Local, Tasked, Task
<1>6. r \in Thread /\ r.pc = "spawn" /\ r.task = t /\ Local(r)
  <2>1. th[x] \in Thread BY DEF TaskInv, Types
  <2>2. n \in Int BY <1>1, <1>3, <1>5, PressureAssumption
  <2> QED BY <1>2, <1>3, <1>5, <2>1, <2>2 DEF Thread, Places, Local, Tasked, Listing, Task
<1>7. /\ th' \in [Goroutines -> Thread] /\ \A y \in Goroutines : Local(th'[y])
      /\ \A y \in Goroutines : th'[y] = IF y = x THEN r ELSE th[y]
  BY <1>4, <1>6, ThreadAfter DEF TaskInv
<1>8. \A s \in Names : mutex'[s] = IF s = t THEN x ELSE mutex[s]
  BY <1>4 DEF TaskInv, Types
<1>9. Types'
  <2>1. mutex' \in [Names -> Goroutines \cup {None}] BY <1>4 DEF TaskInv, Types
  <2> QED BY <1>4, <1>7, <2>1 DEF TaskInv, Types, Local
<1>10. Locks'
  <2>1. ASSUME NEW s \in Names, NEW y \in Goroutines
        PROVE  mutex'[s] = y <=> th'[y].pc \in Holding /\ th'[y].task = s
    <3>1. th[x].pc \notin Holding BY <1>4 DEF Holding
    <3>2. mutex[s] = y <=> th[y].pc \in Holding /\ th[y].task = s
      BY DEF TaskInv, Locks, Task
    <3>3. CASE y = x BY <1>6, <1>7, <1>8, <3>1, <3>2, <3>3 DEF Holding
    <3>4. CASE y # x
      <4>1. mutex[t] # y BY <1>4, Nobody
      <4> QED BY <1>7, <1>8, <3>2, <3>4, <4>1
    <3> QED BY <3>3, <3>4
  <2>2. ASSUME NEW y \in Goroutines, th'[y].pc \in Holding
        PROVE  status'[th'[y].task] \in {"Ready", "Waiting"}
    BY <1>3, <1>4, <1>6, <1>7, <2>2 DEF TaskInv, Locks, Task
  <2> QED BY <2>1, <2>2 DEF Locks, Task
<1>11. Belongs'
  <2>1. \A y \in Goroutines : /\ At(y, "append")' <=> At(y, "append")
                              /\ At(y, "append") => th'[y] = th[y]
    BY <1>4, <1>6, <1>7 DEF At
  <2> QED BY <1>4, <2>1 DEF TaskInv, Belongs, Task
<1>12. Progress' /\ Summed' /\ NoRequestRefused' /\ DoneMeansCommitted'
  BY <1>4 DEF TaskInv, Progress, Summed, NoRequestRefused, DoneMeansCommitted
<1>13. Chan' BY <1>4, ChanKept DEF TaskInv
<1> QED BY <1>9, <1>10, <1>11, <1>12, <1>13 DEF TaskInv

\* cmd.Start: the process is fresh.
LEMMA SpawnKeeps ==
    ASSUME TaskInv, NEW x \in Goroutines, Spawn(x)
    PROVE  TaskInv'
<1>0. PICK p \in Pids :
          /\ proc[p] = Unused
          /\ proc' = [proc EXCEPT ![p] = [@ EXCEPT !.task = Task(x), !.by = x, !.pc = "spawned"]]
          /\ th' = [th EXCEPT ![x].pc = "append", ![x].pid = p]
  BY DEF Spawn
<1>1. PICK q, r :
          /\ q = [proc[p] EXCEPT !.task = Task(x), !.by = x, !.pc = "spawned"]
          /\ proc' = [proc EXCEPT ![p] = q]
          /\ r = [th[x] EXCEPT !.pc = "append", !.pid = p] /\ th' = [th EXCEPT ![x] = r]
  BY <1>0
<1>2. th[x].pc = "spawn" /\ UNCHANGED <<tasks, status, units, mutex, queue>>
  BY DEF Spawn, At
<1>3. Task(x) \in Names BY <1>2, Holder DEF Holding
<1>4. /\ proc[p].pc = "unused"
      /\ q \in Process /\ q.task = Task(x) /\ q.by = x /\ q.pc = "spawned"
      /\ ~q.done /\ ~q.stats /\ ~q.refused
  <2>1. /\ proc[p] \in Process
        /\ proc[p].pc = "unused" /\ ~proc[p].done /\ ~proc[p].stats /\ ~proc[p].refused
    <3>1. /\ Unused.pc = "unused" /\ Unused.done = FALSE /\ Unused.stats = FALSE
          /\ Unused.refused = FALSE
      BY Zenon DEF Unused
    <3>2. proc[p] \in Process BY DEF TaskInv, Types
    <3> QED BY <1>0, <3>1, <3>2
  <2> QED BY <1>1, <1>3, <2>1 DEF Process, Phases
<1>5. r \in Thread /\ r.pc = "append" /\ r.pid = p /\ r.task = Task(x) /\ Local(r)
  <2>1. th[x] \in Thread BY DEF TaskInv, Types
  <2>2. p \in Nat BY DEF Pids
  <2> QED BY <1>1, <1>3, <2>1, <2>2 DEF Thread, Places, Local, Tasked, Listing, Task
<1>6. /\ th' \in [Goroutines -> Thread] /\ \A y \in Goroutines : Local(th'[y])
      /\ \A y \in Goroutines : th'[y] = IF y = x THEN r ELSE th[y]
  BY <1>1, <1>5, ThreadAfter DEF TaskInv
<1>7. /\ proc' \in [Pids -> Process]
      /\ \A s \in Pids : proc'[s] = IF s = p THEN q ELSE proc[s]
  BY <1>1, <1>4 DEF TaskInv, Types
<1>8. Types' BY <1>2, <1>6, <1>7 DEF TaskInv, Types, Local
<1>9. Locks'
  <2>1. \A y \in Goroutines : /\ th'[y].pc \in Holding <=> th[y].pc \in Holding
                              /\ th'[y].task = th[y].task
    BY <1>2, <1>5, <1>6 DEF Holding, Task
  <2> QED BY <1>2, <2>1 DEF TaskInv, Locks, Task
<1>10. \A t \in Names : p \notin Range(units[t]) BY <1>4 DEF TaskInv, Belongs
<1>11. \A t \in Names : \A s \in Range(units[t]) : s \in Pids /\ s # p /\ proc'[s] = proc[s]
  BY <1>7, <1>10 DEF TaskInv, Types, Range
<1>12. Belongs'
  <2>1. \A t \in Names : \A s \in Range(units[t]) : proc'[s].task = t /\ proc'[s].pc # "unused"
    BY <1>11 DEF TaskInv, Belongs
  <2>2. ASSUME NEW s \in Pids, proc'[s].pc # "unused"
        PROVE  /\ proc'[s].task \in Names
               /\ \/ s \in Range(units[proc'[s].task])
                  \/ \E y \in Goroutines : th'[y].pc = "append" /\ th'[y].pid = s
    <3>1. CASE s = p BY <1>3, <1>4, <1>5, <1>6, <1>7, <3>1
    <3>2. CASE s # p
      <4>1. \A y \in Goroutines : At(y, "append") => th'[y] = th[y] BY <1>2, <1>6 DEF At
      <4> QED BY <1>7, <2>2, <3>2, <4>1 DEF TaskInv, Belongs, At
    <3> QED BY <3>1, <3>2
  <2>3. \A s \in Pids : proc'[s].pc = "unused" => proc'[s].by = None
    BY <1>4, <1>7 DEF TaskInv, Belongs
  <2>4. ASSUME NEW y \in Goroutines, th'[y].pc = "append"
        PROVE  /\ th'[y].pid \in Pids /\ proc'[th'[y].pid].task = th'[y].task
               /\ proc'[th'[y].pid].by = y /\ proc'[th'[y].pid].pc \in {"spawned", "died"}
    <3>1. CASE y = x BY <1>4, <1>5, <1>6, <1>7, <3>1
    <3>2. CASE y # x
      <4>1. /\ th'[y] = th[y] /\ th[y].pid \in Pids /\ proc[th[y].pid].task = th[y].task
            /\ proc[th[y].pid].by = y /\ proc[th[y].pid].pc \in {"spawned", "died"}
        BY <1>6, <2>4, <3>2 DEF TaskInv, Belongs, At, Task
      <4>2. th[y].pid # p BY <1>4, <4>1
      <4> QED BY <1>7, <4>1, <4>2
    <3> QED BY <3>1, <3>2
  <2> QED BY <1>2, <2>1, <2>2, <2>3, <2>4 DEF Belongs, At, Task
<1>13. Progress' /\ NoRequestRefused'
  BY <1>4, <1>7 DEF TaskInv, Progress, NoRequestRefused
<1>14. Summed' /\ DoneMeansCommitted'
  BY <1>2, <1>11 DEF TaskInv, Summed, DoneMeansCommitted
<1>15. Chan' BY <1>1, <1>2, ChanKept DEF TaskInv
<1> QED BY <1>8, <1>9, <1>12, <1>13, <1>14, <1>15 DEF TaskInv

\* The mutex of a task is given back: by a failed spawn, or with the last unit.
LEMMA Released ==
    ASSUME TaskInv, NEW x \in Goroutines, th[x].pc \in Holding, NEW r \in Thread, Local(r),
           r.pc \notin Holding, th' = [th EXCEPT ![x] = r],
           mutex' = [mutex EXCEPT ![Task(x)] = None],
           NEW v \in Statuses, status' = [status EXCEPT ![Task(x)] = v]
    PROVE  Locks'
<1>1. /\ th' \in [Goroutines -> Thread] /\ \A y \in Goroutines : Local(th'[y])
      /\ \A y \in Goroutines : th'[y] = IF y = x THEN r ELSE th[y]
  BY ThreadAfter DEF TaskInv
<1>2. PICK t \in Names : /\ t = Task(x) /\ mutex[t] = x
                         /\ \A y \in Goroutines : th[y].pc \in Holding /\ Task(y) = t => y = x
                         /\ \A s \in Names : mutex[s] = x => s = t
  BY Holder
<1>3. /\ \A s \in Names : mutex'[s] = IF s = t THEN None ELSE mutex[s]
      /\ \A s \in Names : status'[s] = IF s = t THEN v ELSE status[s]
  BY <1>2 DEF TaskInv, Types
<1>4. ASSUME NEW s \in Names, NEW y \in Goroutines
      PROVE  mutex'[s] = y <=> th'[y].pc \in Holding /\ th'[y].task = s
  <2>1. mutex[s] = y <=> th[y].pc \in Holding /\ Task(y) = s BY DEF TaskInv, Locks
  <2>2. CASE y = x
    <3>1. th'[y].pc \notin Holding BY <1>1, <2>2
    <3>2. mutex'[s] # y BY <1>2, <1>3, <2>2, Nobody
    <3> QED BY <3>1, <3>2
  <2>3. CASE y # x
    <3>1. CASE s = t BY <1>1, <1>2, <1>3, <2>1, <2>3, <3>1, Nobody DEF Task
    <3>2. CASE s # t BY <1>1, <1>3, <2>1, <2>3, <3>2 DEF Task
    <3> QED BY <3>1, <3>2
  <2> QED BY <2>2, <2>3
<1>5. ASSUME NEW y \in Goroutines, th'[y].pc \in Holding
      PROVE  status'[th'[y].task] \in {"Ready", "Waiting"}
  <2>1. y # x /\ th'[y] = th[y] BY <1>1, <1>5
  <2>2. Task(y) \in Names /\ Task(y) # t BY <1>2, <1>5, <2>1, Holder DEF Task
  <2> QED BY <1>3, <1>5, <2>1, <2>2 DEF TaskInv, Locks, Task
<1> QED BY <1>4, <1>5 DEF Locks, Task

LEMMA SpawnFailsKeeps ==
    ASSUME TaskInv, NEW x \in Goroutines, SpawnFails(x)
    PROVE  TaskInv'
<1>1. PICK r : r = [th[x] EXCEPT !.pc = AfterStart(x)] OBVIOUS
<1>2. /\ th[x].pc = "spawn" /\ th' = [th EXCEPT ![x] = r]
      /\ mutex' = [mutex EXCEPT ![Task(x)] = None]
      /\ UNCHANGED <<tasks, status, units, queue, proc>>
  BY <1>1 DEF SpawnFails, At, Goto
<1>3. Task(x) \in Names BY <1>2, Holder DEF Holding
<1>4. r \in Thread /\ r.pc \in {"wait all", "idle"} /\ Local(r)
  <2>1. th[x] \in Thread BY DEF TaskInv, Types
  <2> QED BY <1>1, <1>3, <2>1 DEF Thread, Places, Local, Tasked, Listing, Task, AfterStart
<1>5. /\ th' \in [Goroutines -> Thread] /\ \A y \in Goroutines : Local(th'[y])
      /\ \A y \in Goroutines : th'[y] = IF y = x THEN r ELSE th[y]
  BY <1>2, <1>4, ThreadAfter DEF TaskInv
<1>6. Types'
  <2>1. mutex' \in [Names -> Goroutines \cup {None}] BY <1>2 DEF TaskInv, Types
  <2> QED BY <1>2, <1>5, <2>1 DEF TaskInv, Types, Local
<1>7. Locks'
  <2>1. PICK v \in Statuses : v = status[Task(x)] BY <1>3 DEF TaskInv, Types
  <2>2. status' = [status EXCEPT ![Task(x)] = v] BY <1>2, <2>1 DEF TaskInv, Types
  <2>3. r.pc \notin Holding /\ th[x].pc \in Holding BY <1>2, <1>4 DEF Holding
  <2> QED BY <1>2, <1>4, <2>2, <2>3, Released
<1>8. Belongs'
  <2>1. \A y \in Goroutines : /\ At(y, "append")' <=> At(y, "append")
                              /\ At(y, "append") => th'[y] = th[y]
    BY <1>2, <1>4, <1>5 DEF At
  <2> QED BY <1>2, <2>1 DEF TaskInv, Belongs, Task
<1>9. Progress' /\ Summed' /\ NoRequestRefused' /\ DoneMeansCommitted'
  BY <1>2 DEF TaskInv, Progress, Summed, NoRequestRefused, DoneMeansCommitted
<1>10. Chan' BY <1>2, ChanKept DEF TaskInv
<1> QED BY <1>6, <1>7, <1>8, <1>9, <1>10 DEF TaskInv

\* The members of a sequence of units with a unit appended.
LEMMA RangeAppended ==
    ASSUME NEW S, NEW s \in Seq(S), NEW p \in S
    PROVE  /\ Append(s, p) \in Seq(S) /\ Range(Append(s, p)) = Range(s) \cup {p}
           /\ Range(s) \subseteq S
<1>1. /\ DOMAIN Append(s, p) = 1 .. (Len(s) + 1) /\ DOMAIN s = 1 .. Len(s) /\ Len(s) \in Nat
      /\ \A i \in 1 .. Len(s) : Append(s, p)[i] = s[i]
      /\ Append(s, p)[Len(s) + 1] = p
  OBVIOUS
<1>2. ASSUME NEW e \in Range(Append(s, p)) PROVE e \in Range(s) \cup {p}
  <2>1. PICK i \in 1 .. (Len(s) + 1) : e = Append(s, p)[i] BY <1>1 DEF Range
  <2>2. CASE i = Len(s) + 1 BY <1>1, <2>1, <2>2
  <2>3. CASE i # Len(s) + 1
    <3>1. i \in 1 .. Len(s) BY <1>1, <2>3
    <3> QED BY <1>1, <2>1, <3>1 DEF Range
  <2> QED BY <2>2, <2>3
<1>3. ASSUME NEW e \in Range(s) PROVE e \in Range(Append(s, p)) /\ e \in S
  <2>1. PICK i \in 1 .. Len(s) : e = s[i] BY <1>1 DEF Range
  <2>2. i \in 1 .. (Len(s) + 1) BY <1>1
  <2> QED BY <1>1, <2>1, <2>2 DEF Range
<1>4. p \in Range(Append(s, p))
  <2>1. Len(s) + 1 \in 1 .. (Len(s) + 1) BY <1>1
  <2> QED BY <1>1, <2>1 DEF Range
<1>5. Append(s, p) \in Seq(S) OBVIOUS
<1> QED BY <1>2, <1>3, <1>4, <1>5

LEMMA AppendUnitKeeps ==
    ASSUME TaskInv, NEW x \in Goroutines, AppendUnit(x)
    PROVE  TaskInv'
<1>1. PICK t, p, k : t = Task(x) /\ p = th[x].pid /\ k = th[x].left OBVIOUS
<1>2. PICK l, r : /\ l = IF k = 1 THEN AfterStart(x) ELSE "spawn"
                  /\ r = [th[x] EXCEPT !.left = k - 1, !.pc = l]
  OBVIOUS
<1>3. /\ th[x].pc = "append"
      /\ units' = [units EXCEPT ![t] = Append(@, p)]
      /\ status' = IF k = 1 THEN [status EXCEPT ![t] = "Running"] ELSE status
      /\ mutex' = IF k = 1 THEN [mutex EXCEPT ![t] = None] ELSE mutex
      /\ th' = [th EXCEPT ![x] = r]
      /\ UNCHANGED <<tasks, queue, proc>>
  BY <1>1, <1>2 DEF AppendUnit, At
<1>4. t \in Names /\ \A y \in Goroutines : th[y].pc \in Holding /\ Task(y) = t => y = x
  BY <1>1, <1>3, Holder DEF Holding
<1>5. /\ p \in Pids /\ proc[p].task = t /\ proc[p].by = x
      /\ proc[p].pc \in {"spawned", "died"}
  BY <1>1, <1>3 DEF TaskInv, Belongs, At
<1>6. r \in Thread /\ Local(r) /\ r.pc = l /\ r.task = t
  <2>1. th[x] \in Thread BY DEF TaskInv, Types
  <2>2. l \in {"wait all", "idle", "spawn"} BY <1>2 DEF AfterStart
  <2>3. r \in Thread /\ r.pc = l /\ r.task = t
    <3>1. k - 1 \in Int BY <1>1, <2>1 DEF Thread
    <3> QED BY <1>1, <1>2, <2>1, <2>2, <3>1 DEF Thread, Places, Task
  <2> QED BY <1>4, <2>2, <2>3 DEF Local, Listing
<1>7. /\ r.pc # "append"
      /\ k = 1 => r.pc \notin Holding
      /\ k # 1 => r.pc \in Holding
  <2>1. AfterStart(x) \in {"wait all", "idle"} BY DEF AfterStart
  <2>2. CASE k = 1
    <3>1. l = AfterStart(x) BY <1>2, <2>2
    <3> QED BY <1>6, <2>1, <2>2, <3>1 DEF Holding
  <2>3. CASE k # 1
    <3>1. l = "spawn" BY <1>2, <2>3
    <3> QED BY <1>6, <2>3, <3>1 DEF Holding
  <2> QED BY <2>2, <2>3
<1>8. /\ th' \in [Goroutines -> Thread] /\ \A y \in Goroutines : Local(th'[y])
      /\ \A y \in Goroutines : th'[y] = IF y = x THEN r ELSE th[y]
  BY <1>3, <1>6, ThreadAfter DEF TaskInv
<1>9. units[t] \in Seq(Pids) BY <1>4 DEF TaskInv, Types
<1>10. /\ units' \in [Names -> Seq(Pids)]
       /\ \A s \in Names \ {t} : units'[s] = units[s]
       /\ Range(units'[t]) = Range(units[t]) \cup {p}
  BY <1>3, <1>4, <1>5, <1>9, RangeAppended DEF TaskInv, Types
<1>11. Types'
  <2>1. status' \in [Names -> Statuses] BY <1>3 DEF TaskInv, Types, Statuses
  <2>2. mutex' \in [Names -> Goroutines \cup {None}] BY <1>3 DEF TaskInv, Types
  <2> QED BY <1>3, <1>8, <1>10, <2>1, <2>2 DEF TaskInv, Types, Local
<1>12. Locks'
  <2>1. CASE k = 1
    <3>1. "Running" \in Statuses /\ th[x].pc \in Holding BY <1>3 DEF Statuses, Holding
    <3> QED BY <1>1, <1>3, <1>6, <1>7, <2>1, <3>1, Released
  <2>2. CASE k # 1
    <3>1. \A y \in Goroutines : /\ th'[y].pc \in Holding <=> th[y].pc \in Holding
                                /\ th'[y].task = th[y].task
      BY <1>1, <1>3, <1>6, <1>7, <1>8, <2>2 DEF Holding, Task
    <3> QED BY <1>3, <2>2, <3>1 DEF TaskInv, Locks, Task
  <2> QED BY <2>1, <2>2
<1>13. Belongs'
  <2>1. \A s \in Names : \A q \in Range(units'[s]) : proc[q].task = s /\ proc[q].pc # "unused"
    BY <1>5, <1>10 DEF TaskInv, Belongs
  <2>2. ASSUME NEW q \in Pids, proc[q].pc # "unused"
        PROVE  /\ proc[q].task \in Names
               /\ \/ q \in Range(units'[proc[q].task])
                  \/ \E y \in Goroutines : th'[y].pc = "append" /\ th'[y].pid = q
    <3>1. CASE q = p BY <1>4, <1>5, <1>10, <3>1
    <3>2. CASE q # p
      <4>1. \/ q \in Range(units[proc[q].task])
            \/ \E y \in Goroutines : y # x /\ th[y].pc = "append" /\ th[y].pid = q
        BY <1>1, <2>2, <3>2 DEF TaskInv, Belongs, At
      <4>2. proc[q].task \in Names BY <2>2 DEF TaskInv, Belongs
      <4> QED BY <1>8, <1>10, <4>1, <4>2
    <3> QED BY <3>1, <3>2
  <2>3. \A y \in Goroutines : th'[y].pc = "append" => th'[y] = th[y] /\ th[y].pc = "append"
    BY <1>7, <1>8
  <2> QED BY <1>3, <2>1, <2>2, <2>3 DEF TaskInv, Belongs, At, Task
<1>14. Progress' /\ NoRequestRefused' BY <1>3 DEF TaskInv, Progress, NoRequestRefused
<1>15. \A s \in Names \ {t} : status'[s] = status[s] BY <1>3 DEF TaskInv, Types
<1>16. Summed'
  <2>1. ASSUME NEW s \in Names, units'[s] # <<>>, \A q \in Range(units'[s]) : proc[q].pc = "exited"
        PROVE  status'[s] \in {"Done", "Waiting"}
    BY <1>5, <1>10, <1>15, <2>1 DEF TaskInv, Summed
  <2> QED BY <1>3, <2>1 DEF Summed
<1>17. DoneMeansCommitted'
  <2>1. ASSUME NEW s \in Names, status'[s] = "Done", NEW q \in Range(units'[s])
        PROVE  proc[q].done /\ proc[q].stats
    <3>1. s # t
      <4>1. status[t] \in {"Ready", "Waiting"} BY <1>1, <1>3 DEF TaskInv, Locks, Holding
      <4>2. status'[t] # "Done" BY <1>3, <1>4, <4>1 DEF TaskInv, Types
      <4> QED BY <2>1, <4>2
    <3> QED BY <1>10, <1>15, <2>1, <3>1 DEF TaskInv, DoneMeansCommitted
  <2> QED BY <1>3, <2>1 DEF DoneMeansCommitted
<1>18. Chan' BY <1>3, ChanKept DEF TaskInv
<1> QED BY <1>11, <1>12, <1>13, <1>14, <1>16, <1>17, <1>18 DEF TaskInv

\* AddSchedule while nobody holds the mutex.
LEMMA ScheduleKeeps ==
    ASSUME TaskInv, NEW x \in Goroutines, Schedule(x)
    PROVE  TaskInv'
<1>1. PICK r : r = [th[x] EXCEPT !.pc = "send"] OBVIOUS
<1>2. PICK t : t = Task(x) OBVIOUS
<1>3. /\ th[x].pc = "schedule" /\ mutex[t] = None
      /\ status' = [status EXCEPT ![t] = "Waiting"] /\ th' = [th EXCEPT ![x] = r]
      /\ UNCHANGED <<tasks, units, mutex, queue, proc>>
  BY <1>1, <1>2 DEF Schedule, At, Goto, Free
<1>4. r \in Thread /\ r.pc = "send" /\ Local(r)
  <2>1. th[x] \in Thread /\ Local(th[x]) BY DEF TaskInv, Types
  <2> QED BY <1>1, <1>3, <2>1 DEF Thread, Places, Local, Tasked, Listing
<1>5. /\ th' \in [Goroutines -> Thread] /\ \A y \in Goroutines : Local(th'[y])
      /\ \A y \in Goroutines : th'[y] = IF y = x THEN r ELSE th[y]
  BY <1>3, <1>4, ThreadAfter DEF TaskInv
<1>6. \A s \in Names : status'[s] = IF s = t THEN "Waiting" ELSE status[s]
  BY <1>3 DEF TaskInv, Types
<1>7. Types'
  <2>1. status' \in [Names -> Statuses] BY <1>3 DEF TaskInv, Types, Statuses
  <2> QED BY <1>3, <1>5, <2>1 DEF TaskInv, Types, Local
<1>8. \A y \in Goroutines : /\ th'[y].pc \in Holding <=> th[y].pc \in Holding
                            /\ th[y].pc \in Holding => th'[y] = th[y]
  BY <1>3, <1>4, <1>5 DEF Holding
<1>9. Locks'
  <2>1. \A s \in Names, y \in Goroutines : mutex[s] = y <=> th'[y].pc \in Holding /\ th'[y].task = s
    BY <1>8 DEF TaskInv, Locks, Task
  <2>2. ASSUME NEW y \in Goroutines, th'[y].pc \in Holding
        PROVE  status'[th'[y].task] \in {"Ready", "Waiting"}
    <3>1. Task(y) \in Names /\ th'[y].task = Task(y) BY <1>8, <2>2, Holder DEF Task
    <3> QED BY <1>6, <1>8, <2>2, <3>1 DEF TaskInv, Locks
  <2> QED BY <1>3, <2>1, <2>2 DEF Locks, Task
<1>10. Belongs'
  <2>1. \A y \in Goroutines : /\ At(y, "append")' <=> At(y, "append")
                              /\ At(y, "append") => th'[y] = th[y]
    BY <1>3, <1>4, <1>5 DEF At
  <2> QED BY <1>3, <2>1 DEF TaskInv, Belongs, Task
<1>11. Progress' /\ Summed' /\ NoRequestRefused' /\ DoneMeansCommitted'
  BY <1>3, <1>6 DEF TaskInv, Progress, Summed, NoRequestRefused, DoneMeansCommitted
<1>12. Chan' BY <1>3, ChanKept DEF TaskInv
<1> QED BY <1>7, <1>9, <1>10, <1>11, <1>12 DEF TaskInv
-----------------------------------------------------------------------------
(***************************************************************************)
(* Steps of the children.                                                  *)
(***************************************************************************)
\* A process that is answered is one of the units of its task: nobody holds
\* the mutex, so nobody is between its spawn and its entry into Units.
LEMMA KnownUnit ==
    ASSUME TaskInv, NEW p \in Pids, proc[p].pc # "unused", Free(proc[p].task)
    PROVE  proc[p].task \in Names /\ p \in Range(units[proc[p].task])
<1>1. proc[p].task \in Names BY DEF TaskInv, Belongs
<1>2. ASSUME NEW x \in Goroutines, At(x, "append"), th[x].pid = p PROVE FALSE
  <2>1. mutex[Task(x)] = x BY <1>2, Holder DEF At, Holding
  <2>2. Task(x) = proc[p].task BY <1>2 DEF TaskInv, Belongs
  <2> QED BY <2>1, <2>2, Nobody DEF Free
<1> QED BY <1>1, <1>2 DEF TaskInv, Belongs

\* Process p goes on; it stays a process of its task.
LEMMA ProcessStep ==
    ASSUME TaskInv, NEW p \in Pids, NEW q \in Process, proc' = [proc EXCEPT ![p] = q],
           proc[p].pc # "unused", q.pc # "unused", q.task = proc[p].task, q.by = proc[p].by,
           ~q.refused, proc[p].done => q.done, proc[p].stats => q.stats,
           q.done \/ q.pc \in {"committed", "reporting", "exited"} => q.stats,
           q.pc \in {"reporting", "exited"} => q.done,
           Free(proc[p].task) \/ q.pc = "died",
           q.pc = "exited" => /\ proc[p].done
                              /\ status'[proc[p].task] = "Done" \/ ~AllDone(proc[p].task),
           \A t \in Names : \/ status'[t] = status[t]
                            \/ status'[t] = "Done" /\ AllDone(t) /\ Free(t),
           status' \in [Names -> Statuses],
           UNCHANGED <<tasks, units, mutex, queue, th>>
    PROVE  TaskInv'
<1>1. /\ proc' \in [Pids -> Process]
      /\ \A s \in Pids : proc'[s] = IF s = p THEN q ELSE proc[s]
  BY DEF TaskInv, Types
<1>2. Types' BY <1>1 DEF TaskInv, Types, Local
<1>3. \A t \in Names : \A s \in Range(units[t]) : s \in Pids
  BY DEF TaskInv, Types, Range
<1>4. Locks'
  <2>1. ASSUME NEW y \in Goroutines, th[y].pc \in Holding
        PROVE  status'[Task(y)] \in {"Ready", "Waiting"}
    <3>1. Task(y) \in Names /\ ~Free(Task(y)) BY <2>1, Holder, Nobody DEF Free
    <3> QED BY <2>1, <3>1 DEF TaskInv, Locks
  <2> QED BY <2>1 DEF TaskInv, Locks, Task
<1>5. Belongs'
  <2>1. \A t \in Names : \A s \in Range(units[t]) : proc'[s].task = t /\ proc'[s].pc # "unused"
    BY <1>1, <1>3 DEF TaskInv, Belongs
  <2>2. \A s \in Pids : proc'[s].pc # "unused" =>
          /\ proc'[s].task \in Names
          /\ \/ s \in Range(units[proc'[s].task])
             \/ \E y \in Goroutines : At(y, "append") /\ th[y].pid = s
    BY <1>1 DEF TaskInv, Belongs
  <2>3. \A s \in Pids : proc'[s].pc = "unused" => proc'[s].by = None
    BY <1>1 DEF TaskInv, Belongs
  <2>4. ASSUME NEW y \in Goroutines, At(y, "append")
        PROVE  /\ th[y].pid \in Pids /\ proc'[th[y].pid].task = Task(y)
               /\ proc'[th[y].pid].by = y /\ proc'[th[y].pid].pc \in {"spawned", "died"}
    <3>1. /\ th[y].pid \in Pids /\ proc[th[y].pid].task = Task(y)
          /\ proc[th[y].pid].by = y /\ proc[th[y].pid].pc \in {"spawned", "died"}
      BY <2>4 DEF TaskInv, Belongs
    <3>2. CASE th[y].pid # p BY <1>1, <3>1, <3>2
    <3>3. CASE th[y].pid = p
      <4>1. mutex[Task(y)] = y BY <2>4, Holder DEF At, Holding
      <4>2. q.pc \in {"spawned", "died"}
        BY <3>1, <3>3, <4>1, Nobody DEF Free
      <4> QED BY <1>1, <3>1, <3>3, <4>2
    <3> QED BY <3>2, <3>3
  <2> QED BY <2>1, <2>2, <2>3, <2>4 DEF Belongs, At, Task
<1>6. Progress' /\ NoRequestRefused'
  BY <1>1 DEF TaskInv, Progress, NoRequestRefused
<1>7. Summed'
  <2> SUFFICES ASSUME NEW t \in Names, units[t] # <<>>,
                      \A s \in Range(units[t]) : proc'[s].pc = "exited"
               PROVE  status'[t] \in {"Done", "Waiting"}
    BY DEF Summed
  <2>1. CASE p \in Range(units[t])
    <3>1. proc[p].task = t BY <2>1 DEF TaskInv, Belongs
    <3>2. \A s \in Range(units[t]) : proc[s].done
      BY <1>1, <1>3, <2>1 DEF TaskInv, Progress
    <3> QED BY <1>1, <2>1, <3>1, <3>2 DEF AllDone
  <2>2. CASE p \notin Range(units[t])
    <3>1. \A s \in Range(units[t]) : proc[s].pc = "exited" BY <1>1, <1>3, <2>2
    <3> QED BY <3>1 DEF TaskInv, Summed
  <2> QED BY <2>1, <2>2
<1>8. DoneMeansCommitted'
  <2> SUFFICES ASSUME NEW t \in Names, status'[t] = "Done", NEW s \in Range(units[t])
               PROVE  proc'[s].done /\ proc'[s].stats
    BY DEF DoneMeansCommitted
  <2>1. s \in Pids /\ proc[s].done /\ proc[s].stats
    BY <1>3 DEF TaskInv, DoneMeansCommitted, AllDone, Progress
  <2> QED BY <1>1, <2>1
<1>9. Chan' BY DEF TaskInv, Chan, At
<1> QED BY <1>2, <1>4, <1>5, <1>6, <1>7, <1>8, <1>9 DEF TaskInv
\* A request finds the process among the units, so it becomes what it asks.
LEMMA RequestStep ==
    ASSUME TaskInv, NEW p \in Pids, NEW q \in Process, Request(p, q),
           proc[p].pc # "unused", q.pc \notin {"unused", "exited"},
           q.task = proc[p].task, q.by = proc[p].by,
           ~q.refused, proc[p].done => q.done, proc[p].stats => q.stats,
           q.done \/ q.pc \in {"committed", "reporting"} => q.stats,
           q.pc = "reporting" => q.done
    PROVE  TaskInv'
<1>1. Free(proc[p].task) BY DEF Request, Searchable
<1>2. p \in Range(units[proc[p].task]) BY <1>1, KnownUnit
<1>3. proc' = [proc EXCEPT ![p] = q] /\ UNCHANGED <<tasks, status, units, mutex, queue, th>>
  BY <1>2 DEF Request
<1>4. status' \in [Names -> Statuses] /\ \A t \in Names : status'[t] = status[t]
  BY <1>3 DEF TaskInv, Types
<1> QED BY <1>1, <1>3, <1>4, ProcessStep

LEMMA ChildKeeps ==
    ASSUME TaskInv, NEW p \in Pids, Child(p) \/ Die(p)
    PROVE  TaskInv'
<1>1. proc[p] \in Process /\ ~proc[p].refused /\ (proc[p].done => proc[p].stats)
  BY DEF TaskInv, Types, NoRequestRefused, Progress
<1>2. CASE FetchCfg(p)
  <2>1. PICK q : q = [proc[p] EXCEPT !.pc = "testing"] OBVIOUS
  <2>2. proc[p].pc = "spawned" /\ Request(p, q) BY <1>2, <2>1 DEF FetchCfg
  <2>3. /\ q \in Process /\ q.pc = "testing" /\ q.task = proc[p].task /\ q.by = proc[p].by
        /\ q.refused = proc[p].refused /\ q.done = proc[p].done /\ q.stats = proc[p].stats
    BY <1>1, <2>1 DEF Process, Phases
  <2> QED BY <1>1, <2>2, <2>3, RequestStep
<1>3. CASE CommitStats(p)
  <2>1. PICK q : q = [proc[p] EXCEPT !.pc = "committed", !.stats = TRUE] OBVIOUS
  <2>2. proc[p].pc = "testing" /\ Request(p, q) BY <1>3, <2>1 DEF CommitStats
  <2>3. /\ q \in Process /\ q.pc = "committed" /\ q.task = proc[p].task /\ q.by = proc[p].by
        /\ q.refused = proc[p].refused /\ q.done = proc[p].done /\ q.stats = TRUE
    BY <1>1, <2>1 DEF Process, Phases
  <2> QED BY <1>1, <2>2, <2>3, RequestStep
<1>4. CASE Report(p)
  <2>1. PICK q : q = [proc[p] EXCEPT !.pc = "reporting", !.done = TRUE] OBVIOUS
  <2>2. proc[p].pc = "committed" /\ Request(p, q) BY <1>4, <2>1 DEF Report
  <2>3. /\ q \in Process /\ q.pc = "reporting" /\ q.task = proc[p].task /\ q.by = proc[p].by
        /\ q.refused = proc[p].refused /\ q.done = TRUE /\ q.stats = proc[p].stats
    BY <1>1, <2>1 DEF Process, Phases
  <2>4. proc[p].stats BY <2>2 DEF TaskInv, Progress
  <2> QED BY <1>1, <2>2, <2>3, <2>4, RequestStep
<1>5. CASE UpdateStatus(p)
  <2>1. PICK q, t : q = [proc[p] EXCEPT !.pc = "exited"] /\ t = proc[p].task OBVIOUS
  <2>2. /\ proc[p].pc = "reporting" /\ Free(t) /\ proc' = [proc EXCEPT ![p] = q]
        /\ status' = IF AllDone(t) THEN [status EXCEPT ![t] = "Done"] ELSE status
        /\ UNCHANGED <<tasks, units, mutex, queue, th>>
    BY <1>5, <2>1 DEF UpdateStatus
  <2>3. /\ q \in Process /\ q.pc = "exited" /\ q.task = proc[p].task /\ q.by = proc[p].by
        /\ q.refused = proc[p].refused /\ q.done = proc[p].done /\ q.stats = proc[p].stats
    BY <1>1, <2>1 DEF Process, Phases
  <2>4. proc[p].stats /\ proc[p].done BY <2>2 DEF TaskInv, Progress
  <2>5. t \in Names BY <2>1, <2>2 DEF TaskInv, Belongs
  <2>6. /\ status' \in [Names -> Statuses]
        /\ status'[t] = "Done" \/ ~AllDone(t)
        /\ \A s \in Names : \/ status'[s] = status[s]
                            \/ status'[s] = "Done" /\ AllDone(s) /\ Free(s)
    BY <2>2, <2>5 DEF TaskInv, Types, Statuses
  <2> QED BY <1>1, <2>1, <2>2, <2>3, <2>4, <2>6, ProcessStep
<1>6. CASE Die(p)
  <2>1. PICK q : q = [proc[p] EXCEPT !.pc = "died"] OBVIOUS
  <2>2. /\ proc[p].pc # "unused" /\ proc' = [proc EXCEPT ![p] = q]
        /\ UNCHANGED <<tasks, status, units, mutex, queue, th>>
    BY <1>6, <2>1 DEF Die
  <2>3. /\ q \in Process /\ q.pc = "died" /\ q.task = proc[p].task /\ q.by = proc[p].by
        /\ q.refused = proc[p].refused /\ q.done = proc[p].done /\ q.stats = proc[p].stats
    BY <1>1, <2>1 DEF Process, Phases
  <2>4. status' \in [Names -> Statuses] /\ \A t \in Names : status'[t] = status[t]
    BY <2>2 DEF TaskInv, Types
  <2> QED BY <1>1, <2>2, <2>3, <2>4, ProcessStep
<1> QED BY <1>2, <1>3, <1>4, <1>5, <1>6 DEF Child
-----------------------------------------------------------------------------
(***************************************************************************)
(* The loop and the web requests.                                          *)
(***************************************************************************)
\* What goroutine x is after a step that touches no task: r.
Quiet(x, r) ==
    /\ r \in Thread /\ Local(r) /\ th' = [th EXCEPT ![x] = r]
    /\ th[x].pc \notin Holding /\ r.pc \notin Holding
    /\ tasks' \in Seq(Names) /\ (queue' = NoChan \/ queue' \in Seq(Names))
    /\ queue' = NoChan => queue = NoChan /\ th[x].pc # "make"
    /\ UNCHANGED <<status, units, mutex, proc>>

LEMMA QuietKeeps ==
    ASSUME TaskInv, NEW x \in Goroutines, \E r : Quiet(x, r)
    PROVE  TaskInv'
BY Elsewhere DEF Quiet

\* The record of an idle goroutine, at one of the places where it may begin.
LEMMA IdleThread ==
    /\ Idle \in Thread /\ Idle.pc = "idle" /\ Idle.task = None /\ Idle.rest = <<>>
    /\ \A l \in Places : LET r == [Idle EXCEPT !.pc = l]
                         IN  r \in Thread /\ r.pc = l /\ r.rest = <<>> /\ r.out = None
<1>1. /\ Idle.pc = "idle" /\ Idle.task = None /\ Idle.rest = <<>> /\ Idle.left = 0
      /\ Idle.pid = 0 /\ Idle.out = None
  BY DEF Idle
<1>2. Idle \in Thread
  <2>1. "idle" \in Places /\ None \in Names \cup {None} /\ <<>> \in Seq(Names) \cup Seq(Pids)
        /\ 0 \in Int /\ 0 \in Nat /\ None \in (SUBSET Pids) \cup {None}
    BY DEF Places
  <2> QED BY ONLY <2>1, Zenon DEF Idle, Thread
<1>3. ASSUME NEW l \in Places
      PROVE  LET r == [Idle EXCEPT !.pc = l]
             IN  r \in Thread /\ r.pc = l /\ r.rest = <<>> /\ r.out = None
  BY <1>1, <1>2 DEF Thread
<1> QED BY <1>1, <1>2, <1>3

LEMMA LoopQuiet ==
    ASSUME TaskInv,
           \/ MakeChan \/ Receive \/ Check \/ WaitAll
           \/ Start(Loop) /\ status[Task(Loop)] \notin {"Ready", "Waiting"}
    PROVE  \E r : Quiet(Loop, r)
<1>1. /\ Loop \in Goroutines /\ th[Loop] \in Thread /\ Local(th[Loop])
      /\ tasks \in Seq(Names)
  BY DEF TaskInv, Types, Goroutines
<1>2. CASE MakeChan
  <2>1. PICK r : r = [th[Loop] EXCEPT !.pc = "receive"] OBVIOUS
  <2>2. r \in Thread /\ r.pc = "receive" BY <1>1, <2>1 DEF Thread, Places
  <2>3. Local(r) BY <2>2 DEF Local, Tasked, Listing
  <2>4. queue' = <<>> /\ <<>> \in Seq(Names) /\ <<>> # NoChan
    <3>1. <<>> \in Seq(Names) OBVIOUS
    <3> QED BY <1>2, <3>1, PressureAssumption DEF MakeChan
  <2>5. th[Loop].pc = "make" /\ th' = [th EXCEPT ![Loop] = r]
        /\ UNCHANGED <<tasks, status, units, mutex, proc>>
    BY <1>2, <2>1 DEF MakeChan, At, Goto
  <2> QED BY <1>1, <2>2, <2>3, <2>4, <2>5 DEF Quiet, Holding
<1>3. CASE Receive
  <2>1. /\ th[Loop].pc = "receive" /\ queue # <<>> /\ queue' = Tail(queue)
        /\ th' = [th EXCEPT ![Loop].pc = "check", ![Loop].task = Head(queue)]
        /\ UNCHANGED <<tasks, status, units, mutex, proc>>
    BY <1>3 DEF Receive, At
  <2>2. queue \in Seq(Names) BY <2>1 DEF TaskInv, Types, Chan, At
  <2>3. Tail(queue) \in Seq(Names) /\ Head(queue) \in Names BY <2>1, <2>2
  <2>4. PICK r : r = [th[Loop] EXCEPT !.pc = "check", !.task = Head(queue)] OBVIOUS
  <2>5. r \in Thread /\ r.pc = "check" /\ r.task \in Names
    BY <1>1, <2>3, <2>4 DEF Thread, Places
  <2>6. Local(r) BY <2>5 DEF Local, Listing
  <2>7. queue' # NoChan BY <2>1, <2>3, PressureAssumption
  <2> QED BY <1>1, <2>1, <2>3, <2>4, <2>5, <2>6, <2>7 DEF Quiet, Holding
<1>4. CASE Check
  <2>1. PICK l \in {"start", "receive"} : th' = [th EXCEPT ![Loop].pc = l]
    BY <1>4 DEF Check, Goto
  <2>2. PICK r : r = [th[Loop] EXCEPT !.pc = l] OBVIOUS
  <2>3. r \in Thread /\ r.pc = l /\ r.task = Task(Loop)
    BY <1>1, <2>2 DEF Thread, Places, Task
  <2>4. Local(r) BY <1>1, <1>4, <2>3 DEF Check, At, Local, Tasked, Listing, Task
  <2> QED BY <1>1, <1>4, <2>1, <2>2, <2>3, <2>4 DEF Check, At, Quiet, Holding, TaskInv, Types
<1>5. CASE Start(Loop) /\ status[Task(Loop)] \notin {"Ready", "Waiting"}
  <2>1. PICK r : r = [th[Loop] EXCEPT !.pc = "wait all"] OBVIOUS
  <2>2. r \in Thread /\ r.pc = "wait all" /\ r.task = Task(Loop)
    BY <1>1, <2>1 DEF Thread, Places, Task
  <2>3. Local(r) BY <1>1, <1>5, <2>2 DEF Start, At, Local, Tasked, Listing, Task
  <2> QED BY <1>1, <1>5, <2>1, <2>2, <2>3
          DEF Start, At, Goto, AfterStart, Quiet, Holding, TaskInv, Types
<1>6. CASE WaitAll
  <2>1. CASE At(Loop, "wait all") /\ th' = [th EXCEPT ![Loop].pc = "waiting",
                                                     ![Loop].rest = units[Task(Loop)]]
    <3>1. PICK r : r = [th[Loop] EXCEPT !.pc = "waiting", !.rest = units[Task(Loop)]] OBVIOUS
    <3>2. Task(Loop) \in Names BY <1>1, <2>1 DEF At, Local, Tasked, Task
    <3>3. units[Task(Loop)] \in Seq(Pids) BY <3>2 DEF TaskInv, Types
    <3>4. r \in Thread /\ r.pc = "waiting" /\ r.task = Task(Loop)
      BY <1>1, <3>1, <3>3 DEF Thread, Places, Task
    <3>5. Local(r) BY <3>2, <3>4 DEF Local, Listing
    <3> QED BY <1>1, <1>6, <2>1, <3>1, <3>4, <3>5 DEF WaitAll, At, Quiet, Holding, TaskInv, Types
  <2>2. CASE At(Loop, "waiting") /\ th' = [th EXCEPT ![Loop] = [Idle EXCEPT !.pc = "receive"]]
    <3>1. PICK r : r = [Idle EXCEPT !.pc = "receive"] OBVIOUS
    <3>2. r \in Thread /\ r.pc = "receive" BY <3>1, IdleThread DEF Places
    <3>3. Local(r) BY <3>2 DEF Local, Tasked, Listing
    <3> QED BY <1>1, <1>6, <2>2, <3>1, <3>2, <3>3 DEF WaitAll, At, Quiet, Holding, TaskInv, Types
  <2> QED BY <1>6, <2>1, <2>2 DEF WaitAll
<1> QED BY <1>2, <1>3, <1>4, <1>5, <1>6

\* A request that begins: the new goroutine's record is one that Call is given.
LEMMA CallQuiet ==
    ASSUME TaskInv, NEW w \in Web, CallStartAll(w) \/ CallStart(w) \/ CallExport(w)
    PROVE  \E r : Quiet(w, r)
<1>1. w \in Goroutines /\ tasks \in Seq(Names) /\ th[w] \in Thread
  BY DEF TaskInv, Types, Goroutines
<1>2. ASSUME NEW r, Call(w, r), r \in Thread, Local(r), r.pc \notin Holding
      PROVE  Quiet(w, r)
  BY <1>1, <1>2 DEF Call, At, Quiet, Holding, TaskInv, Types
<1>0. Idle \in Thread BY IdleThread
<1>3. CASE CallStartAll(w)
  <2>1. PICK r : r = [Idle EXCEPT !.pc = "each", !.rest = tasks] OBVIOUS
  <2>2. r \in Thread /\ r.pc = "each" /\ r.rest = tasks
    BY <1>0, <1>1, <2>1 DEF Thread, Places
  <2>3. Local(r) /\ r.pc \notin Holding BY <1>1, <2>2 DEF Local, Tasked, Holding
  <2> QED BY <1>2, <1>3, <2>1, <2>2, <2>3 DEF CallStartAll
<1>4. ASSUME NEW l \in {"start", "stats"}, NEW n \in Range(tasks),
             Call(w, [Idle EXCEPT !.pc = l, !.task = n])
      PROVE  \E r : Quiet(w, r)
  <2>1. PICK r : r = [Idle EXCEPT !.pc = l, !.task = n] OBVIOUS
  <2>2. n \in Names BY <1>1 DEF Range
  <2>3. r \in Thread /\ r.pc = l /\ r.task = n
    BY <1>0, <2>1, <2>2 DEF Thread, Places
  <2>4. Local(r) /\ r.pc \notin Holding BY <2>2, <2>3 DEF Local, Listing, Holding
  <2> QED BY <1>2, <1>4, <2>1, <2>3, <2>4
<1>5. CASE CallStart(w) BY <1>4, <1>5 DEF CallStart
<1>6. CASE CallExport(w) BY <1>4, <1>6 DEF CallExport
<1> QED BY <1>3, <1>5, <1>6

\* The loop over the tasks.
LEMMA EachQuiet ==
    ASSUME TaskInv, NEW w \in Web, Each(w)
    PROVE  \E r : Quiet(w, r)
<1>1. /\ w \in Goroutines /\ th[w] \in Thread /\ tasks \in Seq(Names)
      /\ th[w].pc = "each" /\ th[w].rest \in Seq(Names)
      /\ UNCHANGED <<tasks, status, units, mutex, queue, proc>>
  BY DEF TaskInv, Types, Goroutines, Each, At, Local, Listing
<1>2. PICK s : s = th[w].rest OBVIOUS
<1>3. \E r : /\ th' = [th EXCEPT ![w] = r] /\ r \in Thread /\ Local(r)
             /\ r.pc \in {"idle", "each", "schedule"}
  <2>1. CASE s = <<>>
    <3>1. th' = [th EXCEPT ![w] = Idle] BY <1>2, <2>1 DEF Each
    <3>2. Local(Idle) BY IdleThread DEF Local, Tasked, Listing
    <3> QED BY <3>1, <3>2, IdleThread
  <2>2. CASE s # <<>>
    <3>1. Head(s) \in Names /\ Tail(s) \in Seq(Names) BY <1>1, <1>2, <2>2
    <3>2. CASE status[Head(s)] = "Ready"
      <4>1. PICK r : r = [th[w] EXCEPT !.pc = "schedule", !.task = Head(s), !.rest = Tail(s)]
        OBVIOUS
      <4>2. th' = [th EXCEPT ![w] = r] BY <1>2, <2>2, <3>2, <4>1 DEF Each
      <4>3. r \in Thread /\ r.pc = "schedule" /\ r.task = Head(s) /\ r.rest = Tail(s)
        BY <1>1, <3>1, <4>1 DEF Thread, Places
      <4>4. Local(r) BY <3>1, <4>3 DEF Local
      <4> QED BY <4>2, <4>3, <4>4
    <3>3. CASE status[Head(s)] # "Ready"
      <4>1. PICK r : r = [th[w] EXCEPT !.rest = Tail(s)] OBVIOUS
      <4>2. th' = [th EXCEPT ![w] = r] BY <1>2, <2>2, <3>3, <4>1 DEF Each
      <4>3. r \in Thread /\ r.pc = "each" /\ r.rest = Tail(s)
        BY <1>1, <3>1, <4>1 DEF Thread
      <4>4. Local(r) BY <3>1, <4>3 DEF Local, Tasked
      <4> QED BY <4>2, <4>3, <4>4
    <3> QED BY <3>2, <3>3
  <2> QED BY <2>1, <2>2
<1> QED BY <1>1, <1>3 DEF Quiet, Holding, TaskInv, Types

LEMMA SendQuiet ==
    ASSUME TaskInv, NEW w \in Web, Send(w)
    PROVE  \E r : Quiet(w, r)
<1>1. /\ w \in Goroutines /\ th[w] \in Thread /\ Local(th[w]) /\ tasks \in Seq(Names)
      /\ th[w].pc = "send" /\ Task(w) \in Names
      /\ UNCHANGED <<tasks, status, units, mutex, proc>>
  BY DEF TaskInv, Types, Goroutines, Send, At, Local, Tasked, Task
<1>2. PICK l \in {"stuck", "each"} :
         /\ th' = [th EXCEPT ![w].pc = l]
         /\ \/ queue = NoChan /\ queue' = queue
            \/ queue # NoChan /\ queue' = Append(queue, Task(w))
  BY DEF Send, Goto
<1>3. PICK r : r = [th[w] EXCEPT !.pc = l] OBVIOUS
<1>4. r \in Thread /\ r.pc = l /\ r.task = th[w].task /\ r.rest = th[w].rest
  BY <1>1, <1>3 DEF Thread, Places
<1>5. Local(r) BY <1>1, <1>4 DEF Local, Tasked, Listing
<1>6. queue' = NoChan => queue = NoChan
  <2>1. queue # NoChan => Append(queue, Task(w)) \in Seq(Names) BY <1>1 DEF TaskInv, Types
  <2> QED BY <1>2, <2>1, PressureAssumption
<1>7. queue' = NoChan \/ queue' \in Seq(Names)
  <2>1. CASE queue = NoChan BY <1>2, <2>1
  <2>2. CASE queue # NoChan
    <3>1. queue \in Seq(Names) BY <2>2 DEF TaskInv, Types
    <3>2. Append(queue, Task(w)) \in Seq(Names) BY <1>1, <3>1
    <3> QED BY <1>2, <2>2, <3>2
  <2> QED BY <2>1, <2>2
<1> QED BY <1>1, <1>2, <1>3, <1>4, <1>5, <1>6, <1>7 DEF Quiet, Holding

\* What is exported of a Done task are the results of all its processes.
LEMMA GetStatsQuiet ==
    ASSUME TaskInv, NEW w \in Web, GetStats(w)
    PROVE  \E r : Quiet(w, r)
<1>1. /\ w \in Goroutines /\ th[w] \in Thread /\ tasks \in Seq(Names)
      /\ th[w].pc = "stats" /\ Task(w) \in Names
      /\ UNCHANGED <<tasks, status, units, mutex, queue, proc>>
  BY DEF TaskInv, Types, Goroutines, GetStats, At, Local, Tasked, Task
<1>2. PICK t : t = Task(w) OBVIOUS
<1>3. units[t] \in Seq(Pids) /\ Range(units[t]) \in SUBSET Pids
  BY <1>1, <1>2 DEF TaskInv, Types, Range
<1>4. Stats(t) = None \/ Stats(t) = Range(units[t])
  <2>1. CASE status[t] = "Done"
    <3>1. \A p \in Range(units[t]) : proc[p].stats
      BY <1>1, <1>2, <2>1 DEF TaskInv, DoneMeansCommitted
    <3> QED BY <2>1, <3>1 DEF Stats
  <2> QED BY <2>1 DEF Stats
<1>5. PICK r : r = [th[w] EXCEPT !.pc = "answer", !.out = Stats(t), !.rest = units[t]]
  OBVIOUS
<1>6. r.pc = "answer" /\ r.task = t /\ r.out = Stats(t) /\ r.rest = units[t]
  BY <1>1, <1>2, <1>5 DEF Thread, Task
<1>7. r \in Thread BY <1>1, <1>3, <1>4, <1>5 DEF Thread, Places
<1>8. Local(r) BY <1>1, <1>2, <1>4, <1>6 DEF Local, Listing
<1>9. th' = [th EXCEPT ![w] = r] BY <1>2, <1>5 DEF GetStats
<1> QED BY <1>1, <1>6, <1>7, <1>8, <1>9 DEF Quiet, Holding, TaskInv, Types

LEMMA OtherQuiet ==
    ASSUME TaskInv, NEW w \in Web,
           \/ Answer(w) \/ \E n \in Names : NewTask(w, n)
           \/ Start(w) /\ status[Task(w)] \notin {"Ready", "Waiting"}
    PROVE  \E r : Quiet(w, r)
<1>1. /\ w \in Goroutines /\ w # Loop /\ th[w] \in Thread /\ Local(th[w])
      /\ tasks \in Seq(Names)
  BY PressureAssumption DEF TaskInv, Types, Goroutines
<1>2. CASE Answer(w)
  <2>1. Local(Idle) BY IdleThread DEF Local, Tasked, Listing
  <2>2. Quiet(w, Idle)
    BY <1>1, <1>2, <2>1, IdleThread DEF Answer, At, Quiet, Holding, TaskInv, Types
  <2> QED BY <2>2
<1>3. CASE \E n \in Names : NewTask(w, n)
  <2>1. PICK n \in Names : /\ th[w].pc = "idle" /\ tasks' = Append(tasks, n)
                           /\ UNCHANGED <<status, units, mutex, queue, proc, th>>
    BY <1>3 DEF NewTask, At
  <2>2. th' = [th EXCEPT ![w] = th[w]] BY <2>1 DEF TaskInv, Types
  <2>3. n \in Names /\ tasks' \in Seq(Names) BY <1>1, <2>1
  <2>4. queue' = NoChan \/ queue' \in Seq(Names) BY <2>1 DEF TaskInv, Types
  <2>5. queue' = NoChan => queue = NoChan /\ th[w].pc # "make" BY <2>1
  <2>6. Quiet(w, th[w]) BY <1>1, <2>1, <2>2, <2>3, <2>4, <2>5 DEF Quiet, Holding
  <2> QED BY <2>6
<1>4. CASE Start(w) /\ status[Task(w)] \notin {"Ready", "Waiting"}
  <2>1. PICK r : r = [th[w] EXCEPT !.pc = "idle"] OBVIOUS
  <2>2. r \in Thread /\ r.pc = "idle" BY <1>1, <2>1 DEF Thread, Places
  <2>3. Local(r) BY <2>2 DEF Local, Tasked, Listing
  <2>4. th' = [th EXCEPT ![w] = r] BY <1>1, <1>4, <2>1 DEF Start, Goto, AfterStart
  <2> QED BY <1>1, <1>4, <2>2, <2>3, <2>4 DEF Start, At, Quiet, Holding, TaskInv, Types
<1> QED BY <1>2, <1>3, <1>4
-----------------------------------------------------------------------------
(***************************************************************************)
(* The invariant, and what follows from it.                                *)
(***************************************************************************)
LEMMA InitTask == Init => TaskInv
<1> SUFFICES ASSUME Init PROVE TaskInv OBVIOUS
<1>1. \A t \in Names : /\ status[t] = "Ready" /\ units[t] = <<>> /\ mutex[t] = None
                       /\ Range(units[t]) = {}
  BY DEF Init, Range
<1>2. \A x \in Goroutines : /\ th[x].pc \in {"idle", "make"} /\ th[x] \in Thread
                            /\ x = Loop => th[x].pc = "make"
  <2>1. \A x \in Goroutines :
           th[x] = IF x = Loop THEN [Idle EXCEPT !.pc = "make"] ELSE Idle
    BY DEF Init
  <2>2. Idle \in Thread /\ Idle.pc = "idle" BY IdleThread
  <2>3. "make" \in Places BY DEF Places
  <2>4. [Idle EXCEPT !.pc = "make"] \in Thread /\ [Idle EXCEPT !.pc = "make"].pc = "make"
    BY <2>2, <2>3 DEF Thread
  <2> QED BY <2>1, <2>2, <2>4
<1>3. \A x \in Goroutines : Local(th[x]) BY <1>2 DEF Local, Tasked, Listing
<1>4. \A p \in Pids : proc[p] \in Process /\ proc[p].pc = "unused" /\ ~proc[p].done
                      /\ ~proc[p].refused /\ ~proc[p].stats /\ proc[p].by = None
  <2>1. /\ Unused.pc = "unused" /\ Unused.done = FALSE /\ Unused.refused = FALSE
        /\ Unused.stats = FALSE /\ Unused.by = None
    BY Zenon DEF Unused
  <2>2. Unused \in Process
    <3>1. None \in Names \cup {None} /\ None \in Goroutines \cup {None}
          /\ "unused" \in Phases /\ FALSE \in BOOLEAN
      BY DEF Phases
    <3> QED BY ONLY <3>1, Zenon DEF Unused, Process
  <2>3. \A p \in Pids : proc[p] = Unused BY DEF Init
  <2> QED BY <2>1, <2>2, <2>3
<1>5. Types
  <2>1. th \in [Goroutines -> Thread] BY <1>2 DEF Init
  <2>2. proc \in [Pids -> Process] BY <1>4 DEF Init
  <2>3. tasks \in Seq(Names) /\ units \in [Names -> Seq(Pids)] BY DEF Init
  <2>4. status \in [Names -> Statuses] /\ mutex \in [Names -> Goroutines \cup {None}]
    BY DEF Init, Statuses
  <2> QED BY <1>3, <2>1, <2>2, <2>3, <2>4 DEF Types, Init
<1>6. Locks BY <1>1, <1>2, Nobody DEF Locks, Holding
<1>7. Belongs BY <1>1, <1>2, <1>4 DEF Belongs, At
<1>8. Progress /\ Summed /\ NoRequestRefused /\ DoneMeansCommitted
  BY <1>1, <1>4 DEF Progress, Summed, NoRequestRefused, DoneMeansCommitted
<1>9. Chan BY <1>2 DEF Chan, At, Goroutines
<1> QED BY <1>5, <1>6, <1>7, <1>8, <1>9 DEF TaskInv

LEMMA StartingKeeps ==
    ASSUME TaskInv, NEW x \in Goroutines, Spawn(x) \/ SpawnFails(x) \/ AppendUnit(x)
    PROVE  TaskInv'
BY SpawnKeeps, SpawnFailsKeeps, AppendUnitKeeps

LEMMA NextTask == TaskInv /\ [Next]_vars => TaskInv'
<1> SUFFICES ASSUME TaskInv, [Next]_vars PROVE TaskInv' OBVIOUS
<1>1. Loop \in Goroutines /\ \A w \in Web : w \in Goroutines BY DEF Goroutines
<1>2. CASE LoopStep
  <2>1. CASE Starting(Loop)
    <3>1. CASE Start(Loop) BY <1>1, <3>1, StartHolds, LoopQuiet, QuietKeeps
    <3>2. CASE Spawn(Loop) \/ SpawnFails(Loop) \/ AppendUnit(Loop)
      BY <1>1, <3>2, StartingKeeps
    <3> QED BY <2>1, <3>1, <3>2 DEF Starting
  <2>2. CASE MakeChan \/ Receive \/ Check \/ WaitAll
    BY <1>1, <2>2, LoopQuiet, QuietKeeps
  <2> QED BY <1>2, <2>1, <2>2 DEF LoopStep
<1>3. ASSUME NEW w \in Web, CallStartAll(w) \/ CallStart(w) \/ CallExport(w)
      PROVE  TaskInv'
  BY <1>1, <1>3, CallQuiet, QuietKeeps
<1>4. ASSUME NEW w \in Web, WebStep(w) PROVE TaskInv'
  <2>1. CASE Each(w) BY <1>1, <2>1, EachQuiet, QuietKeeps
  <2>2. CASE Schedule(w) BY <1>1, <2>2, ScheduleKeeps
  <2>3. CASE Send(w) BY <1>1, <2>3, SendQuiet, QuietKeeps
  <2>4. CASE GetStats(w) BY <1>1, <2>4, GetStatsQuiet, QuietKeeps
  <2>5. CASE Answer(w) BY <1>1, <2>5, OtherQuiet, QuietKeeps
  <2>6. CASE Starting(w)
    <3>1. CASE Start(w) BY <1>1, <3>1, StartHolds, OtherQuiet, QuietKeeps
    <3>2. CASE Spawn(w) \/ SpawnFails(w) \/ AppendUnit(w) BY <1>1, <3>2, StartingKeeps
    <3> QED BY <2>6, <3>1, <3>2 DEF Starting
  <2> QED BY <1>4, <2>1, <2>2, <2>3, <2>4, <2>5, <2>6 DEF WebStep
<1>5. ASSUME NEW w \in Web, NEW n \in Names, NewTask(w, n) PROVE TaskInv'
  BY <1>1, <1>5, OtherQuiet, QuietKeeps
<1>6. ASSUME NEW p \in Pids, Child(p) \/ Die(p) PROVE TaskInv' BY <1>6, ChildKeeps
<1>7. CASE UNCHANGED vars
  BY <1>7 DEF vars, TaskInv, Types, Locks, Belongs, Progress, Summed, Chan, NoRequestRefused,
              DoneMeansCommitted, At, Task
<1> QED BY <1>2, <1>3, <1>4, <1>5, <1>6, <1>7 DEF Next

(***************************************************************************)
(* TaskInv holds always.                                                   *)
(***************************************************************************)
THEOREM TaskInvariant == Spec => []TaskInv
BY InitTask, NextTask, PTL DEF Spec

(***************************************************************************)
(* Every request of a child is served, for any number of tasks, processes  *)
(* and web requests: a process whose task nobody has locked is one of the  *)
(* task's units, so validateRequest finds it.                              *)
(***************************************************************************)
THEOREM NoChildIsRefused == Spec => []NoRequestRefused
<1>1. TaskInv => NoRequestRefused BY DEF TaskInv
<1> QED BY <1>1, TaskInvariant, PTL

(***************************************************************************)
(* UpdateStatus makes a task Done only with the results of all of its      *)
(* processes, and no unit is added to a Done task.                         *)
(***************************************************************************)
THEOREM DoneIsCommitted == Spec => []DoneMeansCommitted
<1>1. TaskInv => DoneMeansCommitted BY DEF TaskInv
<1> QED BY <1>1, TaskInvariant, PTL

(***************************************************************************)
(* No last report of a process is lost, whichever process sums up the task *)
(* last and whoever has started the task again in between.                 *)
(***************************************************************************)
THEOREM AllExitedIsDone == Spec => []FinishedIsDone
<1>1. TaskInv => FinishedIsDone BY DEF TaskInv, Summed, FinishedIsDone
<1> QED BY <1>1, TaskInvariant, PTL

(***************************************************************************)
(* GetStats gives all results of a task or none.                           *)
(***************************************************************************)
THEOREM ExportsAreComplete == Spec => []ExportIsComplete
<1>1. TaskInv => ExportIsComplete
  BY DEF TaskInv, Types, Local, Goroutines, ExportIsComplete, At
<1> QED BY <1>1, TaskInvariant, PTL
-----------------------------------------------------------------------------
(***************************************************************************)
(* The loop runs one task at a time.                                       *)
(***************************************************************************)
\* What the loop waits for are all of its processes that still run.
LoopAlone == At(Loop, "waiting") =>
    \A p \in Pids : proc[p].by = Loop /\ proc[p].pc \notin Ended => p \in Range(th[Loop].rest)

OneInv == OneAtATime /\ LoopAlone

\* A child's step changes nothing but the child, which stays who it is and ran before.
LEMMA ChildStep ==
    ASSUME TaskInv, NEW p \in Pids, Child(p) \/ Die(p)
    PROVE  /\ \E q : /\ proc' = [proc EXCEPT ![p] = q]
                     /\ q.by = proc[p].by /\ q.task = proc[p].task
           /\ proc[p].pc \notin Ended
           /\ UNCHANGED <<tasks, units, mutex, queue, th, failed>>
<1>1. proc[p] \in Process BY DEF TaskInv, Types
<1>2. ASSUME NEW r \in Process, r.by = proc[p].by, r.task = proc[p].task, Request(p, r)
      PROVE  \E q : /\ proc' = [proc EXCEPT ![p] = q]
                    /\ q.by = proc[p].by /\ q.task = proc[p].task
  <2>1. CASE p \in Range(units[proc[p].task]) BY <1>2, <2>1 DEF Request
  <2>2. CASE p \notin Range(units[proc[p].task])
    <3>1. PICK q : q = [proc[p] EXCEPT !.pc = r.pc, !.refused = TRUE] OBVIOUS
    <3>2. q.by = proc[p].by /\ q.task = proc[p].task BY <1>1, <3>1 DEF Process
    <3>3. proc' = [proc EXCEPT ![p] = q] BY <1>2, <2>2, <3>1 DEF Request
    <3> QED BY <3>2, <3>3
  <2> QED BY <2>1, <2>2
<1>3. CASE FetchCfg(p)
  <2>1. PICK r : r = [proc[p] EXCEPT !.pc = "testing"] OBVIOUS
  <2>2. r \in Process /\ r.by = proc[p].by /\ r.task = proc[p].task
    BY <1>1, <2>1 DEF Process, Phases
  <2> QED BY <1>2, <1>3, <2>1, <2>2 DEF FetchCfg, Request, Ended
<1>4. CASE CommitStats(p)
  <2>1. PICK r : r = [proc[p] EXCEPT !.pc = "committed", !.stats = TRUE] OBVIOUS
  <2>2. r \in Process /\ r.by = proc[p].by /\ r.task = proc[p].task
    BY <1>1, <2>1 DEF Process, Phases
  <2> QED BY <1>2, <1>4, <2>1, <2>2 DEF CommitStats, Request, Ended
<1>5. CASE Report(p)
  <2>1. PICK r : r = [proc[p] EXCEPT !.pc = "reporting", !.done = TRUE] OBVIOUS
  <2>2. r \in Process /\ r.by = proc[p].by /\ r.task = proc[p].task
    BY <1>1, <2>1 DEF Process, Phases
  <2> QED BY <1>2, <1>5, <2>1, <2>2 DEF Report, Request, Ended
<1>6. ASSUME NEW l \in Phases, proc' = [proc EXCEPT ![p].pc = l]
      PROVE  \E q : /\ proc' = [proc EXCEPT ![p] = q]
                    /\ q.by = proc[p].by /\ q.task = proc[p].task
  <2>1. PICK q : q = [proc[p] EXCEPT !.pc = l] OBVIOUS
  <2>2. q.by = proc[p].by /\ q.task = proc[p].task BY <1>1, <2>1 DEF Process
  <2> QED BY <1>6, <2>1, <2>2
<1>7. CASE UpdateStatus(p)
  <2>1. proc' = [proc EXCEPT ![p].pc = "exited"] BY <1>7 DEF UpdateStatus
  <2> QED BY <1>6, <1>7, <2>1 DEF UpdateStatus, Ended, Phases
<1>8. CASE Die(p)
  <2>1. proc' = [proc EXCEPT ![p].pc = "died"] BY <1>8 DEF Die
  <2> QED BY <1>6, <1>8, <2>1 DEF Die, Ended, Phases
<1> QED BY <1>3, <1>4, <1>5, <1>7, <1>8 DEF Child

\* The loop stays where it is, and nothing it has spawned begins to run.
LEMMA LoopStays ==
    ASSUME OneInv, th'[Loop] = th[Loop],
           \A p \in Pids : proc'[p].by = Loop /\ proc'[p].pc \notin Ended =>
              proc[p].by = Loop /\ proc[p].pc \notin Ended /\ proc'[p].task = proc[p].task
    PROVE  OneInv'
BY DEF OneInv, OneAtATime, LoopAlone, At, Task

\* No process of the loop runs, and none is spawned.
LEMMA LoopFree ==
    ASSUME OneInv, UNCHANGED proc,
           \A p \in Pids : ~(proc[p].by = Loop /\ proc[p].pc \notin Ended)
    PROVE  OneInv'
BY DEF OneInv, OneAtATime, LoopAlone

\* A web request that is not a spawn touches no process.
LEMMA WebStays ==
    ASSUME TaskInv, OneInv, NEW w \in Web,
           \/ CallStartAll(w) \/ CallStart(w) \/ CallExport(w) \/ WebStep(w)
           \/ \E n \in Names : NewTask(w, n)
    PROVE  OneInv'
<1>1. w # Loop /\ Loop \in Goroutines /\ th \in [Goroutines -> Thread]
  BY PressureAssumption DEF Goroutines, TaskInv, Types
<1>2. CASE Spawn(w)
  <2>1. PICK p \in Pids :
           /\ proc' = [proc EXCEPT ![p] = [@ EXCEPT !.task = Task(w), !.by = w, !.pc = "spawned"]]
           /\ th' = [th EXCEPT ![w].pc = "append", ![w].pid = p]
    BY <1>2 DEF Spawn
  <2>2. th'[Loop] = th[Loop] BY <1>1, <2>1
  <2>3. proc[p] \in Process /\ proc \in [Pids -> Process] BY DEF TaskInv, Types
  <2>4. proc'[p].by = w BY <2>1, <2>3 DEF Process
  <2>5. \A q \in Pids \ {p} : proc'[q] = proc[q] BY <2>1, <2>3
  <2> QED BY <1>1, <2>2, <2>4, <2>5, LoopStays
<1>3. CASE ~Spawn(w)
  <2>1. UNCHANGED proc
    BY <1>3 DEF CallStartAll, CallStart, CallExport, Call, WebStep, Each, Schedule, Send,
                GetStats, Answer, Starting, Start, SpawnFails, AppendUnit, NewTask
  <2>2. \E r : th' = [th EXCEPT ![w] = r]
    <3>1. CASE CallStartAll(w) \/ CallStart(w) \/ CallExport(w)
      BY <3>1 DEF CallStartAll, CallStart, CallExport, Call
    <3>2. CASE Each(w) \/ Answer(w) \/ GetStats(w)
      BY <3>2, EachQuiet, OtherQuiet, GetStatsQuiet DEF Quiet
    <3>3. CASE Schedule(w) \/ Send(w) \/ SpawnFails(w)
      BY <3>3 DEF Schedule, Send, SpawnFails, Goto
    <3>4. CASE Start(w)
      <4>1. CASE status[Task(w)] \in {"Ready", "Waiting"} BY <3>4, <4>1 DEF Start
      <4>2. CASE status[Task(w)] \notin {"Ready", "Waiting"} BY <3>4, <4>2 DEF Start, Goto
      <4> QED BY <4>1, <4>2
    <3>5. CASE AppendUnit(w) BY <3>5 DEF AppendUnit
    <3>6. CASE \E n \in Names : NewTask(w, n)
      <4>1. th' = [th EXCEPT ![w] = th[w]] BY <1>1, <3>6 DEF NewTask
      <4> QED BY <4>1
    <3> QED BY <1>3, <3>1, <3>2, <3>3, <3>4, <3>5, <3>6 DEF WebStep, Starting
  <2>3. th'[Loop] = th[Loop] BY <1>1, <2>2
  <2> QED BY <2>1, <2>3, LoopStays
<1> QED BY <1>2, <1>3

\* Where Start is when a unit is in Units.
LEMMA UnitAppended ==
    ASSUME TaskInv, NEW x \in Goroutines, AppendUnit(x)
    PROVE  \E r : /\ th' = [th EXCEPT ![x] = r] /\ r.task = Task(x)
                  /\ th[x].left = 1 => r.pc = AfterStart(x)
                  /\ th[x].left # 1 => r.pc = "spawn"
<1>1. PICK k : k = th[x].left OBVIOUS
<1>2. PICK l : l = IF k = 1 THEN AfterStart(x) ELSE "spawn" OBVIOUS
<1>3. PICK r : r = [th[x] EXCEPT !.left = k - 1, !.pc = l] OBVIOUS
<1>4. th' = [th EXCEPT ![x] = r] BY <1>1, <1>2, <1>3 DEF AppendUnit
<1>5. r.task = Task(x) /\ r.pc = l BY <1>3 DEF TaskInv, Types, Thread, Task
<1> QED BY <1>1, <1>2, <1>4, <1>5

LEMMA LoopKeeps ==
    ASSUME TaskInv, OneInv, LoopStep
    PROVE  OneInv'
<1>1. /\ Loop \in Goroutines /\ th \in [Goroutines -> Thread] /\ th[Loop] \in Thread
      /\ proc \in [Pids -> Process]
  BY DEF Goroutines, TaskInv, Types
<1>2. CASE MakeChan \/ Receive \/ Check \/ Start(Loop)
  <2>1. /\ UNCHANGED proc /\ th[Loop].pc \in {"make", "receive", "check", "start"}
    BY <1>2 DEF MakeChan, Receive, Check, Start, At
  <2>2. \A p \in Pids : ~(proc[p].by = Loop /\ proc[p].pc \notin Ended)
    BY <2>1 DEF OneInv, OneAtATime
  <2> QED BY <2>1, <2>2, LoopFree
<1>3. CASE Spawn(Loop)
  <2>1. PICK p \in Pids :
           /\ proc' = [proc EXCEPT ![p] = [@ EXCEPT !.task = Task(Loop), !.by = Loop,
                                                    !.pc = "spawned"]]
           /\ th' = [th EXCEPT ![Loop].pc = "append", ![Loop].pid = p]
    BY <1>3 DEF Spawn
  <2>2. th'[Loop].pc = "append" /\ th'[Loop].task = Task(Loop) BY <1>1, <2>1 DEF Thread, Task
  <2>3. proc'[p].task = Task(Loop) /\ \A q \in Pids \ {p} : proc'[q] = proc[q]
    BY <1>1, <2>1 DEF Process
  <2> QED BY <2>2, <2>3 DEF OneInv, OneAtATime, LoopAlone, At, Task
<1>4. CASE SpawnFails(Loop) \/ AppendUnit(Loop)
  <2>1. UNCHANGED proc /\ th'[Loop].task = Task(Loop) /\ th'[Loop].pc \in {"spawn", "wait all"}
    <3>1. CASE SpawnFails(Loop) BY <1>1, <3>1 DEF SpawnFails, Goto, AfterStart, Thread, Task
    <3>2. CASE AppendUnit(Loop)
      <4>1. PICK r : /\ th' = [th EXCEPT ![Loop] = r]
                     /\ r.task = Task(Loop) /\ r.pc \in {"spawn", "wait all"}
        BY <1>1, <3>2, UnitAppended DEF AfterStart
      <4> QED BY <1>1, <3>2, <4>1 DEF AppendUnit
    <3> QED BY <1>4, <3>1, <3>2
  <2> QED BY <2>1 DEF OneInv, OneAtATime, LoopAlone, At, Task
<1>5. CASE WaitAll
  <2>1. CASE At(Loop, "wait all") /\ th' = [th EXCEPT ![Loop].pc = "waiting",
                                                     ![Loop].rest = units[Task(Loop)]]
    <3>1. /\ th'[Loop].pc = "waiting" /\ th'[Loop].task = Task(Loop)
          /\ th'[Loop].rest = units[Task(Loop)] /\ UNCHANGED proc
      BY <1>1, <1>5, <2>1 DEF WaitAll, Thread, Task
    <3>2. ASSUME NEW p \in Pids, proc[p].by = Loop, proc[p].pc \notin Ended
          PROVE  p \in Range(units[Task(Loop)])
      <4>1. proc[p].task = Task(Loop) BY <3>2 DEF OneInv, OneAtATime
      <4>2. proc[p].pc # "unused" BY <1>1, <3>2, Nobody DEF TaskInv, Belongs
      <4>3. ASSUME NEW x \in Goroutines, At(x, "append"), th[x].pid = p PROVE FALSE
        <5>1. x = Loop BY <3>2, <4>3 DEF TaskInv, Belongs
        <5> QED BY <2>1, <4>3, <5>1 DEF At
      <4> QED BY <4>1, <4>2, <4>3 DEF TaskInv, Belongs
    <3> QED BY <3>1, <3>2 DEF OneInv, OneAtATime, LoopAlone, At, Task
  <2>2. CASE At(Loop, "waiting") /\ Waited(th[Loop].rest)
    <3>1. \A p \in Pids : ~(proc[p].by = Loop /\ proc[p].pc \notin Ended)
      BY <2>2 DEF OneInv, LoopAlone, Waited
    <3> QED BY <1>5, <3>1, LoopFree DEF WaitAll
  <2> QED BY <1>5, <2>1, <2>2 DEF WaitAll
<1> QED BY <1>2, <1>3, <1>4, <1>5 DEF LoopStep, Starting

LEMMA InitOne == Init => OneInv
<1> SUFFICES ASSUME Init PROVE OneInv OBVIOUS
<1>1. \A p \in Pids : proc[p].by = None BY Zenon DEF Init, Unused
<1> QED BY <1>1, Nobody DEF OneInv, OneAtATime, LoopAlone, Goroutines

LEMMA NextOne == TaskInv /\ OneInv /\ [Next]_vars => OneInv'
<1> SUFFICES ASSUME TaskInv, OneInv, [Next]_vars PROVE OneInv' OBVIOUS
<1>1. ASSUME NEW p \in Pids, Child(p) \/ Die(p) PROVE OneInv'
  <2>1. PICK q : proc' = [proc EXCEPT ![p] = q] /\ q.by = proc[p].by /\ q.task = proc[p].task
    BY <1>1, ChildStep
  <2>2. proc[p].pc \notin Ended /\ UNCHANGED th BY <1>1, ChildStep
  <2>3. \A s \in Pids : proc'[s] = IF s = p THEN q ELSE proc[s]
    BY <2>1 DEF TaskInv, Types
  <2> QED BY <2>1, <2>2, <2>3, LoopStays
<1>2. CASE UNCHANGED vars
  BY <1>2 DEF vars, OneInv, OneAtATime, LoopAlone, At, Task
<1> QED BY <1>1, <1>2, LoopKeeps, WebStays DEF Next

(***************************************************************************)
(* startLoop has no two tasks under way: WaitAll returns only when every   *)
(* process that the loop has spawned for the task has ended, those of a    *)
(* Start that failed half way included.                                    *)
(***************************************************************************)
THEOREM LoopRunsOneTask == Spec => []OneAtATime
<1>1. OneInv => OneAtATime BY DEF OneInv
<1> QED BY <1>1, TaskInvariant, InitOne, NextOne, PTL DEF Spec
-----------------------------------------------------------------------------
(***************************************************************************)
(* No Waiting task is forgotten.                                           *)
(***************************************************************************)
Queued(t)     == queue # NoChan /\ t \in Range(queue)
Carried(x, t) == Task(x) = t /\ th[x].pc \in Carrying

\* Nothing is sent before the loop has made the channel, so nothing is lost then.
WaitInv == WaitingIsQueued /\ (At(Loop, "make") => queue = NoChan)

\* Goroutine x becomes r.  A Waiting task is now with x or in the queue, or was
\* Waiting before, not in the queue and not with x, so with someone else.
LEMMA WaitingStep ==
    ASSUME TaskInv, WaitInv, NEW x \in Goroutines, NEW r, th' = [th EXCEPT ![x] = r],
           x = Loop => r.pc # "make", queue' = queue \/ th[Loop].pc # "make" \/ x = Loop,
           \A t \in Names : status'[t] = "Waiting" /\ t \notin failed' =>
              \/ r.task = t /\ r.pc \in Carrying
              \/ Queued(t)'
              \/ status[t] = "Waiting" /\ t \notin failed /\ ~Queued(t) /\ ~Carried(x, t)
    PROVE  WaitInv'
<1>1. \A y \in Goroutines : th'[y] = IF y = x THEN r ELSE th[y] BY DEF TaskInv, Types
<1>2. ASSUME NEW t \in Names, status'[t] = "Waiting", t \notin failed'
      PROVE  Queued(t)' \/ \E y \in Goroutines : th'[y].task = t /\ th'[y].pc \in Carrying
  <2>1. CASE r.task = t /\ r.pc \in Carrying BY <1>1, <2>1
  <2>2. CASE status[t] = "Waiting" /\ t \notin failed /\ ~Queued(t) /\ ~Carried(x, t)
    <3>1. PICK y \in Goroutines : Carried(y, t)
      BY <2>2 DEF WaitInv, WaitingIsQueued, Queued, Carried, Carrying
    <3>2. th'[y] = th[y] BY <1>1, <2>2, <3>1
    <3> QED BY <3>1, <3>2 DEF Carried, Task
  <2> QED BY <1>2, <2>1, <2>2
<1>3. WaitingIsQueued' BY <1>2 DEF WaitingIsQueued, Queued, Task, Carrying
<1>4. At(Loop, "make")' => queue' = NoChan BY <1>1 DEF WaitInv, At, Goroutines
<1> QED BY <1>3, <1>4 DEF WaitInv

\* A goroutine that had no task to carry, or goes on carrying it.
LEMMA WaitingCarried ==
    ASSUME TaskInv, WaitInv, NEW x \in Goroutines, NEW r, th' = [th EXCEPT ![x] = r],
           x = Loop => r.pc # "make", UNCHANGED <<status, queue, failed>>,
           \/ th[x].pc \notin Carrying
           \/ r.pc \in Carrying /\ r.task = Task(x)
           \/ status[Task(x)] # "Waiting"
    PROVE  WaitInv'
<1>1. ASSUME NEW t \in Names, status'[t] = "Waiting", t \notin failed'
      PROVE  \/ r.task = t /\ r.pc \in Carrying
             \/ Queued(t)'
             \/ status[t] = "Waiting" /\ t \notin failed /\ ~Queued(t) /\ ~Carried(x, t)
  BY <1>1 DEF Queued, Carried
<1> QED BY <1>1, WaitingStep

\* Start and what follows it, by whomever.
LEMMA WaitingStarting ==
    ASSUME TaskInv, WaitInv, NEW x \in Goroutines, Starting(x)
    PROVE  WaitInv'
<1>1. th[x] \in Thread BY DEF TaskInv, Types
<1>2. CASE Start(x)
  <2>1. CASE status[Task(x)] \in {"Ready", "Waiting"}
    <3>1. PICK n : n = IF Processes[Task(x)] = 0 THEN 1 ELSE Processes[Task(x)] OBVIOUS
    <3>2. PICK r : r = [th[x] EXCEPT !.pc = "spawn", !.left = n] OBVIOUS
    <3>3. th' = [th EXCEPT ![x] = r] BY <1>2, <2>1, <3>1, <3>2 DEF Start
    <3>4. r.pc = "spawn" /\ r.task = Task(x) BY <1>1, <3>2 DEF Thread, Task
    <3> QED BY <1>2, <3>3, <3>4, WaitingCarried DEF Start, Carrying
  <2>2. CASE status[Task(x)] \notin {"Ready", "Waiting"}
    <3>1. PICK r : r = [th[x] EXCEPT !.pc = AfterStart(x)] OBVIOUS
    <3>2. th' = [th EXCEPT ![x] = r] BY <1>2, <2>2, <3>1 DEF Start, Goto
    <3>3. r.pc # "make" BY <1>1, <3>1 DEF Thread, AfterStart
    <3> QED BY <1>2, <2>2, <3>2, <3>3, WaitingCarried DEF Start
  <2> QED BY <2>1, <2>2
<1>3. CASE Spawn(x)
  <2>1. PICK p : th' = [th EXCEPT ![x].pc = "append", ![x].pid = p] BY <1>3 DEF Spawn
  <2>2. PICK r : r = [th[x] EXCEPT !.pc = "append", !.pid = p] OBVIOUS
  <2>3. th' = [th EXCEPT ![x] = r] BY <2>1, <2>2
  <2>4. r.pc = "append" /\ r.task = Task(x) BY <1>1, <2>2 DEF Thread, Task
  <2> QED BY <1>3, <2>3, <2>4, WaitingCarried DEF Spawn, Carrying
<1>4. CASE SpawnFails(x)
  <2>1. PICK r : r = [th[x] EXCEPT !.pc = AfterStart(x)] OBVIOUS
  <2>2. /\ th' = [th EXCEPT ![x] = r] /\ failed' = failed \cup {Task(x)}
        /\ UNCHANGED <<status, queue>>
    BY <1>4, <2>1 DEF SpawnFails, Goto
  <2>3. r.pc # "make" BY <1>1, <2>1 DEF Thread, AfterStart
  <2>4. ASSUME NEW t \in Names, status'[t] = "Waiting", t \notin failed'
        PROVE  \/ Queued(t)'
               \/ status[t] = "Waiting" /\ t \notin failed /\ ~Queued(t) /\ ~Carried(x, t)
    BY <2>2, <2>4 DEF Queued, Carried
  <2> QED BY <2>2, <2>3, <2>4, WaitingStep
<1>5. CASE AppendUnit(x)
  <2>1. PICK r : /\ th' = [th EXCEPT ![x] = r] /\ r.task = Task(x)
                 /\ th[x].left = 1 => r.pc = AfterStart(x)
                 /\ th[x].left # 1 => r.pc = "spawn"
    BY <1>5, UnitAppended
  <2>2. Task(x) \in Names BY <1>5, Holder DEF AppendUnit, At, Holding
  <2>3. CASE th[x].left = 1
    <3>1. /\ UNCHANGED <<queue, failed>>
          /\ \A t \in Names : status'[t] = IF t = Task(x) THEN "Running" ELSE status[t]
      BY <1>5, <2>3 DEF AppendUnit, TaskInv, Types
    <3>2. r.pc # "make" BY <2>1, <2>3 DEF AfterStart
    <3>3. ASSUME NEW t \in Names, status'[t] = "Waiting", t \notin failed'
          PROVE  \/ Queued(t)'
                 \/ status[t] = "Waiting" /\ t \notin failed /\ ~Queued(t) /\ ~Carried(x, t)
      BY <3>1, <3>3 DEF Queued, Carried
    <3> QED BY <2>1, <3>1, <3>2, <3>3, WaitingStep
  <2>4. CASE th[x].left # 1
    <3>1. UNCHANGED <<status, queue, failed>> BY <1>5, <2>4 DEF AppendUnit
    <3> QED BY <2>1, <2>4, <3>1, WaitingCarried DEF Carrying
  <2> QED BY <2>3, <2>4
<1> QED BY <1>2, <1>3, <1>4, <1>5 DEF Starting

\* The members of a queue are its first one and those of the rest.
LEMMA RangeTail ==
    ASSUME NEW S, NEW s \in Seq(S), s # <<>>
    PROVE  \A e \in Range(s) : e = Head(s) \/ e \in Range(Tail(s))
<1> SUFFICES ASSUME NEW e \in Range(s), e # Head(s) PROVE e \in Range(Tail(s)) OBVIOUS
<1>1. /\ Len(s) \in Nat /\ DOMAIN s = 1 .. Len(s) /\ Head(s) = s[1]
      /\ Tail(s) \in Seq(S) /\ Len(Tail(s)) = Len(s) - 1
      /\ \A i \in 1 .. Len(Tail(s)) : Tail(s)[i] = s[i + 1]
  BY HeadTailProperties
<1>2. PICK i \in 1 .. Len(s) : e = s[i] BY <1>1 DEF Range
<1>3. /\ i - 1 \in 1 .. Len(Tail(s)) /\ (i - 1) + 1 = i BY <1>1, <1>2
<1>4. Tail(s)[i - 1] = e BY <1>1, <1>2, <1>3
<1>5. DOMAIN Tail(s) = 1 .. Len(Tail(s)) BY <1>1
<1> QED BY <1>3, <1>4, <1>5 DEF Range

\* A task that is made Waiting is with the request until it is in the queue.
LEMMA WaitingWeb ==
    ASSUME TaskInv, WaitInv, NEW w \in Web,
           \/ CallStartAll(w) \/ CallStart(w) \/ CallExport(w) \/ WebStep(w)
           \/ \E n \in Names : NewTask(w, n)
    PROVE  WaitInv'
<1>1. w # Loop /\ w \in Goroutines /\ th[w] \in Thread
  BY PressureAssumption DEF Goroutines, TaskInv, Types
<1>2. CASE \/ CallStartAll(w) \/ CallStart(w) \/ CallExport(w) \/ Each(w) \/ GetStats(w)
           \/ Answer(w) \/ \E n \in Names : NewTask(w, n)
  <2>1. PICK r : th' = [th EXCEPT ![w] = r]
    <3>1. \E r : Quiet(w, r) BY <1>2, CallQuiet, EachQuiet, GetStatsQuiet, OtherQuiet
    <3> QED BY <3>1 DEF Quiet
  <2>2. th[w].pc \in {"idle", "each", "stats", "answer"}
    BY <1>2 DEF CallStartAll, CallStart, CallExport, Call, Each, GetStats, Answer, NewTask, At
  <2>3. UNCHANGED <<status, queue, failed>>
    BY <1>2 DEF CallStartAll, CallStart, CallExport, Call, Each, GetStats, Answer, NewTask
  <2> QED BY <1>1, <2>1, <2>2, <2>3, WaitingCarried DEF Carrying
<1>3. CASE Schedule(w)
  <2>1. PICK r : r = [th[w] EXCEPT !.pc = "send"] OBVIOUS
  <2>2. /\ th[w].pc = "schedule" /\ th' = [th EXCEPT ![w] = r]
        /\ \A t \in Names : status'[t] = IF t = Task(w) THEN "Waiting" ELSE status[t]
        /\ UNCHANGED <<queue, failed>>
    BY <1>3, <2>1 DEF Schedule, At, Goto, TaskInv, Types
  <2>3. r.pc = "send" /\ r.task = Task(w) BY <1>1, <2>1 DEF Thread, Task
  <2>4. ASSUME NEW t \in Names, status'[t] = "Waiting", t \notin failed'
        PROVE  \/ r.task = t /\ r.pc \in Carrying
               \/ Queued(t)'
               \/ status[t] = "Waiting" /\ t \notin failed /\ ~Queued(t) /\ ~Carried(w, t)
    BY <2>2, <2>3, <2>4 DEF Queued, Carried, Carrying
  <2> QED BY <1>1, <2>2, <2>4, WaitingStep
<1>4. CASE Send(w)
  <2>1. PICK l \in {"stuck", "each"} :
           /\ th' = [th EXCEPT ![w].pc = l]
           /\ \/ l = "stuck" /\ queue' = queue
              \/ queue # NoChan /\ queue' = Append(queue, Task(w))
    BY <1>4 DEF Send, Goto
  <2>2. PICK r : r = [th[w] EXCEPT !.pc = l] OBVIOUS
  <2>3. /\ th' = [th EXCEPT ![w] = r] /\ r.pc = l /\ r.task = Task(w)
        /\ th[w].pc = "send" /\ Task(w) \in Names /\ UNCHANGED <<status, failed>>
    BY <1>1, <1>4, <2>1, <2>2 DEF Thread, Task, Send, At, TaskInv, Types, Local, Tasked
  <2>4. CASE l = "stuck" /\ queue' = queue
    BY <1>1, <2>3, <2>4, WaitingCarried DEF Carrying
  <2>5. CASE queue # NoChan /\ queue' = Append(queue, Task(w))
    <3>1. queue \in Seq(Names) BY <2>5 DEF TaskInv, Types
    <3>2. /\ queue' \in Seq(Names) /\ Range(queue') = Range(queue) \cup {Task(w)}
      BY <2>3, <2>5, <3>1, RangeAppended
    <3>3. queue' # NoChan BY <3>2, PressureAssumption
    <3>4. th[Loop].pc # "make" BY <2>5 DEF WaitInv, At
    <3>5. ASSUME NEW t \in Names, status'[t] = "Waiting", t \notin failed'
          PROVE  \/ Queued(t)'
                 \/ status[t] = "Waiting" /\ t \notin failed /\ ~Queued(t) /\ ~Carried(w, t)
      BY <2>3, <3>2, <3>3, <3>5 DEF Queued, Carried
    <3> QED BY <1>1, <2>3, <3>4, <3>5, WaitingStep
  <2> QED BY <2>1, <2>4, <2>5
<1> QED BY <1>1, <1>2, <1>3, <1>4, WaitingStarting DEF WebStep

\* The loop takes a task out of the queue and starts it, unless it is Waiting no more.
LEMMA WaitingLoop ==
    ASSUME TaskInv, WaitInv, LoopStep
    PROVE  WaitInv'
<1>1. Loop \in Goroutines /\ th[Loop] \in Thread BY DEF Goroutines, TaskInv, Types
<1>2. CASE MakeChan
  <2>1. PICK r : r = [th[Loop] EXCEPT !.pc = "receive"] OBVIOUS
  <2>2. /\ th' = [th EXCEPT ![Loop] = r] /\ th[Loop].pc = "make"
        /\ UNCHANGED <<status, failed>>
    BY <1>2, <2>1 DEF MakeChan, Goto, At
  <2>3. r.pc = "receive" BY <1>1, <2>1 DEF Thread
  <2>4. queue = NoChan BY <2>2 DEF WaitInv, At
  <2>5. ASSUME NEW t \in Names, status'[t] = "Waiting", t \notin failed'
        PROVE  status[t] = "Waiting" /\ t \notin failed /\ ~Queued(t) /\ ~Carried(Loop, t)
    BY <2>2, <2>4, <2>5 DEF Queued, Carried, Carrying
  <2> QED BY <1>1, <2>2, <2>3, <2>5, WaitingStep
<1>3. CASE Receive
  <2>1. PICK r : r = [th[Loop] EXCEPT !.pc = "check", !.task = Head(queue)] OBVIOUS
  <2>2. /\ th' = [th EXCEPT ![Loop] = r] /\ th[Loop].pc = "receive"
        /\ queue # <<>> /\ queue' = Tail(queue) /\ UNCHANGED <<status, failed>>
    BY <1>3, <2>1 DEF Receive, At
  <2>3. r.pc = "check" /\ r.task = Head(queue) BY <1>1, <2>1 DEF Thread
  <2>4. queue \in Seq(Names) BY <2>2 DEF TaskInv, Types, Chan, At
  <2>5. Tail(queue) \in Seq(Names) BY <2>2, <2>4
  <2>6. queue' # NoChan BY <2>2, <2>5, PressureAssumption
  <2>7. \A t \in Range(queue) : t = Head(queue) \/ t \in Range(queue')
    BY <2>2, <2>4, RangeTail
  <2>8. ASSUME NEW t \in Names, status'[t] = "Waiting", t \notin failed'
        PROVE  \/ r.task = t /\ r.pc \in Carrying
               \/ Queued(t)'
               \/ status[t] = "Waiting" /\ t \notin failed /\ ~Queued(t) /\ ~Carried(Loop, t)
    BY <2>2, <2>3, <2>6, <2>7, <2>8 DEF Queued, Carried, Carrying
  <2> QED BY <1>1, <2>2, <2>3, <2>8, WaitingStep
<1>4. CASE Check
  <2>1. PICK l : l = IF status[Task(Loop)] = "Waiting" THEN "start" ELSE "receive" OBVIOUS
  <2>2. PICK r : r = [th[Loop] EXCEPT !.pc = l] OBVIOUS
  <2>3. th' = [th EXCEPT ![Loop] = r] /\ UNCHANGED <<status, queue, failed>>
    BY <1>4, <2>1, <2>2 DEF Check, Goto
  <2>4. r.pc = l /\ r.task = Task(Loop) BY <1>1, <2>2 DEF Thread, Task
  <2>5. l # "make" BY <2>1
  <2> QED BY <1>1, <2>1, <2>3, <2>4, <2>5, WaitingCarried DEF Carrying
<1>5. CASE WaitAll
  <2>1. PICK r : Quiet(Loop, r) BY <1>5, LoopQuiet
  <2>2. th' = [th EXCEPT ![Loop] = r] /\ th[Loop].pc \in {"wait all", "waiting"}
        /\ UNCHANGED <<status, queue, failed>>
    BY <1>5, <2>1 DEF WaitAll, At, Quiet
  <2>3. th'[Loop].pc \in {"waiting", "receive"}
    <3>1. CASE th' = [th EXCEPT ![Loop].pc = "waiting", ![Loop].rest = units[Task(Loop)]]
      BY <1>1, <3>1 DEF TaskInv, Types, Thread
    <3>2. CASE th' = [th EXCEPT ![Loop] = [Idle EXCEPT !.pc = "receive"]]
      BY <1>1, <3>2, IdleThread DEF TaskInv, Types, Places
    <3> QED BY <1>5, <3>1, <3>2 DEF WaitAll
  <2>4. r.pc # "make" BY <1>1, <2>2, <2>3 DEF TaskInv, Types
  <2> QED BY <1>1, <2>2, <2>4, WaitingCarried DEF Carrying
<1> QED BY <1>1, <1>2, <1>3, <1>4, <1>5, WaitingStarting DEF LoopStep

LEMMA InitWait == Init => WaitInv
BY DEF Init, WaitInv, WaitingIsQueued

LEMMA NextWait == TaskInv /\ WaitInv /\ [Next]_vars => WaitInv'
<1> SUFFICES ASSUME TaskInv, WaitInv, [Next]_vars PROVE WaitInv' OBVIOUS
<1>1. ASSUME NEW p \in Pids, Child(p) \/ Die(p) PROVE WaitInv'
  <2>1. UNCHANGED <<queue, th, failed>> BY <1>1, ChildStep
  <2>2. \A t \in Names : status'[t] = "Waiting" => status[t] = "Waiting"
    BY <1>1 DEF Child, Die, FetchCfg, Report, CommitStats, UpdateStatus, Request, TaskInv, Types
  <2> QED BY <2>1, <2>2 DEF WaitInv, WaitingIsQueued, At, Task
<1>2. CASE UNCHANGED vars BY <1>2 DEF vars, WaitInv, WaitingIsQueued, At, Task
<1> QED BY <1>1, <1>2, WaitingLoop, WaitingWeb DEF Next

(***************************************************************************)
(* AddSchedule forgets no task: a Waiting one is in the channel or with a  *)
(* goroutine, unless starting it failed.                                   *)
(***************************************************************************)
THEOREM NoTaskIsForgotten == Spec => []WaitingIsQueued
<1>1. WaitInv => WaitingIsQueued BY DEF WaitInv
<1> QED BY <1>1, TaskInvariant, InitWait, NextWait, PTL DEF Spec
-----------------------------------------------------------------------------
(***************************************************************************)
(* TypeOK: a task and a unit are listed once, the channel has its capacity.*)
(***************************************************************************)
\* A process that is on its way into Units is not there yet.
TypeInv == TypeOK /\ \A x \in Goroutines : At(x, "append") => th[x].pid \notin Range(units[Task(x)])

LEMMA AppendedOnce ==
    ASSUME NEW S, NEW s \in Seq(S), NEW e \in S, IsInjective(s), e \notin Range(s)
    PROVE  IsInjective(Append(s, e))
<1>1. /\ DOMAIN Append(s, e) = 1 .. (Len(s) + 1) /\ DOMAIN s = 1 .. Len(s) /\ Len(s) \in Nat
      /\ \A i \in 1 .. Len(s) : Append(s, e)[i] = s[i]
      /\ Append(s, e)[Len(s) + 1] = e
  OBVIOUS
<1>2. ASSUME NEW i \in 1 .. (Len(s) + 1), NEW j \in 1 .. (Len(s) + 1),
             Append(s, e)[i] = Append(s, e)[j]
      PROVE  i = j
  <2>1. \A k \in 1 .. Len(s) : s[k] # e BY <1>1 DEF Range
  <2>2. CASE i \in 1 .. Len(s) /\ j \in 1 .. Len(s)
    BY <1>1, <1>2, <2>2 DEF IsInjective
  <2>3. CASE i = Len(s) + 1 \/ j = Len(s) + 1 BY <1>1, <1>2, <2>1, <2>3
  <2> QED BY <1>1, <2>2, <2>3
<1> QED BY <1>1, <1>2 DEF IsInjective

\* A goroutine goes on, to where it has spawned nothing.
LEMMA FreshKept ==
    ASSUME TaskInv, TypeInv, NEW x \in Goroutines, NEW r, th' = [th EXCEPT ![x] = r],
           r.pc # "append", UNCHANGED units
    PROVE  \A y \in Goroutines : At(y, "append")' => th'[y].pid \notin Range(units'[Task(y)'])
<1>1. \A y \in Goroutines : th'[y] = IF y = x THEN r ELSE th[y] BY DEF TaskInv, Types
<1> QED BY <1>1 DEF TypeInv, At, Task

\* What a step owes: TaskInv gives the types.
LEMMA TypeStep ==
    ASSUME TaskInv', IsInjective(tasks'), \A t \in Names : IsInjective(units'[t]),
           queue' # NoChan => Len(queue') <= ChanCap,
           \A y \in Goroutines : At(y, "append")' => th'[y].pid \notin Range(units'[Task(y)'])
    PROVE  TypeInv'
BY DEF TaskInv, Types, TypeInv, TypeOK, Statuses

\* A step that touches neither the lists nor the channel.
LEMMA TypeSame ==
    ASSUME TaskInv, TaskInv', TypeInv, NEW x \in Goroutines, NEW r, th' = [th EXCEPT ![x] = r],
           r.pc # "append", UNCHANGED <<tasks, units, queue>>
    PROVE  TypeInv'
<1>1. \A y \in Goroutines : At(y, "append")' => th'[y].pid \notin Range(units'[Task(y)'])
  BY FreshKept
<1> QED BY <1>1, TypeStep DEF TypeInv, TypeOK

LEMMA TypeStarting ==
    ASSUME TaskInv, TaskInv', TypeInv, NEW x \in Goroutines, Starting(x)
    PROVE  TypeInv'
<1>1. th[x] \in Thread BY DEF TaskInv, Types
<1>2. CASE Start(x) \/ SpawnFails(x)
  <2>1. PICK n, l : /\ n = IF Processes[Task(x)] = 0 THEN 1 ELSE Processes[Task(x)]
                    /\ l = AfterStart(x)
    OBVIOUS
  <2>2. PICK r, s : r = [th[x] EXCEPT !.pc = "spawn", !.left = n] /\ s = [th[x] EXCEPT !.pc = l]
    OBVIOUS
  <2>3. th' = [th EXCEPT ![x] = r] \/ th' = [th EXCEPT ![x] = s]
    <3>1. CASE Start(x) /\ status[Task(x)] \in {"Ready", "Waiting"}
      BY <2>1, <2>2, <3>1 DEF Start
    <3>2. CASE Start(x) /\ status[Task(x)] \notin {"Ready", "Waiting"}
      BY <2>1, <2>2, <3>2 DEF Start, Goto
    <3>3. CASE SpawnFails(x) BY <2>1, <2>2, <3>3 DEF SpawnFails, Goto
    <3> QED BY <1>2, <3>1, <3>2, <3>3
  <2>4. r.pc # "append" /\ s.pc # "append" BY <1>1, <2>1, <2>2 DEF Thread, AfterStart
  <2>5. UNCHANGED <<tasks, units, queue>> BY <1>2 DEF Start, SpawnFails
  <2> QED BY <2>3, <2>4, <2>5, TypeSame
<1>3. CASE Spawn(x)
  <2>1. PICK p \in Pids : /\ proc[p] = Unused
                          /\ th' = [th EXCEPT ![x].pc = "append", ![x].pid = p]
    BY <1>3 DEF Spawn
  <2>2. UNCHANGED <<tasks, units, queue>> BY <1>3 DEF Spawn
  <2>3. \A t \in Names : p \notin Range(units[t])
    <3>0. Unused.pc = "unused" BY Zenon DEF Unused
    <3>1. proc[p].pc = "unused" BY <2>1, <3>0
    <3> QED BY <3>1 DEF TaskInv, Belongs
  <2>4. Task(x) \in Names BY <1>3, Holder DEF Spawn, At, Holding
  <2>5. /\ th'[x].pid = p /\ th'[x].task = Task(x)
        /\ \A y \in Goroutines \ {x} : th'[y] = th[y]
    BY <1>1, <2>1 DEF TaskInv, Types, Thread, Task
  <2>6. \A y \in Goroutines : At(y, "append")' => th'[y].pid \notin Range(units'[Task(y)'])
    BY <2>2, <2>3, <2>4, <2>5 DEF TypeInv, At, Task
  <2> QED BY <2>2, <2>6, TypeStep DEF TypeInv, TypeOK
<1>4. CASE AppendUnit(x)
  <2>1. PICK t, p : t = Task(x) /\ p = th[x].pid OBVIOUS
  <2>2. /\ th[x].pc = "append" /\ units' = [units EXCEPT ![t] = Append(@, p)]
        /\ UNCHANGED <<tasks, queue>>
    BY <1>4, <2>1 DEF AppendUnit, At
  <2>3. /\ t \in Names
        /\ \A y \in Goroutines : th[y].pc \in Holding /\ Task(y) = t => y = x
    BY <2>1, <2>2, Holder DEF Holding
  <2>4. p \in Pids /\ units[t] \in Seq(Pids)
    BY <2>1, <2>2, <2>3 DEF TaskInv, Types, Belongs, At
  <2>5. p \notin Range(units[t]) /\ IsInjective(units[t])
    BY <2>1, <2>2, <2>3 DEF TypeInv, TypeOK, At
  <2>6. /\ \A s \in Names \ {t} : units'[s] = units[s]
        /\ units'[t] = Append(units[t], p)
    BY <2>2, <2>3 DEF TaskInv, Types
  <2>7. \A s \in Names : IsInjective(units'[s])
    <3>1. IsInjective(Append(units[t], p)) BY <2>4, <2>5, AppendedOnce
    <3> QED BY <2>6, <3>1 DEF TypeInv, TypeOK
  <2>8. ASSUME NEW y \in Goroutines, th'[y].pc = "append"
        PROVE  th'[y].pid \notin Range(units'[th'[y].task])
    <3>1. PICK r : /\ th' = [th EXCEPT ![x] = r] /\ r.pc # "append"
      BY <1>4, UnitAppended DEF AfterStart
    <3>2. y # x /\ th'[y] = th[y] BY <2>8, <3>1 DEF TaskInv, Types
    <3>3. Task(y) \in Names /\ Task(y) # t BY <2>3, <2>8, <3>2, Holder DEF Holding
    <3> QED BY <2>6, <2>8, <3>2, <3>3 DEF TypeInv, At, Task
  <2> QED BY <2>2, <2>7, <2>8, TypeStep DEF TypeInv, TypeOK, At, Task
<1> QED BY <1>2, <1>3, <1>4 DEF Starting

LEMMA TypeWeb ==
    ASSUME TaskInv, TaskInv', TypeInv, NEW w \in Web,
           \/ CallStartAll(w) \/ CallStart(w) \/ CallExport(w) \/ WebStep(w)
           \/ \E n \in Names : NewTask(w, n)
    PROVE  TypeInv'
<1>1. w \in Goroutines /\ th[w] \in Thread BY DEF Goroutines, TaskInv, Types
<1>2. CASE CallStartAll(w) \/ CallStart(w) \/ CallExport(w) \/ Each(w) \/ GetStats(w) \/ Answer(w)
  <2>1. PICK r : Quiet(w, r) BY <1>2, CallQuiet, EachQuiet, GetStatsQuiet, OtherQuiet
  <2>2. UNCHANGED <<tasks, units, queue>>
    BY <1>2 DEF CallStartAll, CallStart, CallExport, Call, Each, GetStats, Answer
  <2> QED BY <1>1, <2>1, <2>2, TypeSame DEF Quiet, Holding
<1>3. CASE Schedule(w)
  <2>1. PICK r : r = [th[w] EXCEPT !.pc = "send"] OBVIOUS
  <2>2. th' = [th EXCEPT ![w] = r] /\ UNCHANGED <<tasks, units, queue>>
    BY <1>3, <2>1 DEF Schedule, Goto
  <2>3. r.pc # "append" BY <1>1, <2>1 DEF Thread
  <2> QED BY <1>1, <2>2, <2>3, TypeSame
<1>4. CASE Send(w) \/ \E n \in Names : NewTask(w, n)
  <2>1. PICK r : Quiet(w, r) BY <1>4, SendQuiet, OtherQuiet
  <2>2. UNCHANGED units BY <2>1 DEF Quiet
  <2>3. \A y \in Goroutines : At(y, "append")' => th'[y].pid \notin Range(units'[Task(y)'])
    BY <1>1, <2>1, <2>2, FreshKept DEF Quiet, Holding
  <2>4. CASE Send(w)
    <3>1. queue' # NoChan => Len(queue') <= ChanCap
      <4>1. CASE queue' = queue BY <4>1 DEF TypeInv, TypeOK
      <4>2. CASE queue # NoChan /\ Len(queue) < ChanCap /\ queue' = Append(queue, Task(w))
        <5>1. queue \in Seq(Names) BY <4>2 DEF TaskInv, Types
        <5>2. Len(queue) \in Nat /\ Len(queue') = Len(queue) + 1 BY <4>2, <5>1
        <5> QED BY <4>2, <5>2, PressureAssumption
      <4> QED BY <2>4, <4>1, <4>2 DEF Send
    <3>2. UNCHANGED tasks BY <2>4 DEF Send
    <3> QED BY <2>2, <2>3, <3>1, <3>2, TypeStep DEF TypeInv, TypeOK
  <2>5. CASE \E n \in Names : NewTask(w, n)
    <3>1. PICK n \in Names : /\ n \notin Range(tasks) /\ tasks' = Append(tasks, n)
                             /\ UNCHANGED queue
      BY <2>5 DEF NewTask
    <3>2. tasks \in Seq(Names) /\ IsInjective(tasks) BY DEF TaskInv, Types, TypeInv, TypeOK
    <3>3. IsInjective(tasks') BY <3>1, <3>2, AppendedOnce
    <3> QED BY <2>2, <2>3, <3>1, <3>3, TypeStep DEF TypeInv, TypeOK
  <2> QED BY <1>4, <2>4, <2>5
<1> QED BY <1>1, <1>2, <1>3, <1>4, TypeStarting DEF WebStep

LEMMA TypeLoop ==
    ASSUME TaskInv, TaskInv', TypeInv, LoopStep
    PROVE  TypeInv'
<1>1. Loop \in Goroutines BY DEF Goroutines
<1>2. CASE MakeChan \/ Receive \/ Check \/ WaitAll
  <2>1. PICK r : Quiet(Loop, r) BY <1>2, LoopQuiet
  <2>2. UNCHANGED <<tasks, units>>
    BY <1>2 DEF MakeChan, Receive, Check, WaitAll
  <2>3. \A y \in Goroutines : At(y, "append")' => th'[y].pid \notin Range(units'[Task(y)'])
    BY <1>1, <2>1, <2>2, FreshKept DEF Quiet, Holding
  <2>4. queue' # NoChan => Len(queue') <= ChanCap
    <3>1. CASE MakeChan BY <3>1, PressureAssumption DEF MakeChan
    <3>2. CASE Receive
      <4>1. /\ queue \in Seq(Names) /\ queue # <<>> /\ queue' = Tail(queue) /\ queue # NoChan
        BY <3>2 DEF Receive, TaskInv, Types, Chan, At
      <4>2. Len(queue) \in Nat /\ Len(queue') = Len(queue) - 1 BY <4>1
      <4>3. Len(queue) <= ChanCap BY <4>1 DEF TypeInv, TypeOK
      <4> QED BY <4>2, <4>3, PressureAssumption
    <3>3. CASE Check \/ WaitAll BY <3>3 DEF Check, WaitAll, TypeInv, TypeOK
    <3> QED BY <1>2, <3>1, <3>2, <3>3
  <2> QED BY <2>2, <2>3, <2>4, TypeStep DEF TypeInv, TypeOK
<1> QED BY <1>1, <1>2, TypeStarting DEF LoopStep

LEMMA InitType == Init => TypeInv
<1> SUFFICES ASSUME Init PROVE TypeInv OBVIOUS
<1>1. IsInjective(tasks) /\ \A t \in Names : IsInjective(units[t])
  BY DEF Init, IsInjective
<1>2. \A x \in Goroutines : ~At(x, "append")
  <2>1. \A x \in Goroutines : th[x].pc \in {"idle", "make"} BY IdleThread DEF Init
  <2> QED BY <2>1 DEF At
<1>3. queue = NoChan BY DEF Init
<1> QED BY <1>1, <1>2, <1>3, InitTask DEF TaskInv, Types, TypeInv, TypeOK, Statuses

LEMMA NextType == TaskInv /\ TaskInv' /\ TypeInv /\ [Next]_vars => TypeInv'
<1> SUFFICES ASSUME TaskInv, TaskInv', TypeInv, [Next]_vars PROVE TypeInv' OBVIOUS
<1>1. ASSUME NEW p \in Pids, Child(p) \/ Die(p) PROVE TypeInv'
  <2>1. UNCHANGED <<tasks, units, queue, th>> BY <1>1, ChildStep
  <2> QED BY <2>1, TypeStep DEF TypeInv, TypeOK, At, Task
<1>2. CASE UNCHANGED vars BY <1>2, TypeStep DEF vars, TypeInv, TypeOK, At, Task
<1> QED BY <1>1, <1>2, TypeLoop, TypeWeb DEF Next

(***************************************************************************)
(* NewTask lists a task once, Start lists a process once, and a send waits *)
(* for a place in the channel.                                             *)
(***************************************************************************)
THEOREM TypeCorrect == Spec => []TypeOK
<1>1. TypeInv => TypeOK BY DEF TypeInv
<1>2. Init => TaskInv /\ TypeInv BY InitTask, InitType
<1>3. (TaskInv /\ TypeInv) /\ [Next]_vars => (TaskInv /\ TypeInv)' BY NextTask, NextType
<1> QED BY <1>1, <1>2, <1>3, PTL DEF Spec
=============================================================================
