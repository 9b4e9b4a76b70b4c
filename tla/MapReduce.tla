----------------------------- MODULE MapReduce -----------------------------
(***************************************************************************)
(* The MapReduce coordinator of mr/coordinator.go and the workers of       *)
(* mr/worker.go.  A handler of the coordinator holds its lock, except that *)
(* AssignedTask takes it twice: for Check and for the assignment.  A       *)
(* worker may die at any point; the coordinator hands a task out again     *)
(* when it is 10 seconds old.                                              *)
(*                                                                         *)
(* Tasks are numbered from 0 in each phase; tasks[i + 1] is the status of  *)
(* task i.  A file is named by the tasks that write and read it; what it   *)
(* holds is a function of the input, so a second write changes nothing.    *)
(***************************************************************************)
EXTENDS Integers, Sequences, FiniteSets

CONSTANTS
    Worker,
    NMap,      \* input files
    NReduce,
    Nil,       \* no output file
    Slow,      \* a live worker may take longer than 10 seconds
    IOErrors,  \* creating and renaming files may fail
    MaxCrash   \* bound on the workers that die

ASSUME SizeAssumption == NMap \in Nat \ {0} /\ NReduce \in Nat \ {0} /\ MaxCrash \in Nat
ASSUME SwitchAssumption == Slow \in BOOLEAN /\ IOErrors \in BOOLEAN

MapId == 0..(NMap - 1)
ReduceId == 0..(NReduce - 1)
TaskId == MapId \cup ReduceId

VARIABLES
    coordinator,  \* "up", "exited" or "panicked"
    phase,
    nMap,         \* nCurrentAssignedMapTask: File holds the other input files
    nReduce,      \* nCurrentAssignedReduceTask
    tasks,
    late,         \* the tasks whose StartTime is more than 10 seconds ago
    rePendingTask,
    pc, task,     \* per worker, where it is and its TaskID
    written,      \* per worker, how many files of its map task it has renamed
    read,         \* per worker, the map tasks whose files its reduce task read
    intermediate, \* the files mr-m-r
    output        \* mr-out-r: the map tasks it was computed from

coordinatorVars == <<coordinator, phase, nMap, nReduce, tasks, late, rePendingTask>>
workerVars == <<pc, task, written, read>>
fileVars == <<intermediate, output>>
vars == <<coordinatorVars, workerVars, fileVars>>

Init ==
    /\ coordinator = "up" /\ phase = "map"
    /\ nMap = 0 /\ nReduce = 0
    /\ tasks = <<>> /\ late = {} /\ rePendingTask = <<>>
    /\ pc = [w \in Worker |-> "ask"]
    /\ task = [w \in Worker |-> 0]
    /\ written = [w \in Worker |-> 0]
    /\ read = [w \in Worker |-> {}]
    /\ intermediate = {}
    /\ output = [r \in ReduceId |-> Nil]

-----------------------------------------------------------------------------
(* The coordinator.                                                        *)

\* Fault: the loop returns at the first task
AllTaskDoneFirst == \E i \in DOMAIN tasks : tasks[i] = "Completed"

AllTaskDone == tasks # <<>> /\ \A i \in DOMAIN tasks : tasks[i] = "Completed"

\* Fault: a task waiting to be handed out again is forgotten
CheckNoPending(w) ==
    /\ coordinator = "up" /\ pc[w] = "ask"
    /\ CASE phase = "map" /\ AllTaskDone /\ nMap = NMap ->
              phase' = "reduce" /\ tasks' = <<>> /\ late' = {}
         [] phase = "reduce" /\ AllTaskDone /\ nReduce = NReduce ->
              phase' = "finish" /\ UNCHANGED <<tasks, late>>
         [] OTHER -> UNCHANGED <<phase, tasks, late>>
    /\ pc' = [pc EXCEPT ![w] = "checked"]
    /\ UNCHANGED <<coordinator, nMap, nReduce, rePendingTask, task, written, read, fileVars>>

\* The first half of AssignedTask
Check(w) ==
    /\ coordinator = "up" /\ pc[w] = "ask"
    /\ CASE phase = "map" /\ AllTaskDone /\ nMap = NMap /\ rePendingTask = <<>> ->
              phase' = "reduce" /\ tasks' = <<>> /\ late' = {}
         [] phase = "reduce" /\ AllTaskDone /\ nReduce = NReduce /\ rePendingTask = <<>> ->
              phase' = "finish" /\ UNCHANGED <<tasks, late>>
         [] OTHER -> UNCHANGED <<phase, tasks, late>>
    /\ pc' = [pc EXCEPT ![w] = "checked"]
    /\ UNCHANGED <<coordinator, nMap, nReduce, rePendingTask, task, written, read, fileVars>>

\* The reply to worker w: task i of the phase
Reply(w, i) ==
    /\ pc' = [pc EXCEPT ![w] = phase]
    /\ task' = [task EXCEPT ![w] = i]
    /\ UNCHANGED <<written, read>>

NewMapTask == phase = "map" /\ nMap < NMap /\ nMap' = nMap + 1 /\ UNCHANGED nReduce
NewReduceTask == phase = "reduce" /\ nReduce # NReduce /\ nReduce' = nReduce + 1 /\ UNCHANGED nMap

\* The next task that was never handed out
AssignNew(w) ==
    /\ NewMapTask \/ NewReduceTask
    /\ tasks' = Append(tasks, "Doing")
    /\ Reply(w, IF phase = "map" THEN nMap ELSE nReduce)
    /\ UNCHANGED <<coordinator, phase, late, rePendingTask>>

AllAssigned == \/ phase = "map" /\ nMap = NMap
               \/ phase = "reduce" /\ nReduce = NReduce

\* A task handed out again: its StartTime is new, its status stays
AssignAgain(w) ==
    /\ AllAssigned /\ rePendingTask # <<>>
    /\ late' = late \ {Head(rePendingTask)}
    /\ rePendingTask' = Tail(rePendingTask)
    /\ Reply(w, Head(rePendingTask))
    /\ UNCHANGED <<coordinator, phase, nMap, nReduce, tasks>>

\* The tasks HandleTimeOutTask looks for; it queues the first
TimedOut == {i \in late : tasks[i + 1] = "Doing"}

\* Fault: the result of the search is not stored
HandleTimeOutTaskLost == UNCHANGED rePendingTask

HandleTimeOutTask ==
    IF TimedOut = {} THEN UNCHANGED rePendingTask
    ELSE rePendingTask' =
           Append(rePendingTask, CHOOSE i \in TimedOut : \A j \in TimedOut : i <= j)

\* Nothing to hand out: the worker sleeps and asks again
Wait(w) ==
    /\ AllAssigned /\ rePendingTask = <<>>
    /\ HandleTimeOutTask
    /\ pc' = [pc EXCEPT ![w] = "ask"]
    /\ UNCHANGED <<coordinator, phase, nMap, nReduce, tasks, late, task, written, read>>

\* The worker returns
Finish(w) ==
    /\ phase = "finish"
    /\ pc' = [pc EXCEPT ![w] = "exited"]
    /\ UNCHANGED <<coordinatorVars, task, written, read>>

\* The second half of AssignedTask
Assign(w) ==
    /\ coordinator = "up" /\ pc[w] = "checked"
    /\ AssignNew(w) \/ AssignAgain(w) \/ Wait(w) \/ Finish(w)
    /\ UNCHANGED fileVars

\* The worker reports a task by its number alone: c.tasks is indexed with it, whatever
\* the phase, and an index that is out of range panics
MarkTaskDone(w) ==
    /\ coordinator = "up" /\ pc[w] = "report"
    /\ IF task[w] < Len(tasks)
         THEN /\ tasks' = [tasks EXCEPT ![task[w] + 1] = "Completed"]
              /\ UNCHANGED coordinator
         ELSE /\ coordinator' = "panicked"
              /\ UNCHANGED tasks
    /\ pc' = [pc EXCEPT ![w] = "ask"]
    /\ UNCHANGED <<phase, nMap, nReduce, late, rePendingTask, task, written, read, fileVars>>

\* mrcoordinator sees Done and exits
Done ==
    /\ coordinator = "up" /\ phase = "finish"
    /\ coordinator' = "exited"
    /\ UNCHANGED <<phase, nMap, nReduce, tasks, late, rePendingTask, workerVars, fileVars>>

-----------------------------------------------------------------------------
(* The workers.                                                            *)

\* Fault: one partition too many
RenameIntermediatePast(w) ==
    /\ pc[w] = "map" /\ written[w] <= NReduce
    /\ intermediate' = intermediate \cup {<<task[w], written[w]>>}
    /\ written' = [written EXCEPT ![w] = @ + 1]
    /\ UNCHANGED <<coordinatorVars, pc, task, read, output>>

\* DoMapTask makes the file of one more partition visible; a failed Rename is logged
RenameIntermediate(w) ==
    /\ pc[w] = "map" /\ written[w] < NReduce
    /\ \/ intermediate' = intermediate \cup {<<task[w], written[w]>>}
       \/ IOErrors /\ UNCHANGED intermediate
    /\ written' = [written EXCEPT ![w] = @ + 1]
    /\ UNCHANGED <<coordinatorVars, pc, task, read, output>>

\* Fault: the task is reported when one file is still missing
MapDoneEarly(w) ==
    /\ pc[w] = "map" /\ written[w] = NReduce - 1
    /\ pc' = [pc EXCEPT ![w] = "report"]
    /\ written' = [written EXCEPT ![w] = 0]
    /\ UNCHANGED <<coordinatorVars, task, read, fileVars>>

MapDone(w) ==
    /\ pc[w] = "map" /\ written[w] = NReduce
    /\ pc' = [pc EXCEPT ![w] = "report"]
    /\ written' = [written EXCEPT ![w] = 0]
    /\ UNCHANGED <<coordinatorVars, task, read, fileVars>>

\* A temporary file cannot be created: DoMapTask returns, and the worker reports the
\* task like any other
MapFails(w) ==
    /\ IOErrors
    /\ pc[w] = "map" /\ written[w] = 0
    /\ pc' = [pc EXCEPT ![w] = "report"]
    /\ UNCHANGED <<coordinatorVars, task, written, read, fileVars>>

\* DoReduceTask reads every file of its partition that is there
ReduceRead(w) ==
    /\ pc[w] = "reduce"
    /\ read' = [read EXCEPT ![w] = {m \in MapId : <<m, task[w]>> \in intermediate}]
    /\ pc' = [pc EXCEPT ![w] = "reduced"]
    /\ UNCHANGED <<coordinatorVars, task, written, fileVars>>

\* and renames its output; the worker reports the task also when that failed or the
\* directory could not be read
ReduceDone(w) ==
    /\ pc[w] = "reduced"
    /\ \/ output' = [output EXCEPT ![task[w]] = read[w]]
       \/ IOErrors /\ UNCHANGED output
    /\ read' = [read EXCEPT ![w] = {}]
    /\ pc' = [pc EXCEPT ![w] = "report"]
    /\ UNCHANGED <<coordinatorVars, task, written, intermediate>>

\* A call to a coordinator that is gone fails; the next one cannot dial
CallFails(w) ==
    /\ coordinator # "up"
    /\ \/ pc[w] = "checked" /\ pc' = [pc EXCEPT ![w] = "ask"]
       \/ pc[w] \in {"ask", "report"} /\ pc' = [pc EXCEPT ![w] = "exited"]
    /\ UNCHANGED <<coordinatorVars, task, written, read, fileVars>>

\* A worker dies.  A call it has made is carried out, as if it had died just after.
Crash(w) ==
    /\ pc[w] \in {"ask", "map", "reduce", "reduced", "report"}
    /\ Cardinality({v \in Worker : pc[v] = "dead"}) < MaxCrash
    /\ pc' = [pc EXCEPT ![w] = "dead"]
    /\ UNCHANGED <<coordinatorVars, task, written, read, fileVars>>

\* Task i is 10 seconds old
Working(w, i) == pc[w] \in {"map", "reduce", "reduced", "report"} /\ task[w] = i
Expire(i) ==
    /\ coordinator = "up"
    /\ i < Len(tasks) /\ i \notin late
    /\ tasks[i + 1] = "Doing"
    /\ Slow \/ \A w \in Worker : ~Working(w, i)
    /\ late' = late \cup {i}
    /\ UNCHANGED <<coordinator, phase, nMap, nReduce, tasks, rePendingTask, workerVars, fileVars>>

-----------------------------------------------------------------------------
Work(w) ==
    \/ Check(w) \/ Assign(w) \/ MarkTaskDone(w)
    \/ RenameIntermediate(w) \/ MapDone(w) \/ ReduceRead(w) \/ ReduceDone(w)
    \/ CallFails(w)

Next ==
    \/ \E w \in Worker : Work(w) \/ MapFails(w) \/ Crash(w)
    \/ \E i \in TaskId : Expire(i)
    \/ Done

Spec == Init /\ [][Next]_vars

\* Live workers run, the clock moves on and main calls Done.  Crashes and file errors
\* need not happen.
Fairness ==
    /\ \A w \in Worker : WF_vars(Work(w))
    /\ \A i \in TaskId : WF_vars(Expire(i))
    /\ WF_vars(Done)

FairSpec == Spec /\ Fairness

-----------------------------------------------------------------------------
(* Properties.                                                             *)

\* Type correctness.
TypeOK ==
    /\ coordinator \in {"up", "exited", "panicked"} /\ phase \in {"map", "reduce", "finish"}
    /\ nMap \in 0..NMap /\ nReduce \in 0..NReduce
    /\ tasks \in Seq({"Doing", "Completed"})
    /\ late \subseteq TaskId /\ rePendingTask \in Seq(TaskId)
    /\ pc \in [Worker -> {"ask", "checked", "map", "reduce", "reduced", "report", "exited", "dead"}]
    /\ task \in [Worker -> TaskId] /\ written \in [Worker -> 0..NReduce]
    /\ read \in [Worker -> SUBSET MapId]
    /\ intermediate \subseteq MapId \X ReduceId
    /\ output \in [ReduceId -> (SUBSET MapId) \cup {Nil}]

\* The queue of tasks to hand out again never names a task the phase does not have, so
\* c.tasks[TaskID] in AssignedTask (coordinator.go:57, 83) stays in range, even when a
\* task completes while it waits there; and it never holds a task twice.
RePendingValid ==
    /\ Len(rePendingTask) <= 1
    /\ \A n \in DOMAIN rePendingTask : rePendingTask[n] < Len(tasks)

\* A reduce task never reads before every map task's files are there, although workers
\* die between the renames of one task and tasks are repeated.
ReduceReadsAll ==
    \A w \in Worker : pc[w] = "reduced" => read[w] = MapId

\* "Done() ... find out if the entire job has finished": in the last phase every output
\* file is there and was computed from every map task.
JobComplete == phase = "finish" => \A r \in ReduceId : output[r] = MapId

\* As long as one worker lives, every worker that lives is told to exit and the
\* coordinator exits: lost tasks are found and repeated.
JobFinishes == <>(coordinator = "exited" /\ \A w \in Worker : pc[w] \in {"exited", "dead"})

=============================================================================
