-------------------------- MODULE MapReduceProofs --------------------------
(***************************************************************************)
(* Proofs about MapReduce: its types, that the queue of tasks to hand out  *)
(* again only names tasks of the phase, that a reduce task reads the files *)
(* of every map task, and when a finished job is complete.                 *)
(***************************************************************************)
EXTENDS MapReduce, TLAPS, SequenceTheorems, WellFoundedInduction

Statuses == {"Doing", "Completed"}

\* A set of numbers that is not empty has a least one.
LEMMA LeastNat ==
    ASSUME NEW S \in SUBSET Nat, S # {}
    PROVE  \E k \in S : \A j \in S : k <= j
<1>1. PICK k \in S : \A j \in S : ~(<<j, k>> \in OpToRel(<, Nat))
  BY WFMin, NatLessThanWellFounded
<1>2. \A j \in S : j < k => <<j, k>> \in OpToRel(<, Nat)
  BY DEF OpToRel
<1>3. k \in Nat /\ \A j \in S : j \in Nat /\ ~(j < k)
  BY <1>1, <1>2
<1> QED BY <1>3

\* c.tasks holds the tasks of the phase that were handed out
TasksCounted ==
    /\ Len(tasks) = IF phase = "map" THEN nMap ELSE nReduce
    /\ phase = "map" => nReduce = 0
    /\ \A i \in late : i < Len(tasks)

\* A worker at a map task has the number of a map task
TaskOfPhase(w) ==
    /\ pc[w] = "map" => task[w] \in MapId
    /\ pc[w] \in {"reduce", "reduced"} => task[w] \in ReduceId

MInv == TypeOK /\ RePendingValid /\ TasksCounted /\ \A w \in Worker : TaskOfPhase(w)

LEMMA MInit == Init => MInv
<1> SUFFICES ASSUME Init PROVE MInv
  OBVIOUS
<1>1. /\ 0 \in TaskId /\ 0 \in 0..NMap /\ 0 \in 0..NReduce
      /\ Len(<<>>) = 0 /\ DOMAIN <<>> = {}
  BY SizeAssumption DEF TaskId, MapId
<1>e. <<>> \in Seq(Statuses) /\ <<>> \in Seq(TaskId)
  BY EmptySeq
<1>2. TypeOK
  <2>1. /\ pc \in [Worker -> {"ask", "checked", "map", "reduce", "reduced", "report", "exited", "dead"}]
        /\ task \in [Worker -> TaskId] /\ written \in [Worker -> 0..NReduce]
    BY <1>1 DEF Init
  <2>2. read \in [Worker -> SUBSET MapId] /\ output \in [ReduceId -> (SUBSET MapId) \cup {Nil}]
    <3>1. {} \in SUBSET MapId /\ Nil \in (SUBSET MapId) \cup {Nil}
      OBVIOUS
    <3> QED BY <3>1 DEF Init
  <2> QED BY <1>1, <1>e, <2>1, <2>2 DEF Init, TypeOK, Statuses
<1>3. RePendingValid /\ TasksCounted
  BY <1>1 DEF Init, RePendingValid, TasksCounted
<1> QED BY <1>2, <1>3 DEF Init, MInv, TaskOfPhase

\* The numbers of the tasks of the phase are in its range.
LEMMA PhaseIds ==
    ASSUME MInv, NEW i \in TaskId, i < Len(tasks)
    PROVE  IF phase = "map" THEN i \in MapId ELSE i \in ReduceId
<1>1. i \in Nat /\ nMap \in 0..NMap /\ nReduce \in 0..NReduce /\ NMap \in Nat /\ NReduce \in Nat
  BY SizeAssumption DEF MInv, TypeOK, TaskId, MapId, ReduceId
<1> QED BY <1>1 DEF MInv, TasksCounted, MapId, ReduceId

\* A step that leaves the coordinator's queue and tasks alone keeps the invariant if
\* it keeps the types and the numbers of the workers' tasks.
LEMMA WorkerStep ==
    ASSUME MInv, TypeOK', \A w \in Worker : TaskOfPhase(w)',
           UNCHANGED <<phase, nMap, nReduce, tasks, late, rePendingTask>>
    PROVE  MInv'
BY DEF MInv, RePendingValid, TasksCounted

LEMMA CheckStep ==
    ASSUME MInv, NEW w \in Worker, Check(w)
    PROVE  MInv'
<1>0. TypeOK /\ RePendingValid /\ TasksCounted /\ (\A v \in Worker : TaskOfPhase(v))
  BY DEF MInv
<1>1. UNCHANGED <<coordinator, nMap, nReduce, rePendingTask, task, written, read, intermediate, output>>
  BY DEF Check, fileVars
<1>2. pc' \in [Worker -> {"ask", "checked", "map", "reduce", "reduced", "report", "exited", "dead"}]
  BY <1>0 DEF Check, TypeOK
<1>3. \A v \in Worker : TaskOfPhase(v)'
  BY <1>0, <1>1 DEF Check, TypeOK, TaskOfPhase
<1>4. CASE phase = "map" /\ AllTaskDone /\ nMap = NMap /\ rePendingTask = <<>>
  <2>1. phase' = "reduce" /\ tasks' = <<>> /\ late' = {}
    BY <1>4 DEF Check
  <2>2. <<>> \in Seq(Statuses) /\ Len(<<>>) = 0
    BY EmptySeq
  <2>3. TypeOK'
    BY <1>0, <1>1, <1>2, <2>1, <2>2 DEF TypeOK, Statuses
  <2>4. TasksCounted'
    BY <1>0, <1>1, <1>4, <2>1, <2>2 DEF TasksCounted
  <2>5. RePendingValid'
    BY <1>1, <1>4, <2>2 DEF RePendingValid
  <2> QED BY <1>3, <2>3, <2>4, <2>5 DEF MInv
<1>5. CASE ~(phase = "map" /\ AllTaskDone /\ nMap = NMap /\ rePendingTask = <<>>)
  <2>1. /\ tasks' = tasks /\ late' = late
        /\ phase' = phase \/ (phase = "reduce" /\ phase' = "finish")
    BY <1>5 DEF Check
  <2>2. TypeOK'
    BY <1>0, <1>1, <1>2, <2>1 DEF TypeOK
  <2>3. TasksCounted'
    BY <1>0, <1>1, <2>1 DEF TasksCounted
  <2>4. RePendingValid'
    BY <1>0, <1>1, <2>1 DEF RePendingValid
  <2> QED BY <1>3, <2>2, <2>3, <2>4 DEF MInv
<1> QED BY <1>4, <1>5

LEMMA AssignStep ==
    ASSUME MInv, NEW w \in Worker, Assign(w)
    PROVE  MInv'
<1>0. /\ TypeOK /\ RePendingValid /\ TasksCounted /\ (\A v \in Worker : TaskOfPhase(v))
      /\ NMap \in Nat \ {0} /\ NReduce \in Nat \ {0}
  BY SizeAssumption DEF MInv
<1>1. UNCHANGED <<intermediate, output>>
  BY DEF Assign, fileVars
<1>2. ASSUME NEW i \in TaskId, Reply(w, i),
             phase \in {"map", "reduce"},
             IF phase = "map" THEN i \in MapId ELSE i \in ReduceId
      PROVE  /\ pc' \in [Worker -> {"ask", "checked", "map", "reduce", "reduced", "report", "exited", "dead"}]
             /\ task' \in [Worker -> TaskId] /\ written' = written /\ read' = read
             /\ \A v \in Worker : TaskOfPhase(v)'
  <2>1. /\ pc' \in [Worker -> {"ask", "checked", "map", "reduce", "reduced", "report", "exited", "dead"}]
        /\ task' \in [Worker -> TaskId] /\ written' = written /\ read' = read
    BY <1>0, <1>2 DEF Reply, TypeOK
  <2>2. pc'[w] = phase /\ task'[w] = i /\ \A v \in Worker \ {w} : pc'[v] = pc[v] /\ task'[v] = task[v]
    BY <1>0, <1>2 DEF Reply, TypeOK
  <2>3. \A v \in Worker : TaskOfPhase(v)'
    BY <1>0, <1>2, <2>2 DEF TaskOfPhase
  <2> QED BY <2>1, <2>3
<1>3. CASE AssignNew(w)
  <2>1. PICK i : i = IF phase = "map" THEN nMap ELSE nReduce
    OBVIOUS
  <2>2. /\ Reply(w, i) /\ tasks' = Append(tasks, "Doing")
        /\ UNCHANGED <<coordinator, phase, late, rePendingTask>>
    BY <1>3, <2>1 DEF AssignNew, NewMapTask, NewReduceTask
  <2>3. nMap \in 0..NMap /\ nReduce \in 0..NReduce
    BY <1>0 DEF TypeOK
  <2>4. /\ nMap' \in 0..NMap /\ nReduce' \in 0..NReduce /\ phase \in {"map", "reduce"}
        /\ IF phase = "map" THEN nMap' = nMap + 1 /\ nReduce' = nReduce /\ i \in MapId
           ELSE nReduce' = nReduce + 1 /\ i \in ReduceId
    BY <1>0, <1>3, <2>1, <2>3 DEF AssignNew, NewMapTask, NewReduceTask, MapId, ReduceId
  <2>5. i \in TaskId
    BY <2>4 DEF TaskId
  <2>6. /\ tasks \in Seq(Statuses) /\ tasks' \in Seq(Statuses)
        /\ Len(tasks') = Len(tasks) + 1 /\ Len(tasks) \in Nat
    BY <1>0, <2>2, AppendProperties, LenProperties DEF TypeOK, Statuses
  <2>7. /\ pc' \in [Worker -> {"ask", "checked", "map", "reduce", "reduced", "report", "exited", "dead"}]
        /\ task' \in [Worker -> TaskId] /\ written' = written /\ read' = read
        /\ \A v \in Worker : TaskOfPhase(v)'
    BY <1>2, <2>2, <2>4, <2>5
  <2>8. TypeOK'
    BY <1>0, <1>1, <2>2, <2>4, <2>6, <2>7 DEF TypeOK, Statuses
  <2>9. TasksCounted'
    <3>1. Len(tasks') = IF phase' = "map" THEN nMap' ELSE nReduce'
      BY <1>0, <2>2, <2>4, <2>6 DEF TasksCounted
    <3>2. phase' = "map" => nReduce' = 0
      BY <1>0, <2>2, <2>4 DEF TasksCounted
    <3>3. \A j \in late : j \in Int
      BY <1>0 DEF TypeOK, TaskId, MapId, ReduceId
    <3>4. \A j \in late' : j < Len(tasks')
      BY <1>0, <2>2, <2>6, <3>3 DEF TasksCounted
    <3> QED BY <3>1, <3>2, <3>4 DEF TasksCounted
  <2>10. RePendingValid'
    <3>1. \A n \in DOMAIN rePendingTask : rePendingTask[n] \in Int
      BY <1>0, LenProperties DEF TypeOK, TaskId, MapId, ReduceId
    <3> QED BY <1>0, <2>2, <2>6, <3>1 DEF RePendingValid
  <2> QED BY <2>7, <2>8, <2>9, <2>10 DEF MInv
<1>4. CASE AssignAgain(w)
  <2>1. PICK i : i = Head(rePendingTask)
    OBVIOUS
  <2>2. /\ Reply(w, i) /\ late' = late \ {i} /\ rePendingTask' = Tail(rePendingTask)
        /\ UNCHANGED <<coordinator, phase, nMap, nReduce, tasks>>
        /\ rePendingTask # <<>> /\ phase \in {"map", "reduce"}
    BY <1>4, <2>1 DEF AssignAgain, AllAssigned
  <2>3. rePendingTask \in Seq(TaskId) /\ Len(rePendingTask) = 1
    <3>1. rePendingTask \in Seq(TaskId) /\ Len(rePendingTask) <= 1
      BY <1>0 DEF TypeOK, RePendingValid
    <3>2. Len(rePendingTask) \in Nat \ {0}
      BY <2>2, <3>1, EmptySeq
    <3>3. \A n \in Nat \ {0} : n <= 1 => n = 1
      OBVIOUS
    <3>4. Len(rePendingTask) = 1
      BY <3>1, <3>2, <3>3, Zenon
    <3> QED BY <3>1, <3>4
  <2>4. i = rePendingTask[1] /\ 1 \in DOMAIN rePendingTask
    BY <2>1, <2>2, <2>3, HeadTailProperties, LenProperties
  <2>5. i \in TaskId /\ i < Len(tasks)
    BY <1>0, <2>3, <2>4, ElementOfSeq DEF RePendingValid
  <2>6. IF phase = "map" THEN i \in MapId ELSE i \in ReduceId
    BY <2>5, PhaseIds
  <2>7. /\ pc' \in [Worker -> {"ask", "checked", "map", "reduce", "reduced", "report", "exited", "dead"}]
        /\ task' \in [Worker -> TaskId] /\ written' = written /\ read' = read
        /\ \A v \in Worker : TaskOfPhase(v)'
    BY <1>2, <2>2, <2>5, <2>6
  <2>8. rePendingTask' \in Seq(TaskId) /\ Len(rePendingTask') = 0
    BY <2>2, <2>3, HeadTailProperties
  <2>9. rePendingTask' = <<>>
    BY <2>8, EmptySeq
  <2>10. TypeOK'
    BY <1>0, <1>1, <2>2, <2>7, <2>8 DEF TypeOK
  <2>11. TasksCounted'
    BY <1>0, <2>2 DEF TasksCounted
  <2>12. RePendingValid'
    BY <2>8, <2>9 DEF RePendingValid
  <2> QED BY <2>7, <2>10, <2>11, <2>12 DEF MInv
<1>5. CASE Wait(w)
  <2>1. /\ UNCHANGED <<coordinator, phase, nMap, nReduce, tasks, late, task, written, read>>
        /\ rePendingTask = <<>> /\ HandleTimeOutTask /\ pc' = [pc EXCEPT ![w] = "ask"]
    BY <1>5 DEF Wait
  <2>2. /\ pc' \in [Worker -> {"ask", "checked", "map", "reduce", "reduced", "report", "exited", "dead"}]
        /\ \A v \in Worker : TaskOfPhase(v)'
    BY <1>0, <2>1 DEF TypeOK, TaskOfPhase
  <2>3. rePendingTask' \in Seq(TaskId) /\ RePendingValid'
    <3>1. CASE TimedOut = {}
      BY <1>0, <2>1, <3>1 DEF HandleTimeOutTask, TypeOK, RePendingValid
    <3>2. CASE TimedOut # {}
      <4>1. PICK i : i = CHOOSE k \in TimedOut : \A j \in TimedOut : k <= j
        OBVIOUS
      <4>2. TimedOut \subseteq late /\ TimedOut \subseteq Nat
        <5>1. TimedOut \subseteq late /\ late \subseteq TaskId
          BY <1>0 DEF TimedOut, TypeOK
        <5>2. TaskId \subseteq Nat
          BY <1>0 DEF TaskId, MapId, ReduceId
        <5> QED BY <5>1, <5>2
      <4>3. \E k \in TimedOut : \A j \in TimedOut : k <= j
        BY <3>2, <4>2, LeastNat
      <4>4. i \in TimedOut
        BY <4>1, <4>3
      <4>5. i \in TaskId /\ i < Len(tasks)
        BY <1>0, <4>2, <4>4 DEF TypeOK, TasksCounted
      <4>6. rePendingTask' = <<i>>
        BY <2>1, <3>2, <4>1, <4>5 DEF HandleTimeOutTask
      <4>7. rePendingTask' \in Seq(TaskId) /\ Len(rePendingTask') = 1 /\ DOMAIN rePendingTask' = {1}
        BY <4>5, <4>6
      <4> QED BY <2>1, <4>5, <4>6, <4>7 DEF RePendingValid
    <3> QED BY <3>1, <3>2
  <2>4. TypeOK'
    BY <1>0, <1>1, <2>1, <2>2, <2>3 DEF TypeOK
  <2>5. TasksCounted'
    BY <1>0, <2>1 DEF TasksCounted
  <2> QED BY <2>2, <2>3, <2>4, <2>5 DEF MInv
<1>6. CASE Finish(w)
  <2>1. UNCHANGED <<coordinator, phase, nMap, nReduce, tasks, late, rePendingTask, task, written, read>>
    BY <1>6 DEF Finish, coordinatorVars
  <2>2. TypeOK'
    BY <1>0, <1>1, <1>6, <2>1 DEF Finish, TypeOK
  <2>3. \A v \in Worker : TaskOfPhase(v)'
    BY <1>0, <1>6, <2>1 DEF Finish, TypeOK, TaskOfPhase
  <2> QED BY <2>1, <2>2, <2>3, WorkerStep
<1> QED BY <1>3, <1>4, <1>5, <1>6 DEF Assign

LEMMA ReportStep ==
    ASSUME MInv, NEW w \in Worker, MarkTaskDone(w)
    PROVE  MInv'
<1>0. /\ TypeOK /\ RePendingValid /\ TasksCounted /\ (\A v \in Worker : TaskOfPhase(v))
  BY DEF MInv
<1>1. UNCHANGED <<phase, nMap, nReduce, late, rePendingTask, task, written, read, intermediate, output>>
  BY DEF MarkTaskDone, fileVars
<1>2. pc' \in [Worker -> {"ask", "checked", "map", "reduce", "reduced", "report", "exited", "dead"}]
  BY <1>0 DEF MarkTaskDone, TypeOK
<1>3. \A v \in Worker : TaskOfPhase(v)'
  BY <1>0, <1>1 DEF MarkTaskDone, TypeOK, TaskOfPhase
<1>4. /\ coordinator' \in {"up", "exited", "panicked"}
      /\ tasks' \in Seq(Statuses) /\ Len(tasks') = Len(tasks)
  <2>1. tasks \in Seq(Statuses) /\ task[w] \in Nat /\ Len(tasks) \in Nat
    BY <1>0, LenProperties DEF TypeOK, Statuses, TaskId, MapId, ReduceId
  <2>2. CASE task[w] < Len(tasks)
    <3>1. tasks' = [tasks EXCEPT ![task[w] + 1] = "Completed"] /\ coordinator' = coordinator
      BY <2>2 DEF MarkTaskDone
    <3>2. task[w] + 1 \in 1..Len(tasks) /\ "Completed" \in Statuses
      BY <2>1, <2>2 DEF Statuses
    <3>3. tasks' \in Seq(Statuses) /\ Len(tasks') = Len(tasks)
      BY <2>1, <3>1, <3>2, ExceptSeq
    <3> QED BY <1>0, <3>1, <3>3 DEF TypeOK
  <2>3. CASE ~(task[w] < Len(tasks))
    BY <2>1, <2>3 DEF MarkTaskDone
  <2> QED BY <2>2, <2>3
<1>5. TypeOK'
  BY <1>0, <1>1, <1>2, <1>4 DEF TypeOK, Statuses
<1>6. TasksCounted' /\ RePendingValid'
  BY <1>0, <1>1, <1>4 DEF TasksCounted, RePendingValid
<1> QED BY <1>3, <1>5, <1>6 DEF MInv

LEMMA FileStep ==
    ASSUME MInv, NEW w \in Worker,
           RenameIntermediate(w) \/ MapDone(w) \/ MapFails(w) \/ ReduceRead(w) \/ ReduceDone(w)
             \/ CallFails(w) \/ Crash(w)
    PROVE  MInv'
<1>0. /\ TypeOK /\ (\A v \in Worker : TaskOfPhase(v)) /\ NReduce \in Nat
  BY SizeAssumption DEF MInv
<1>1. UNCHANGED <<coordinator, phase, nMap, nReduce, tasks, late, rePendingTask, task>>
  BY DEF RenameIntermediate, MapDone, MapFails, ReduceRead, ReduceDone, CallFails, Crash, coordinatorVars
<1>2. pc' \in [Worker -> {"ask", "checked", "map", "reduce", "reduced", "report", "exited", "dead"}]
  BY <1>0 DEF RenameIntermediate, MapDone, MapFails, ReduceRead, ReduceDone, CallFails, Crash, TypeOK
<1>3. \A v \in Worker : pc'[v] \in {"map", "reduce"} => pc'[v] = pc[v]
  BY <1>0 DEF RenameIntermediate, MapDone, MapFails, ReduceRead, ReduceDone, CallFails, Crash, TypeOK
<1>4. \A v \in Worker : pc'[v] = "reduced" => pc[v] \in {"reduce", "reduced"}
  BY <1>0 DEF RenameIntermediate, MapDone, MapFails, ReduceRead, ReduceDone, CallFails, Crash, TypeOK
<1>5. \A v \in Worker : TaskOfPhase(v)'
  BY <1>0, <1>1, <1>3, <1>4 DEF TaskOfPhase
<1>6. /\ written' \in [Worker -> 0..NReduce] /\ intermediate' \subseteq MapId \X ReduceId
  <2>1. CASE RenameIntermediate(w)
    <3>1. task[w] \in MapId /\ written[w] \in 0..NReduce /\ written[w] < NReduce
      BY <1>0, <2>1 DEF RenameIntermediate, TaskOfPhase, TypeOK
    <3>2. written[w] \in ReduceId /\ written[w] + 1 \in 0..NReduce
      BY <1>0, <3>1 DEF ReduceId
    <3>3. written' \in [Worker -> 0..NReduce]
      BY <1>0, <2>1, <3>2 DEF RenameIntermediate, TypeOK
    <3>4. intermediate' \subseteq intermediate \cup {<<task[w], written[w]>>}
      BY <2>1 DEF RenameIntermediate
    <3> QED BY <1>0, <3>1, <3>2, <3>3, <3>4 DEF TypeOK
  <2>2. CASE ~RenameIntermediate(w)
    <3>1. intermediate' = intermediate
      BY <2>2 DEF MapDone, MapFails, ReduceRead, ReduceDone, CallFails, Crash, fileVars
    <3>2. written' = written \/ written' = [written EXCEPT ![w] = 0]
      BY <2>2 DEF MapDone, MapFails, ReduceRead, ReduceDone, CallFails, Crash
    <3>3. written \in [Worker -> 0..NReduce] /\ 0 \in 0..NReduce
      BY <1>0 DEF TypeOK
    <3>4. written' \in [Worker -> 0..NReduce]
      BY <3>2, <3>3
    <3> QED BY <1>0, <3>1, <3>4 DEF TypeOK
  <2> QED BY <2>1, <2>2
<1>7. read' \in [Worker -> SUBSET MapId] /\ output' \in [ReduceId -> (SUBSET MapId) \cup {Nil}]
  <2>1. CASE ReduceRead(w)
    BY <1>0, <2>1 DEF ReduceRead, TypeOK, fileVars
  <2>2. CASE ReduceDone(w)
    BY <1>0, <2>2 DEF ReduceDone, TypeOK
  <2>3. CASE ~ReduceRead(w) /\ ~ReduceDone(w)
    BY <1>0, <2>3 DEF RenameIntermediate, MapDone, MapFails, CallFails, Crash, TypeOK, fileVars
  <2> QED BY <2>1, <2>2, <2>3
<1>8. TypeOK'
  BY <1>0, <1>1, <1>2, <1>6, <1>7 DEF TypeOK
<1> QED BY <1>1, <1>5, <1>8, WorkerStep

LEMMA MNext == MInv /\ [Next]_vars => MInv'
<1> SUFFICES ASSUME MInv, [Next]_vars PROVE MInv'
  OBVIOUS
<1>1. ASSUME NEW w \in Worker, Work(w) \/ MapFails(w) \/ Crash(w) PROVE MInv'
  BY <1>1, CheckStep, AssignStep, ReportStep, FileStep DEF Work
<1>2. ASSUME NEW i \in TaskId, Expire(i) PROVE MInv'
  <2>1. /\ UNCHANGED <<coordinator, phase, nMap, nReduce, tasks, rePendingTask,
                       pc, task, written, read, intermediate, output>>
        /\ late' = late \cup {i} /\ i < Len(tasks)
    BY <1>2 DEF Expire, workerVars, fileVars
  <2>2. TypeOK'
    BY <2>1 DEF MInv, TypeOK
  <2> QED BY <2>1, <2>2 DEF MInv, RePendingValid, TasksCounted, TaskOfPhase
<1>3. CASE Done
  <2>1. /\ UNCHANGED <<phase, nMap, nReduce, tasks, late, rePendingTask,
                       pc, task, written, read, intermediate, output>>
        /\ coordinator' = "exited"
    BY <1>3 DEF Done, workerVars, fileVars
  <2>2. TypeOK'
    BY <2>1 DEF MInv, TypeOK
  <2> QED BY <2>1, <2>2 DEF MInv, RePendingValid, TasksCounted, TaskOfPhase
<1>4. CASE UNCHANGED vars
  BY <1>4 DEF vars, coordinatorVars, workerVars, fileVars, MInv, TypeOK, RePendingValid, TasksCounted, TaskOfPhase
<1> QED BY <1>1, <1>2, <1>3, <1>4 DEF Next

LEMMA MInvariant == Spec => []MInv
BY MInit, MNext, PTL DEF Spec

\* Type correctness of coordinator, workers and files, for any number of workers and
\* tasks, also with slow workers and failing files.
THEOREM MrTypeCorrect == Spec => []TypeOK
<1>1. MInv => TypeOK
  BY DEF MInv
<1> QED BY <1>1, MInvariant, PTL

\* The queue of timed-out tasks never makes AssignedTask index c.tasks out of range.
THEOREM MrRePendingValid == Spec => []RePendingValid
<1>1. MInv => RePendingValid
  BY DEF MInv
<1> QED BY <1>1, MInvariant, PTL

-----------------------------------------------------------------------------
(* Files that are always written, and workers as slow as they like.  A map *)
(* task is completed in the map phase only, where every report is about a  *)
(* map task, by a worker that has renamed all its files before; and files  *)
(* are never removed.                                                      *)

WorkerFiles(w) ==
    /\ pc[w] \notin {"map", "dead"} => written[w] = 0
    /\ pc[w] = "map" => \A r \in ReduceId : r < written[w] => <<task[w], r>> \in intermediate
    /\ pc[w] = "report" /\ phase = "map" => \A r \in ReduceId : <<task[w], r>> \in intermediate
    /\ pc[w] \in {"reduce", "reduced"} => phase # "map"

CompletedFiles ==
    phase = "map" => \A m \in MapId, r \in ReduceId :
      m < Len(tasks) /\ tasks[m + 1] = "Completed" => <<m, r>> \in intermediate

AllFiles == phase # "map" => \A m \in MapId, r \in ReduceId : <<m, r>> \in intermediate

\* What FInv adds to MInv
Files == (\A w \in Worker : WorkerFiles(w)) /\ CompletedFiles /\ AllFiles /\ ReduceReadsAll

FInv == MInv /\ Files

\* The types the steps below need
LEMMA Types ==
    ASSUME MInv
    PROVE  /\ NMap \in Nat \ {0} /\ NReduce \in Nat \ {0} /\ TaskId \subseteq Nat
           /\ MapId \subseteq Nat /\ ReduceId \subseteq Nat
           /\ tasks \in Seq(Statuses) /\ Len(tasks) \in Nat /\ DOMAIN tasks = 1..Len(tasks)
           /\ pc \in [Worker -> {"ask", "checked", "map", "reduce", "reduced", "report", "exited", "dead"}]
           /\ task \in [Worker -> TaskId] /\ \A w \in Worker : task[w] \in TaskId /\ task[w] \in Nat
           /\ written \in [Worker -> 0..NReduce] /\ read \in [Worker -> SUBSET MapId]
           /\ output \in [ReduceId -> (SUBSET MapId) \cup {Nil}]
           /\ rePendingTask \in Seq(TaskId)
           /\ nMap \in 0..NMap /\ nReduce \in 0..NReduce /\ phase \in {"map", "reduce", "finish"}
<1>1. TaskId \subseteq Nat /\ MapId \subseteq Nat /\ ReduceId \subseteq Nat
  BY SizeAssumption DEF TaskId, MapId, ReduceId
<1> QED BY <1>1, SizeAssumption, LenProperties DEF MInv, TypeOK, Statuses

LEMMA FilesInit == Init => Files
<1> SUFFICES ASSUME Init PROVE Files
  OBVIOUS
<1>1. \A w \in Worker : pc[w] = "ask" /\ written[w] = 0
  BY DEF Init
<1>2. phase = "map" /\ Len(tasks) = 0
  BY EmptySeq DEF Init
<1>3. \A m \in MapId : ~(m < 0)
  BY SizeAssumption DEF MapId
<1> QED BY <1>1, <1>2, <1>3 DEF Files, WorkerFiles, CompletedFiles, AllFiles, ReduceReadsAll

\* A step that leaves the files, the phase and what the workers have in hand alone, and
\* takes no worker to a task or to a report, completes no task either.
LEMMA FilesIdle ==
    ASSUME FInv, UNCHANGED <<phase, task, written, read, intermediate>>,
           \A v \in Worker : pc'[v] \in {"map", "reduce", "reduced", "report"} => pc'[v] = pc[v],
           \A v \in Worker : pc'[v] \notin {"map", "dead"} => pc[v] \notin {"map", "dead"},
           CompletedFiles'
    PROVE  Files'
<1>0. (\A v \in Worker : WorkerFiles(v)) /\ AllFiles /\ ReduceReadsAll
  BY DEF FInv, Files
<1>1. \A v \in Worker : WorkerFiles(v)'
  BY <1>0 DEF WorkerFiles
<1>2. AllFiles' /\ ReduceReadsAll'
  BY <1>0 DEF AllFiles, ReduceReadsAll
<1> QED BY <1>1, <1>2 DEF Files

\* Check opens the reduce phase when every map task is completed, so when all files are
\* there.
LEMMA FilesCheck ==
    ASSUME FInv, NEW w \in Worker, Check(w)
    PROVE  Files'
<1>0. (\A v \in Worker : WorkerFiles(v)) /\ CompletedFiles /\ AllFiles /\ ReduceReadsAll /\ TasksCounted
  BY DEF FInv, Files, MInv
<1>t. /\ NMap \in Nat \ {0} /\ Len(tasks) \in Nat /\ DOMAIN tasks = 1..Len(tasks)
      /\ pc \in [Worker -> {"ask", "checked", "map", "reduce", "reduced", "report", "exited", "dead"}]
      /\ phase \in {"map", "reduce", "finish"}
  BY Types DEF FInv
<1>1. /\ UNCHANGED <<nMap, nReduce, task, written, read, intermediate>>
      /\ pc[w] = "ask" /\ pc' = [pc EXCEPT ![w] = "checked"]
  BY DEF Check, fileVars
<1>2. \A v \in Worker : /\ pc'[v] \in {"map", "reduce", "reduced", "report"} => pc'[v] = pc[v]
                        /\ pc'[v] \notin {"map", "dead"} => pc[v] \notin {"map", "dead"}
  BY <1>1, <1>t
<1>3. CASE phase = "map" /\ AllTaskDone /\ nMap = NMap /\ rePendingTask = <<>>
  <2>1. phase' = "reduce"
    BY <1>3 DEF Check
  <2>2. \A m \in MapId, r \in ReduceId : <<m, r>> \in intermediate
    <3> TAKE m \in MapId, r \in ReduceId
    <3>1. m < Len(tasks) /\ m + 1 \in DOMAIN tasks
      BY <1>0, <1>3, <1>t DEF TasksCounted, MapId
    <3> QED BY <1>0, <1>3, <3>1 DEF CompletedFiles, AllTaskDone
  <2>3. \A v \in Worker : WorkerFiles(v)'
    BY <1>0, <1>1, <1>2, <2>1 DEF WorkerFiles
  <2>4. ReduceReadsAll'
    BY <1>0, <1>1, <1>2 DEF ReduceReadsAll
  <2> QED BY <1>1, <2>1, <2>2, <2>3, <2>4 DEF Files, CompletedFiles, AllFiles
<1>4. CASE ~(phase = "map" /\ AllTaskDone /\ nMap = NMap /\ rePendingTask = <<>>)
  <2>1. tasks' = tasks /\ (phase' = phase \/ (phase = "reduce" /\ phase' = "finish"))
    BY <1>4 DEF Check
  <2>2. \A v \in Worker : WorkerFiles(v)'
    BY <1>0, <1>1, <1>2, <2>1 DEF WorkerFiles
  <2>3. CompletedFiles' /\ AllFiles' /\ ReduceReadsAll'
    BY <1>0, <1>1, <1>2, <2>1 DEF CompletedFiles, AllFiles, ReduceReadsAll
  <2> QED BY <2>2, <2>3 DEF Files
<1> QED BY <1>3, <1>4

\* Handing out a task completes none, and its worker begins with no file renamed.
LEMMA FilesAssign ==
    ASSUME FInv, NEW w \in Worker, Assign(w)
    PROVE  Files'
<1>0. (\A v \in Worker : WorkerFiles(v)) /\ CompletedFiles /\ AllFiles /\ ReduceReadsAll
  BY DEF FInv, Files
<1>t. /\ tasks \in Seq(Statuses) /\ Len(tasks) \in Nat /\ MapId \subseteq Nat /\ ReduceId \subseteq Nat
      /\ pc \in [Worker -> {"ask", "checked", "map", "reduce", "reduced", "report", "exited", "dead"}]
      /\ task \in [Worker -> TaskId]
  BY Types DEF FInv
<1>1. pc[w] = "checked" /\ UNCHANGED <<phase, written, read, intermediate>>
  BY DEF Assign, AssignNew, AssignAgain, Wait, Finish, Reply, fileVars, coordinatorVars
<1>2. CompletedFiles'
  <2>1. CASE tasks' = tasks
    BY <1>0, <1>1, <2>1 DEF CompletedFiles
  <2>2. CASE tasks' = Append(tasks, "Doing")
    <3>1. /\ Len(tasks') = Len(tasks) + 1 /\ tasks'[Len(tasks) + 1] = "Doing"
          /\ \A j \in 1..Len(tasks) : tasks'[j] = tasks[j]
      BY <1>t, <2>2, AppendProperties DEF Statuses
    <3>2. \A m \in MapId : m < Len(tasks') /\ tasks'[m + 1] = "Completed"
                             => m < Len(tasks) /\ tasks[m + 1] = "Completed"
      <4> SUFFICES ASSUME NEW m \in MapId, m < Len(tasks'), tasks'[m + 1] = "Completed"
                   PROVE  m < Len(tasks) /\ tasks[m + 1] = "Completed"
        OBVIOUS
      <4>1. m \in Nat /\ m # Len(tasks)
        BY <1>t, <3>1
      <4>2. m < Len(tasks) /\ m + 1 \in 1..Len(tasks)
        BY <1>t, <3>1, <4>1
      <4> QED BY <3>1, <4>2
    <3> QED BY <1>0, <1>1, <3>2 DEF CompletedFiles
  <2> QED BY <2>1, <2>2 DEF Assign, AssignNew, AssignAgain, Wait, Finish, coordinatorVars
<1>3. CASE AssignNew(w) \/ AssignAgain(w)
  <2>1. PICK i : Reply(w, i)
    BY <1>3 DEF AssignNew, AssignAgain
  <2>2. /\ pc'[w] = phase /\ phase \in {"map", "reduce"}
        /\ \A v \in Worker \ {w} : pc'[v] = pc[v] /\ task'[v] = task[v]
    BY <1>3, <1>t, <2>1 DEF AssignNew, NewMapTask, NewReduceTask, AssignAgain, AllAssigned, Reply
  <2>3. written[w] = 0 /\ \A r \in ReduceId : ~(r < 0)
    BY <1>0, <1>1, <1>t DEF WorkerFiles
  <2>4. WorkerFiles(w)'
    BY <1>1, <2>2, <2>3 DEF WorkerFiles
  <2>5. \A v \in Worker \ {w} : WorkerFiles(v)'
    BY <1>0, <1>1, <2>2 DEF WorkerFiles
  <2>6. AllFiles' /\ ReduceReadsAll'
    BY <1>0, <1>1, <2>2 DEF AllFiles, ReduceReadsAll
  <2> QED BY <1>2, <2>4, <2>5, <2>6 DEF Files
<1>4. CASE Wait(w) \/ Finish(w)
  <2>1. /\ task' = task /\ pc'[w] \in {"ask", "exited"}
        /\ \A v \in Worker \ {w} : pc'[v] = pc[v]
    BY <1>4, <1>t DEF Wait, Finish
  <2> QED BY <1>1, <1>2, <2>1, FilesIdle
<1> QED BY <1>3, <1>4 DEF Assign

\* A report of the map phase is about a map task whose files are all renamed.
LEMMA FilesReport ==
    ASSUME FInv, NEW w \in Worker, MarkTaskDone(w)
    PROVE  Files'
<1>0. (\A v \in Worker : WorkerFiles(v)) /\ CompletedFiles
  BY DEF FInv, Files
<1>t. /\ tasks \in Seq(Statuses) /\ Len(tasks) \in Nat /\ DOMAIN tasks = 1..Len(tasks)
      /\ MapId \subseteq Nat /\ task[w] \in Nat
      /\ pc \in [Worker -> {"ask", "checked", "map", "reduce", "reduced", "report", "exited", "dead"}]
  BY Types DEF FInv
<1>1. /\ pc[w] = "report" /\ pc' = [pc EXCEPT ![w] = "ask"]
      /\ UNCHANGED <<phase, task, written, read, intermediate>>
  BY DEF MarkTaskDone, fileVars
<1>2. phase = "map" => \A r \in ReduceId : <<task[w], r>> \in intermediate
  BY <1>0, <1>1 DEF WorkerFiles
<1>3. CompletedFiles'
  <2>1. CASE tasks' = tasks
    BY <1>0, <1>1, <2>1 DEF CompletedFiles
  <2>2. CASE task[w] < Len(tasks) /\ tasks' = [tasks EXCEPT ![task[w] + 1] = "Completed"]
    <3>1. task[w] + 1 \in 1..Len(tasks) /\ "Completed" \in Statuses
      BY <1>t, <2>2 DEF Statuses
    <3>2. Len(tasks') = Len(tasks)
      BY <1>t, <2>2, <3>1, ExceptSeq
    <3>3. \A m \in MapId : m < Len(tasks) => m + 1 \in DOMAIN tasks
      BY <1>t
    <3>4. \A m \in MapId : m < Len(tasks) /\ m # task[w] => tasks'[m + 1] = tasks[m + 1]
      BY <1>t, <2>2, <3>3
    <3> QED BY <1>0, <1>1, <1>2, <3>2, <3>4 DEF CompletedFiles
  <2> QED BY <2>1, <2>2 DEF MarkTaskDone
<1> QED BY <1>1, <1>3, <1>t, FilesIdle

\* A worker at its map task adds files, in the order of their numbers.
LEMMA FilesMap ==
    ASSUME FInv, ~IOErrors, NEW w \in Worker, RenameIntermediate(w) \/ MapDone(w)
    PROVE  Files'
<1>0. (\A v \in Worker : WorkerFiles(v)) /\ CompletedFiles /\ AllFiles /\ ReduceReadsAll
  BY DEF FInv, Files
<1>t. /\ NReduce \in Nat \ {0} /\ written \in [Worker -> 0..NReduce] /\ written[w] \in Nat
      /\ pc \in [Worker -> {"ask", "checked", "map", "reduce", "reduced", "report", "exited", "dead"}]
  BY Types DEF FInv
<1>1. /\ UNCHANGED <<phase, tasks, task, read>>
      /\ pc[w] = "map" /\ pc'[w] \in {"map", "report"}
      /\ \A v \in Worker \ {w} : pc'[v] = pc[v] /\ written'[v] = written[v]
      /\ intermediate \subseteq intermediate'
  BY <1>t DEF RenameIntermediate, MapDone, fileVars, coordinatorVars
<1>2. WorkerFiles(w)'
  <2>0. \A r \in ReduceId : r \in Nat /\ r < NReduce
    BY <1>t DEF ReduceId
  <2>1. CASE RenameIntermediate(w)
    <3>1. /\ intermediate' = intermediate \cup {<<task[w], written[w]>>}
          /\ written'[w] = written[w] + 1 /\ pc'[w] = "map" /\ task' = task
      BY <2>1, <1>t DEF RenameIntermediate
    <3>2. \A r \in ReduceId : r < written[w] => <<task[w], r>> \in intermediate
      BY <1>0, <1>1 DEF WorkerFiles
    <3>3. \A r \in ReduceId : r < written'[w] => r < written[w] \/ r = written[w]
      BY <1>t, <2>0, <3>1
    <3> QED BY <3>1, <3>2, <3>3 DEF WorkerFiles
  <2>2. CASE MapDone(w)
    <3>1. /\ written[w] = NReduce /\ pc'[w] = "report" /\ written'[w] = 0
          /\ task' = task /\ intermediate' = intermediate
      BY <2>2, <1>t DEF MapDone, fileVars
    <3> QED BY <1>0, <1>1, <2>0, <3>1 DEF WorkerFiles
  <2> QED BY <2>1, <2>2
<1>3. \A v \in Worker \ {w} : WorkerFiles(v)'
  BY <1>0, <1>1 DEF WorkerFiles
<1>4. CompletedFiles' /\ AllFiles' /\ ReduceReadsAll'
  BY <1>0, <1>1 DEF CompletedFiles, AllFiles, ReduceReadsAll
<1> QED BY <1>2, <1>3, <1>4 DEF Files

\* A worker at a reduce task reads in a phase in which every file is there.
LEMMA FilesReduce ==
    ASSUME FInv, NEW w \in Worker, ReduceRead(w) \/ ReduceDone(w)
    PROVE  Files'
<1>0. (\A v \in Worker : WorkerFiles(v)) /\ CompletedFiles /\ AllFiles /\ ReduceReadsAll
  BY DEF FInv, Files
<1>t. /\ read \in [Worker -> SUBSET MapId]
      /\ pc \in [Worker -> {"ask", "checked", "map", "reduce", "reduced", "report", "exited", "dead"}]
  BY Types DEF FInv
<1>1. /\ UNCHANGED <<phase, tasks, task, written, intermediate>>
      /\ pc[w] \in {"reduce", "reduced"} /\ pc'[w] \in {"reduced", "report"}
      /\ \A v \in Worker \ {w} : pc'[v] = pc[v] /\ read'[v] = read[v]
  BY <1>t DEF ReduceRead, ReduceDone, fileVars, coordinatorVars
<1>2. phase # "map" /\ task[w] \in ReduceId
  BY <1>0, <1>1 DEF WorkerFiles, FInv, MInv, TaskOfPhase
<1>3. \A v \in Worker : WorkerFiles(v)'
  BY <1>0, <1>1, <1>2 DEF WorkerFiles
<1>4. pc'[w] = "reduced" => read'[w] = MapId
  <2>1. CASE ReduceRead(w)
    <3>1. read'[w] = {m \in MapId : <<m, task[w]>> \in intermediate}
      BY <1>t, <2>1 DEF ReduceRead
    <3> QED BY <1>0, <1>2, <3>1 DEF AllFiles
  <2>2. CASE ReduceDone(w)
    BY <1>t, <2>2 DEF ReduceDone
  <2> QED BY <2>1, <2>2
<1>5. CompletedFiles' /\ AllFiles' /\ ReduceReadsAll'
  BY <1>0, <1>1, <1>4 DEF CompletedFiles, AllFiles, ReduceReadsAll
<1> QED BY <1>3, <1>5 DEF Files

LEMMA FilesNext ==
    ASSUME ~IOErrors, FInv, [Next]_vars
    PROVE  FInv'
<1>0. CompletedFiles
  BY DEF FInv, Files
<1>t. pc \in [Worker -> {"ask", "checked", "map", "reduce", "reduced", "report", "exited", "dead"}]
  BY Types DEF FInv
<1>1. ASSUME NEW w \in Worker, CallFails(w) \/ Crash(w) PROVE Files'
  <2>1. /\ UNCHANGED <<phase, tasks, task, written, read, intermediate>>
        /\ pc'[w] \in {"ask", "exited", "dead"} /\ (pc'[w] # "dead" => pc[w] # "map" /\ pc[w] # "dead")
        /\ \A v \in Worker \ {w} : pc'[v] = pc[v]
    BY <1>1, <1>t DEF CallFails, Crash, fileVars, coordinatorVars
  <2>2. CompletedFiles'
    BY <1>0, <2>1 DEF CompletedFiles
  <2> QED BY <2>1, <2>2, FilesIdle
<1>2. ASSUME NEW w \in Worker, Work(w) \/ MapFails(w) \/ Crash(w) PROVE Files'
  BY <1>1, <1>2, FilesCheck, FilesAssign, FilesReport, FilesMap, FilesReduce DEF Work, MapFails
<1>3. ASSUME (\E i \in TaskId : Expire(i)) \/ Done \/ UNCHANGED vars PROVE Files'
  <2>1. UNCHANGED <<phase, tasks, pc, task, written, read, intermediate>>
    BY <1>3 DEF Expire, Done, vars, coordinatorVars, workerVars, fileVars
  <2>2. CompletedFiles'
    BY <1>0, <2>1 DEF CompletedFiles
  <2> QED BY <2>1, <2>2, FilesIdle
<1>4. \/ \E w \in Worker : Work(w) \/ MapFails(w) \/ Crash(w)
      \/ (\E i \in TaskId : Expire(i)) \/ Done \/ UNCHANGED vars
  BY DEF Next
<1>5. Files'
  BY <1>2, <1>3, <1>4, Zenon
<1> QED BY <1>5, MNext DEF FInv

\* With files that are always written, however slow the workers are and however many of
\* them die and wherever: a reduce task reads the files of every map task, because Check
\* opens the reduce phase only when the last of them was renamed.
THEOREM MrReduceReadsAll ==
    ASSUME ~IOErrors
    PROVE  Spec => []ReduceReadsAll
<1>1. Init => FInv
  BY MInit, FilesInit DEF FInv
<1>2. FInv /\ [Next]_vars => FInv'
  BY FilesNext
<1>3. FInv => ReduceReadsAll
  BY DEF FInv, Files
<1> QED BY <1>1, <1>2, <1>3, PTL DEF Spec

-----------------------------------------------------------------------------
(* Workers that are never slow as well.  The core is exclusive: a task in  *)
(* progress has one live worker at most, so that no report of a map task   *)
(* is still on its way when the reduce phase begins.  Slow workers break   *)
(* exactly that (run mapreduce_late).                                      *)

Busy(w) == pc[w] \in {"map", "reduce", "reduced", "report"}

\* A task that is being worked on is in progress, has one worker, and is not late
Exclusive ==
    /\ \A w \in Worker : Busy(w) => /\ phase # "finish" /\ task[w] < Len(tasks)
                                    /\ tasks[task[w] + 1] = "Doing" /\ task[w] \notin late
    /\ \A v, w \in Worker : Busy(v) /\ Busy(w) /\ task[v] = task[w] => v = w
    /\ \A n \in DOMAIN rePendingTask :
         rePendingTask[n] \in late /\ tasks[rePendingTask[n] + 1] = "Doing"
    /\ \A w \in Worker : /\ pc[w] = "map" => phase = "map"
                         /\ pc[w] \in {"reduce", "reduced"} => phase = "reduce"

\* The output of a reduce task, from the moment its worker reports it
OutputThere ==
    phase = "reduce" =>
      /\ \A w \in Worker : pc[w] = "report" => output[task[w]] = MapId
      /\ \A r \in ReduceId : r < Len(tasks) /\ tasks[r + 1] = "Completed" => output[r] = MapId

\* What PInv adds to FInv
PromptInv == Exclusive /\ OutputThere /\ JobComplete

PInv == FInv /\ PromptInv

LEMMA PromptInit == Init => PromptInv
<1> SUFFICES ASSUME Init PROVE PromptInv
  OBVIOUS
<1>1. \A w \in Worker : pc[w] = "ask"
  BY DEF Init
<1>2. phase = "map" /\ DOMAIN rePendingTask = {}
  BY EmptySeq DEF Init
<1>3. Exclusive
  BY <1>1, <1>2 DEF Exclusive, Busy
<1> QED BY <1>2, <1>3 DEF PromptInv, OutputThere, JobComplete

\* The types the steps below need
LEMMA PromptTypes ==
    ASSUME PInv
    PROVE  /\ NMap \in Nat \ {0} /\ NReduce \in Nat \ {0} /\ TaskId \subseteq Nat
           /\ MapId \subseteq Nat /\ ReduceId \subseteq Nat
           /\ tasks \in Seq(Statuses) /\ Len(tasks) \in Nat /\ DOMAIN tasks = 1..Len(tasks)
           /\ pc \in [Worker -> {"ask", "checked", "map", "reduce", "reduced", "report", "exited", "dead"}]
           /\ task \in [Worker -> TaskId] /\ \A w \in Worker : task[w] \in TaskId /\ task[w] \in Nat
           /\ read \in [Worker -> SUBSET MapId]
           /\ output \in [ReduceId -> (SUBSET MapId) \cup {Nil}]
           /\ rePendingTask \in Seq(TaskId) /\ late \subseteq TaskId
           /\ nMap \in 0..NMap /\ nReduce \in 0..NReduce /\ phase \in {"map", "reduce", "finish"}
<1>1. MInv /\ late \subseteq TaskId
  BY DEF PInv, FInv, MInv, TypeOK
<1> QED BY <1>1, Types

\* When the phase ends nobody is at work: a task in progress is not completed.
LEMMA NobodyBusy ==
    ASSUME PInv, AllTaskDone, NEW w \in Worker
    PROVE  ~Busy(w)
<1> SUFFICES ASSUME Busy(w) PROVE FALSE
  OBVIOUS
<1>1. task[w] \in Nat /\ Len(tasks) \in Nat /\ DOMAIN tasks = 1..Len(tasks)
  BY PromptTypes
<1>2. task[w] < Len(tasks) /\ tasks[task[w] + 1] = "Doing"
  BY DEF PInv, PromptInv, Exclusive
<1>3. task[w] + 1 \in DOMAIN tasks
  BY <1>1, <1>2
<1> QED BY <1>2, <1>3 DEF AllTaskDone

LEMMA PromptCheck ==
    ASSUME PInv, NEW w \in Worker, Check(w)
    PROVE  PromptInv'
<1>0. Exclusive /\ OutputThere /\ JobComplete /\ TasksCounted
  BY DEF PInv, PromptInv, FInv, MInv
<1>t. /\ NMap \in Nat \ {0} /\ NReduce \in Nat \ {0}
      /\ Len(tasks) \in Nat /\ DOMAIN tasks = 1..Len(tasks)
      /\ pc \in [Worker -> {"ask", "checked", "map", "reduce", "reduced", "report", "exited", "dead"}]
      /\ phase \in {"map", "reduce", "finish"}
  BY PromptTypes
<1>1. /\ UNCHANGED <<rePendingTask, nMap, nReduce, task, output>>
      /\ pc[w] = "ask" /\ pc' = [pc EXCEPT ![w] = "checked"]
  BY DEF Check, fileVars
<1>2. \A v \in Worker : /\ Busy(v)' <=> Busy(v)
                        /\ pc'[v] \notin {"ask", "checked"} => pc'[v] = pc[v]
  BY <1>1, <1>t DEF Busy
<1>4. CASE phase = "map" /\ AllTaskDone /\ nMap = NMap /\ rePendingTask = <<>>
  <2>1. phase' = "reduce" /\ tasks' = <<>> /\ late' = {} /\ Len(tasks') = 0
    BY <1>4, EmptySeq DEF Check
  <2>2. \A v \in Worker : ~Busy(v)'
    BY <1>2, <1>4, NobodyBusy
  <2>4. Exclusive'
    BY <1>1, <1>4, <2>1, <2>2, EmptySeq DEF Exclusive, Busy
  <2>5. \A r \in ReduceId : ~(r < Len(tasks'))
    BY <1>t, <2>1 DEF ReduceId
  <2>6. OutputThere'
    BY <2>2, <2>5 DEF OutputThere, Busy
  <2> QED BY <2>1, <2>4, <2>6 DEF PromptInv, JobComplete
<1>5. CASE phase = "reduce" /\ AllTaskDone /\ nReduce = NReduce /\ rePendingTask = <<>>
  <2>1. phase' = "finish" /\ tasks' = tasks /\ late' = late
    BY <1>5 DEF Check
  <2>2. \A v \in Worker : ~Busy(v)'
    BY <1>2, <1>5, NobodyBusy
  <2>3. \A r \in ReduceId : output[r] = MapId
    <3> TAKE r \in ReduceId
    <3>1. r < Len(tasks) /\ r + 1 \in DOMAIN tasks
      BY <1>0, <1>5, <1>t DEF TasksCounted, ReduceId
    <3> QED BY <1>0, <1>5, <3>1 DEF OutputThere, AllTaskDone
  <2>4. Exclusive'
    BY <1>0, <1>1, <2>1, <2>2 DEF Exclusive, Busy
  <2> QED BY <1>1, <2>1, <2>3, <2>4 DEF PromptInv, OutputThere, JobComplete
<1>6. CASE /\ ~(phase = "map" /\ AllTaskDone /\ nMap = NMap /\ rePendingTask = <<>>)
           /\ ~(phase = "reduce" /\ AllTaskDone /\ nReduce = NReduce /\ rePendingTask = <<>>)
  <2>1. UNCHANGED <<phase, tasks, late>>
    BY <1>6 DEF Check
  <2>2. Exclusive'
    BY <1>0, <1>1, <1>2, <2>1 DEF Exclusive
  <2>3. OutputThere'
    BY <1>0, <1>1, <1>2, <2>1 DEF OutputThere
  <2> QED BY <1>0, <1>1, <2>1, <2>2, <2>3 DEF PromptInv, JobComplete
<1> QED BY <1>4, <1>5, <1>6

\* A task is handed out while nobody else has it.
LEMMA PromptReply ==
    ASSUME PInv, NEW w \in Worker, NEW i \in TaskId, Reply(w, i), pc[w] = "checked",
           phase \in {"map", "reduce"}, UNCHANGED <<phase, output>>,
           i < Len(tasks'), tasks'[i + 1] = "Doing", i \notin late', late' \subseteq late,
           Len(tasks') >= Len(tasks), Len(tasks') \in Nat,
           \A j \in Nat : j < Len(tasks) => tasks'[j + 1] = tasks[j + 1],
           \A j \in Nat : j < Len(tasks') /\ j >= Len(tasks) => tasks'[j + 1] = "Doing",
           \A v \in Worker : Busy(v) => task[v] # i,
           \A n \in DOMAIN rePendingTask' :
             rePendingTask'[n] \in late' /\ tasks'[rePendingTask'[n] + 1] = "Doing"
    PROVE  PromptInv'
<1>0. Exclusive /\ OutputThere /\ JobComplete
  BY DEF PInv, PromptInv
<1>t. /\ Len(tasks) \in Nat /\ ReduceId \subseteq Nat
      /\ pc \in [Worker -> {"ask", "checked", "map", "reduce", "reduced", "report", "exited", "dead"}]
      /\ task \in [Worker -> TaskId] /\ \A v \in Worker : task[v] \in Nat
  BY PromptTypes
<1>1. /\ pc'[w] = phase /\ task'[w] = i
      /\ \A v \in Worker \ {w} : pc'[v] = pc[v] /\ task'[v] = task[v] /\ (Busy(v)' <=> Busy(v))
  BY <1>t DEF Reply, Busy
<1>2. Exclusive'
  <2>1. \A v \in Worker : Busy(v)' => /\ phase' # "finish" /\ task'[v] < Len(tasks')
                                      /\ tasks'[task'[v] + 1] = "Doing" /\ task'[v] \notin late'
    BY <1>0, <1>1, <1>t DEF Exclusive
  <2>2. \A v, u \in Worker : Busy(v)' /\ Busy(u)' /\ task'[v] = task'[u] => v = u
    BY <1>0, <1>1, <1>t DEF Exclusive
  <2>3. \A v \in Worker : /\ pc'[v] = "map" => phase' = "map"
                          /\ pc'[v] \in {"reduce", "reduced"} => phase' = "reduce"
    BY <1>0, <1>1, <1>t DEF Exclusive
  <2> QED BY <2>1, <2>2, <2>3 DEF Exclusive
<1>3. OutputThere'
  <2> SUFFICES ASSUME phase = "reduce" PROVE OutputThere'
    BY DEF OutputThere
  <2>1. \A v \in Worker : pc'[v] = "report" => output'[task'[v]] = MapId
    BY <1>0, <1>1 DEF OutputThere
  <2>2. ASSUME NEW r \in ReduceId, r < Len(tasks'), tasks'[r + 1] = "Completed"
        PROVE  output'[r] = MapId
    <3>1. r \in Nat /\ r < Len(tasks)
      BY <1>t, <2>2
    <3> QED BY <1>0, <2>2, <3>1 DEF OutputThere
  <2> QED BY <2>1, <2>2 DEF OutputThere
<1> QED BY <1>2, <1>3 DEF PromptInv, JobComplete

LEMMA PromptAssign ==
    ASSUME PInv, NEW w \in Worker, Assign(w)
    PROVE  PromptInv'
<1>0. Exclusive /\ OutputThere /\ JobComplete /\ TasksCounted /\ RePendingValid
  BY DEF PInv, PromptInv, FInv, MInv
<1>t. /\ NMap \in Nat \ {0} /\ NReduce \in Nat \ {0} /\ TaskId \subseteq Nat
      /\ tasks \in Seq(Statuses) /\ Len(tasks) \in Nat
      /\ pc \in [Worker -> {"ask", "checked", "map", "reduce", "reduced", "report", "exited", "dead"}]
      /\ task \in [Worker -> TaskId] /\ \A v \in Worker : task[v] \in Nat
      /\ rePendingTask \in Seq(TaskId) /\ late \subseteq TaskId
      /\ nMap \in 0..NMap /\ nReduce \in 0..NReduce
  BY PromptTypes
<1>1. pc[w] = "checked" /\ UNCHANGED output
  BY DEF Assign, fileVars
<1>2. CASE AssignNew(w)
  <2> DEFINE i == Len(tasks)
  <2>1. /\ Reply(w, i) /\ tasks' = Append(tasks, "Doing") /\ phase \in {"map", "reduce"}
        /\ UNCHANGED <<phase, late, rePendingTask>>
    BY <1>0, <1>2 DEF AssignNew, NewMapTask, NewReduceTask, TasksCounted
  <2>2. i \in TaskId
    BY <1>0, <1>2, <1>t DEF AssignNew, NewMapTask, NewReduceTask, TasksCounted, TaskId, MapId, ReduceId
  <2>3. /\ Len(tasks') = i + 1 /\ tasks'[i + 1] = "Doing"
        /\ \A j \in 1..Len(tasks) : tasks'[j] = tasks[j]
    BY <1>t, <2>1, AppendProperties DEF Statuses
  <2>4. \A j \in Nat : j < Len(tasks) => tasks'[j + 1] = tasks[j + 1]
    BY <1>t, <2>3
  <2>5. \A j \in Nat : j < Len(tasks') /\ j >= Len(tasks) => tasks'[j + 1] = "Doing"
    <3> TAKE j \in Nat
    <3>1. j < Len(tasks') /\ j >= Len(tasks) => j = i
      BY <1>t, <2>3
    <3> QED BY <2>3, <3>1
  <2>6. /\ i \notin late /\ \A v \in Worker : Busy(v) => task[v] # i
    BY <1>0, <1>t DEF TasksCounted, Exclusive
  <2>7. \A n \in DOMAIN rePendingTask :
          rePendingTask[n] \in late /\ tasks'[rePendingTask[n] + 1] = "Doing"
    <3> TAKE n \in DOMAIN rePendingTask
    <3>0. n \in 1..Len(rePendingTask)
      BY <1>t, LenProperties
    <3>1. rePendingTask[n] \in Nat
      BY <1>t, <3>0, ElementOfSeq
    <3> QED BY <1>0, <2>4, <3>1 DEF Exclusive, RePendingValid
  <2>8. i < Len(tasks') /\ Len(tasks') >= Len(tasks) /\ Len(tasks') \in Nat
    BY <1>t, <2>3
  <2> HIDE DEF i
  <2> QED BY <1>1, <2>1, <2>2, <2>3, <2>4, <2>5, <2>6, <2>7, <2>8, PromptReply
<1>3. CASE AssignAgain(w)
  <2> DEFINE i == Head(rePendingTask)
  <2>1. /\ Reply(w, i) /\ late' = late \ {i} /\ rePendingTask' = Tail(rePendingTask)
        /\ UNCHANGED <<phase, tasks>>
        /\ rePendingTask # <<>> /\ phase \in {"map", "reduce"}
    BY <1>3 DEF AssignAgain, AllAssigned
  <2>2. /\ i = rePendingTask[1] /\ 1 \in DOMAIN rePendingTask /\ i \in TaskId
        /\ rePendingTask' \in Seq(TaskId) /\ Len(rePendingTask') = Len(rePendingTask) - 1
        /\ Len(rePendingTask) \in Nat
    BY <1>t, <2>1, HeadTailProperties, LenProperties, EmptySeq
  <2>3. i < Len(tasks) /\ i \in late /\ tasks[i + 1] = "Doing"
    BY <1>0, <2>2 DEF Exclusive, RePendingValid
  <2>4. DOMAIN rePendingTask' = {}
    <3>1. Len(rePendingTask) <= 1
      BY <1>0 DEF RePendingValid
    <3>2. Len(rePendingTask') \in Nat /\ DOMAIN rePendingTask' = 1..Len(rePendingTask')
      BY <2>2, LenProperties
    <3> QED BY <2>2, <3>1, <3>2
  <2>5. \A v \in Worker : Busy(v) => task[v] # i
    BY <1>0, <2>3 DEF Exclusive
  <2>6. Len(tasks) >= Len(tasks) /\ \A j \in Nat : ~(j < Len(tasks) /\ j >= Len(tasks))
    BY <1>t
  <2> HIDE DEF i
  <2> QED BY <1>1, <1>t, <2>1, <2>2, <2>3, <2>4, <2>5, <2>6, PromptReply
<1>4. CASE Wait(w) \/ Finish(w)
  <2>1. /\ UNCHANGED <<phase, tasks, late, task>>
        /\ pc'[w] \in {"ask", "exited"} /\ \A v \in Worker \ {w} : pc'[v] = pc[v]
    BY <1>4, <1>t DEF Wait, Finish, coordinatorVars
  <2>2. \A v \in Worker : Busy(v)' <=> Busy(v)
    BY <1>1, <2>1 DEF Busy
  <2>3. \A n \in DOMAIN rePendingTask' :
          rePendingTask'[n] \in late /\ tasks[rePendingTask'[n] + 1] = "Doing"
    <3>1. CASE rePendingTask' = rePendingTask
      BY <1>0, <3>1 DEF Exclusive
    <3>2. CASE rePendingTask' # rePendingTask
      <4>1. TimedOut # {} /\ rePendingTask = <<>>
        BY <1>4, <3>2 DEF Wait, Finish, HandleTimeOutTask, coordinatorVars
      <4>2. TimedOut \in SUBSET Nat
        BY <1>t DEF TimedOut
      <4>3. PICK i : i = CHOOSE k \in TimedOut : \A j \in TimedOut : k <= j
        OBVIOUS
      <4>4. i \in TimedOut
        BY <4>1, <4>2, <4>3, LeastNat
      <4>5. rePendingTask' = <<i>>
        BY <1>4, <3>2, <4>1, <4>3 DEF Wait, Finish, HandleTimeOutTask, coordinatorVars
      <4> QED BY <4>4, <4>5 DEF TimedOut
    <3> QED BY <3>1, <3>2
  <2>4. Exclusive'
    BY <1>0, <2>1, <2>2, <2>3 DEF Exclusive
  <2>5. OutputThere'
    BY <1>0, <1>1, <2>1 DEF OutputThere
  <2> QED BY <1>0, <1>1, <2>1, <2>4, <2>5 DEF PromptInv, JobComplete
<1> QED BY <1>2, <1>3, <1>4 DEF Assign

\* A report is about a task in progress: the coordinator never panics, and the output of
\* a reduce task is there.
LEMMA PromptReport ==
    ASSUME PInv, NEW w \in Worker, MarkTaskDone(w)
    PROVE  PromptInv'
<1>0. Exclusive /\ OutputThere /\ JobComplete /\ TasksCounted /\ RePendingValid
  BY DEF PInv, PromptInv, FInv, MInv
<1>t. /\ tasks \in Seq(Statuses) /\ Len(tasks) \in Nat /\ DOMAIN tasks = 1..Len(tasks)
      /\ pc \in [Worker -> {"ask", "checked", "map", "reduce", "reduced", "report", "exited", "dead"}]
      /\ task \in [Worker -> TaskId] /\ \A v \in Worker : task[v] \in Nat
      /\ rePendingTask \in Seq(TaskId) /\ TaskId \subseteq Nat /\ late \subseteq TaskId
      /\ ReduceId \subseteq Nat
  BY PromptTypes
<1>1. /\ pc[w] = "report" /\ pc' = [pc EXCEPT ![w] = "ask"]
      /\ UNCHANGED <<phase, late, rePendingTask, task, output>>
  BY DEF MarkTaskDone, fileVars
<1>2. task[w] < Len(tasks) /\ task[w] \notin late /\ phase # "finish"
  BY <1>0, <1>1 DEF Exclusive, Busy
<1>3. tasks' = [tasks EXCEPT ![task[w] + 1] = "Completed"]
  BY <1>2 DEF MarkTaskDone
<1>4. /\ Len(tasks') = Len(tasks)
      /\ \A j \in Nat : j < Len(tasks) => tasks'[j + 1] = IF j = task[w] THEN "Completed" ELSE tasks[j + 1]
  <2>1. task[w] + 1 \in 1..Len(tasks) /\ "Completed" \in Statuses
    BY <1>t, <1>2 DEF Statuses
  <2>2. Len(tasks') = Len(tasks)
    BY <1>t, <1>3, <2>1, ExceptSeq
  <2>3. \A j \in Nat : j < Len(tasks) => j + 1 \in DOMAIN tasks
    BY <1>t
  <2>4. \A j \in Nat : j < Len(tasks) => tasks'[j + 1] = IF j = task[w] THEN "Completed" ELSE tasks[j + 1]
    BY <1>t, <1>3, <2>3
  <2> QED BY <2>2, <2>4
<1>5. \A v \in Worker : /\ Busy(v)' => Busy(v) /\ v # w
                        /\ pc'[v] # "ask" => pc'[v] = pc[v]
  BY <1>1, <1>t DEF Busy
<1>6. Exclusive'
  <2>1. \A v \in Worker : Busy(v)' => task[v] # task[w]
    BY <1>0, <1>1, <1>5 DEF Exclusive, Busy
  <2>2. \A v \in Worker : Busy(v)' => /\ phase' # "finish" /\ task'[v] < Len(tasks')
                                      /\ tasks'[task'[v] + 1] = "Doing" /\ task'[v] \notin late'
    BY <1>0, <1>1, <1>4, <1>5, <1>t, <2>1 DEF Exclusive
  <2>3. \A n \in DOMAIN rePendingTask' :
          rePendingTask'[n] \in late' /\ tasks'[rePendingTask'[n] + 1] = "Doing"
    <3> SUFFICES ASSUME NEW n \in DOMAIN rePendingTask
                 PROVE  rePendingTask[n] \in late /\ tasks'[rePendingTask[n] + 1] = "Doing"
      BY <1>1
    <3>1. rePendingTask[n] \in late /\ tasks[rePendingTask[n] + 1] = "Doing"
      BY <1>0 DEF Exclusive
    <3>2. rePendingTask[n] \in Nat /\ rePendingTask[n] < Len(tasks) /\ rePendingTask[n] # task[w]
      BY <1>0, <1>2, <1>t, <3>1 DEF RePendingValid
    <3> QED BY <1>4, <3>1, <3>2
  <2>4. \A v \in Worker : /\ pc'[v] = "map" => phase' = "map"
                          /\ pc'[v] \in {"reduce", "reduced"} => phase' = "reduce"
    BY <1>0, <1>1, <1>5 DEF Exclusive
  <2>5. \A v, u \in Worker : Busy(v)' /\ Busy(u)' /\ task'[v] = task'[u] => v = u
    BY <1>0, <1>1, <1>5 DEF Exclusive
  <2> QED BY <2>2, <2>3, <2>4, <2>5 DEF Exclusive
<1>7. OutputThere'
  <2> SUFFICES ASSUME phase = "reduce" PROVE OutputThere'
    BY <1>1 DEF OutputThere
  <2>1. \A v \in Worker : pc[v] = "report" => output[task[v]] = MapId
    BY <1>0 DEF OutputThere
  <2>2. \A v \in Worker : pc'[v] = "report" => output'[task'[v]] = MapId
    BY <1>1, <1>5, <2>1
  <2>3. \A r \in ReduceId :
         r < Len(tasks') /\ tasks'[r + 1] = "Completed" => output'[r] = MapId
    BY <1>0, <1>1, <1>4, <1>t, <2>1 DEF OutputThere
  <2> QED BY <2>2, <2>3 DEF OutputThere
<1> QED BY <1>0, <1>1, <1>6, <1>7 DEF PromptInv, JobComplete

\* A step of one worker at its task, which keeps it or ends it.
LEMMA PromptWork ==
    ASSUME PInv, NEW w \in Worker, UNCHANGED <<coordinatorVars, task>>,
           pc' \in [Worker -> {"ask", "checked", "map", "reduce", "reduced", "report", "exited", "dead"}],
           \A v \in Worker \ {w} : pc'[v] = pc[v],
           Busy(w)' => Busy(w),
           pc'[w] = "map" => pc[w] = "map", pc'[w] = "reduce" => pc[w] = "reduce",
           pc'[w] = "reduced" => pc[w] \in {"reduce", "reduced"}
    PROVE  Exclusive'
<1>0. Exclusive
  BY DEF PInv, PromptInv
<1>1. UNCHANGED <<phase, tasks, late, rePendingTask, task>>
  BY DEF coordinatorVars
<1>2. \A v \in Worker : Busy(v)' => Busy(v)
  BY DEF Busy
<1>3. \A v \in Worker : /\ pc'[v] = "map" => pc[v] = "map"
                        /\ pc'[v] \in {"reduce", "reduced"} => pc[v] \in {"reduce", "reduced"}
  OBVIOUS
<1> QED BY <1>0, <1>1, <1>2, <1>3 DEF Exclusive

LEMMA PromptMap ==
    ASSUME PInv, NEW w \in Worker, RenameIntermediate(w) \/ MapDone(w)
    PROVE  PromptInv'
<1>0. Exclusive /\ OutputThere /\ JobComplete
  BY DEF PInv, PromptInv
<1>t. pc \in [Worker -> {"ask", "checked", "map", "reduce", "reduced", "report", "exited", "dead"}]
  BY PromptTypes
<1>1. /\ UNCHANGED <<coordinatorVars, task, output>> /\ phase' = phase
      /\ pc[w] = "map" /\ pc'[w] \in {"map", "report"} /\ phase = "map"
      /\ \A v \in Worker \ {w} : pc'[v] = pc[v]
      /\ pc' \in [Worker -> {"ask", "checked", "map", "reduce", "reduced", "report", "exited", "dead"}]
  BY <1>0, <1>t DEF RenameIntermediate, MapDone, fileVars, coordinatorVars, Exclusive
<1>2. Exclusive'
  BY <1>1, PromptWork DEF Busy
<1> QED BY <1>1, <1>2 DEF PromptInv, OutputThere, JobComplete

LEMMA PromptReduce ==
    ASSUME PInv, ~IOErrors, NEW w \in Worker, ReduceRead(w) \/ ReduceDone(w)
    PROVE  PromptInv'
<1>0. Exclusive /\ OutputThere /\ ReduceReadsAll
  BY DEF PInv, PromptInv, FInv, Files
<1>t. /\ output \in [ReduceId -> (SUBSET MapId) \cup {Nil}]
      /\ pc \in [Worker -> {"ask", "checked", "map", "reduce", "reduced", "report", "exited", "dead"}]
  BY PromptTypes
<1>1. /\ UNCHANGED <<coordinatorVars, task>> /\ UNCHANGED <<phase, tasks>>
      /\ pc[w] \in {"reduce", "reduced"} /\ pc'[w] \in {"reduced", "report"} /\ phase = "reduce"
      /\ \A v \in Worker \ {w} : pc'[v] = pc[v]
      /\ pc' \in [Worker -> {"ask", "checked", "map", "reduce", "reduced", "report", "exited", "dead"}]
  BY <1>0, <1>t DEF ReduceRead, ReduceDone, fileVars, coordinatorVars, Exclusive
<1>r. task[w] \in ReduceId
  BY <1>1 DEF PInv, FInv, MInv, TaskOfPhase
<1>2. Exclusive'
  BY <1>1, PromptWork DEF Busy
<1>3. /\ \A r \in ReduceId : output[r] = MapId => output'[r] = MapId
      /\ pc'[w] = "report" => output'[task[w]] = MapId
  <2>1. CASE ReduceRead(w)
    BY <1>t, <2>1 DEF ReduceRead, fileVars
  <2>2. CASE ReduceDone(w)
    <3>1. output' = [output EXCEPT ![task[w]] = MapId]
      BY <1>0, <2>2 DEF ReduceDone, ReduceReadsAll
    <3> QED BY <1>t, <1>r, <3>1
  <2> QED BY <2>1, <2>2
<1>4. OutputThere'
  <2>1. \A v \in Worker : pc'[v] = "report" => output'[task'[v]] = MapId
    <3> SUFFICES ASSUME NEW v \in Worker, v # w, pc[v] = "report"
                 PROVE  output'[task[v]] = MapId
      BY <1>1, <1>3
    <3>1. output[task[v]] = MapId
      BY <1>0, <1>1 DEF OutputThere
    <3>2. task[v] \in ReduceId
      <4>1. task[v] \in TaskId /\ task[v] < Len(tasks)
        BY <1>0, PromptTypes DEF Exclusive, Busy
      <4> QED BY <1>1, <4>1, PhaseIds DEF PInv, FInv
    <3> QED BY <1>3, <3>1, <3>2
  <2>2. \A r \in ReduceId :
         r < Len(tasks') /\ tasks'[r + 1] = "Completed" => output'[r] = MapId
    BY <1>0, <1>1, <1>3 DEF OutputThere
  <2> QED BY <2>1, <2>2 DEF OutputThere
<1> QED BY <1>1, <1>2, <1>4 DEF PromptInv, JobComplete

LEMMA PromptStops ==
    ASSUME PInv, NEW w \in Worker, CallFails(w) \/ Crash(w)
    PROVE  PromptInv'
<1>0. OutputThere /\ JobComplete
  BY DEF PInv, PromptInv
<1>t. pc \in [Worker -> {"ask", "checked", "map", "reduce", "reduced", "report", "exited", "dead"}]
  BY PromptTypes
<1>1. /\ UNCHANGED <<coordinatorVars, task, output>> /\ UNCHANGED <<phase, tasks>>
      /\ pc'[w] \in {"ask", "exited", "dead"} /\ \A v \in Worker \ {w} : pc'[v] = pc[v]
      /\ pc' \in [Worker -> {"ask", "checked", "map", "reduce", "reduced", "report", "exited", "dead"}]
  BY <1>t DEF CallFails, Crash, fileVars, coordinatorVars
<1>2. Exclusive'
  BY <1>1, PromptWork DEF Busy
<1>3. OutputThere'
  BY <1>0, <1>1 DEF OutputThere
<1> QED BY <1>0, <1>1, <1>2, <1>3 DEF PromptInv, JobComplete

LEMMA PromptNext ==
    ASSUME ~Slow, ~IOErrors, PInv, [Next]_vars
    PROVE  PInv'
<1>0. Exclusive /\ OutputThere /\ JobComplete
  BY DEF PInv, PromptInv
<1>1. ASSUME NEW w \in Worker, Work(w) \/ MapFails(w) \/ Crash(w) PROVE PromptInv'
  BY <1>1, PromptCheck, PromptAssign, PromptReport, PromptMap, PromptReduce, PromptStops DEF Work, MapFails
<1>2. ASSUME NEW i \in TaskId, Expire(i) PROVE PromptInv'
  <2>1. /\ UNCHANGED <<phase, tasks, rePendingTask, pc, task, output>>
        /\ late' = late \cup {i} /\ \A w \in Worker : ~Working(w, i)
    BY <1>2 DEF Expire, workerVars, fileVars
  <2>2. \A w \in Worker : /\ Busy(w)' <=> Busy(w)
                          /\ Busy(w) => task[w] # i
    BY <2>1 DEF Working, Busy
  <2>3. Exclusive'
    BY <1>0, <2>1, <2>2 DEF Exclusive
  <2> QED BY <1>0, <2>1, <2>3 DEF PromptInv, OutputThere, JobComplete
<1>3. ASSUME Done \/ UNCHANGED vars PROVE PromptInv'
  <2>1. UNCHANGED <<phase, tasks, late, rePendingTask, pc, task, output>>
    BY <1>3 DEF Done, vars, coordinatorVars, workerVars, fileVars
  <2>2. \A w \in Worker : Busy(w)' <=> Busy(w)
    BY <2>1 DEF Busy
  <2>3. Exclusive'
    BY <1>0, <2>1, <2>2 DEF Exclusive
  <2> QED BY <1>0, <2>1, <2>3 DEF PromptInv, OutputThere, JobComplete
<1>4. PromptInv'
  <2>1. \/ \E w \in Worker : Work(w) \/ MapFails(w) \/ Crash(w)
        \/ \E i \in TaskId : Expire(i)
        \/ Done \/ UNCHANGED vars
    BY DEF Next
  <2> QED BY <1>1, <1>2, <1>3, <2>1, Zenon
<1>5. FInv'
  BY FilesNext DEF PInv
<1> QED BY <1>4, <1>5 DEF PInv

\* With workers that are never slow and files that are always written, however many
\* workers die and wherever: Done returns true only when every output file is there and
\* was computed from every map task.
THEOREM MrJobComplete ==
    ASSUME ~Slow, ~IOErrors
    PROVE  Spec => []JobComplete
<1>1. Init => PInv
  BY MInit, FilesInit, PromptInit DEF PInv, FInv
<1>2. PInv /\ [Next]_vars => PInv'
  BY PromptNext
<1>3. PInv => JobComplete
  BY DEF PInv, PromptInv
<1> QED BY <1>1, <1>2, <1>3, PTL DEF Spec

=============================================================================
