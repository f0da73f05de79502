------------------------ MODULE IndexingTask_proofs -------------------------
(***************************************************************************)
(* The invariants of IndexingTask, for every set of folders, files, tasks  *)
(* and callers.                                                            *)
(***************************************************************************)
EXTENDS IndexingTaskObserved, Integers, FiniteSetTheorems, TLAPS

(***************************************************************************)
(* The resource check never yields more than one slot, whatever the        *)
(* machine: the third argument of min(by_ram, by_cpu, 1).                  *)
(***************************************************************************)
LEMMA OneSlotOnly == MaxConcurrent = 1
<1> DEFINE ram == IF RamGB > 2 THEN ((RamGB - 2) * 2) \div 3 ELSE 0
           cpu == Cores \div 2
<1>1. ram \in Int /\ cpu \in Int
  BY ConstantsAssumption
<1>2. AtLeastOne(ram) = 1 \/ AtLeastOne(ram) > 1
  BY <1>1 DEF AtLeastOne
<1>3. AtLeastOne(cpu) = 1 \/ AtLeastOne(cpu) > 1
  BY <1>1 DEF AtLeastOne
<1> HIDE DEF ram, cpu
<1>4. MaxConcurrent = IF AtLeastOne(ram) > 1 /\ AtLeastOne(cpu) > 1 THEN 1
        ELSE IF AtLeastOne(ram) < AtLeastOne(cpu) THEN AtLeastOne(ram)
             ELSE AtLeastOne(cpu)
  BY DEF MaxConcurrent, ram, cpu
<1>5. AtLeastOne(ram) \in Int /\ AtLeastOne(cpu) \in Int
  BY <1>1 DEF AtLeastOne
<1>6. QED
  BY <1>2, <1>3, <1>4, <1>5
-----------------------------------------------------------------------------
(* The inductive invariant.                                                 *)

\* What the locals of a call and of a worker hold where they are used.
CallsConsistent ==
  /\ \A c \in Callers : call[c].op \in {"start", "register"} => call[c].task \in Tasks
  /\ \A c \in Callers : call[c].op = "start" => pc[call[c].task] = "created"
  /\ \A c, d \in Callers : /\ call[c].op = "start" /\ call[d].op = "start"
                           /\ call[c].task = call[d].task
                           => c = d

LocalsConsistent ==
  \A t \in Tasks : pc[t] = "indexing" => file[t] \in Files /\ seen[t] # 0

\* The registries agree with each other and with the threads.
RegistryConsistent ==
  /\ \A f \in Folders : current[f] # NoTask =>
       /\ current[f] \in tasks /\ current[f] \in cancelKeys
       /\ folder[current[f]] = f
       /\ pc[current[f]] # "unborn"
  /\ \A t \in Tasks : pc[t] = "unborn" =>
       t \notin tasks /\ t \notin cancelKeys /\ t \notin event
  /\ \A t \in Tasks : pc[t] # "unborn" => folder[t] \in Folders

\* A worker past its last state change has one; a dead one that has none was
\* superseded before its first line.
EndedHasResult ==
  \A t \in Tasks : /\ pc[t] = "finish" => state[t] # "running"
                   /\ pc[t] = "dead" => state[t] # "running" \/ t \notin tasks

IInv ==
  /\ TypeOK
  /\ CallsConsistent
  /\ LocalsConsistent
  /\ RegistryConsistent
  /\ OneUncancelledTaskPerFolder
  /\ OneSlot
  /\ EndedHasResult
-----------------------------------------------------------------------------
(***************************************************************************)
(* What any step of a worker does to the shared state.                     *)
(***************************************************************************)
LEMMA WorkerStep ==
  ASSUME TypeOK, NEW t \in Tasks, Worker(t)
  PROVE  /\ pc[t] \notin {"unborn", "created", "dead"}
         /\ pc'[t] \notin {"unborn", "created"}
         /\ pc'[t] = "dead" => pc[t] = "finish" \/ t \notin tasks
         /\ pc'[t] = "finish" => state'[t] # "running"
         /\ \A u \in Tasks \ {t} : pc'[u] = pc[u] /\ state'[u] = state[u]
         /\ pc'[t] = "dead" => state'[t] = state[t]
         /\ UNCHANGED <<tasks, cancelKeys, current, event, folder, call>>
         /\ pc'[t] = "indexing" => /\ pc[t] = "loop" /\ t \notin event
                                   /\ file'[t] \in Files /\ seen'[t] # 0
         /\ \A u \in Tasks \ {t} : file'[u] = file[u] /\ seen'[u] = seen[u]
         /\ \/ Holding(t) /\ Holding(t)' /\ sem' = sem
            \/ ~ Holding(t) /\ ~ Holding(t)' /\ sem' = sem
            \/ ~ Holding(t) /\ Holding(t)' /\ sem > 0 /\ sem' = sem - 1
            \/ Holding(t) /\ ~ Holding(t)' /\ sem' = sem + 1
<1> USE DEF TypeOK, Goto, Holding, registry, status, locals, arguments, world
<1>1. CASE Run(t) BY <1>1 DEF Run
<1>2. CASE Discover(t) BY <1>2 DEF Discover
<1>3. CASE ScanFails(t) BY <1>3 DEF ScanFails, EndScan
<1>4. CASE ScanCancelled(t) BY <1>4 DEF ScanCancelled, EndScan
<1>5. CASE ScanFile(t) BY <1>5 DEF ScanFile
<1>6. CASE NothingToDo(t) BY <1>6 DEF NothingToDo, EndScan
<1>7. CASE Queue(t) BY <1>7 DEF Queue
<1>8. CASE Acquire(t) BY <1>8 DEF Acquire
<1>9. CASE LoopCancelled(t) BY <1>9 DEF LoopCancelled, Leave
<1>10. CASE LoopDone(t) BY <1>10 DEF LoopDone, Leave
<1>11. CASE FileRaises(t) BY <1>11 DEF FileRaises, Leave, Take
<1>12. CASE FileSkipped(t) BY <1>12 DEF FileSkipped, Take
<1>13. CASE FileStarts(t) BY <1>13 DEF FileStarts, Take
<1>14. CASE FileEnds(t) BY <1>14 DEF FileEnds
<1>15. CASE PauseGate(t) BY <1>15 DEF PauseGate
<1>16. CASE Finish(t) BY <1>16 DEF Finish
<1>17. QED
  BY <1>1, <1>2, <1>3, <1>4, <1>5, <1>6, <1>7, <1>8, <1>9, <1>10, <1>11, <1>12,
     <1>13, <1>14, <1>15, <1>16 DEF Worker

(***************************************************************************)
(* Updates of a function of sets and of a function of functions.           *)
(***************************************************************************)
LEMMA AddToOne ==
  ASSUME NEW T, NEW S, NEW g \in [T -> SUBSET S], NEW t \in T, NEW x \in S
  PROVE  [g EXCEPT ![t] = g[t] \union {x}] \in [T -> SUBSET S]
OBVIOUS

LEMMA UpdateInner ==
  ASSUME NEW T, NEW F, NEW R, NEW g \in [T -> [F -> R]],
         NEW t \in T, NEW x \in F, NEW r \in R
  PROVE  [g EXCEPT ![t] = [g[t] EXCEPT ![x] = r]] \in [T -> [F -> R]]
OBVIOUS

LEMMA ScanFileTypes ==
  ASSUME TypeOK, NEW t \in Tasks, ScanFile(t)
  PROVE  /\ scan' \in [Tasks -> SUBSET Files]
         /\ todo' \in [Tasks -> SUBSET Files]
         /\ progress' \in
              [Tasks -> [Files -> {"none", "indexed", "skipped", "failed"}]]
<1>1. /\ scan \in [Tasks -> SUBSET Files] /\ todo \in [Tasks -> SUBSET Files]
      /\ progress \in
           [Tasks -> [Files -> {"none", "indexed", "skipped", "failed"}]]
  BY DEF TypeOK
<1>2. PICK x \in scan[t] :
        /\ scan' = [scan EXCEPT ![t] = scan[t] \ {x}]
        /\ IF ~ force[t] /\ Fresh(x)
           THEN /\ progress' = [progress EXCEPT ![t] = [progress[t] EXCEPT ![x] =
                     IF rows[x].status = "failed" THEN "failed" ELSE "skipped"]]
                /\ todo' = todo
           ELSE /\ todo' = [todo EXCEPT ![t] = todo[t] \union {x}]
                /\ progress' = progress
  BY DEF ScanFile
<1>3. x \in Files
  BY <1>1
<1>4. scan' \in [Tasks -> SUBSET Files]
  BY <1>1, <1>2
<1>5. CASE ~ force[t] /\ Fresh(x)
  <2> DEFINE r == IF rows[x].status = "failed" THEN "failed" ELSE "skipped"
  <2>1. r \in {"none", "indexed", "skipped", "failed"}
    OBVIOUS
  <2>2. /\ progress' = [progress EXCEPT ![t] = [progress[t] EXCEPT ![x] = r]]
        /\ todo' = todo
    BY <1>2, <1>5
  <2> HIDE DEF r
  <2>3. progress' \in
          [Tasks -> [Files -> {"none", "indexed", "skipped", "failed"}]]
    BY <1>1, <1>3, <2>1, <2>2, UpdateInner
  <2>4. QED
    BY <1>1, <1>4, <2>2, <2>3
<1>6. CASE ~ (~ force[t] /\ Fresh(x))
  <2>1. /\ todo' = [todo EXCEPT ![t] = todo[t] \union {x}]
        /\ progress' = progress
    BY <1>2, <1>6
  <2>2. todo' \in [Tasks -> SUBSET Files]
    BY <1>1, <1>3, <2>1, AddToOne
  <2>3. QED
    BY <1>1, <1>4, <2>1, <2>2
<1>7. QED
  BY <1>5, <1>6

LEMMA StartThreadTypes ==
  ASSUME TypeOK, NEW c \in Callers, StartThread(c)
  PROVE  call' \in [Callers -> CallRecord]
<1>1. call \in [Callers -> CallRecord]
  BY DEF TypeOK
<1>2. [call[c] EXCEPT !.op = "register"] \in CallRecord
  BY <1>1 DEF CallRecord
<1>3. QED
  BY <1>1, <1>2 DEF StartThread

LEMMA JoinReturnsTypes ==
  ASSUME TypeOK, NEW c \in Callers, JoinReturns(c)
  PROVE  call' \in [Callers -> CallRecord]
<1>1. call \in [Callers -> CallRecord]
  BY DEF TypeOK
<1>2. \A r \in {"False", "True"} :
        [call[c] EXCEPT !.op = "remove", !.result = r] \in CallRecord
  BY <1>1 DEF CallRecord
<1>3. QED
  BY <1>1, <1>2 DEF JoinReturns

(***************************************************************************)
(* Types, slot and locals through every step.                              *)
(***************************************************************************)
LEMMA TypeStep == IInv /\ [Next]_vars => TypeOK'
<1> SUFFICES ASSUME IInv, [Next]_vars PROVE TypeOK'
  OBVIOUS
<1> USE OneSlotOnly, ConstantsAssumption
    DEF TypeOK, IInv, ThreadPC, CallRecord, registry, status, locals,
        arguments, world
<1>1. ASSUME NEW t \in Tasks, Worker(t) PROVE TypeOK'
  <2> USE DEF Goto
  <2>1. CASE Run(t) BY <2>1 DEF Run
  <2>2. CASE Discover(t)
    <3>1. folder[t] \in Folders
      BY <2>2 DEF Discover, RegistryConsistent
    <3>2. {x \in FilesIn[folder[t]] : disk[x] # 0} \subseteq Files
      BY <3>1
    <3>3. QED
      BY <2>2, <3>2 DEF Discover
  <2>3. CASE ScanFails(t) BY <2>3 DEF ScanFails, EndScan
  <2>4. CASE ScanCancelled(t) BY <2>4 DEF ScanCancelled, EndScan
  <2>5. CASE ScanFile(t) BY <2>5, ScanFileTypes DEF ScanFile
  <2>6. CASE NothingToDo(t) BY <2>6 DEF NothingToDo, EndScan
  <2>7. CASE Queue(t) BY <2>7 DEF Queue, Work
  <2>8. CASE Acquire(t) BY <2>8 DEF Acquire
  <2>9. CASE LoopCancelled(t) BY <2>9 DEF LoopCancelled, Leave, OneSlot, Holding
  <2>10. CASE LoopDone(t) BY <2>10 DEF LoopDone, Leave, OneSlot, Holding
  <2>11. CASE FileRaises(t) BY <2>11 DEF FileRaises, Leave, Take, OneSlot, Holding
  <2>12. CASE FileSkipped(t) BY <2>12 DEF FileSkipped, Take, Row, NoRow
  <2>13. CASE FileStarts(t) BY <2>13 DEF FileStarts, Take
  <2>14. CASE FileEnds(t) BY <2>14 DEF FileEnds, LocalsConsistent, Row
  <2>15. CASE PauseGate(t) BY <2>15 DEF PauseGate
  <2>16. CASE Finish(t) BY <2>16 DEF Finish
  <2>17. QED
    BY <1>1, <2>1, <2>2, <2>3, <2>4, <2>5, <2>6, <2>7, <2>8, <2>9, <2>10, <2>11,
       <2>12, <2>13, <2>14, <2>15, <2>16 DEF Worker
<1>2. ASSUME NEW c \in Callers, CallContinues(c) PROVE TypeOK'
  <2>1. CASE StartThread(c)
    <3>1. call' \in [Callers -> CallRecord]
      BY <2>1, StartThreadTypes
    <3>2. pc' \in [Tasks -> ThreadPC]
      BY <2>1 DEF StartThread
    <3>3. QED
      BY <2>1, <3>1, <3>2 DEF StartThread
  <2>2. CASE RegisterThread(c) BY <2>2 DEF RegisterThread, CallsConsistent, Idle
  <2>3. CASE Return(c) BY <2>3 DEF Return, Idle
  <2>4. CASE JoinReturns(c) BY <2>4, JoinReturnsTypes DEF JoinReturns
  <2>5. CASE RemoveData(c) BY <2>5 DEF RemoveData, Idle, Row
  <2>6. QED
    BY <1>2, <2>1, <2>2, <2>3, <2>4, <2>5 DEF CallContinues
<1>3. ASSUME NEW c \in Callers, NEW f \in Folders, CallBegins(c, f) PROVE TypeOK'
  <2>1. ASSUME NEW k \in Forces, Submit(c, f, k) PROVE TypeOK'
    <3>1. PICK t \in Tasks :
            /\ tasks' = (tasks \ {current[f]}) \union {t}
            /\ event' = event \union TaskToStop(f)
            /\ cancelKeys' = (cancelKeys \ {current[f]}) \union {t}
            /\ current' = [current EXCEPT ![f] = t]
            /\ pc' = [pc EXCEPT ![t] = "created"]
            /\ folder' = [folder EXCEPT ![t] = f]
            /\ force' = [force EXCEPT ![t] = k]
            /\ call' = [call EXCEPT ![c] =
                          [Idle EXCEPT !.op = "start", !.task = t]]
      BY <2>1 DEF Submit
    <3>2. k \in BOOLEAN
      OBVIOUS
    <3>3. call' \in [Callers -> CallRecord]
      BY <3>1 DEF Idle
    <3>4. force' \in [Tasks -> BOOLEAN] /\ folder' \in [Tasks -> Folders \union {NoFolder}]
      BY <3>1, <3>2
    <3>5. /\ tasks' \subseteq Tasks /\ cancelKeys' \subseteq Tasks
          /\ event' \subseteq Tasks
          /\ current' \in [Folders -> Tasks \union {NoTask}]
          /\ pc' \in [Tasks -> ThreadPC]
      BY <3>1 DEF TaskToStop
    <3>6. QED
      BY <2>1, <3>3, <3>4, <3>5 DEF Submit
  <2>2. CASE CancelFolder(c, f) BY <2>2 DEF CancelFolder, TaskToStop, Idle
  <2>3. ASSUME NEW rm \in BOOLEAN, CancelAndWait(c, f, rm) PROVE TypeOK'
    BY <2>3 DEF CancelAndWait, TaskToStop
  <2>4. QED
    BY <1>3, <2>1, <2>2, <2>3 DEF CallBegins
<1>4. CASE Pause \/ Resume \/ Shutdown
  BY <1>4 DEF Pause, Resume, Shutdown
<1>5. CASE Environment
  <2>1. ASSUME NEW x \in Files, EditFile(x) PROVE TypeOK'
    BY <2>1 DEF EditFile
  <2>2. ASSUME NEW x \in Files, DeleteFile(x) PROVE TypeOK'
    BY <2>2 DEF DeleteFile
  <2>3. CASE ModelArrives
    BY <2>3 DEF ModelArrives
  <2>4. QED
    BY <1>5, <2>1, <2>2, <2>3 DEF Environment
<1>6. CASE UNCHANGED vars
  BY <1>6 DEF vars
<1>7. QED
  BY <1>1, <1>2, <1>3, <1>4, <1>5, <1>6 DEF Next

LEMMA CallsStep == IInv /\ [Next]_vars => CallsConsistent'
<1> SUFFICES ASSUME IInv, [Next]_vars PROVE CallsConsistent'
  OBVIOUS
<1> USE DEF CallsConsistent
<1>0. /\ call \in [Callers -> CallRecord] /\ pc \in [Tasks -> ThreadPC]
      /\ CallsConsistent /\ RegistryConsistent
  BY DEF IInv, TypeOK
<1>1. ASSUME NEW t \in Tasks, Worker(t) PROVE CallsConsistent'
  BY <1>0, <1>1, WorkerStep DEF IInv
<1>2. ASSUME NEW c \in Callers, CallContinues(c) PROVE CallsConsistent'
  <2>1. CASE StartThread(c)
    BY <1>0, <2>1 DEF StartThread, CallRecord
  <2>2. CASE RegisterThread(c) BY <1>0, <2>2 DEF RegisterThread, Idle
  <2>3. CASE Return(c) BY <1>0, <2>3 DEF Return, Idle
  <2>4. CASE JoinReturns(c) BY <1>0, <2>4 DEF JoinReturns, CallRecord
  <2>5. CASE RemoveData(c) BY <1>0, <2>5 DEF RemoveData, Idle
  <2>6. QED
    BY <1>2, <2>1, <2>2, <2>3, <2>4, <2>5 DEF CallContinues
<1>3. ASSUME NEW c \in Callers, NEW f \in Folders, CallBegins(c, f)
      PROVE CallsConsistent'
  <2>1. ASSUME NEW k \in Forces, Submit(c, f, k) PROVE CallsConsistent'
    BY <1>0, <2>1 DEF Submit, Idle
  <2>2. CASE CancelFolder(c, f) BY <1>0, <2>2 DEF CancelFolder, Idle
  <2>3. ASSUME NEW rm \in BOOLEAN, CancelAndWait(c, f, rm) PROVE CallsConsistent'
    BY <1>0, <2>3 DEF CancelAndWait
  <2>4. QED
    BY <1>3, <2>1, <2>2, <2>3 DEF CallBegins
<1>4. CASE Pause \/ Resume \/ Shutdown
  BY <1>0, <1>4 DEF Pause, Resume, Shutdown
<1>5. CASE Environment
  BY <1>0, <1>5 DEF Environment, EditFile, DeleteFile, ModelArrives
<1>6. CASE UNCHANGED vars
  BY <1>0, <1>6 DEF vars
<1>7. QED
  BY <1>1, <1>2, <1>3, <1>4, <1>5, <1>6 DEF Next
-----------------------------------------------------------------------------
(***************************************************************************)
(* Every step is a worker's, starts a thread, submits a folder, or leaves  *)
(* threads and registries alone and at most tells more tasks to stop.      *)
(***************************************************************************)
QuietStep ==
  /\ UNCHANGED <<tasks, cancelKeys, current, pc, folder, state, file, seen, sem>>
  /\ event \subseteq event' /\ event' \subseteq event \union cancelKeys

LEMMA StepCases ==
  ASSUME TypeOK, [Next]_vars
  PROVE  \/ \E t \in Tasks : Worker(t)
         \/ \E c \in Callers : StartThread(c)
         \/ \E c \in Callers, f \in Folders, k \in Forces : Submit(c, f, k)
         \/ QuietStep
<1> USE DEF QuietStep, registry, status, locals, arguments, world
<1>1. ASSUME NEW c \in Callers, CallContinues(c), ~ StartThread(c)
      PROVE  QuietStep
  BY <1>1 DEF CallContinues, RegisterThread, Return, JoinReturns, RemoveData
<1>2. ASSUME NEW c \in Callers, NEW f \in Folders, CancelFolder(c, f)
      PROVE  QuietStep
  BY <1>2 DEF CancelFolder, TaskToStop
<1>3. ASSUME NEW c \in Callers, NEW f \in Folders, NEW rm \in BOOLEAN,
             CancelAndWait(c, f, rm)
      PROVE  QuietStep
  BY <1>3 DEF CancelAndWait, TaskToStop
<1>4. ASSUME Pause \/ Resume \/ Shutdown PROVE QuietStep
  BY <1>4 DEF Pause, Resume, Shutdown
<1>5. ASSUME Environment PROVE QuietStep
  BY <1>5 DEF Environment, EditFile, DeleteFile, ModelArrives
<1>6. ASSUME UNCHANGED vars PROVE QuietStep
  BY <1>6 DEF vars
<1>7. QED
  BY <1>1, <1>2, <1>3, <1>4, <1>5, <1>6 DEF Next, CallBegins

(***************************************************************************)
(* thread.start() and the first block of submit(), in those terms.         *)
(***************************************************************************)
LEMMA StartStep ==
  ASSUME IInv, NEW c \in Callers, StartThread(c)
  PROVE  \E t \in Tasks :
           /\ pc[t] = "created" /\ pc' = [pc EXCEPT ![t] = "started"]
           /\ UNCHANGED <<tasks, cancelKeys, current, event, folder, state, file,
                          seen, sem>>
BY DEF IInv, CallsConsistent, StartThread, registry, status, locals, arguments

LEMMA SubmitStep ==
  ASSUME IInv, NEW c \in Callers, NEW f \in Folders, NEW k \in Forces,
         Submit(c, f, k)
  PROVE  \E t \in Tasks :
           /\ pc[t] = "unborn" /\ pc' = [pc EXCEPT ![t] = "created"]
           /\ tasks' = (tasks \ {current[f]}) \union {t}
           /\ cancelKeys' = (cancelKeys \ {current[f]}) \union {t}
           /\ event' = event \union ({current[f]} \intersect cancelKeys)
           /\ current' = [current EXCEPT ![f] = t]
           /\ folder' = [folder EXCEPT ![t] = f]
           /\ UNCHANGED <<state, file, seen, sem>>
BY DEF Submit, TaskToStop, status, locals
-----------------------------------------------------------------------------
LEMMA LocalsStep == IInv /\ [Next]_vars => LocalsConsistent'
<1> SUFFICES ASSUME IInv, [Next]_vars PROVE LocalsConsistent'
  OBVIOUS
<1>0. TypeOK /\ LocalsConsistent /\ pc \in [Tasks -> ThreadPC]
  BY DEF IInv, TypeOK
<1>1. ASSUME NEW t \in Tasks, Worker(t) PROVE LocalsConsistent'
  BY <1>0, <1>1, WorkerStep DEF LocalsConsistent
<1>2. ASSUME NEW c \in Callers, StartThread(c) PROVE LocalsConsistent'
  BY <1>0, <1>2, StartStep DEF LocalsConsistent
<1>3. ASSUME NEW c \in Callers, NEW f \in Folders, NEW k \in Forces,
             Submit(c, f, k)
      PROVE  LocalsConsistent'
  BY <1>0, <1>3, SubmitStep DEF LocalsConsistent
<1>4. CASE QuietStep
  BY <1>0, <1>4 DEF LocalsConsistent, QuietStep
<1>5. QED
  BY <1>0, <1>1, <1>2, <1>3, <1>4, StepCases

LEMMA SlotStep == IInv /\ [Next]_vars => OneSlot'
<1> SUFFICES ASSUME IInv, [Next]_vars PROVE OneSlot'
  OBVIOUS
<1>0. /\ TypeOK /\ OneSlot /\ pc \in [Tasks -> ThreadPC]
      /\ sem \in {0, 1}
  BY OneSlotOnly DEF IInv, TypeOK
<1>1. ASSUME NEW t \in Tasks, Worker(t) PROVE OneSlot'
  <2>1. \A u \in Tasks \ {t} : Holding(u)' <=> Holding(u)
    BY <1>0, <1>1, WorkerStep DEF Holding
  <2>2. \/ Holding(t) /\ Holding(t)' /\ sem' = sem
        \/ ~ Holding(t) /\ ~ Holding(t)' /\ sem' = sem
        \/ ~ Holding(t) /\ Holding(t)' /\ sem > 0 /\ sem' = sem - 1
        \/ Holding(t) /\ ~ Holding(t)' /\ sem' = sem + 1
    BY <1>0, <1>1, WorkerStep
  <2>3. QED
    BY <1>0, <2>1, <2>2 DEF OneSlot
<1>2. ASSUME NEW c \in Callers, StartThread(c) PROVE OneSlot'
  BY <1>0, <1>2, StartStep DEF OneSlot, Holding
<1>3. ASSUME NEW c \in Callers, NEW f \in Folders, NEW k \in Forces,
             Submit(c, f, k)
      PROVE  OneSlot'
  BY <1>0, <1>3, SubmitStep DEF OneSlot, Holding
<1>4. CASE QuietStep
  BY <1>0, <1>4 DEF OneSlot, Holding, QuietStep
<1>5. QED
  BY <1>0, <1>1, <1>2, <1>3, <1>4, StepCases

LEMMA RegistryStep ==
  IInv /\ [Next]_vars =>
    RegistryConsistent' /\ OneUncancelledTaskPerFolder' /\ EndedHasResult'
<1> DEFINE Goal == RegistryConsistent /\ OneUncancelledTaskPerFolder /\ EndedHasResult
<1> SUFFICES ASSUME IInv, [Next]_vars PROVE Goal'
  OBVIOUS
<1> USE DEF RegistryConsistent, OneUncancelledTaskPerFolder, EndedHasResult
<1>0. /\ TypeOK /\ Goal
      /\ pc \in [Tasks -> ThreadPC] /\ current \in [Folders -> Tasks \union {NoTask}]
      /\ folder \in [Tasks -> Folders \union {NoFolder}]
      /\ NoTask \notin Tasks
  BY ConstantsAssumption DEF IInv, TypeOK
<1>1. ASSUME NEW t \in Tasks, Worker(t) PROVE Goal'
  BY <1>0, <1>1, WorkerStep
<1>2. ASSUME NEW c \in Callers, StartThread(c) PROVE Goal'
  BY <1>0, <1>2, StartStep
<1>3. ASSUME NEW c \in Callers, NEW f \in Folders, NEW k \in Forces,
             Submit(c, f, k)
      PROVE  Goal'
  BY <1>0, <1>3, SubmitStep
<1>4. CASE QuietStep
  BY <1>0, <1>4 DEF QuietStep
<1>5. QED
  BY <1>0, <1>1, <1>2, <1>3, <1>4, StepCases
-----------------------------------------------------------------------------
(* The theorems.                                                            *)

LEMMA Initial == Init => IInv
<1> SUFFICES ASSUME Init PROVE IInv
  OBVIOUS
<1>1. TypeOK
  <2>1. Idle \in CallRecord /\ NoRow \in Row
    BY DEF Idle, CallRecord, Row
  <2>2. call \in [Callers -> CallRecord] /\ rows \in [Files -> Row]
    BY <2>1 DEF Init
  <2>3. /\ MaxClock \in Nat /\ 1 \in 1..MaxClock /\ sem \in 0..MaxConcurrent
        /\ disk \in [Files -> 0..MaxClock] /\ seen \in [Tasks -> 0..MaxClock]
    BY OneSlotOnly, ConstantsAssumption DEF Init
  <2>4. QED
    BY <2>2, <2>3 DEF Init, TypeOK, ThreadPC
<1>2. /\ CallsConsistent /\ LocalsConsistent /\ RegistryConsistent
      /\ OneUncancelledTaskPerFolder /\ EndedHasResult
  BY DEF Init, CallsConsistent, LocalsConsistent, RegistryConsistent,
         OneUncancelledTaskPerFolder, EndedHasResult, Idle
<1>3. OneSlot
  BY OneSlotOnly DEF Init, OneSlot, Holding
<1>4. QED
  BY <1>1, <1>2, <1>3 DEF IInv

LEMMA Inductive == IInv /\ [Next]_vars => IInv'
BY TypeStep, CallsStep, LocalsStep, SlotStep, RegistryStep DEF IInv

(***************************************************************************)
(* The inductive invariant holds throughout.                               *)
(***************************************************************************)
THEOREM Invariance == Spec => []IInv
BY Initial, Inductive, PTL DEF Spec

(***************************************************************************)
(* Every variable keeps its type; in particular the semaphore never has    *)
(* more than one free slot, because no path releases it twice.             *)
(***************************************************************************)
THEOREM TypeCorrect == Spec => []TypeOK
<1>1. IInv => TypeOK
  BY DEF IInv
<1>2. QED
  BY <1>1, Invariance, PTL

(***************************************************************************)
(* However many folders are submitted, resubmitted, cancelled and removed  *)
(* by however many threads, a worker nobody told to stop is the current    *)
(* task of its folder.                                                     *)
(***************************************************************************)
THEOREM AtMostOneUncancelled == Spec => []OneUncancelledTaskPerFolder
<1>1. IInv => OneUncancelledTaskPerFolder
  BY DEF IInv
<1>2. QED
  BY <1>1, Invariance, PTL

(***************************************************************************)
(* The slot is held by one worker or free, whatever way workers end.       *)
(***************************************************************************)
THEOREM SlotIsHeldOnce == Spec => []OneSlot
<1>1. IInv => OneSlot
  BY DEF IInv
<1>2. QED
  BY <1>1, Invariance, PTL

(***************************************************************************)
(* No status shown as running belongs to a thread that ended.              *)
(***************************************************************************)
THEOREM NoZombieStatus == Spec => []RunningIsAlive
<1>1. IInv => RunningIsAlive
  BY DEF IInv, TypeOK, EndedHasResult, RunningIsAlive
<1>2. QED
  BY <1>1, Invariance, PTL
-----------------------------------------------------------------------------
(* The refinement of OneWriter.                                             *)

LEMMA TheWriterIs ==
  ASSUME OneSlot
  PROVE  /\ \A t \in Tasks : pc[t] = "indexing" => TheWriter = t
         /\ (\A t \in Tasks : pc[t] # "indexing") => TheWriter = NoTask
BY DEF OneSlot, Holding, TheWriter

LEMMA TheNextWriterIs ==
  ASSUME OneSlot'
  PROVE  /\ \A t \in Tasks : pc'[t] = "indexing" => TheWriter' = t
         /\ (\A t \in Tasks : pc'[t] # "indexing") => TheWriter' = NoTask
BY DEF OneSlot, Holding, TheWriter

LEMMA AbstractStep ==
  ASSUME IInv, [Next]_vars
  PROVE  [Abstract!Next]_<<TheWriter, event>>
<1>0. /\ TypeOK /\ OneSlot /\ OneSlot' /\ TypeOK'
      /\ pc \in [Tasks -> ThreadPC] /\ NoTask \notin Tasks
  BY Inductive, ConstantsAssumption DEF IInv, TypeOK
<1> USE DEF Abstract!Next, Abstract!Stop, Abstract!Begin, Abstract!End
<1>1. ASSUME NEW t \in Tasks, Worker(t)
      PROVE  [Abstract!Next]_<<TheWriter, event>>
  <2>1. /\ UNCHANGED event
        /\ \A u \in Tasks \ {t} : pc'[u] = pc[u]
        /\ pc'[t] = "indexing" => pc[t] = "loop" /\ t \notin event
    BY <1>0, <1>1, WorkerStep
  <2>2. CASE pc'[t] = "indexing"
    <3>1. \A u \in Tasks : pc[u] # "indexing"
      BY <1>0, <2>1, <2>2 DEF OneSlot, Holding
    <3>2. TheWriter = NoTask /\ TheWriter' = t
      BY <1>0, <2>2, <3>1, TheWriterIs, TheNextWriterIs
    <3>3. QED
      BY <2>1, <2>2, <3>2
  <2>3. CASE pc[t] = "indexing" /\ pc'[t] # "indexing"
    <3>1. \A u \in Tasks : pc'[u] # "indexing"
      BY <1>0, <2>1, <2>3 DEF OneSlot, Holding
    <3>2. TheWriter = t /\ TheWriter' = NoTask
      BY <1>0, <2>3, <3>1, TheWriterIs, TheNextWriterIs
    <3>3. QED
      BY <1>0, <2>1, <3>2
  <2>4. CASE pc[t] # "indexing" /\ pc'[t] # "indexing"
    <3>1. \A u \in Tasks : pc'[u] = "indexing" <=> pc[u] = "indexing"
      BY <2>1, <2>4
    <3>2. TheWriter' = TheWriter
      BY <1>0, <3>1, TheWriterIs, TheNextWriterIs
    <3>3. QED
      BY <2>1, <3>2
  <2>5. QED
    BY <2>2, <2>3, <2>4
<1>2. ASSUME ~ \E t \in Tasks : Worker(t)
      PROVE  [Abstract!Next]_<<TheWriter, event>>
  <2>1. \A u \in Tasks : pc'[u] = "indexing" <=> pc[u] = "indexing"
    BY <1>0, <1>2, StepCases, StartStep, SubmitStep DEF QuietStep
  <2>2. event \subseteq event'
    BY <1>0, <1>2, StepCases, StartStep, SubmitStep DEF QuietStep
  <2>3. event' \subseteq Tasks
    BY <1>0 DEF TypeOK
  <2>4. TheWriter' = TheWriter
    BY <1>0, <2>1, TheWriterIs, TheNextWriterIs
  <2>5. QED
    BY <2>2, <2>3, <2>4
<1>3. QED
  BY <1>1, <1>2

(***************************************************************************)
(* The manager implements OneWriter: files are indexed one at a time over  *)
(* all folders, and a task that was told to stop begins no other file.     *)
(***************************************************************************)
THEOREM Refinement == Spec => ImplementsOneWriter
<1>1. Init => Abstract!Init
  BY ConstantsAssumption DEF Init, Abstract!Init, TheWriter
<1>2. IInv /\ [Next]_vars => [Abstract!Next]_<<TheWriter, event>>
  BY AbstractStep
<1>3. QED
  BY <1>1, <1>2, Invariance, PTL DEF Spec, ImplementsOneWriter, Abstract!Spec

-----------------------------------------------------------------------------
(***************************************************************************)
(* CompletedReportsEveryFile: a discovered file is on one of the worker's  *)
(* lists until a counter has it, or the look for the model gave it up.     *)
(***************************************************************************)
\* The files t has still to do something about.
Pending(t) ==
  IF pc[t] = "scan" THEN scan[t] \union todo[t]
  ELSE IF pc[t] \in {"acquire", "loop", "gate"} THEN todo[t]
  ELSE IF pc[t] = "indexing" THEN todo[t] \union {file[t]}
  ELSE {}

Reported(t) == {x \in Files : progress[t][x] # "none"}
Promised(t) == IF t \in unready THEN total[t] \intersect KeywordOnly ELSE total[t]

NotedUnready ==
  unready' = unready \union
    {t \in Tasks : ~ modelReady /\ pc[t] = "scan" /\ pc'[t] # "scan"}

Accounts(t) ==
  /\ pc[t] \in {"scan", "acquire", "loop", "gate", "indexing"}
       => Promised(t) \subseteq Pending(t) \union Reported(t)
  /\ state[t] = "completed"
       => pc[t] \in {"finish", "dead"} /\ Promised(t) \subseteq Reported(t)

LEMMA WorkerAccounts ==
  ASSUME IInv, NEW t \in Tasks, Worker(t), NotedUnready, Accounts(t)
  PROVE  Accounts(t)'
<1>a. /\ pc \in [Tasks -> ThreadPC] /\ total \in [Tasks -> SUBSET Files]
      /\ state \in [Tasks -> {"running", "completed", "failed", "cancelled"}]
      /\ progress \in [Tasks -> [Files -> {"none", "indexed", "skipped", "failed"}]]
      /\ scan \in [Tasks -> SUBSET Files] /\ todo \in [Tasks -> SUBSET Files]
      /\ file \in [Tasks -> Files \union {NoFile}]
  BY DEF IInv, TypeOK
<1>b. t \in unready' <=> t \in unready \/ (~ modelReady /\ pc[t] = "scan" /\ pc'[t] # "scan")
  BY DEF NotedUnready
<1> USE <1>a, <1>b DEF Goto, Pending, Reported, Promised, Accounts, registry, status, locals,
                       arguments, world
<1>1. CASE Run(t) BY <1>1 DEF Run
<1>2. CASE Discover(t)
  <2>1. folder[t] \in Folders
    BY <1>2 DEF IInv, RegistryConsistent, Discover
  <2>2. {x \in FilesIn[folder[t]] : disk[x] # 0} \subseteq Files
    BY <2>1, ConstantsAssumption
  <2>3. QED
    BY <1>2, <2>2 DEF Discover
<1>3. CASE ScanFails(t) BY <1>3 DEF ScanFails, EndScan
<1>4. CASE ScanCancelled(t) BY <1>4 DEF ScanCancelled, EndScan
<1>5. CASE ScanFile(t)
  <2>1. PICK x \in scan[t] :
          /\ scan' = [scan EXCEPT ![t] = scan[t] \ {x}]
          /\ \/ progress' = progress /\ todo' = [todo EXCEPT ![t] = todo[t] \union {x}]
             \/ /\ todo' = todo
                /\ \E r \in {"failed", "skipped"} :
                     progress' = [progress EXCEPT ![t] = [progress[t] EXCEPT ![x] = r]]
    BY <1>5 DEF ScanFile
  <2>2. x \in Files /\ pc[t] = "scan" /\ UNCHANGED <<pc, state, total>>
    BY <1>5 DEF ScanFile
  <2>3. scan'[t] \union todo'[t] \union Reported(t)' \subseteq Files
        /\ scan[t] \union todo[t] \union Reported(t)
             \subseteq scan'[t] \union todo'[t] \union Reported(t)'
    BY <2>1, <2>2, ScanFileTypes, <1>5 DEF IInv
  <2>4. QED
    BY <2>2, <2>3
<1>6. CASE NothingToDo(t) BY <1>6 DEF NothingToDo, EndScan, Work
<1>7. CASE Queue(t) BY <1>7 DEF Queue, Work
<1>8. CASE Acquire(t) BY <1>8 DEF Acquire
<1>9. CASE LoopCancelled(t) BY <1>9 DEF LoopCancelled, Leave
<1>10. CASE LoopDone(t) BY <1>10 DEF LoopDone, Leave
<1>11. CASE FileRaises(t) BY <1>11 DEF FileRaises, Leave, Take
<1>12. CASE FileSkipped(t)
  <2>1. PICK x \in todo[t] :
          /\ todo' = [todo EXCEPT ![t] = @ \ {x}]
          /\ progress' = [progress EXCEPT ![t] = [progress[t] EXCEPT ![x] = "skipped"]]
    BY <1>12 DEF FileSkipped, Take
  <2>2. x \in Files /\ pc[t] = "loop" /\ pc'[t] = "gate" /\ UNCHANGED <<state, total>>
    BY <1>12 DEF FileSkipped, Take
  <2>3. Reported(t)' = Reported(t) \union {x}
    BY <2>1, <2>2
  <2>4. QED
    BY <2>1, <2>2, <2>3
<1>13. CASE FileStarts(t) BY <1>13 DEF FileStarts, Take
<1>14. CASE FileEnds(t)
  <2>1. PICK r \in {"indexed", "failed"} :
          progress' = [progress EXCEPT ![t] = [progress[t] EXCEPT ![file[t]] = r]]
    BY <1>14 DEF FileEnds
  <2>2. /\ file[t] \in Files /\ pc[t] = "indexing" /\ pc'[t] = "gate"
        /\ UNCHANGED <<state, total, todo>>
    BY <1>14 DEF FileEnds, IInv, LocalsConsistent
  <2>3. Reported(t)' = Reported(t) \union {file[t]}
    BY <2>1, <2>2
  <2>4. QED
    BY <2>2, <2>3
<1>15. CASE PauseGate(t) BY <1>15 DEF PauseGate
<1>16. CASE Finish(t) BY <1>16 DEF Finish
<1>17. QED
  BY <1>1, <1>2, <1>3, <1>4, <1>5, <1>6, <1>7, <1>8, <1>9, <1>10, <1>11, <1>12,
     <1>13, <1>14, <1>15, <1>16 DEF Worker

\* A worker has its own lists and its own status.
LEMMA OthersKeep ==
  ASSUME TypeOK, NEW t \in Tasks, Worker(t), NEW u \in Tasks \ {t}
  PROVE  /\ pc'[u] = pc[u] /\ state'[u] = state[u] /\ total'[u] = total[u]
         /\ progress'[u] = progress[u] /\ scan'[u] = scan[u] /\ todo'[u] = todo[u]
         /\ file'[u] = file[u]
<1> USE DEF TypeOK, Goto, registry, status, locals, arguments, world
<1>1. CASE Run(t) BY <1>1 DEF Run
<1>2. CASE Discover(t) BY <1>2 DEF Discover
<1>3. CASE ScanFails(t) BY <1>3 DEF ScanFails, EndScan
<1>4. CASE ScanCancelled(t) BY <1>4 DEF ScanCancelled, EndScan
<1>5. CASE ScanFile(t) BY <1>5 DEF ScanFile
<1>6. CASE NothingToDo(t) BY <1>6 DEF NothingToDo, EndScan
<1>7. CASE Queue(t) BY <1>7 DEF Queue
<1>8. CASE Acquire(t) BY <1>8 DEF Acquire
<1>9. CASE LoopCancelled(t) BY <1>9 DEF LoopCancelled, Leave
<1>10. CASE LoopDone(t) BY <1>10 DEF LoopDone, Leave
<1>11. CASE FileRaises(t) BY <1>11 DEF FileRaises, Leave, Take
<1>12. CASE FileSkipped(t) BY <1>12 DEF FileSkipped, Take
<1>13. CASE FileStarts(t) BY <1>13 DEF FileStarts, Take
<1>14. CASE FileEnds(t) BY <1>14 DEF FileEnds
<1>15. CASE PauseGate(t) BY <1>15 DEF PauseGate
<1>16. CASE Finish(t) BY <1>16 DEF Finish
<1>17. QED
  BY <1>1, <1>2, <1>3, <1>4, <1>5, <1>6, <1>7, <1>8, <1>9, <1>10, <1>11, <1>12,
     <1>13, <1>14, <1>15, <1>16 DEF Worker

LEMMA OthersAccount ==
  ASSUME TypeOK, NEW t \in Tasks, Worker(t), NotedUnready, NEW u \in Tasks \ {t}, Accounts(u)
  PROVE  Accounts(u)'
<1>1. u \in unready' <=> u \in unready
  BY OthersKeep DEF NotedUnready
<1>2. Pending(u)' = Pending(u) /\ Reported(u)' = Reported(u) /\ Promised(u)' = Promised(u)
  BY <1>1, OthersKeep DEF Pending, Reported, Promised
<1>3. QED
  BY OthersKeep, <1>2 DEF Accounts

\* Whatever is no worker's step leaves those alone; a thread that is made or
\* started was not at work.
LEMMA NobodyElseReports ==
  ASSUME IInv, [Next]_vars, ~ \E t \in Tasks : Worker(t)
  PROVE  /\ UNCHANGED <<state, total, progress, scan, todo, file>>
         /\ \A t \in Tasks : \/ pc'[t] = pc[t]
                             \/ /\ pc[t] \in {"unborn", "created"}
                                /\ pc'[t] \in {"created", "started"}
<1> DEFINE Kept == /\ UNCHANGED <<state, total, progress, scan, todo, file>>
                   /\ \A t \in Tasks : \/ pc'[t] = pc[t]
                                       \/ /\ pc[t] \in {"unborn", "created"}
                                          /\ pc'[t] \in {"created", "started"}
<1>0. pc \in [Tasks -> ThreadPC] /\ CallsConsistent
  BY DEF IInv, TypeOK
<1> USE DEF registry, status, locals, arguments, world
<1>1. ASSUME NEW c \in Callers, CallContinues(c) PROVE Kept
  BY <1>0, <1>1 DEF CallContinues, StartThread, RegisterThread, Return, JoinReturns,
                    RemoveData, CallsConsistent
<1>2. ASSUME NEW c \in Callers, NEW f \in Folders, CallBegins(c, f) PROVE Kept
  <2>1. ASSUME NEW k \in Forces, Submit(c, f, k) PROVE Kept
    BY <1>0, <2>1 DEF Submit
  <2>2. QED
    BY <1>2, <2>1 DEF CallBegins, CancelFolder, CancelAndWait
<1>3. CASE Pause \/ Resume \/ Shutdown
  BY <1>3 DEF Pause, Resume, Shutdown
<1>4. CASE Environment
  BY <1>4 DEF Environment, EditFile, DeleteFile, ModelArrives
<1>5. CASE UNCHANGED vars
  BY <1>5 DEF vars
<1>6. QED
  BY <1>1, <1>2, <1>3, <1>4, <1>5 DEF Next

\* A task that says "completed" has every file it found in one of its counters, or every
\* one it could index without a model if it found none; for any number of tasks, files and
\* edits.
THEOREM EveryFileReported == ObservedSpec => []CompletedReportsEveryFile
<1> DEFINE AInv == \A t \in Tasks : Accounts(t)
<1>1. ObservedInit => AInv
  BY DEF ObservedInit, Init, Accounts
<1>2. IInv /\ AInv /\ [ObservedNext]_observed => AInv'
  <2> SUFFICES ASSUME IInv, AInv, [ObservedNext]_observed PROVE AInv'
    OBVIOUS
  <2>1. [Next]_vars
    BY DEF ObservedNext, observed
  <2>2. NotedUnready \/ (UNCHANGED <<vars, unready>>)
    BY DEF ObservedNext, NotedUnready, observed
  <2>3. ASSUME NotedUnready, NEW t \in Tasks, Worker(t) PROVE AInv'
    BY <2>3, WorkerAccounts, OthersAccount DEF IInv
  <2>4. CASE NotedUnready /\ ~ \E t \in Tasks : Worker(t)
    <3>1. ASSUME NEW t \in Tasks PROVE Accounts(t)'
      <4>1. pc'[t] = "scan" <=> pc[t] = "scan"
        BY <2>1, <2>4, NobodyElseReports
      <4>2. t \in unready' <=> t \in unready
        BY <2>4, <4>1 DEF NotedUnready
      <4>3. QED
        BY <2>1, <2>4, <4>2, NobodyElseReports DEF Accounts, Pending, Reported, Promised
    <3>2. QED
      BY <3>1
  <2>5. CASE UNCHANGED <<vars, unready>>
    BY <2>5 DEF Accounts, Pending, Reported, Promised, vars, status, locals
  <2>6. QED
    BY <2>2, <2>3, <2>4, <2>5
<1>3. TypeOK /\ AInv => CompletedReportsEveryFile
  BY DEF TypeOK, Accounts, Reported, Promised, CompletedReportsEveryFile
<1>4. [ObservedNext]_observed => [Next]_vars
  BY DEF ObservedNext, observed
<1>5. QED
  BY <1>1, <1>2, <1>3, <1>4, Invariance, TypeCorrect, PTL
     DEF ObservedSpec, ObservedInit, Spec
-----------------------------------------------------------------------------
(***************************************************************************)
(* PauseStopsAfterOneFile, of the observed manager.                        *)
(***************************************************************************)
\* The file begun late is one of a worker that nobody told to stop and that is
\* still busy with it, or waits in the pause gate with the one slot.
LateInv ==
  /\ late \in {0, 1}
  /\ late = 1 =>
       paused /\ \E t \in Tasks : pc[t] \in {"indexing", "gate"} /\ t \notin event

\* In a paused manager a worker nobody told to stop does not get past the gate.
LEMMA StaysInGate ==
  ASSUME IInv, [Next]_vars, paused, NEW t \in Tasks, t \notin event,
         pc[t] \in {"indexing", "gate"}
  PROVE  pc'[t] \in {"indexing", "gate"}
<1>0. TypeOK /\ pc \in [Tasks -> ThreadPC]
  BY DEF IInv, TypeOK
<1>1. CASE Worker(t)
  <2>1. FileEnds(t) \/ PauseGate(t)
    BY <1>1 DEF Worker, Run, Discover, ScanFails, ScanCancelled, ScanFile, NothingToDo,
                Queue, Acquire, LoopCancelled, LoopDone, FileRaises, FileSkipped,
                FileStarts, Take, Finish, Goto
  <2>2. QED
    BY <1>0, <2>1 DEF FileEnds, PauseGate, Goto
<1>2. ASSUME NEW u \in Tasks \ {t}, Worker(u) PROVE pc'[t] = pc[t]
  BY <1>0, <1>2, WorkerStep
<1>3. CASE ~ \E u \in Tasks : Worker(u)
  BY <1>3, NobodyElseReports
<1>4. QED
  BY <1>1, <1>2, <1>3

\* Who begins a file was in the loop, holding the slot, and not told to stop.
LEMMA BeginsInLoop ==
  ASSUME IInv, [Next]_vars, NEW t \in Tasks, pc[t] = "loop", pc'[t] = "indexing"
  PROVE  t \notin event
<1>0. TypeOK
  BY DEF IInv
<1>1. CASE Worker(t)
  BY <1>0, <1>1, WorkerStep
<1>2. ASSUME NEW u \in Tasks \ {t}, Worker(u) PROVE FALSE
  BY <1>0, <1>2, WorkerStep
<1>3. CASE ~ \E u \in Tasks : Worker(u)
  BY <1>3, NobodyElseReports
<1>4. QED
  BY <1>1, <1>2, <1>3

\* Pausing the manager lets at most one more file begin, over all folders, until
\* it is resumed or another task is told to stop; for any number of tasks.
THEOREM PausedManagerStops == ObservedSpec => []PauseStopsAfterOneFile
<1>1. ObservedInit => LateInv
  BY DEF ObservedInit, LateInv
<1>2. [ObservedNext]_observed => [Next]_vars
  BY DEF ObservedNext, observed
<1>3. IInv /\ LateInv /\ [ObservedNext]_observed => LateInv'
  <2> SUFFICES ASSUME IInv, LateInv, [ObservedNext]_observed PROVE LateInv'
    OBVIOUS
  <2>1. CASE UNCHANGED observed
    BY <2>1 DEF LateInv, vars, registry, observed
  <2>2. CASE ObservedNext /\ late' = 0
    BY <2>2 DEF LateInv
  <2>3. CASE ObservedNext /\ late' # 0
    <3> DEFINE Begins(u) == pc[u] = "loop" /\ pc'[u] = "indexing"
    <3>1. /\ paused' /\ event' = event
          /\ late' = IF \E u \in Tasks : Begins(u) THEN late + 1 ELSE late
      BY <2>3 DEF ObservedNext
    <3>2. [Next]_vars
      BY <2>3 DEF ObservedNext
    <3>3. CASE late = 1
      <4>1. PICK t \in Tasks : pc[t] \in {"indexing", "gate"} /\ t \notin event
        BY <3>3 DEF LateInv
      <4>2. paused /\ pc'[t] \in {"indexing", "gate"}
        BY <3>2, <3>3, <4>1, StaysInGate DEF LateInv
      <4>3. \A u \in Tasks : ~ Begins(u)
        BY <4>1 DEF IInv, OneSlot, Holding
      <4>4. QED
        BY <3>1, <3>3, <4>1, <4>2, <4>3 DEF LateInv
    <3>4. CASE late = 0
      <4>1. PICK t \in Tasks : Begins(t)
        BY <2>3, <3>1, <3>4
      <4>2. t \notin event
        BY <3>2, <4>1, BeginsInLoop
      <4>3. late' = 1
        BY <3>1, <3>4, <4>1
      <4>4. QED
        BY <3>1, <4>1, <4>2, <4>3 DEF LateInv
    <3>5. QED
      BY <3>3, <3>4 DEF LateInv
  <2>4. QED
    BY <2>1, <2>2, <2>3
<1>4. LateInv => PauseStopsAfterOneFile
  BY DEF LateInv, PauseStopsAfterOneFile
<1>5. QED
  BY <1>1, <1>2, <1>3, <1>4, Invariance, PTL DEF ObservedSpec, ObservedInit, Spec
-----------------------------------------------------------------------------
(***************************************************************************)
(* Workers end: the parts of EveryTaskEnds, ShutdownEndsAll and            *)
(* CancelledHolderEnds that are left when threads are only trusted to go   *)
(* on.                                                                     *)
(***************************************************************************)
\* The steps before a worker with n files to scan and m files to index, of all.
StepsAt(p, n, m, all) ==
  CASE p = "started"  -> 6 + 5 * all + 4 * m
    [] p = "discover" -> 5 + 5 * all + 4 * m
    [] p = "scan"     -> 4 + 5 * n + 4 * m
    [] p = "acquire"  -> 3 + 4 * m
    [] p = "indexing" -> 4 + 4 * m
    [] p = "gate"     -> 3 + 4 * m
    [] p = "loop"     -> 2 + 4 * m
    [] p = "finish"   -> 1
    [] OTHER          -> 0

StepsLeft(t) ==
  StepsAt(pc[t], Cardinality(scan[t]), Cardinality(todo[t]), Cardinality(Files))

\* Each step of a worker brings it nearer to its end, and nobody else's step makes
\* work for it: not an edited file, a pause, a removal or another submission.
WorkersRunOut ==
  \A t \in Tasks : pc[t] \notin {"unborn", "created"} =>
    /\ StepsLeft(t) \in Nat
    /\ \/ StepsLeft(t)' < StepsLeft(t) /\ Worker(t)
       \/ StepsLeft(t)' = StepsLeft(t) /\ pc'[t] = pc[t]

\* shutdown() reaches every worker, those that a later submission displaced and
\* those that are only being started included.
ShutdownReachesAll ==
  Shutdown => \A t \in Tasks : pc[t] \notin {"unborn", "dead"} => t \in event'

\* The two places where a worker may have to wait.
HeldUp(t) ==
  \/ pc[t] = "acquire" /\ sem = 0
  \/ pc[t] = "gate" /\ paused /\ t \notin event

\* Whoever waits for the slot waits for a worker that goes on, unless the manager is
\* paused and nobody told that worker to stop.
OnlyAPauseHoldsUp ==
  \A t \in Tasks : HeldUp(t) =>
    \E u \in Tasks : Holding(u) /\ (~ HeldUp(u) \/ (paused /\ u \notin event))

LEMMA FilesAreCounted ==
  ASSUME IsFiniteSet(Files), NEW S \in SUBSET Files
  PROVE  /\ Cardinality(S) \in Nat /\ Cardinality(Files) \in Nat
         /\ Cardinality(S) <= Cardinality(Files)
         /\ \A T \in SUBSET S : Cardinality(T) <= Cardinality(S)
         /\ \A x \in S : Cardinality(S \ {x}) = Cardinality(S) - 1
         /\ \A x : Cardinality(S \union {x}) <= Cardinality(S) + 1
<1>1. IsFiniteSet(S) /\ Cardinality(S) <= Cardinality(Files)
  BY FS_Subset
<1>2. Cardinality(S) \in Nat /\ Cardinality(Files) \in Nat
  BY <1>1, FS_CardinalityType
<1>3. \A T \in SUBSET S : Cardinality(T) <= Cardinality(S)
  BY <1>1, FS_Subset
<1>4. \A x \in S : Cardinality(S \ {x}) = Cardinality(S) - 1
  BY <1>1, FS_RemoveElement
<1>5. ASSUME NEW x PROVE Cardinality(S \union {x}) <= Cardinality(S) + 1
  <2>1. Cardinality(S \union {x}) =
          IF x \in S THEN Cardinality(S) ELSE Cardinality(S) + 1
    BY <1>1, FS_AddElement
  <2>2. QED
    BY <1>2, <2>1
<1>6. QED
  BY <1>1, <1>2, <1>3, <1>4, <1>5

LEMMA StepsAreCounted ==
  ASSUME IsFiniteSet(Files), TypeOK, NEW t \in Tasks
  PROVE  StepsLeft(t) \in Nat
<1>1. scan[t] \in SUBSET Files /\ todo[t] \in SUBSET Files
  BY DEF TypeOK
<1>2. /\ Cardinality(Files) \in Nat /\ Cardinality(scan[t]) \in Nat
      /\ Cardinality(todo[t]) \in Nat
  BY <1>1, FilesAreCounted
<1>3. QED
  BY <1>2 DEF StepsLeft, StepsAt

LEMMA WorkerRunsOut ==
  ASSUME IsFiniteSet(Files), IInv, IInv', NEW t \in Tasks, Worker(t)
  PROVE  StepsLeft(t)' < StepsLeft(t)
<1> DEFINE all == Cardinality(Files)
           n == Cardinality(scan[t])
           m == Cardinality(todo[t])
           n1 == Cardinality(scan'[t])
           m1 == Cardinality(todo'[t])
<1>1. /\ scan[t] \in SUBSET Files /\ todo[t] \in SUBSET Files
      /\ scan'[t] \in SUBSET Files /\ todo'[t] \in SUBSET Files
  BY DEF IInv, TypeOK
<1>2. /\ all \in Nat /\ n \in Nat /\ m \in Nat /\ n1 \in Nat /\ m1 \in Nat /\ n1 <= all
  BY <1>1, FilesAreCounted
<1>3. StepsLeft(t)' = StepsAt(pc'[t], n1, m1, all) /\ StepsLeft(t) = StepsAt(pc[t], n, m, all)
  BY DEF StepsLeft
<1>4. ASSUME NEW p, NEW q, pc[t] = p, pc'[t] = q,
             StepsAt(q, n1, m1, all) < StepsAt(p, n, m, all)
      PROVE  StepsLeft(t)' < StepsLeft(t)
  BY <1>3, <1>4
<1>5. TypeOK
  BY DEF IInv
<1> HIDE DEF all
<1> USE DEF Goto, StepsAt
<1>6. CASE Run(t)
  <2>1. pc[t] = "started" /\ pc'[t] \in {"discover", "dead"} /\ m1 = m
    BY <1>5, <1>6 DEF Run, locals, TypeOK
  <2> HIDE DEF m, m1, n, n1
  <2>2. QED
    BY <1>2, <1>4, <2>1
<1>7. CASE Discover(t)
  <2>1. pc[t] = "discover" /\ pc'[t] = "scan" /\ m1 = m
    BY <1>5, <1>7 DEF Discover, TypeOK
  <2> HIDE DEF m, m1, n, n1
  <2>2. QED
    BY <1>2, <1>4, <2>1
<1>8. CASE ScanFails(t) \/ ScanCancelled(t) \/ NothingToDo(t)
  <2>1. pc[t] \in {"discover", "scan"} /\ pc'[t] = "finish"
    BY <1>5, <1>8 DEF ScanFails, ScanCancelled, NothingToDo, EndScan, TypeOK
  <2> HIDE DEF m, m1, n, n1
  <2>2. QED
    BY <1>2, <1>4, <2>1
<1>9. CASE ScanFile(t)
  <2>1. PICK x \in scan[t] :
          /\ scan'[t] = scan[t] \ {x} /\ pc[t] = "scan" /\ pc'[t] = "scan"
          /\ todo'[t] = todo[t] \/ todo'[t] = todo[t] \union {x}
    BY <1>5, <1>9 DEF ScanFile, TypeOK
  <2>2. n1 = n - 1 /\ m1 <= m + 1
    BY <1>1, <1>2, <2>1, FilesAreCounted
  <2> HIDE DEF m, m1, n, n1
  <2>3. QED
    BY <1>2, <1>4, <2>1, <2>2
<1>10. CASE Queue(t)
  <2>1. pc[t] = "scan" /\ pc'[t] = "acquire" /\ todo'[t] \subseteq todo[t]
    BY <1>5, <1>10 DEF Queue, Work, TypeOK
  <2>2. m1 <= m
    BY <1>1, <2>1, FilesAreCounted
  <2> HIDE DEF m, m1, n, n1
  <2>3. QED
    BY <1>2, <1>4, <2>1, <2>2
<1>11. CASE Acquire(t)
  <2>1. pc[t] = "acquire" /\ pc'[t] = "loop" /\ m1 = m
    BY <1>5, <1>11 DEF Acquire, locals, TypeOK
  <2> HIDE DEF m, m1, n, n1
  <2>2. QED
    BY <1>2, <1>4, <2>1
<1>12. CASE LoopCancelled(t) \/ LoopDone(t) \/ FileRaises(t)
  <2>1. pc[t] = "loop" /\ pc'[t] = "finish"
    BY <1>5, <1>12 DEF LoopCancelled, LoopDone, FileRaises, Take, Leave, TypeOK
  <2> HIDE DEF m, m1, n, n1
  <2>2. QED
    BY <1>2, <1>4, <2>1
<1>13. CASE FileSkipped(t) \/ FileStarts(t)
  <2>1. PICK x \in todo[t] :
          pc[t] = "loop" /\ pc'[t] \in {"gate", "indexing"} /\ todo'[t] = todo[t] \ {x}
    BY <1>5, <1>13 DEF FileSkipped, FileStarts, Take, TypeOK
  <2>2. m1 = m - 1
    BY <1>1, <2>1, FilesAreCounted
  <2> HIDE DEF m, m1, n, n1
  <2>3. QED
    BY <1>2, <1>4, <2>1, <2>2
<1>14. CASE FileEnds(t)
  <2>1. pc[t] = "indexing" /\ pc'[t] = "gate" /\ m1 = m
    BY <1>5, <1>14 DEF FileEnds, TypeOK
  <2> HIDE DEF m, m1, n, n1
  <2>2. QED
    BY <1>2, <1>4, <2>1
<1>15. CASE PauseGate(t)
  <2>1. pc[t] = "gate" /\ pc'[t] = "loop" /\ m1 = m
    BY <1>5, <1>15 DEF PauseGate, locals, TypeOK
  <2> HIDE DEF m, m1, n, n1
  <2>2. QED
    BY <1>2, <1>4, <2>1
<1>16. CASE Finish(t)
  <2>1. pc[t] = "finish" /\ pc'[t] = "dead"
    BY <1>5, <1>16 DEF Finish, TypeOK
  <2> HIDE DEF m, m1, n, n1
  <2>2. QED
    BY <1>2, <1>4, <2>1
<1>17. QED
  BY <1>6, <1>7, <1>8, <1>9, <1>10, <1>11, <1>12, <1>13, <1>14, <1>15, <1>16 DEF Worker

\* Whatever happens to files, folders and other tasks, and in whatever order the API is
\* called, a worker has a number of steps left that its own steps alone change, and only
\* downwards (indexing_task.py:265-456): it ends if it is not held up for ever.
THEOREM TasksRunOut == ASSUME IsFiniteSet(Files) PROVE Spec => [][WorkersRunOut]_vars
<1>1. IInv /\ IInv' /\ [Next]_vars => [WorkersRunOut]_vars
  <2> SUFFICES ASSUME IInv, IInv', [Next]_vars, NEW t \in Tasks,
                      pc[t] \notin {"unborn", "created"}
               PROVE  \/ StepsLeft(t)' < StepsLeft(t) /\ Worker(t)
                      \/ StepsLeft(t)' = StepsLeft(t) /\ pc'[t] = pc[t]
    BY StepsAreCounted DEF WorkersRunOut, IInv
  <2>1. CASE Worker(t)
    BY <2>1, WorkerRunsOut
  <2>2. ASSUME NEW u \in Tasks \ {t}, Worker(u)
        PROVE  StepsLeft(t)' = StepsLeft(t) /\ pc'[t] = pc[t]
    <3>1. TypeOK
      BY DEF IInv
    <3>2. pc'[t] = pc[t] /\ scan'[t] = scan[t] /\ todo'[t] = todo[t]
      BY <2>2, <3>1, OthersKeep
    <3>3. QED
      BY <3>2 DEF StepsLeft
  <2>3. CASE ~ \E u \in Tasks : Worker(u)
    BY <2>3, NobodyElseReports DEF StepsLeft
  <2>4. QED
    BY <2>1, <2>2, <2>3
<1>2. QED
  BY Invariance, <1>1, PTL DEF Spec

\* Closing the application reaches every worker there is: the manager forgets events of
\* displaced tasks only after setting them (indexing_task.py:140-160, 474-485).
THEOREM ShutdownReaches == Spec => [][ShutdownReachesAll]_vars
<1>1. IInv => [ShutdownReachesAll]_vars
  <2> SUFFICES ASSUME IInv, Shutdown, NEW t \in Tasks, pc[t] \notin {"unborn", "dead"},
                      t \notin event
               PROVE  t \in event'
    BY DEF ShutdownReachesAll, Shutdown
  <2>1. folder[t] \in Folders
    BY DEF IInv, RegistryConsistent
  <2>2. current[folder[t]] = t
    BY DEF IInv, OneUncancelledTaskPerFolder
  <2>3. current[folder[t]] \in cancelKeys
    BY <2>1, <2>2, ConstantsAssumption DEF IInv, RegistryConsistent, ConstantsAssumption
  <2>4. QED
    BY <2>2, <2>3 DEF Shutdown
<1>2. QED
  BY Invariance, <1>1, PTL DEF Spec

\* Workers wait for each other only through the one slot, whose holder waits for nobody;
\* after a shutdown not even a pause holds it up (indexing_task.py:389-430).
THEOREM NoWorkerIsStuck == Spec => []OnlyAPauseHoldsUp
<1>1. IInv => OnlyAPauseHoldsUp
  BY DEF IInv, OneSlot, OnlyAPauseHoldsUp, HeldUp, Holding
<1>2. QED
  BY Invariance, <1>1, PTL
=============================================================================
