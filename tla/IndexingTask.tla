---------------------------- MODULE IndexingTask ----------------------------
(***************************************************************************)
(* IndexingTaskManager (smart_search/indexing_task.py): one worker thread  *)
(* per submitted folder, cancelled through an Event, serialised by a       *)
(* semaphore, paused through another Event, and observed through the       *)
(* registries _tasks, _cancel_events, _threads and _folder_to_task.        *)
(*                                                                         *)
(* Every block the code runs under self._lock is one action, and so is     *)
(* every step between two points where another thread may run and be       *)
(* noticed.  What index_file does to one file is here a start and an end;  *)
(* module FileIndex has its steps.                                         *)
(***************************************************************************)
EXTENDS Naturals, FiniteSets

CONSTANTS
  Folders,      \* folder paths, in their one normalised (posix) spelling
  Files,        \* files with a supported extension, under any folder
  FilesIn,      \* FilesIn[f] = the files below folder f; folders may overlap
  KeywordOnly,  \* the files whose extension needs no embedding model
  Tasks,        \* task ids: the uuids submit() can draw, each at most once
  Callers,      \* HTTP worker threads and the startup thread
  RamGB, Cores, \* available memory and processors when the manager is built
  MaxClock,     \* bound on the edits made to files during a behaviour
  Forces,       \* the values of submit(force) tried, a set of Booleans
  NoTask, NoFile, NoFolder

ASSUME ConstantsAssumption ==
  /\ FilesIn \in [Folders -> SUBSET Files]
  /\ KeywordOnly \subseteq Files
  /\ RamGB \in Nat /\ Cores \in Nat /\ MaxClock \in Nat \ {0}
  /\ Forces \subseteq BOOLEAN
  /\ NoTask \notin Tasks /\ NoFile \notin Files /\ NoFolder \notin Folders

AtLeastOne(n) == IF n > 1 THEN n ELSE 1

\* The number of slots: 1.5 GB of what is left above 2 GB for each task, two
\* cores for each task, never more than one.
MaxConcurrent ==
  LET byRam == AtLeastOne(IF RamGB > 2 THEN ((RamGB - 2) * 2) \div 3 ELSE 0)
      byCpu == AtLeastOne(Cores \div 2)
  IN  IF byRam > 1 /\ byCpu > 1 THEN 1
      ELSE IF byRam < byCpu THEN byRam ELSE byCpu

VARIABLES
  tasks,       \* the ids with an entry in _tasks
  cancelKeys,  \* the ids with an entry in _cancel_events
  threads,     \* the ids with an entry in _threads
  current,     \* _folder_to_task
  event,       \* the ids whose cancel Event is set (the thread keeps its own
               \* reference when the entry of _cancel_events is deleted)
  sem,         \* free slots of _semaphore
  paused,      \* ~ _pause_event.is_set()
  pc,          \* where the worker thread of an id stands
  folder, force,              \* the arguments of _run_indexing
  state, total, progress,     \* IndexingStatus: .state, the discovered files,
                              \* and which counter each file went into
  scan, todo, file, seen,     \* locals: files not yet pre-scanned,
                              \* files_needing_work, the file in index_file
                              \* and the mtime its stat() returned
  rows,        \* indexed_files: what is recorded for each file
  disk, clock, \* mtime of each file (0: no such file), number of edits so far
  modelReady,  \* Embedder.is_model_cached
  call         \* what each API thread is doing

registry   == <<tasks, cancelKeys, threads, current, event>>
status     == <<state, total, progress>>
locals     == <<scan, todo, file, seen>>
arguments  == <<folder, force>>
world      == <<disk, clock, modelReady>>
vars == <<registry, sem, paused, pc, arguments, status, locals, rows, world,
          call>>

NoRow == [mtime |-> 0, status |-> "none"]
Row   == [mtime : 1..MaxClock, status : {"indexed", "failed"}] \union {NoRow}

ThreadPC == {"unborn", "created", "started", "discover", "scan", "acquire",
             "loop", "indexing", "gate", "finish", "dead"}
Idle == [op |-> "idle", task |-> NoTask, folder |-> NoFolder,
         remove |-> FALSE, result |-> "none"]
CallRecord == [op : {"idle", "start", "register", "join", "remove", "return"},
               task : Tasks \union {NoTask},
               folder : Folders \union {NoFolder}, remove : BOOLEAN,
               result : {"none", "True", "False", "None"}]

Alive(t)   == pc[t] \in ThreadPC \ {"unborn", "created", "dead"}
Holding(t) == pc[t] \in {"loop", "indexing", "gate"}
Fresh(x)   == disk[x] # 0 /\ rows[x].mtime = disk[x]

TypeOK ==
  /\ tasks \subseteq Tasks /\ cancelKeys \subseteq Tasks
  /\ threads \subseteq Tasks /\ event \subseteq Tasks
  /\ current \in [Folders -> Tasks \union {NoTask}]
  /\ sem \in 0..MaxConcurrent
  /\ paused \in BOOLEAN
  /\ pc \in [Tasks -> ThreadPC]
  /\ folder \in [Tasks -> Folders \union {NoFolder}]
  /\ force \in [Tasks -> BOOLEAN]
  /\ state \in [Tasks -> {"running", "completed", "failed", "cancelled"}]
  /\ total \in [Tasks -> SUBSET Files]
  /\ progress \in [Tasks -> [Files -> {"none", "indexed", "skipped", "failed"}]]
  /\ scan \in [Tasks -> SUBSET Files]
  /\ todo \in [Tasks -> SUBSET Files]
  /\ file \in [Tasks -> Files \union {NoFile}]
  /\ seen \in [Tasks -> 0..MaxClock]
  /\ rows \in [Files -> Row]
  /\ disk \in [Files -> 0..MaxClock]
  /\ clock \in 1..MaxClock
  /\ modelReady \in BOOLEAN
  /\ call \in [Callers -> CallRecord]

Init ==
  /\ tasks = {} /\ cancelKeys = {} /\ threads = {} /\ event = {}
  /\ current = [f \in Folders |-> NoTask]
  /\ sem = MaxConcurrent
  /\ paused = FALSE
  /\ pc = [t \in Tasks |-> "unborn"]
  /\ folder = [t \in Tasks |-> NoFolder]
  /\ force = [t \in Tasks |-> FALSE]
  /\ state = [t \in Tasks |-> "running"]
  /\ total = [t \in Tasks |-> {}]
  /\ progress = [t \in Tasks |-> [x \in Files |-> "none"]]
  /\ scan = [t \in Tasks |-> {}]
  /\ todo = [t \in Tasks |-> {}]
  /\ file = [t \in Tasks |-> NoFile]
  /\ seen = [t \in Tasks |-> 0]
  /\ rows = [x \in Files |-> NoRow]
  /\ disk = [x \in Files |-> 1]
  /\ clock = 1
  /\ modelReady \in BOOLEAN
  /\ call = [c \in Callers |-> Idle]
-----------------------------------------------------------------------------
(* The API: submit(), cancel_folder(), cancel_folder_and_wait() with its    *)
(* caller remove_folder(), pause(), resume(), shutdown().                   *)

(* Some definitions are preceded by a variant with a slip, named after it;  *)
(* no specification uses the variants: they show that a property notices.   *)

TaskToStopIfIndexing(f) == {t \in {current[f]} \intersect cancelKeys : Holding(t)}

\* The task of folder f, if there is an event by which it can be told to stop.
TaskToStop(f) == {current[f]} \intersect cancelKeys

\* submit(), the first block under the lock: cancel and forget the folder's
\* task, register a new one.
Submit(c, f, k) ==
  /\ call[c].op = "idle"
  /\ \E t \in Tasks :
       /\ pc[t] = "unborn"
       /\ tasks' = (tasks \ {current[f]}) \union {t}
       /\ event' = event \union TaskToStop(f)
       /\ cancelKeys' = (cancelKeys \ {current[f]}) \union {t}
       /\ current' = [current EXCEPT ![f] = t]
       /\ pc' = [pc EXCEPT ![t] = "created"]
       /\ folder' = [folder EXCEPT ![t] = f]
       /\ force' = [force EXCEPT ![t] = k]
       /\ call' = [call EXCEPT ![c] = [Idle EXCEPT !.op = "start", !.task = t]]
  /\ UNCHANGED <<threads, sem, paused, status, locals, rows, world>>

\* thread.start(), outside the lock.
StartThread(c) ==
  /\ call[c].op = "start"
  /\ pc' = [pc EXCEPT ![call[c].task] = "started"]
  /\ call' = [call EXCEPT ![c].op = "register"]
  /\ UNCHANGED <<registry, sem, paused, arguments, status, locals, rows, world>>

\* The second block under the lock: the running thread becomes joinable.
RegisterThread(c) ==
  /\ call[c].op = "register"
  /\ threads' = threads \union {call[c].task}
  /\ call' = [call EXCEPT ![c] = Idle]
  /\ UNCHANGED <<tasks, cancelKeys, current, event, sem, paused, pc, arguments,
                 status, locals, rows, world>>

\* cancel_folder(): True when there is an event to set, and no return
\* statement otherwise.
CancelFolder(c, f) ==
  /\ call[c].op = "idle"
  /\ event' = event \union TaskToStop(f)
  /\ call' = [call EXCEPT ![c] =
                [Idle EXCEPT !.op = "return", !.task = current[f], !.folder = f,
                  !.result = IF TaskToStop(f) # {} THEN "True" ELSE "None"]]
  /\ UNCHANGED <<tasks, cancelKeys, threads, current, sem, paused, pc, arguments,
                 status, locals, rows, world>>

Return(c) ==
  /\ call[c].op = "return"
  /\ call' = [call EXCEPT ![c] = Idle]
  /\ UNCHANGED <<registry, sem, paused, pc, arguments, status, locals, rows,
                 world>>

\* remove_folder(): cancel_folder_and_wait() sets the event and looks the
\* thread up under the lock; a thread it finds alive is joined, otherwise it
\* returns at once.
CancelAndWait(c, f, rm) ==
  /\ call[c].op = "idle"
  /\ LET t == current[f]
         wait == t \in threads /\ Alive(t)
     IN /\ event' = event \union TaskToStop(f)
        /\ call' = [call EXCEPT ![c] =
             [op |-> IF wait THEN "join" ELSE "remove", task |-> t, folder |-> f,
              remove |-> rm,
              result |-> IF t = NoTask THEN "False"
                         ELSE IF wait THEN "none" ELSE "True"]]
  /\ UNCHANGED <<tasks, cancelKeys, threads, current, sem, paused, pc, arguments,
                 status, locals, rows, world>>

\* join() returns because the thread ended or because ten seconds passed; the
\* result says whether the thread is alive then.
JoinReturns(c) ==
  /\ call[c].op = "join"
  /\ call' = [call EXCEPT ![c] = [@ EXCEPT !.op = "remove",
                !.result = IF Alive(call[c].task) THEN "False" ELSE "True"]]
  /\ UNCHANGED <<registry, sem, paused, pc, arguments, status, locals, rows,
                 world>>

\* The rest of remove_folder(), which does not look at the result: with
\* remove_data, everything stored for the folder's files is deleted.
RemoveData(c) ==
  LET f == call[c].folder IN
  /\ call[c].op = "remove"
  /\ rows' = [x \in Files |-> IF call[c].remove /\ x \in FilesIn[f]
                              THEN NoRow ELSE rows[x]]
  /\ call' = [call EXCEPT ![c] = Idle]
  /\ UNCHANGED <<registry, sem, paused, pc, arguments, status, locals, world>>

Pause ==
  /\ paused' = TRUE
  /\ UNCHANGED <<registry, sem, pc, arguments, status, locals, rows, world,
                 call>>

Resume ==
  /\ paused' = FALSE
  /\ UNCHANGED <<registry, sem, pc, arguments, status, locals, rows, world,
                 call>>

Shutdown ==
  /\ event' = event \union cancelKeys
  /\ UNCHANGED <<tasks, cancelKeys, threads, current, sem, paused, pc, arguments,
                 status, locals, rows, world, call>>
-----------------------------------------------------------------------------
(* The worker thread: _run_indexing().                                      *)

Goto(t, from, to) == pc[t] = from /\ pc' = [pc EXCEPT ![t] = to]

\* status = self._tasks[task_id], before the try: KeyError when another
\* submit() of the folder came first.
Run(t) ==
  /\ Goto(t, "started", IF t \in tasks THEN "discover" ELSE "dead")
  /\ UNCHANGED <<registry, sem, paused, arguments, status, locals, rows, world,
                 call>>

Discover(t) ==
  /\ Goto(t, "discover", "scan")
  /\ LET found == {x \in FilesIn[folder[t]] : disk[x] # 0} IN
     /\ total' = [total EXCEPT ![t] = found]
     /\ scan' = [scan EXCEPT ![t] = found]
  /\ UNCHANGED <<registry, sem, paused, arguments, state, progress, todo, file,
                 seen, rows, world, call>>

EndScanKeepingState(t, result) ==
  /\ pc' = [pc EXCEPT ![t] = "finish"]
  /\ state' = [state EXCEPT ![t] = IF result = "failed" THEN result ELSE @]

\* Leave the scan: nothing to release.
EndScan(t, result) ==
  /\ pc' = [pc EXCEPT ![t] = "finish"]
  /\ state' = [state EXCEPT ![t] = result]

\* An error other than OSError on the way (the database is locked, the folder
\* cannot be listed): except Exception.
ScanFails(t) ==
  /\ pc[t] \in {"discover", "scan"}
  /\ EndScan(t, "failed")
  /\ UNCHANGED <<registry, sem, paused, arguments, total, progress, locals, rows,
                 world, call>>

ScanCancelled(t) ==
  /\ pc[t] = "scan" /\ scan[t] # {} /\ t \in event
  /\ EndScan(t, "cancelled")
  /\ UNCHANGED <<registry, sem, paused, arguments, total, progress, locals, rows,
                 world, call>>

\* One file of the pre-scan: reported from its row when mtime and size match,
\* kept for indexing otherwise (also when stat() raises).
ScanFile(t) ==
  /\ pc[t] = "scan" /\ t \notin event
  /\ \E x \in scan[t] :
       /\ scan' = [scan EXCEPT ![t] = @ \ {x}]
       /\ IF ~ force[t] /\ Fresh(x)
          THEN /\ progress' = [progress EXCEPT ![t][x] =
                    IF rows[x].status = "failed" THEN "failed" ELSE "skipped"]
               /\ UNCHANGED todo
          ELSE /\ todo' = [todo EXCEPT ![t] = @ \union {x}]
               /\ UNCHANGED progress
  /\ UNCHANGED <<registry, sem, paused, pc, arguments, state, total, file, seen,
                 rows, world, call>>

WorkAlwaysFiltered(t) == todo[t] \intersect KeywordOnly

\* The model gate: without an embedding model, only files that need none.
Work(t) == IF modelReady THEN todo[t] ELSE todo[t] \intersect KeywordOnly

NothingToDo(t) ==
  /\ pc[t] = "scan" /\ scan[t] = {} /\ Work(t) = {}
  /\ EndScan(t, "completed")
  /\ todo' = [todo EXCEPT ![t] = {}]
  /\ UNCHANGED <<registry, sem, paused, arguments, total, progress, scan, file,
                 seen, rows, world, call>>

Queue(t) ==
  /\ Goto(t, "scan", "acquire")
  /\ scan[t] = {} /\ Work(t) # {}
  /\ todo' = [todo EXCEPT ![t] = Work(t)]
  /\ UNCHANGED <<registry, sem, paused, arguments, status, scan, file, seen, rows,
                 world, call>>

Acquire(t) ==
  /\ Goto(t, "acquire", "loop")
  /\ sem > 0 /\ sem' = sem - 1
  /\ UNCHANGED <<registry, paused, arguments, status, locals, rows, world, call>>

LeaveWithoutRelease(t, result) ==
  /\ pc' = [pc EXCEPT ![t] = "finish"]
  /\ state' = [state EXCEPT ![t] = result]
  /\ sem' = IF result = "completed" THEN sem + 1 ELSE sem

LeaveReleasingTwice(t, result) ==
  /\ pc' = [pc EXCEPT ![t] = "finish"]
  /\ state' = [state EXCEPT ![t] = result]
  /\ sem' = IF result = "cancelled" THEN sem + 2 ELSE sem + 1

\* Leave the loop, through the finally that releases the slot.
Leave(t, result) ==
  /\ pc' = [pc EXCEPT ![t] = "finish"]
  /\ state' = [state EXCEPT ![t] = result]
  /\ sem' = sem + 1

LoopCancelled(t) ==
  /\ pc[t] = "loop" /\ todo[t] # {} /\ t \in event
  /\ Leave(t, "cancelled")
  /\ UNCHANGED <<registry, paused, arguments, total, progress, locals, rows,
                 world, call>>

LoopDone(t) ==
  /\ pc[t] = "loop" /\ todo[t] = {}
  /\ Leave(t, IF t \in event THEN "cancelled" ELSE "completed")
  /\ UNCHANGED <<registry, paused, arguments, total, progress, locals, rows,
                 world, call>>

TakeUnchecked(t, x) ==
  /\ pc[t] = "loop" /\ x \in todo[t]
  /\ todo' = [todo EXCEPT ![t] = @ \ {x}]

\* The next file of the loop.
Take(t, x) ==
  /\ pc[t] = "loop" /\ x \in todo[t] /\ t \notin event
  /\ todo' = [todo EXCEPT ![t] = @ \ {x}]

\* index_file() raises outside its try, and the task fails: stat() of a file that is gone,
\* or of any file a look at its row, the reading for its hash or the update of the row.
FileRaises(t) ==
  /\ \E x \in todo[t] : Take(t, x)
  /\ Leave(t, "failed")
  /\ UNCHANGED <<registry, paused, arguments, total, progress, scan, file, seen,
                 rows, world, call>>

\* index_file() called without force: a row with the file's mtime, or with its
\* hash (then the row gets the new mtime), makes it return "skipped".
FileSkipped(t) ==
  /\ \E x \in todo[t] :
       /\ Take(t, x) /\ disk[x] # 0 /\ rows[x] # NoRow
       /\ rows' = [rows EXCEPT ![x] = [mtime |-> disk[x], status |-> @.status]]
       /\ progress' = [progress EXCEPT ![t][x] = "skipped"]
  /\ pc' = [pc EXCEPT ![t] = "gate"]
  /\ UNCHANGED <<registry, sem, paused, arguments, state, total, scan, file,
                 seen, world, call>>

FileStarts(t) ==
  /\ \E x \in todo[t] :
       /\ Take(t, x) /\ disk[x] # 0 /\ ~ Fresh(x)
       /\ file' = [file EXCEPT ![t] = x]
       /\ seen' = [seen EXCEPT ![t] = disk[x]]
  /\ pc' = [pc EXCEPT ![t] = "indexing"]
  /\ UNCHANGED <<registry, sem, paused, arguments, status, scan, rows, world,
                 call>>

\* Chunks written and recorded, or a failure: it is recorded if that does not raise too.
FileEnds(t) ==
  /\ Goto(t, "indexing", "gate")
  /\ \E r \in {"indexed", "failed"} :
       /\ \/ rows' = [rows EXCEPT ![file[t]] = [mtime |-> seen[t], status |-> r]]
          \/ r = "failed" /\ UNCHANGED rows
       /\ progress' = [progress EXCEPT ![t][file[t]] = r]
  /\ file' = [file EXCEPT ![t] = NoFile]
  /\ seen' = [seen EXCEPT ![t] = 0]
  /\ UNCHANGED <<registry, sem, paused, arguments, state, total, scan, todo,
                 world, call>>

PauseGatePassed(t) ==
  /\ Goto(t, "gate", "loop")
  /\ UNCHANGED <<registry, sem, paused, arguments, status, locals, rows, world,
                 call>>

PauseGateDeaf(t) ==
  /\ Goto(t, "gate", "loop")
  /\ ~ paused
  /\ UNCHANGED <<registry, sem, paused, arguments, status, locals, rows, world,
                 call>>

PauseGate(t) ==
  /\ Goto(t, "gate", "loop")
  /\ ~ paused \/ t \in event
  /\ UNCHANGED <<registry, sem, paused, arguments, status, locals, rows, world,
                 call>>

\* The outer finally: the thread forgets itself and ends, its locals with it.
Finish(t) ==
  /\ Goto(t, "finish", "dead")
  /\ threads' = threads \ {t}
  /\ scan' = [scan EXCEPT ![t] = {}]
  /\ todo' = [todo EXCEPT ![t] = {}]
  /\ UNCHANGED <<tasks, cancelKeys, current, event, sem, paused, arguments,
                 status, file, seen, rows, world, call>>
-----------------------------------------------------------------------------
(* Outside the manager: files change, the model arrives.                    *)

EditFile(x) ==
  /\ clock < MaxClock
  /\ clock' = clock + 1
  /\ disk' = [disk EXCEPT ![x] = clock + 1]
  /\ UNCHANGED <<registry, sem, paused, pc, arguments, status, locals, rows,
                 modelReady, call>>

DeleteFile(x) ==
  /\ clock < MaxClock
  /\ clock' = clock + 1
  /\ disk' = [disk EXCEPT ![x] = 0]
  /\ UNCHANGED <<registry, sem, paused, pc, arguments, status, locals, rows,
                 modelReady, call>>

ModelArrives ==
  /\ modelReady' = TRUE
  /\ UNCHANGED <<registry, sem, paused, pc, arguments, status, locals, rows,
                 disk, clock, call>>
-----------------------------------------------------------------------------
Worker(t) ==
  \/ Run(t) \/ Discover(t) \/ ScanFails(t) \/ ScanCancelled(t) \/ ScanFile(t)
  \/ NothingToDo(t) \/ Queue(t) \/ Acquire(t) \/ LoopCancelled(t) \/ LoopDone(t)
  \/ FileRaises(t) \/ FileSkipped(t) \/ FileStarts(t) \/ FileEnds(t)
  \/ PauseGate(t) \/ Finish(t)

CallContinues(c) ==
  \/ StartThread(c) \/ RegisterThread(c) \/ Return(c) \/ JoinReturns(c)
  \/ RemoveData(c)

CallBegins(c, f) ==
  \/ \E k \in Forces : Submit(c, f, k)
  \/ CancelFolder(c, f)
  \/ \E rm \in BOOLEAN : CancelAndWait(c, f, rm)

Environment ==
  \/ \E x \in Files : EditFile(x) \/ DeleteFile(x)
  \/ ModelArrives

Next ==
  \/ \E t \in Tasks : Worker(t)
  \/ \E c \in Callers : CallContinues(c)
  \/ \E c \in Callers, f \in Folders : CallBegins(c, f)
  \/ Pause \/ Resume \/ Shutdown
  \/ Environment

Spec == Init /\ [][Next]_vars

\* Threads that can run do run, and calls that were begun go on; nobody has to
\* call the API, resume a paused manager or change a file.
Fairness ==
  /\ \A t \in Tasks : WF_vars(Worker(t))
  /\ \A c \in Callers : WF_vars(CallContinues(c))

FairSpec == Spec /\ Fairness
-----------------------------------------------------------------------------
(* Properties.                                                              *)

\* "Each folder gets at most one active task": whatever the order of
\* submissions, cancellations and thread starts, a worker nobody told to stop
\* is the task its folder is registered with, so no folder has two of them.
OneUncancelledTaskPerFolder ==
  \A t \in Tasks : /\ pc[t] \notin {"unborn", "dead"}
                   /\ t \notin event
                   => current[folder[t]] = t

\* The one slot of the semaphore: taken exactly while a single worker is
\* between acquire() and release(), whichever way it left its loop.
OneSlot ==
  /\ \A t, u \in Tasks : Holding(t) /\ Holding(u) => t = u
  /\ sem = 0 <=> \E t \in Tasks : Holding(t)

\* A status the API can still show as "running" belongs to a thread that has
\* not ended, although a superseded thread may die before its first line.
RunningIsAlive ==
  \A t \in tasks : state[t] = "running" => pc[t] # "dead"

\* A worker that was told to stop and holds the slot ends, even in a manager
\* that stays paused for ever.
CancelledHolderEnds ==
  \A t \in Tasks : (Holding(t) /\ t \in event) ~> pc[t] = "dead"

\* Once every worker has been told to stop (shutdown), all of them end, those
\* that queue for the slot or are only being started included.
ShutdownEndsAll ==
  <>[](\A t \in Tasks : pc[t] \in {"unborn", "dead"} \/ t \in event)
    => <>[](\A t \in Tasks : pc[t] \in {"unborn", "dead"})

\* Every submitted task ends, unless the manager is paused again and again.
EveryTaskEnds ==
  <>[](~ paused) => \A t \in Tasks : pc[t] = "created" ~> pc[t] = "dead"

\* One file is indexed at a time, and a worker that was told to stop begins no
\* other: the manager implements the abstract writer of module OneWriter.
TheWriter == IF \E t \in Tasks : pc[t] = "indexing"
             THEN CHOOSE t \in Tasks : pc[t] = "indexing" ELSE NoTask
Abstract == INSTANCE OneWriter WITH writer <- TheWriter, stopped <- event
ImplementsOneWriter == Abstract!Spec
=============================================================================
