------------------------------ MODULE Watcher ------------------------------
(***************************************************************************)
(* The file watcher (watcher.py) with its observers and debounce timers,   *)
(* and the routes that add and remove folders (http_routes.py), which keep *)
(* it in step with the list of folders in config.json.  index_file() is    *)
(* reduced to reading a file and storing what was read; FileIndex has its  *)
(* steps.  Each folder has one file, named like the folder.                *)
(***************************************************************************)
EXTENDS Naturals, Sequences, FiniteSets

CONSTANTS
  Folders,
  Callers,      \* HTTP threads
  Observers,    \* observer objects, each with a thread and a queue of events
  Timers,       \* Timer objects, reused when dead
  None,
  MaxVersions,  \* bound: contents of a file told apart at a time
  MaxEvents     \* bound: events waiting in a queue, of one folder

ASSUME WatcherAssumption ==
  /\ {MaxVersions, MaxEvents} \subseteq Nat
  /\ None \notin Folders \union Observers \union Timers

VARIABLES
  configured, \* watch_directories the server started with
  listed,    \* watch_directories in config.json
  running,   \* _running
  observers, \* _observers
  map,       \* _dir_observer_map
  dir,       \* the folder of each started observer
  events,    \* what each observer has not handled yet
  deleting,  \* observers in _handle_delete(), the lock released
  timers,    \* _debounce_timers
  tfile, tstate,  \* each Timer: its file; dead, armed, fired, indexing
  job,       \* what a timer's index_file() has read
  disk,      \* version of each file, 0 when there is none
  index,     \* version stored in the index
  read,      \* version read last or there when the folder was watched, 0 once a
             \* deletion was handled
  call,      \* each HTTP thread
  stopping   \* stop(): "no", "timers" once they are cancelled, "done"

vars == <<configured, listed, running, observers, map, dir, events, deleting, timers,
          tfile, tstate, job, disk, index, read, call, stopping>>

CallAt == {"idle", "check", "starting", "add", "create", "submit", "remove", "purge"}
Versions == 0 .. MaxVersions

TypeOK ==
  /\ {configured, listed} \subseteq SUBSET Folders /\ running \in BOOLEAN
  /\ observers \subseteq Observers /\ map \in [Folders -> Observers \union {None}]
  /\ dir \in [Observers -> Folders \union {None}]
  /\ events \in [Observers -> Seq({"modified", "deleted"})]
  /\ deleting \subseteq Observers
  /\ timers \in [Folders -> Timers \union {None}]
  /\ tfile \in [Timers -> Folders \union {None}]
  /\ tstate \in [Timers -> {"dead", "armed", "fired", "indexing"}]
  /\ job \in [Timers -> Versions]
  /\ {disk, index, read} \subseteq [Folders -> Versions]
  /\ call \in [Callers -> [at : CallAt, folder : Folders \union {None}]]
  /\ stopping \in {"no", "timers", "done"}

Idle == [at |-> "idle", folder |-> None]

Init ==
  /\ configured \in SUBSET Folders /\ listed = configured
  /\ running = FALSE /\ observers = {}
  /\ map = [f \in Folders |-> None] /\ dir = [o \in Observers |-> None]
  /\ events = [o \in Observers |-> <<>>] /\ deleting = {}
  /\ timers = [f \in Folders |-> None] /\ tfile = [t \in Timers |-> None]
  /\ tstate = [t \in Timers |-> "dead"] /\ job = [t \in Timers |-> 0]
  /\ disk = [f \in Folders |-> 0] /\ index = disk /\ read = disk
  /\ call = [c \in Callers |-> Idle] /\ stopping = "no"

folders == <<configured, listed, running, observers, map, dir>>
watching == <<running, observers, map, dir, events, deleting, stopping>>
timing == <<timers, tfile, tstate, job>>
files == <<disk, index, read>>

At(c, a, b) == call[c].at = a /\ call' = [call EXCEPT ![c].at = b]

----------------------------------------------------------------------------
\* observer.start() for the folders of fs at once, each with an unused object.
New(fs) == {new \in [fs -> {o \in Observers : dir[o] = None}] :
              \A f, g \in fs : new[f] = new[g] => f = g}
Begin(new, fs) ==
  /\ dir' = [o \in Observers |-> IF \E f \in fs : new[f] = o
                                 THEN CHOOSE f \in fs : new[f] = o ELSE dir[o]]
  /\ map' = [f \in Folders |-> IF f \in fs THEN new[f] ELSE map[f]]
  /\ read' = [f \in Folders |-> IF f \in fs THEN disk[f] ELSE read[f]]

Start(fs) ==
  \E new \in New(fs) : Begin(new, fs) /\ observers' = observers \union {new[f] : f \in fs}

\* POST /folders: the list in config.json first.
AddFolder(c, f) ==
  /\ call[c] = Idle /\ stopping = "no"
  /\ call' = [call EXCEPT ![c] = [at |-> "check", folder |-> f]]
  /\ listed' = listed \union {f}
  /\ UNCHANGED <<configured, watching, timing, files>>

\* if not watcher.is_running: watcher.start(), which looks again.
CheckRunning(c) ==
  /\ At(c, "check", IF running THEN "add" ELSE "starting")
  /\ UNCHANGED <<configured, listed, watching, timing, files>>

StartWatcher(c) ==
  /\ At(c, "starting", "add") /\ Start(configured) /\ running' = TRUE
  /\ UNCHANGED <<configured, listed, events, deleting, stopping, timing, disk, index>>

AddCheckListed(c) ==
  /\ At(c, "add", IF call[c].folder \in configured THEN "submit" ELSE "create")
  /\ UNCHANGED <<configured, listed, watching, timing, files>>

\* add_directory(): nothing for a folder in the map.
AddCheck(c) ==
  /\ At(c, "add", IF map[call[c].folder] # None THEN "submit" ELSE "create")
  /\ UNCHANGED <<configured, listed, watching, timing, files>>

AddCreate(c) ==
  /\ At(c, "create", "submit") /\ Start({call[c].folder})
  /\ UNCHANGED <<configured, listed, running, events, deleting, stopping, timing, disk, index>>

\* submit() of the folder: the worker indexes what is there.
SubmitTask(c) ==
  /\ call[c].at = "submit" /\ call' = [call EXCEPT ![c] = Idle]
  /\ LET f == call[c].folder
     IN index' = [index EXCEPT ![f] = disk[f]] /\ read' = [read EXCEPT ![f] = disk[f]]
  /\ UNCHANGED <<configured, listed, disk, watching, timing>>

\* DELETE /folders: the list, then the observer in the map with its events, then
\* the data, if the user wants it.
RemoveFolder(c, f) ==
  /\ call[c] = Idle /\ stopping = "no"
  /\ call' = [call EXCEPT ![c] = [at |-> "remove", folder |-> f]]
  /\ listed' = listed \ {f}
  /\ UNCHANGED <<configured, watching, timing, files>>

Ended(os) == /\ dir' = [o \in Observers |-> IF o \in os THEN None ELSE dir[o]]
             /\ events' = [o \in Observers |-> IF o \in os THEN <<>> ELSE events[o]]
             /\ deleting' = deleting \ os

RemoveDirectory(c) ==
  /\ \/ At(c, "remove", "purge")
     \/ call[c].at = "remove" /\ call' = [call EXCEPT ![c] = Idle]
  /\ LET f == call[c].folder
     IN /\ map' = [map EXCEPT ![f] = None]
        /\ Ended({map[f]} \ {None}) /\ observers' = observers \ {map[f]}
  /\ UNCHANGED <<configured, listed, running, stopping, timing, files>>

RemoveData(c) ==
  /\ call[c].at = "purge" /\ call' = [call EXCEPT ![c] = Idle]
  /\ index' = [index EXCEPT ![call[c].folder] = 0]
  /\ UNCHANGED <<configured, listed, disk, read, watching, timing>>

\* stop(): the timers in the dictionary first, then every observer.
StopTimers ==
  /\ running /\ stopping = "no" /\ stopping' = "timers"
  /\ \A c \in Callers : call[c] = Idle
  /\ tstate' = [t \in Timers |-> IF \E f \in Folders : timers[f] = t /\ tstate[t] = "armed"
                                 THEN "dead" ELSE tstate[t]]
  /\ timers' = [f \in Folders |-> None]
  /\ UNCHANGED <<folders, events, deleting, tfile, job, files, call>>

StopObservers ==
  /\ stopping = "timers" /\ stopping' = "done"
  /\ Ended(observers) /\ observers' = {} /\ running' = FALSE
  /\ UNCHANGED <<configured, listed, map, timing, files, call>>

----------------------------------------------------------------------------
\* The user writes or deletes a file; every observer of the folder is told.
Tell(f, e) == events' = [o \in Observers |-> IF dir[o] = f THEN Append(events[o], e)
                                             ELSE events[o]]

Room(f) == \A o \in Observers : dir[o] = f => Len(events[o]) < MaxEvents

\* A version nobody has seen.
Fresh(f) == {v \in Versions \ {0} : v \notin {disk[f], read[f], index[f]}
                 /\ \A t \in Timers : tfile[t] = f => v # job[t]}

Write(f) ==
  /\ Fresh(f) # {} /\ Room(f)
  /\ disk' = [disk EXCEPT ![f] = CHOOSE v \in Fresh(f) : \A w \in Fresh(f) : v <= w]
  /\ Tell(f, "modified")
  /\ UNCHANGED <<folders, deleting, stopping, timing, index, read, call>>

Delete(f) ==
  /\ disk[f] > 0 /\ Room(f) /\ disk' = [disk EXCEPT ![f] = 0] /\ Tell(f, "deleted")
  /\ UNCHANGED <<folders, deleting, stopping, timing, index, read, call>>

Handles(o, e) ==
  /\ o \notin deleting /\ events[o] # <<>> /\ Head(events[o]) = e
  /\ events' = [events EXCEPT ![o] = Tail(@)]

\* cancel() of the timer in the dictionary stops it unless it has fired.
Cancelled(f) == [t \in Timers |-> IF t = timers[f] /\ tstate[t] = "armed"
                                  THEN "dead" ELSE tstate[t]]

ScheduleOrCancel(o) ==
  /\ Handles(o, "modified")
  /\ IF timers[dir[o]] # None
     THEN /\ tstate' = Cancelled(dir[o]) /\ timers' = [timers EXCEPT ![dir[o]] = None]
          /\ UNCHANGED tfile
     ELSE \E t \in Timers : /\ tstate[t] = "dead"
                            /\ tstate' = [tstate EXCEPT ![t] = "armed"]
                            /\ tfile' = [tfile EXCEPT ![t] = dir[o]]
                            /\ timers' = [timers EXCEPT ![dir[o]] = t]
  /\ UNCHANGED <<folders, deleting, stopping, job, files, call>>

\* _handle_create_or_modify()
Schedule(o) ==
  /\ Handles(o, "modified")
  /\ LET left == Cancelled(dir[o])
         dead(t) == left[t] = "dead"
     IN \E t \in Timers :
          /\ dead(t) /\ t = CHOOSE u \in Timers : dead(u)
          /\ tstate' = [left EXCEPT ![t] = "armed"]
          /\ tfile' = [tfile EXCEPT ![t] = dir[o]]
          /\ timers' = [timers EXCEPT ![dir[o]] = t]
  /\ UNCHANGED <<folders, deleting, stopping, job, files, call>>

\* _handle_delete(): the timer under the lock, the index without.
HandleDelete(o) ==
  /\ Handles(o, "deleted")
  /\ tstate' = Cancelled(dir[o]) /\ timers' = [timers EXCEPT ![dir[o]] = None]
  /\ deleting' = deleting \union {o}
  /\ UNCHANGED <<folders, stopping, tfile, job, files, call>>

RemoveFromIndex(o) ==
  /\ o \in deleting /\ deleting' = deleting \ {o}
  /\ index' = [index EXCEPT ![dir[o]] = 0] /\ read' = [read EXCEPT ![dir[o]] = 0]
  /\ UNCHANGED <<folders, events, stopping, timing, disk, call>>

\* The debounce window is over; _do_index() takes the lock and drops whatever
\* timer the dictionary has for the file.
Fire(t) ==
  /\ tstate[t] = "armed" /\ tstate' = [tstate EXCEPT ![t] = "fired"]
  /\ UNCHANGED <<configured, listed, watching, timers, tfile, job, files, call>>

\* index_file() reads: a file that is gone raises, and that is logged.
PopAndRead(t) ==
  /\ tstate[t] = "fired"
  /\ LET f == tfile[t]
     IN /\ timers' = [timers EXCEPT ![f] = None]
        /\ read' = [read EXCEPT ![f] = disk[f]]
        /\ IF disk[f] = 0
           THEN tstate' = [tstate EXCEPT ![t] = "dead"] /\ UNCHANGED job
           ELSE /\ tstate' = [tstate EXCEPT ![t] = "indexing"]
                /\ job' = [job EXCEPT ![t] = disk[f]]
  /\ UNCHANGED <<configured, listed, watching, tfile, disk, index, call>>

Store(t) ==
  /\ tstate[t] = "indexing" /\ tstate' = [tstate EXCEPT ![t] = "dead"]
  /\ index' = [index EXCEPT ![tfile[t]] = job[t]] /\ job' = [job EXCEPT ![t] = 0]
  /\ UNCHANGED <<configured, listed, watching, timers, tfile, disk, read, call>>

----------------------------------------------------------------------------
Http(c) == \/ CheckRunning(c) \/ StartWatcher(c) \/ AddCheck(c) \/ AddCreate(c)
           \/ SubmitTask(c) \/ RemoveDirectory(c) \/ RemoveData(c)
Observe(o) == Schedule(o) \/ HandleDelete(o) \/ RemoveFromIndex(o)
Timed(t) == Fire(t) \/ PopAndRead(t) \/ Store(t)

Next ==
  \/ \E c \in Callers : Http(c) \/ \E f \in Folders : AddFolder(c, f) \/ RemoveFolder(c, f)
  \/ StopTimers \/ StopObservers
  \/ \E f \in Folders : Write(f) \/ Delete(f)
  \/ \E o \in Observers : Observe(o)
  \/ \E t \in Timers : Timed(t)

Spec == Init /\ [][Next]_vars

\* Observer threads and timer threads run.
FairSpec == Spec /\ (\A o \in Observers : WF_vars(Observe(o)))
                 /\ (\A t \in Timers : WF_vars(Timed(t)))

----------------------------------------------------------------------------
\* The user does not add and remove one folder at the same time (assumed).
Apart == \A c, d \in Callers :
           call[c].folder = call[d].folder
             => (call[c].at \in {"remove", "purge"} <=> call[d].at \in {"remove", "purge"})

Watched(f) == map[f] # None /\ dir[map[f]] = f

\* A folder that was added is watched once its request comes to the task manager,
\* whichever request started the watcher and from whichever list of folders, as
\* long as Apart holds.
AddedIsWatched ==
  \A c \in Callers : call[c].at = "submit" => Watched(call[c].folder)

\* Once a watched file is left alone, its last content is read.
LastChangeIsRead ==
  \A f \in Folders :
    Watched(f) /\ stopping = "no" /\ read[f] # disk[f]
      ~> read[f] = disk[f] \/ ~ Watched(f) \/ stopping # "no"
=============================================================================
