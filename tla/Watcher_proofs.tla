--------------------------- MODULE Watcher_proofs ---------------------------
(***************************************************************************)
(* Theorems of Watcher and their proofs.                                   *)
(***************************************************************************)
EXTENDS Watcher, NaturalsInduction, WellFoundedInduction, SequenceTheorems, TLAPS

CallsHaveFolders == \A c \in Callers : call[c].at # "idle" => call[c].folder \in Folders

\* A timer that runs, and an observer that deletes, knows its file.
WorkHasFile ==
  /\ \A t \in Timers : tstate[t] # "dead" => tfile[t] \in Folders
  /\ \A o \in Observers : events[o] # <<>> \/ o \in deleting => dir[o] \in Folders

\* Nobody calls once the server is told to stop.
NobodyCallsIntoStop == stopping # "no" => \A c \in Callers : call[c].at = "idle"

\* Until then the map names, for each folder, an observer of that folder.
MapIsTrue == stopping # "done" => \A f \in Folders : map[f] # None => Watched(f)

TInv == TypeOK /\ CallsHaveFolders /\ WorkHasFile

IInv == TInv /\ NobodyCallsIntoStop /\ MapIsTrue /\ AddedIsWatched

----------------------------------------------------------------------------
(* Types.                                                                  *)

\* The smallest fresh version is one.
LEMMA SmallestFresh ==
  ASSUME NEW f \in Folders, Fresh(f) # {}
  PROVE  (CHOOSE v \in Fresh(f) : \A w \in Fresh(f) : v <= w) \in Versions \ {0}
<1>1. Fresh(f) \subseteq Versions \ {0} /\ Fresh(f) \subseteq Nat
  BY WatcherAssumption DEF Fresh, Versions
<1>2. PICK v \in Fresh(f) : \A w \in Fresh(f) : ~ (<<w, v>> \in OpToRel(<, Nat))
  BY <1>1, NatLessThanWellFounded, WFMin
<1>3. \A w \in Fresh(f) : v <= w
  <2> TAKE w \in Fresh(f)
  <2>1. v \in Nat /\ w \in Nat
    BY <1>1
  <2>2. ~ (w < v)
    BY <1>2, <2>1 DEF OpToRel
  <2>3. QED
    BY <2>1, <2>2
<1>4. QED
  BY <1>1, <1>3

LEMMA InitTypes == Init => TInv
<1> SUFFICES ASSUME Init PROVE TInv
  OBVIOUS
<1>1. 0 \in Versions
  BY WatcherAssumption DEF Versions
<1>2. disk \in [Folders -> Versions] /\ job \in [Timers -> Versions]
  BY <1>1 DEF Init
<1>3. call \in [Callers -> [at : CallAt, folder : Folders \union {None}]]
  BY DEF Init, Idle, CallAt
<1>4. events \in [Observers -> Seq({"modified", "deleted"})]
  BY DEF Init
<1>5. {disk, index, read} \subseteq [Folders -> Versions]
  BY <1>2 DEF Init
<1>6. TypeOK
  BY <1>2, <1>3, <1>4, <1>5 DEF Init, TypeOK
<1>7. CallsHaveFolders /\ WorkHasFile
  BY DEF Init, Idle, CallsHaveFolders, WorkHasFile
<1>8. QED
  BY <1>6, <1>7 DEF TInv

\* What TypeOK says, one conjunct each.
LEMMA Types ==
  ASSUME TypeOK
  PROVE  /\ configured \in SUBSET Folders /\ listed \in SUBSET Folders
         /\ disk \in [Folders -> Versions] /\ index \in [Folders -> Versions]
         /\ read \in [Folders -> Versions]
BY DEF TypeOK

\* Only the request itself changes where it is.
LEMMA CallTypes ==
  ASSUME TInv, NEW c \in Callers, NEW a \in CallAt \ {"idle"}, NEW b \in CallAt, At(c, a, b)
  PROVE  /\ call' \in [Callers -> [at : CallAt, folder : Folders \union {None}]]
         /\ call'[c].at = b /\ call'[c].folder = call[c].folder /\ call[c].folder \in Folders
         /\ \A d \in Callers \ {c} : call'[d] = call[d]
         /\ CallsHaveFolders'
<1>1. call \in [Callers -> [at : CallAt, folder : Folders \union {None}]] /\ call[c].at = a
  BY DEF TInv, TypeOK, At
<1>2. call' = [call EXCEPT ![c] = [call[c] EXCEPT !.at = b]]
  BY DEF At
<1>3. QED
  BY <1>1, <1>2 DEF TInv, CallsHaveFolders

LEMMA EndTypes ==
  ASSUME TInv, NEW c \in Callers, call' = [call EXCEPT ![c] = Idle]
  PROVE  /\ call' \in [Callers -> [at : CallAt, folder : Folders \union {None}]]
         /\ call'[c].at = "idle"
         /\ \A d \in Callers \ {c} : call'[d] = call[d]
         /\ CallsHaveFolders'
<1>1. call \in [Callers -> [at : CallAt, folder : Folders \union {None}]]
  BY DEF TInv, TypeOK
<1>2. QED
  BY <1>1 DEF TInv, CallsHaveFolders, Idle, CallAt

LEMMA EndedTypes ==
  ASSUME TInv, NEW os \in SUBSET Observers, Ended(os)
  PROVE  /\ dir' \in [Observers -> Folders \union {None}] /\ deleting' \subseteq Observers
         /\ events' \in [Observers -> Seq({"modified", "deleted"})]
         /\ \A o \in Observers : events'[o] # <<>> \/ o \in deleting' => dir'[o] \in Folders
         /\ \A o \in Observers \ os : dir'[o] = dir[o]
BY DEF Ended, TInv, TypeOK, WorkHasFile

\* Observers started for some folders are theirs, one each.
LEMMA BeginTypes ==
  ASSUME TInv, NEW fs \in SUBSET Folders, Start(fs), UNCHANGED <<deleting, events>>
  PROVE  /\ observers' \subseteq Observers
         /\ map' \in [Folders -> Observers \union {None}]
         /\ dir' \in [Observers -> Folders \union {None}]
         /\ read' \in [Folders -> Versions]
         /\ \A f \in fs : map'[f] \in Observers /\ dir'[map'[f]] = f
         /\ \A f \in Folders \ fs : map'[f] = map[f]
         /\ \A o \in Observers : dir[o] # None => dir'[o] = dir[o]
<1>1. PICK new \in New(fs) :
        Begin(new, fs) /\ observers' = observers \union {new[f] : f \in fs}
  BY DEF Start
<1>2. /\ new \in [fs -> {o \in Observers : dir[o] = None}]
      /\ \A f, g \in fs : new[f] = new[g] => f = g
  BY <1>1 DEF New
<1>3. /\ disk \in [Folders -> Versions] /\ read \in [Folders -> Versions]
      /\ map \in [Folders -> Observers \union {None}]
      /\ dir \in [Observers -> Folders \union {None}] /\ observers \subseteq Observers
  BY DEF TInv, TypeOK
<1>4. observers' \subseteq Observers
  BY <1>1, <1>2, <1>3
<1>5. \A f \in fs : map'[f] = new[f] /\ new[f] \in Observers
  BY <1>1, <1>2 DEF Begin
<1>6. /\ map' \in [Folders -> Observers \union {None}]
      /\ \A f \in Folders \ fs : map'[f] = map[f]
  BY <1>1, <1>2, <1>3 DEF Begin
<1>7. ASSUME NEW o \in Observers, NEW f \in fs, new[f] = o
      PROVE  dir'[o] = f
  <2>1. (CHOOSE g \in fs : new[g] = o) = f
    BY <1>2, <1>7
  <2>2. dir'[o] = CHOOSE g \in fs : new[g] = o
    BY <1>1, <1>7 DEF Begin
  <2>3. QED
    BY <2>1, <2>2
<1>8. \A o \in Observers : (\A f \in fs : new[f] # o) => dir'[o] = dir[o]
  BY <1>1 DEF Begin
<1>9. dir' \in [Observers -> Folders \union {None}]
  <2>1. dir' = [o \in Observers |-> dir'[o]]
    BY <1>1 DEF Begin
  <2>2. \A o \in Observers : dir'[o] \in Folders \union {None}
    BY <1>3, <1>7, <1>8
  <2>3. QED
    BY <2>1, <2>2
<1>10. \A o \in Observers : dir[o] # None => dir'[o] = dir[o]
  BY <1>2, <1>8
<1>11. read' \in [Folders -> Versions]
  BY <1>1, <1>3 DEF Begin
<1>12. QED
  BY <1>4, <1>5, <1>6, <1>7, <1>9, <1>10, <1>11

LEMMA HttpTypes ==
  ASSUME TInv, NEW c \in Callers,
         Http(c) \/ \E f \in Folders : AddFolder(c, f) \/ RemoveFolder(c, f)
  PROVE  TInv'
<1> USE WatcherAssumption DEF TInv, CallAt, Idle
<1>1. CASE \E f \in Folders : AddFolder(c, f) \/ RemoveFolder(c, f)
  <2>1. PICK f \in Folders, b \in {"check", "remove"} :
          /\ call' = [call EXCEPT ![c] = [at |-> b, folder |-> f]]
          /\ listed' \in {listed \union {f}, listed \ {f}}
          /\ UNCHANGED <<configured, watching, timing, files>>
    BY <1>1 DEF AddFolder, RemoveFolder
  <2>2. /\ call' \in [Callers -> [at : CallAt, folder : Folders \union {None}]]
        /\ CallsHaveFolders'
    BY <2>1 DEF TypeOK, CallsHaveFolders
  <2>3. listed' \in SUBSET Folders
    BY <2>1, Types
  <2>4. QED
    BY <2>1, <2>2, <2>3 DEF TypeOK, WorkHasFile, watching, timing, files
<1>2. CASE CheckRunning(c) \/ AddCheck(c)
  <2>1. PICK a \in {"check", "add"}, b \in {"add", "starting", "submit", "create"} :
          At(c, a, b) /\ UNCHANGED <<configured, listed, watching, timing, files>>
    BY <1>2 DEF CheckRunning, AddCheck
  <2>2. QED
    BY <2>1, CallTypes DEF TypeOK, WorkHasFile, watching, timing, files
<1>3. ASSUME NEW fs \in SUBSET Folders, Start(fs), running' \in BOOLEAN,
             NEW at \in {"starting", "create"}, NEW to \in {"add", "submit"}, At(c, at, to),
             UNCHANGED <<configured, listed, events, deleting, stopping, timing, disk, index>>
      PROVE  TInv'
  <2>1. TypeOK'
    BY <1>3, BeginTypes, CallTypes DEF TypeOK, timing
  <2>2. CallsHaveFolders'
    BY <1>3, CallTypes
  <2>3. WorkHasFile'
    BY <1>3, BeginTypes DEF TypeOK, WorkHasFile, timing
  <2>4. QED
    BY <2>1, <2>2, <2>3
<1>4. CASE StartWatcher(c)
  BY <1>3, <1>4, Types DEF StartWatcher
<1>5. CASE AddCreate(c)
  <2>1. {call[c].folder} \in SUBSET Folders /\ running' \in BOOLEAN
    BY <1>5 DEF AddCreate, At, CallsHaveFolders, TypeOK
  <2>2. QED
    BY <1>3, <1>5, <2>1 DEF AddCreate
<1>6. CASE SubmitTask(c) \/ RemoveData(c)
  <2>1. call[c].folder \in Folders
    BY <1>6 DEF SubmitTask, RemoveData, CallsHaveFolders
  <2>2. index' \in [Folders -> Versions] /\ read' \in [Folders -> Versions]
    BY <1>6, Types, <2>1 DEF SubmitTask, RemoveData, Versions
  <2>3. /\ call' = [call EXCEPT ![c] = Idle]
        /\ UNCHANGED <<configured, listed, disk, watching, timing>>
    BY <1>6 DEF SubmitTask, RemoveData
  <2>4. QED
    BY <2>2, <2>3, EndTypes DEF TypeOK, WorkHasFile, watching, timing
<1>7. CASE RemoveDirectory(c)
  <2>1. /\ call' \in [Callers -> [at : CallAt, folder : Folders \union {None}]]
        /\ CallsHaveFolders'
    BY <1>7, CallTypes, EndTypes DEF RemoveDirectory
  <2> DEFINE f == call[c].folder
  <2>2. f \in Folders /\ map \in [Folders -> Observers \union {None}]
    BY <1>7 DEF RemoveDirectory, At, CallsHaveFolders, TypeOK
  <2>3. /\ {map[f]} \ {None} \in SUBSET Observers /\ Ended({map[f]} \ {None})
        /\ map' = [map EXCEPT ![f] = None] /\ observers' = observers \ {map[f]}
        /\ UNCHANGED <<configured, listed, running, stopping, timing, files>>
    BY <1>7, <2>2 DEF RemoveDirectory
  <2> HIDE DEF f
  <2>4. map' \in [Folders -> Observers \union {None}]
    BY <2>2, <2>3
  <2>5. QED
    BY <2>1, <2>3, <2>4, EndedTypes DEF TypeOK, WorkHasFile, timing, files
<1>8. QED
  BY <1>1, <1>2, <1>4, <1>5, <1>6, <1>7 DEF Http

LEMMA StopAndUserTypes ==
  ASSUME TInv, StopTimers \/ StopObservers \/ \E f \in Folders : Write(f) \/ Delete(f)
  PROVE  TInv'
<1> USE WatcherAssumption DEF TInv
<1>1. CASE StopTimers
  BY <1>1 DEF StopTimers, TypeOK, CallsHaveFolders, WorkHasFile, folders, files
<1>2. CASE StopObservers
  <2>1. observers \in SUBSET Observers /\ Ended(observers)
    BY <1>2 DEF StopObservers, TypeOK
  <2>2. QED
    BY <1>2, <2>1, EndedTypes
       DEF StopObservers, TypeOK, CallsHaveFolders, WorkHasFile, timing, files
<1>3. ASSUME NEW f \in Folders, NEW e \in {"modified", "deleted"}, Tell(f, e),
             UNCHANGED <<folders, deleting, stopping, timing, index, read, call>>,
             disk' \in [Folders -> Versions]
      PROVE  TInv'
  <2>1. events' \in [Observers -> Seq({"modified", "deleted"})]
    BY <1>3 DEF Tell, TypeOK
  <2>2. \A o \in Observers : events'[o] # <<>> => dir[o] \in Folders
    BY <1>3 DEF Tell, TypeOK, WorkHasFile
  <2>3. QED
    BY <1>3, <2>1, <2>2 DEF TypeOK, CallsHaveFolders, WorkHasFile, folders, timing
<1>4. ASSUME NEW f \in Folders, Write(f) PROVE TInv'
  <2>1. disk' \in [Folders -> Versions]
    BY <1>4, SmallestFresh, Types DEF Write
  <2>2. QED
    BY <1>3, <1>4, <2>1 DEF Write
<1>5. ASSUME NEW f \in Folders, Delete(f) PROVE TInv'
  <2>1. disk' \in [Folders -> Versions]
    BY <1>5, Types DEF Delete, Versions
  <2>2. QED
    BY <1>3, <1>5, <2>1 DEF Delete
<1>6. QED
  BY <1>1, <1>2, <1>4, <1>5

LEMMA ObserverTypes ==
  ASSUME TInv, NEW o \in Observers, Observe(o)
  PROVE  TInv'
<1> USE WatcherAssumption DEF TInv
<1>1. ASSUME NEW e, Handles(o, e)
      PROVE  /\ events' \in [Observers -> Seq({"modified", "deleted"})] /\ dir[o] \in Folders
             /\ \A p \in Observers : events'[p] # <<>> => events[p] # <<>>
  BY <1>1 DEF Handles, TypeOK, WorkHasFile
<1>2. CASE Schedule(o)
  <2>1. PICK t \in Timers :
          /\ tstate' = [Cancelled(dir[o]) EXCEPT ![t] = "armed"]
          /\ tfile' = [tfile EXCEPT ![t] = dir[o]]
          /\ timers' = [timers EXCEPT ![dir[o]] = t]
    BY <1>2 DEF Schedule
  <2>2. Handles(o, "modified")
    BY <1>2 DEF Schedule
  <2>3. tstate' \in [Timers -> {"dead", "armed", "fired", "indexing"}]
    BY <2>1 DEF Cancelled, TypeOK
  <2>4. \A u \in Timers : u # t /\ tstate'[u] # "dead" => tstate[u] # "dead"
    BY <2>1 DEF Cancelled, TypeOK
  <2>5. \A u \in Timers : tstate'[u] # "dead" => tfile'[u] \in Folders
    BY <1>1, <2>1, <2>2, <2>4 DEF TypeOK, WorkHasFile
  <2>6. QED
    BY <1>1, <1>2, <2>1, <2>2, <2>3, <2>5
       DEF Schedule, TypeOK, CallsHaveFolders, WorkHasFile, folders, files
<1>3. CASE HandleDelete(o)
  <2>1. Handles(o, "deleted")
    BY <1>3 DEF HandleDelete
  <2>2. QED
    BY <1>1, <1>3, <2>1
       DEF HandleDelete, Cancelled, TypeOK, CallsHaveFolders, WorkHasFile, folders, files
<1>4. CASE RemoveFromIndex(o)
  <2>1. index' \in [Folders -> Versions] /\ read' \in [Folders -> Versions]
    <3>1. index' = [index EXCEPT ![dir[o]] = 0] /\ read' = [read EXCEPT ![dir[o]] = 0]
      BY <1>4 DEF RemoveFromIndex
    <3>2. 0 \in Versions
      BY DEF Versions
    <3>3. QED
      BY <3>1, <3>2, Types
  <2>2. QED
    BY <1>4, <2>1 DEF RemoveFromIndex, TypeOK, CallsHaveFolders, WorkHasFile, folders, timing
<1>5. QED
  BY <1>2, <1>3, <1>4 DEF Observe

LEMMA TimerTypes ==
  ASSUME TInv, NEW t \in Timers, Timed(t)
  PROVE  TInv'
<1> USE WatcherAssumption DEF TInv
<1>1. CASE Fire(t)
  BY <1>1 DEF Fire, TypeOK, CallsHaveFolders, WorkHasFile, watching, files
<1>2. CASE PopAndRead(t)
  <2>1. tfile[t] \in Folders
    BY <1>2 DEF PopAndRead, WorkHasFile
  <2>2. read' \in [Folders -> Versions] /\ job' \in [Timers -> Versions]
    <3>1. /\ read' = [read EXCEPT ![tfile[t]] = disk[tfile[t]]]
          /\ job' = job \/ job' = [job EXCEPT ![t] = disk[tfile[t]]]
      BY <1>2 DEF PopAndRead
    <3>2. job \in [Timers -> Versions]
      BY DEF TypeOK
    <3>3. QED
      BY <2>1, <3>1, <3>2, Types
  <2>3. QED
    <3>1. /\ timers' = [timers EXCEPT ![tfile[t]] = None]
          /\ tstate' = [tstate EXCEPT ![t] = tstate'[t]] /\ tstate'[t] \in {"dead", "indexing"}
          /\ UNCHANGED <<configured, listed, watching, tfile, disk, index, call>>
      BY <1>2 DEF PopAndRead, TypeOK
    <3>2. QED
      BY <2>1, <2>2, <3>1 DEF TypeOK, CallsHaveFolders, WorkHasFile, watching
<1>3. CASE Store(t)
  <2>1. index' \in [Folders -> Versions] /\ job' \in [Timers -> Versions]
    <3>1. /\ index' = [index EXCEPT ![tfile[t]] = job[t]] /\ job' = [job EXCEPT ![t] = 0]
      BY <1>3 DEF Store
    <3>2. 0 \in Versions /\ job \in [Timers -> Versions]
      BY DEF Versions, TypeOK
    <3>3. QED
      BY <3>1, <3>2, Types
  <2>2. QED
    BY <1>3, <2>1 DEF Store, TypeOK, CallsHaveFolders, WorkHasFile, watching
<1>4. QED
  BY <1>1, <1>2, <1>3 DEF Timed

LEMMA TypesInvariant == TInv /\ [Next]_vars => TInv'
<1> SUFFICES ASSUME TInv, [Next]_vars PROVE TInv'
  OBVIOUS
<1>1. CASE UNCHANGED vars
  BY <1>1 DEF vars, TInv, TypeOK, CallsHaveFolders, WorkHasFile
<1>2. CASE Next
  BY <1>2, HttpTypes, StopAndUserTypes, ObserverTypes, TimerTypes DEF Next
<1>3. QED
  BY <1>1, <1>2

\* Type correctness of folders, observers, timers, versions and requests.
THEOREM TypeCorrect == Spec => []TypeOK
<1>1. TInv => TypeOK
  BY DEF TInv
<1>2. QED
  BY <1>1, InitTypes, TypesInvariant, PTL DEF Spec

----------------------------------------------------------------------------
(* Folders that were added.                                                *)

LEMMA InitInv == Init => IInv
<1> SUFFICES ASSUME Init PROVE IInv
  OBVIOUS
<1>1. NobodyCallsIntoStop /\ MapIsTrue /\ AddedIsWatched
  BY DEF Init, Idle, NobodyCallsIntoStop, MapIsTrue, AddedIsWatched
<1>2. QED
  BY <1>1, InitTypes DEF IInv

\* Where no folder is taken from its observer and no request reaches the task
\* manager, what was watched stays watched.
LEMMA NobodyArrives ==
  ASSUME IInv, TInv', UNCHANGED <<map, dir, stopping>>,
         \A c \in Callers : call'[c] = call[c] \/ call'[c].at \notin {"submit"},
         stopping = "no" \/ UNCHANGED call
  PROVE  IInv'
BY DEF IInv, NobodyCallsIntoStop, MapIsTrue, AddedIsWatched, Watched

\* Observers are started for folders of which nobody takes them away.
LEMMA StartedIsWatched ==
  ASSUME IInv, TInv', NEW c \in Callers, NEW fs \in SUBSET Folders, Start(fs),
         NEW a \in {"starting", "create"}, NEW b \in {"add", "submit"}, At(c, a, b),
         b = "submit" => call[c].folder \in fs, UNCHANGED <<deleting, events, stopping>>
  PROVE  IInv'
<1> USE WatcherAssumption
<1>1. /\ \A f \in fs : map'[f] \in Observers /\ dir'[map'[f]] = f
      /\ \A f \in Folders \ fs : map'[f] = map[f]
      /\ \A o \in Observers : dir[o] # None => dir'[o] = dir[o]
  BY BeginTypes DEF IInv
<1>2. /\ map \in [Folders -> Observers \union {None}]
      /\ call'[c].at = b /\ call'[c].folder = call[c].folder
      /\ \A d \in Callers \ {c} : call'[d] = call[d]
  BY CallTypes DEF IInv, TInv, TypeOK, CallAt
<1>3. stopping = "no"
  BY DEF At, IInv, NobodyCallsIntoStop
<1>4. \A f \in Folders : Watched(f) => Watched(f)'
  BY <1>1, <1>2 DEF Watched
<1>5. \A f \in fs : Watched(f)'
  BY <1>1 DEF Watched
<1>6. MapIsTrue'
  <2> SUFFICES ASSUME NEW f \in Folders, map'[f] # None PROVE Watched(f)'
    BY DEF MapIsTrue
  <2>1. CASE f \in fs
    BY <2>1, <1>5
  <2>2. CASE f \notin fs
    BY <2>2, <1>1, <1>3, <1>4 DEF IInv, MapIsTrue
  <2>3. QED
    BY <2>1, <2>2
<1>7. AddedIsWatched'
  <2> SUFFICES ASSUME NEW d \in Callers, call'[d].at = "submit" PROVE Watched(call[d].folder)'
    BY DEF AddedIsWatched
  <2>1. CASE d = c
    BY <2>1, <1>2, <1>5
  <2>2. CASE d # c
    BY <2>2, <1>2, <1>4 DEF IInv, AddedIsWatched, TInv, CallsHaveFolders
  <2>3. QED
    BY <2>1, <2>2
<1>8. NobodyCallsIntoStop'
  BY <1>3 DEF NobodyCallsIntoStop
<1>9. QED
  BY <1>6, <1>7, <1>8 DEF IInv

\* The observer of a removed folder is nobody else's, and by Apart no request that
\* adds the folder is under way.
LEMMA RemovedAlone ==
  ASSUME IInv, Apart, TInv', NEW c \in Callers, RemoveDirectory(c)
  PROVE  IInv'
<1> USE WatcherAssumption
<1> DEFINE f == call[c].folder
<1>1. call[c].at = "remove" /\ f \in Folders /\ stopping = "no"
  BY DEF RemoveDirectory, At, IInv, TInv, CallsHaveFolders, NobodyCallsIntoStop
<1>2. /\ map' = [map EXCEPT ![f] = None] /\ UNCHANGED stopping
      /\ \A o \in Observers : o # map[f] => dir'[o] = dir[o]
  BY DEF RemoveDirectory, Ended
<1>3. map \in [Folders -> Observers \union {None}]
  BY DEF IInv, TInv, TypeOK
<1>4. /\ call'[c].at \in {"purge", "idle"}
      /\ \A d \in Callers \ {c} : call'[d] = call[d]
  BY CallTypes, EndTypes DEF RemoveDirectory, IInv, CallAt
<1>5. ASSUME NEW g \in Folders, g # f, Watched(g)
      PROVE  Watched(g)'
  <2>1. map[g] \in Observers /\ map'[g] = map[g] /\ dir[map[g]] = g
    BY <1>1, <1>2, <1>3, <1>5 DEF Watched
  <2>2. map[f] # None => dir[map[f]] = f
    BY <1>1 DEF IInv, MapIsTrue, Watched
  <2>3. dir'[map[g]] = dir[map[g]]
    BY <1>2, <1>5, <2>1, <2>2
  <2>4. QED
    BY <1>5, <2>1, <2>3 DEF Watched
<1>6. MapIsTrue'
  <2> SUFFICES ASSUME NEW g \in Folders, map'[g] # None PROVE Watched(g)'
    BY DEF MapIsTrue
  <2>1. g # f /\ map'[g] = map[g]
    BY <1>1, <1>2, <1>3
  <2>2. Watched(g)
    BY <1>1, <2>1 DEF IInv, MapIsTrue
  <2>3. QED
    BY <1>5, <2>1, <2>2
<1>7. AddedIsWatched'
  <2> SUFFICES ASSUME NEW d \in Callers, call'[d].at = "submit" PROVE Watched(call[d].folder)'
    BY DEF AddedIsWatched
  <2>1. d # c /\ call'[d] = call[d]
    BY <1>4
  <2>2. call[d].folder # f
    BY <1>1, <2>1 DEF Apart
  <2>3. Watched(call[d].folder) /\ call[d].folder \in Folders
    BY <2>1 DEF IInv, AddedIsWatched, TInv, CallsHaveFolders
  <2>4. QED
    BY <1>5, <2>1, <2>2, <2>3
<1>8. NobodyCallsIntoStop'
  BY <1>1, <1>2 DEF NobodyCallsIntoStop
<1>9. QED
  BY <1>6, <1>7, <1>8 DEF IInv

LEMMA HttpInv ==
  ASSUME IInv, Apart, TInv', NEW c \in Callers,
         Http(c) \/ \E f \in Folders : AddFolder(c, f) \/ RemoveFolder(c, f)
  PROVE  IInv'
<1> USE WatcherAssumption
<1>1. TInv
  BY DEF IInv
<1>2. CASE \E f \in Folders : AddFolder(c, f) \/ RemoveFolder(c, f)
  <2>1. /\ \A d \in Callers : call'[d] = call[d] \/ call'[d].at \notin {"submit"}
        /\ UNCHANGED <<map, dir, stopping>> /\ stopping = "no"
    BY <1>1, <1>2 DEF AddFolder, RemoveFolder, TInv, TypeOK, watching
  <2>2. QED
    BY <2>1, NobodyArrives
<1>3. CASE CheckRunning(c)
  <2>1. PICK b \in {"add", "starting"} : At(c, "check", b)
    BY <1>3 DEF CheckRunning
  <2>2. \A d \in Callers : call'[d] = call[d] \/ call'[d].at \notin {"submit"}
    BY <1>1, <2>1, CallTypes DEF CallAt
  <2>3. UNCHANGED <<map, dir, stopping>> /\ stopping = "no"
    BY <1>3, <2>1 DEF CheckRunning, watching, At, IInv, NobodyCallsIntoStop
  <2>4. QED
    BY <2>2, <2>3, NobodyArrives
<1>4. CASE StartWatcher(c)
  <2>1. configured \in SUBSET Folders
    BY <1>1 DEF TInv, TypeOK
  <2>2. QED
    BY <1>4, <2>1, StartedIsWatched DEF StartWatcher
<1>5. CASE AddCheck(c)
  <2>1. PICK b \in {"submit", "create"} :
          At(c, "add", b) /\ (b = "submit" => map[call[c].folder] # None)
    BY <1>5 DEF AddCheck
  <2>2. /\ call'[c].at = b /\ call'[c].folder = call[c].folder /\ call[c].folder \in Folders
        /\ \A d \in Callers \ {c} : call'[d] = call[d]
    BY <1>1, <2>1, CallTypes DEF CallAt
  <2>3. UNCHANGED <<map, dir, stopping>> /\ stopping = "no"
    BY <1>5, <2>1 DEF AddCheck, watching, At, IInv, NobodyCallsIntoStop
  <2>4. b = "submit" => Watched(call[c].folder)
    BY <2>1, <2>2, <2>3 DEF IInv, MapIsTrue
  <2>5. QED
    BY <2>2, <2>3, <2>4
       DEF IInv, NobodyCallsIntoStop, MapIsTrue, AddedIsWatched, Watched
<1>6. CASE AddCreate(c)
  <2>1. {call[c].folder} \in SUBSET Folders
    BY <1>1, <1>6 DEF AddCreate, At, TInv, CallsHaveFolders
  <2>2. QED
    BY <1>6, <2>1, StartedIsWatched DEF AddCreate
<1>7. CASE SubmitTask(c) \/ RemoveData(c)
  <2>1. call' = [call EXCEPT ![c] = Idle] /\ UNCHANGED <<map, dir, stopping>> /\ stopping = "no"
    BY <1>7 DEF SubmitTask, RemoveData, watching, IInv, NobodyCallsIntoStop
  <2>2. \A d \in Callers : call'[d] = call[d] \/ call'[d].at \notin {"submit"}
    BY <1>1, <2>1, EndTypes
  <2>3. QED
    BY <2>1, <2>2, NobodyArrives
<1>8. CASE RemoveDirectory(c)
  BY <1>8, RemovedAlone
<1>9. QED
  BY <1>2, <1>3, <1>4, <1>5, <1>6, <1>7, <1>8 DEF Http

LEMMA NextInv == IInv /\ Apart /\ [Next]_vars => IInv'
<1> SUFFICES ASSUME IInv, Apart, [Next]_vars PROVE IInv'
  OBVIOUS
<1>1. TInv'
  BY TypesInvariant DEF IInv
<1>2. ASSUME UNCHANGED <<map, dir, call>>, stopping' = stopping
      PROVE  IInv'
  BY <1>1, <1>2, NobodyArrives
<1>3. CASE UNCHANGED vars
  BY <1>2, <1>3 DEF vars
<1>4. ASSUME NEW c \in Callers,
             Http(c) \/ \E f \in Folders : AddFolder(c, f) \/ RemoveFolder(c, f)
      PROVE  IInv'
  BY <1>1, <1>4, HttpInv
<1>5. CASE StopTimers
  BY <1>1, <1>5 DEF StopTimers, Idle, folders, IInv, NobodyCallsIntoStop, MapIsTrue,
     AddedIsWatched, Watched
<1>6. CASE StopObservers
  BY <1>1, <1>6 DEF StopObservers, IInv, NobodyCallsIntoStop, MapIsTrue, AddedIsWatched
<1>7. CASE \E f \in Folders : Write(f) \/ Delete(f)
  BY <1>2, <1>7 DEF Write, Delete, folders
<1>8. CASE \E o \in Observers : Observe(o)
  BY <1>2, <1>8 DEF Observe, Schedule, HandleDelete, RemoveFromIndex, folders
<1>9. CASE \E t \in Timers : Timed(t)
  BY <1>2, <1>9 DEF Timed, Fire, PopAndRead, Store, watching
<1>10. QED
  BY <1>3, <1>4, <1>5, <1>6, <1>7, <1>8, <1>9 DEF Next

\* As long as no folder is added and removed at the same time, a folder that was
\* added is watched when its request comes to the task manager.
THEOREM AddedStaysWatched == Spec /\ []Apart => []AddedIsWatched
<1>1. IInv => AddedIsWatched
  BY DEF IInv
<1>2. QED
  BY <1>1, InitInv, NextInv, PTL DEF Spec

----------------------------------------------------------------------------
(* Changes of a watched file: the part of LastChangeIsRead that is left    *)
(* when observers and timers are only trusted to go on.                    *)

Told(f) == IF disk[f] = 0 THEN "deleted" ELSE "modified"

\* However many events wait, the last one says what became of the file.
LastEventIsTrue ==
  \A o \in Observers : events[o] # <<>> => events[o][Len(events[o])] = Told(dir[o])

\* The index may be cleared late, of a file that is there again, but not last.
DeletedOrTold == \A o \in deleting : disk[dir[o]] = 0 \/ events[o] # <<>>

\* A timer in the dictionary is one of its file that has not begun to read.
Waits(t) == tstate[t] \in {"armed", "fired"}
TimersWait ==
  \A f \in Folders : timers[f] # None => tfile[timers[f]] = f /\ Waits(timers[f])

\* An event, a deletion or a timer will bring what was read up to date.
InHand(f) ==
  \/ \E o \in Observers : dir[o] = f /\ events[o] # <<>>
  \/ disk[f] = 0 /\ \E o \in deleting : dir[o] = f
  \/ \E t \in Timers : tfile[t] = f /\ Waits(t)

ChangeIsInHand ==
  \A f \in Folders : Watched(f) /\ stopping = "no" /\ read[f] # disk[f] => InHand(f)

HandInv == MapIsTrue /\ LastEventIsTrue /\ DeletedOrTold /\ TimersWait /\ ChangeIsInHand

\* The last event of a queue.
LEMMA LastOfQueue ==
  ASSUME NEW S, NEW q \in Seq(S)
  PROVE  /\ \A e \in S : Append(q, e) # <<>> /\ Append(q, e)[Len(Append(q, e))] = e
         /\ q # <<>> /\ Tail(q) # <<>> => Tail(q)[Len(Tail(q))] = q[Len(q)]
         /\ q # <<>> /\ Tail(q) = <<>> => q[Len(q)] = Head(q)
<1>1. \A e \in S : Append(q, e) # <<>> /\ Append(q, e)[Len(Append(q, e))] = e
  OBVIOUS
<1>2. ASSUME q # <<>>
      PROVE  /\ Len(Tail(q)) = Len(q) - 1 /\ Len(q) \in Nat \ {0}
             /\ \A i \in 1 .. Len(Tail(q)) : Tail(q)[i] = q[i + 1]
             /\ Tail(q) = <<>> <=> Len(Tail(q)) = 0
  BY <1>2, HeadTailProperties, EmptySeq
<1>3. QED
  BY <1>1, <1>2

\* Requests only start and end observers, and read what is there.
LEMMA StartKeepsHand ==
  ASSUME TInv, HandInv, NEW fs \in SUBSET Folders, Start(fs),
         UNCHANGED <<deleting, events, disk, timing, stopping>>
  PROVE  HandInv'
<1>1. PICK new \in New(fs) : Begin(new, fs)
  BY DEF Start
<1>2. /\ \A f \in fs : map'[f] \in Observers /\ dir'[map'[f]] = f
      /\ \A f \in Folders \ fs : map'[f] = map[f]
      /\ \A o \in Observers : dir[o] # None => dir'[o] = dir[o]
  BY BeginTypes
<1>3. /\ \A f \in fs : read'[f] = disk[f]
      /\ \A f \in Folders \ fs : read'[f] = read[f]
  BY <1>1 DEF Begin
<1>4. \A o \in Observers : dir[o] \in Folders => dir'[o] = dir[o]
  BY <1>2, WatcherAssumption
<1>5. MapIsTrue'
  <2> SUFFICES ASSUME NEW f \in Folders, map'[f] # None, stopping # "done" PROVE Watched(f)'
    BY DEF MapIsTrue
  <2>1. CASE f \in fs
    BY <2>1, <1>2 DEF Watched
  <2>2. CASE f \notin fs
    BY <2>2, <1>2, <1>4 DEF HandInv, MapIsTrue, Watched, TInv, TypeOK
  <2>3. QED
    BY <2>1, <2>2
<1>6. LastEventIsTrue' /\ DeletedOrTold' /\ TimersWait'
  BY <1>4 DEF HandInv, LastEventIsTrue, DeletedOrTold, TimersWait, Told, Waits, timing, TInv,
     TypeOK, WorkHasFile
<1>7. ChangeIsInHand'
  <2> SUFFICES ASSUME NEW f \in Folders, Watched(f)', stopping = "no", read'[f] # disk[f]
               PROVE  InHand(f)'
    BY DEF ChangeIsInHand
  <2>1. f \notin fs /\ map'[f] = map[f] /\ read'[f] = read[f]
    BY <1>2, <1>3
  <2>2. Watched(f)
    BY <2>1 DEF HandInv, MapIsTrue, Watched
  <2>3. InHand(f)
    BY <2>1, <2>2 DEF HandInv, ChangeIsInHand
  <2>4. QED
    BY <2>3, <1>4 DEF InHand, Waits, timing, TInv, TypeOK
<1>8. QED
  BY <1>5, <1>6, <1>7 DEF HandInv

LEMMA HttpKeepsHand ==
  ASSUME TInv, HandInv, NEW c \in Callers,
         Http(c) \/ \E f \in Folders : AddFolder(c, f) \/ RemoveFolder(c, f)
  PROVE  HandInv'
<1>1. CASE UNCHANGED <<watching, timing, disk, read>>
  BY <1>1 DEF HandInv, MapIsTrue, LastEventIsTrue, DeletedOrTold, TimersWait, ChangeIsInHand,
     Told, Waits, InHand, Watched, watching, timing
<1>2. CASE StartWatcher(c)
  <2>1. configured \in SUBSET Folders
    BY DEF TInv, TypeOK
  <2>2. QED
    BY <1>2, <2>1, StartKeepsHand DEF StartWatcher
<1>3. CASE AddCreate(c)
  <2>1. {call[c].folder} \in SUBSET Folders
    BY <1>3 DEF AddCreate, At, TInv, CallsHaveFolders
  <2>2. QED
    BY <1>3, <2>1, StartKeepsHand DEF AddCreate
<1>4. CASE SubmitTask(c)
  <2>1. /\ call[c].folder \in Folders
        /\ read' = [read EXCEPT ![call[c].folder] = disk[call[c].folder]]
        /\ UNCHANGED <<watching, timing, disk>>
    BY <1>4 DEF SubmitTask, TInv, CallsHaveFolders
  <2>2. \A f \in Folders : read'[f] \in {read[f], disk[f]}
    BY <2>1, Types DEF TInv
  <2>3. QED
    BY <2>1, <2>2
       DEF HandInv, MapIsTrue, LastEventIsTrue, DeletedOrTold, TimersWait, ChangeIsInHand,
           Told, Waits, InHand, Watched, watching, timing
<1>5. CASE RemoveDirectory(c)
  <2> DEFINE f == call[c].folder
  <2>1. /\ f \in Folders /\ map' = [map EXCEPT ![f] = None] /\ Ended({map[f]} \ {None})
        /\ UNCHANGED <<stopping, timing, files>>
    BY <1>5 DEF RemoveDirectory, At, TInv, CallsHaveFolders
  <2>2. map \in [Folders -> Observers \union {None}]
    BY DEF TInv, TypeOK
  <2>3. ASSUME stopping # "done", NEW g \in Folders, g # f, NEW o \in Observers, dir[o] = g
        PROVE  /\ dir'[o] = g /\ events'[o] = events[o]
               /\ o \in deleting' <=> o \in deleting
    <3>1. map[f] # o
      BY <2>1, <2>3, WatcherAssumption DEF HandInv, MapIsTrue, Watched
    <3>2. QED
      BY <2>1, <2>3, <3>1 DEF Ended
  <2>4. \A g \in Folders : Watched(g)' => g # f /\ map'[g] = map[g]
    BY <2>1, <2>2 DEF Watched
  <2>5. MapIsTrue'
    <3> SUFFICES ASSUME stopping # "done", NEW g \in Folders, map'[g] # None PROVE Watched(g)'
      BY <2>1 DEF MapIsTrue
    <3>1. g # f /\ map'[g] = map[g] /\ map[g] \in Observers
      BY <2>1, <2>2
    <3>2. dir[map[g]] = g
      BY <3>1 DEF HandInv, MapIsTrue, Watched
    <3>3. QED
      BY <2>3, <3>1, <3>2 DEF Watched
  <2>6. LastEventIsTrue' /\ DeletedOrTold' /\ TimersWait'
    BY <2>1 DEF HandInv, LastEventIsTrue, DeletedOrTold, TimersWait, Ended, Told, Waits, timing,
       files, TInv, TypeOK
  <2>7. ChangeIsInHand'
    <3> SUFFICES ASSUME NEW g \in Folders, Watched(g)', stopping = "no", read[g] # disk[g]
                 PROVE  InHand(g)'
      BY <2>1 DEF ChangeIsInHand, files
    <3>1. g # f /\ map'[g] = map[g] /\ map[g] # None
      BY <2>4 DEF Watched
    <3>2. Watched(g)
      BY <3>1 DEF HandInv, MapIsTrue
    <3>3. InHand(g)
      BY <3>2 DEF HandInv, ChangeIsInHand
    <3>4. QED
      BY <2>1, <2>3, <3>1, <3>3 DEF InHand, Waits, timing, files, TInv, TypeOK
  <2>8. QED
    BY <2>5, <2>6, <2>7 DEF HandInv
<1>6. QED
  BY <1>1, <1>2, <1>3, <1>4, <1>5
     DEF Http, CheckRunning, AddCheck, RemoveData, AddFolder, RemoveFolder, watching, files

LEMMA StopKeepsHand ==
  ASSUME TInv, HandInv, StopTimers \/ StopObservers
  PROVE  HandInv'
<1>1. CASE StopTimers
  BY <1>1 DEF StopTimers, HandInv, MapIsTrue, LastEventIsTrue, DeletedOrTold, TimersWait,
     ChangeIsInHand, Told, Watched, folders, files
<1>2. CASE StopObservers
  <2>1. Ended(observers) /\ observers \in SUBSET Observers
    BY <1>2 DEF StopObservers, TInv, TypeOK
  <2>2. LastEventIsTrue' /\ DeletedOrTold'
    BY <1>2, <2>1 DEF Ended, StopObservers, HandInv, LastEventIsTrue, DeletedOrTold, Told, files,
       TInv, TypeOK
  <2>3. QED
    BY <1>2, <2>2 DEF StopObservers, HandInv, MapIsTrue, TimersWait, ChangeIsInHand, Waits, timing
<1>3. QED
  BY <1>1, <1>2

\* A watched file does not change without an event.
LEMMA UserKeepsHand ==
  ASSUME TInv, HandInv, NEW f \in Folders, Write(f) \/ Delete(f)
  PROVE  HandInv'
<1> USE WatcherAssumption
<1>1. PICK v \in Versions : /\ disk' = [disk EXCEPT ![f] = v]
                          /\ Tell(f, IF v = 0 THEN "deleted" ELSE "modified")
  <2>1. CASE Write(f)
    BY <2>1, SmallestFresh DEF Write, Versions
  <2>2. CASE Delete(f)
    <3>1. 0 \in Versions /\ disk' = [disk EXCEPT ![f] = 0] /\ Tell(f, "deleted")
      BY <2>2 DEF Delete, Versions
    <3>2. QED
      BY <3>1
  <2>3. QED
    BY <2>1, <2>2
<1>2. /\ UNCHANGED <<map, dir, deleting, stopping, timers, tfile, tstate, read>>
      /\ disk'[f] = v /\ \A g \in Folders \ {f} : disk'[g] = disk[g]
  BY <1>1, Types DEF Write, Delete, folders, timing, TInv
<1>3. \A o \in Observers : events[o] \in Seq({"modified", "deleted"})
  BY DEF TInv, TypeOK
<1>4. /\ \A o \in Observers : dir[o] # f => events'[o] = events[o]
      /\ \A o \in Observers : dir[o] = f => events'[o] # <<>>
                                     /\ events'[o][Len(events'[o])] = Told(f)'
  <2>1. ASSUME NEW o \in Observers, dir[o] = f, NEW e \in {"modified", "deleted"},
               events'[o] = Append(events[o], e)
        PROVE  events'[o] # <<>> /\ events'[o][Len(events'[o])] = e
    BY <1>3, <2>1, LastOfQueue
  <2>2. QED
    BY <1>1, <1>2, <2>1 DEF Tell, Told
<1>5. LastEventIsTrue'
  BY <1>2, <1>4 DEF HandInv, LastEventIsTrue, Told, TInv, TypeOK, WorkHasFile
<1>6. DeletedOrTold'
  BY <1>2, <1>4 DEF HandInv, DeletedOrTold, TInv, TypeOK, WorkHasFile
<1>7. ChangeIsInHand'
  <2> SUFFICES ASSUME NEW g \in Folders, Watched(g)', stopping = "no", read[g] # disk'[g]
               PROVE  InHand(g)'
    BY <1>2 DEF ChangeIsInHand
  <2>1. map[g] \in Observers /\ dir[map[g]] = g /\ Watched(g)
    BY <1>2 DEF Watched, TInv, TypeOK
  <2>2. CASE g = f
    BY <1>2, <1>4, <2>1, <2>2 DEF InHand
  <2>3. CASE g # f
    <3>1. InHand(g)
      BY <1>2, <2>1, <2>3 DEF HandInv, ChangeIsInHand
    <3>2. QED
      BY <1>2, <1>4, <2>3, <3>1 DEF InHand, Waits, TInv, TypeOK
  <2>4. QED
    BY <2>2, <2>3
<1>8. QED
  BY <1>2, <1>5, <1>6, <1>7 DEF HandInv, MapIsTrue, TimersWait, Waits, Watched

\* cancel() takes from a file no timer but the one that is replaced.
LEMMA CancelledSpares ==
  ASSUME TInv, HandInv, NEW f \in Folders
  PROVE  /\ Cancelled(f) \in [Timers -> {"dead", "armed", "fired", "indexing"}]
         /\ \A t \in Timers : tfile[t] # f => Cancelled(f)[t] = tstate[t]
         /\ \A t \in Timers : Cancelled(f)[t] # "dead" => Cancelled(f)[t] = tstate[t]
<1>1. \A t \in Timers : t = timers[f] => tfile[t] = f
  BY WatcherAssumption DEF HandInv, TimersWait
<1>2. QED
  BY <1>1 DEF Cancelled, TInv, TypeOK

LEMMA ObserverKeepsHand ==
  ASSUME TInv, HandInv, NEW o \in Observers, Observe(o)
  PROVE  HandInv'
<1> USE WatcherAssumption
<1> DEFINE f == dir[o]
<1>1. /\ f \in Folders /\ UNCHANGED <<map, dir, stopping, disk>>
      /\ \A p \in Observers : events[p] \in Seq({"modified", "deleted"})
  BY DEF Observe, Schedule, HandleDelete, RemoveFromIndex, Handles, TInv, TypeOK, WorkHasFile,
     folders, files
<1>2. MapIsTrue'
  BY <1>1 DEF HandInv, MapIsTrue, Watched
<1>3. ASSUME NEW e, Handles(o, e)
      PROVE  /\ \A p \in Observers \ {o} : events'[p] = events[p]
             /\ events'[o] # <<>> => events'[o][Len(events'[o])] = Told(f)
             /\ events'[o] = <<>> => e = Told(f)
             /\ o \notin deleting
  <2>1. /\ events[o] # <<>> /\ Head(events[o]) = e /\ events'[o] = Tail(events[o])
        /\ o \notin deleting /\ \A p \in Observers \ {o} : events'[p] = events[p]
    BY <1>3 DEF Handles, TInv, TypeOK
  <2>2. events[o][Len(events[o])] = Told(f)
    BY <2>1 DEF HandInv, LastEventIsTrue
  <2>3. /\ Tail(events[o]) # <<>> => Tail(events[o])[Len(Tail(events[o]))] = events[o][Len(events[o])]
        /\ Tail(events[o]) = <<>> => events[o][Len(events[o])] = Head(events[o])
    BY <1>1, <2>1, LastOfQueue
  <2>4. QED
    BY <2>1, <2>2, <2>3
<1>4. CASE Schedule(o)
  <2>1. PICK t \in Timers :
          /\ Cancelled(f)[t] = "dead"
          /\ tstate' = [Cancelled(f) EXCEPT ![t] = "armed"]
          /\ tfile' = [tfile EXCEPT ![t] = f] /\ timers' = [timers EXCEPT ![f] = t]
    BY <1>4 DEF Schedule
  <2>2. /\ tstate'[t] = "armed" /\ tfile'[t] = f /\ timers'[f] = t
        /\ \A g \in Folders \ {f} : timers'[g] = timers[g]
        /\ \A u \in Timers \ {t} : tfile'[u] = tfile[u] /\ tstate'[u] = Cancelled(f)[u]
    BY <1>1, <2>1, CancelledSpares DEF TInv, TypeOK
  <2>3. ASSUME NEW u \in Timers, Waits(u), tfile[u] # f
        PROVE  u # t /\ tfile'[u] = tfile[u] /\ Waits(u)'
    BY <1>1, <2>1, <2>2, <2>3, CancelledSpares DEF Waits
  <2>4. Handles(o, "modified") /\ UNCHANGED <<deleting, read>>
    BY <1>4 DEF Schedule, files
  <2>5. LastEventIsTrue'
    BY <1>1, <1>3, <2>4 DEF HandInv, LastEventIsTrue, Told
  <2>6. DeletedOrTold'
    BY <1>1, <1>3, <2>4 DEF HandInv, DeletedOrTold, TInv, TypeOK
  <2>7. TimersWait'
    <3> SUFFICES ASSUME NEW g \in Folders, timers'[g] # None
                 PROVE  tfile'[timers'[g]] = g /\ tstate'[timers'[g]] \in {"armed", "fired"}
      BY DEF TimersWait, Waits
    <3>1. CASE g = f
      BY <2>2, <3>1 DEF Waits
    <3>2. CASE g # f
      <4>1. timers'[g] = timers[g] /\ timers[g] \in Timers
        BY <2>2, <3>2 DEF TInv, TypeOK
      <4>2. tfile[timers[g]] = g /\ Waits(timers[g])
        BY <4>1 DEF HandInv, TimersWait
      <4>3. QED
        BY <2>3, <3>2, <4>1, <4>2 DEF Waits
    <3>3. QED
      BY <3>1, <3>2
  <2>8. ChangeIsInHand'
    <3> SUFFICES ASSUME NEW g \in Folders, Watched(g)', stopping = "no", read[g] # disk[g]
                 PROVE  InHand(g)'
      BY <1>1, <2>4 DEF ChangeIsInHand
    <3>1. CASE g = f
      BY <2>2, <3>1 DEF InHand, Waits
    <3>2. CASE g # f
      <4>1. InHand(g)
        BY <1>1 DEF HandInv, ChangeIsInHand, Watched
      <4>2. QED
        BY <1>1, <1>3, <2>3, <2>4, <3>2, <4>1 DEF InHand, TInv, TypeOK
    <3>3. QED
      BY <3>1, <3>2
  <2>9. QED
    BY <1>2, <2>5, <2>6, <2>7, <2>8 DEF HandInv
<1>5. CASE HandleDelete(o)
  <2>1. /\ tstate' = Cancelled(f) /\ timers' = [timers EXCEPT ![f] = None]
        /\ deleting' = deleting \union {o} /\ Handles(o, "deleted") /\ UNCHANGED <<tfile, read>>
    BY <1>5 DEF HandleDelete, files
  <2>2. events'[o] # <<>> \/ disk[f] = 0
    BY <1>3, <2>1 DEF Told
  <2>3. LastEventIsTrue'
    BY <1>1, <1>3, <2>1 DEF HandInv, LastEventIsTrue, Told
  <2>4. DeletedOrTold'
    BY <1>1, <1>3, <2>1, <2>2 DEF HandInv, DeletedOrTold, TInv, TypeOK
  <2>5. TimersWait'
    BY <1>1, <2>1, CancelledSpares DEF HandInv, TimersWait, Waits, TInv, TypeOK
  <2>6. ChangeIsInHand'
    <3> SUFFICES ASSUME NEW g \in Folders, Watched(g)', stopping = "no", read[g] # disk[g]
                 PROVE  InHand(g)'
      BY <1>1, <2>1 DEF ChangeIsInHand
    <3>1. CASE g = f
      BY <1>1, <2>1, <2>2, <3>1 DEF InHand
    <3>2. CASE g # f
      <4>1. InHand(g)
        BY <1>1 DEF HandInv, ChangeIsInHand, Watched
      <4>2. QED
        BY <1>1, <1>3, <2>1, <3>2, <4>1, CancelledSpares DEF InHand, Waits, TInv, TypeOK
    <3>3. QED
      BY <3>1, <3>2
  <2>7. QED
    BY <1>2, <2>3, <2>4, <2>5, <2>6 DEF HandInv
<1>6. CASE RemoveFromIndex(o)
  <2>1. /\ o \in deleting /\ deleting' = deleting \ {o} /\ read' = [read EXCEPT ![f] = 0]
        /\ UNCHANGED <<events, timers, tfile, tstate>>
    BY <1>6 DEF RemoveFromIndex, timing
  <2>2. LastEventIsTrue' /\ DeletedOrTold' /\ TimersWait'
    BY <1>1, <2>1 DEF HandInv, LastEventIsTrue, DeletedOrTold, TimersWait, Told, Waits
  <2>3. ChangeIsInHand'
    <3> SUFFICES ASSUME NEW g \in Folders, Watched(g)', stopping = "no", read'[g] # disk[g]
                 PROVE  InHand(g)'
      BY <1>1 DEF ChangeIsInHand
    <3>1. CASE g = f
      <4>1. disk[f] # 0
        BY <1>1, <2>1, <3>1, Types DEF TInv
      <4>2. events[o] # <<>>
        BY <2>1, <4>1 DEF HandInv, DeletedOrTold
      <4>3. QED
        BY <1>1, <2>1, <3>1, <4>2 DEF InHand
    <3>2. CASE g # f
      <4>1. read'[g] = read[g]
        BY <2>1, <3>2, Types DEF TInv
      <4>2. InHand(g)
        BY <1>1, <4>1 DEF HandInv, ChangeIsInHand, Watched
      <4>3. QED
        BY <1>1, <2>1, <3>2, <4>2 DEF InHand, Waits
    <3>3. QED
      BY <3>1, <3>2
  <2>4. QED
    BY <1>2, <2>2, <2>3 DEF HandInv
<1>7. QED
  BY <1>4, <1>5, <1>6 DEF Observe

LEMMA TimerKeepsHand ==
  ASSUME TInv, HandInv, NEW t \in Timers, Timed(t)
  PROVE  HandInv'
<1> USE WatcherAssumption
<1>1. UNCHANGED <<map, dir, stopping, events, deleting, disk, tfile>>
  BY DEF Timed, Fire, PopAndRead, Store, watching, files
<1>2. MapIsTrue' /\ LastEventIsTrue' /\ DeletedOrTold'
  BY <1>1 DEF HandInv, MapIsTrue, LastEventIsTrue, DeletedOrTold, Told, Watched
<1>3. CASE Fire(t) \/ Store(t)
  <2>1. /\ UNCHANGED <<timers, read>> /\ \A u \in Timers : Waits(u) => Waits(u)'
    BY <1>3 DEF Fire, Store, Waits, files, TInv, TypeOK
  <2>2. TimersWait'
    BY <1>1, <2>1 DEF HandInv, TimersWait, Waits, TInv, TypeOK
  <2>3. ChangeIsInHand'
    BY <1>1, <2>1 DEF HandInv, ChangeIsInHand, InHand, Watched
  <2>4. QED
    BY <1>2, <2>2, <2>3 DEF HandInv
<1>4. CASE PopAndRead(t)
  <2> DEFINE f == tfile[t]
  <2>1. /\ f \in Folders /\ timers' = [timers EXCEPT ![f] = None]
        /\ read' = [read EXCEPT ![f] = disk[f]]
        /\ \A u \in Timers \ {t} : tstate'[u] = tstate[u]
    BY <1>4 DEF PopAndRead, TInv, TypeOK, WorkHasFile
  <2>2. /\ read'[f] = disk[f] /\ timers'[f] = None
        /\ \A g \in Folders \ {f} : read'[g] = read[g] /\ timers'[g] = timers[g]
    BY <2>1, Types DEF TInv, TypeOK
  <2>3. TimersWait'
    <3> SUFFICES ASSUME NEW g \in Folders, timers'[g] # None
                 PROVE  tfile[timers'[g]] = g /\ tstate'[timers'[g]] \in {"armed", "fired"}
      BY <1>1 DEF TimersWait, Waits
    <3>1. g # f /\ timers'[g] = timers[g] /\ timers[g] \in Timers
      BY <2>2 DEF TInv, TypeOK
    <3>2. tfile[timers[g]] = g /\ Waits(timers[g])
      BY <3>1 DEF HandInv, TimersWait
    <3>3. QED
      BY <2>1, <3>1, <3>2 DEF Waits
  <2>4. ChangeIsInHand'
    <3> SUFFICES ASSUME NEW g \in Folders, Watched(g)', stopping = "no", read'[g] # disk[g]
                 PROVE  InHand(g)'
      BY <1>1 DEF ChangeIsInHand
    <3>1. g # f /\ InHand(g)
      BY <1>1, <2>2 DEF HandInv, ChangeIsInHand, Watched
    <3>2. QED
      BY <1>1, <2>1, <3>1 DEF InHand, Waits
  <2>5. QED
    BY <1>2, <2>3, <2>4 DEF HandInv
<1>5. QED
  BY <1>3, <1>4 DEF Timed

LEMMA NextKeepsHand == TInv /\ HandInv /\ [Next]_vars => HandInv'
<1> SUFFICES ASSUME TInv, HandInv, [Next]_vars PROVE HandInv'
  OBVIOUS
<1>1. CASE UNCHANGED vars
  BY <1>1 DEF vars, HandInv, MapIsTrue, LastEventIsTrue, DeletedOrTold, TimersWait,
     ChangeIsInHand, Told, Waits, InHand, Watched
<1>2. CASE Next
  BY <1>2, HttpKeepsHand, StopKeepsHand, UserKeepsHand, ObserverKeepsHand, TimerKeepsHand
     DEF Next
<1>3. QED
  BY <1>1, <1>2

\* Until the server stops, what the index has not read of a watched file is announced
\* by an event in the queue of its observer, being removed because the file is gone,
\* or awaited by a timer that will read it: bursts of events, deletions handled without
\* the lock, replaced timers and folders removed and added again lose no change, even
\* when requests for one folder overlap (watcher.py:197-308).
THEOREM NoChangeIsLost == Spec => []ChangeIsInHand
<1>1. Init => HandInv
  BY WatcherAssumption
     DEF Init, HandInv, MapIsTrue, LastEventIsTrue, DeletedOrTold, TimersWait, ChangeIsInHand,
         Watched
<1>2. HandInv => ChangeIsInHand
  BY DEF HandInv
<1>3. QED
  BY <1>1, <1>2, InitTypes, TypesInvariant, NextKeepsHand, PTL DEF Spec

=============================================================================
