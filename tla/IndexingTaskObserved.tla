------------------------ MODULE IndexingTaskObserved ------------------------
(***************************************************************************)
(* IndexingTask with observers: history variables, for properties that     *)
(* need to remember what no variable of the program does.  Erasing them    *)
(* gives the behaviours of IndexingTask.                                   *)
(***************************************************************************)
EXTENDS IndexingTask

VARIABLES
  late,    \* files begun since the manager was paused and a stop was requested
  unready  \* the tasks that found no embedding model at the end of their scan

observed == <<vars, late, unready>>

ObservedInit == Init /\ late = 0 /\ unready = {}

ObservedNext ==
  /\ Next
  /\ late' = IF ~ paused' \/ event' # event THEN 0
             ELSE IF \E t \in Tasks : pc[t] = "loop" /\ pc'[t] = "indexing"
                  THEN late + 1 ELSE late
  /\ unready' = unready \union
       {t \in Tasks : ~ modelReady /\ pc[t] = "scan" /\ pc'[t] # "scan"}

ObservedSpec == ObservedInit /\ [][ObservedNext]_observed

\* After pause(), and as long as nobody cancels anything, at most one more file
\* is begun in the whole manager: the worker in the pause gate keeps the slot.
PauseStopsAfterOneFile == late <= 1

\* A task that says "completed" has put every file it discovered into one of its counters
\* (indexing_task.py:393-428), whatever happened to the files since: all of them if it found
\* the embedding model, otherwise those that need none.
CompletedReportsEveryFile ==
  \A t \in Tasks : state[t] = "completed" =>
    \A x \in total[t] : progress[t][x] # "none" \/ (t \in unready /\ x \notin KeywordOnly)
=============================================================================
