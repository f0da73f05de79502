------------------------------ MODULE OneWriter ------------------------------
(***************************************************************************)
(* What the indexing task manager promises to the store: files are indexed *)
(* one at a time, and a task that was told to stop may finish the file it  *)
(* is at but begins no other.                                              *)
(***************************************************************************)
CONSTANTS Tasks, NoTask

VARIABLES
  writer,   \* the task that is indexing a file, or NoTask
  stopped   \* the tasks that were told to stop

Init == writer = NoTask /\ stopped = {}

Stop ==
  /\ stopped \subseteq stopped' /\ stopped' \subseteq Tasks
  /\ UNCHANGED writer

Begin(t) ==
  /\ writer = NoTask /\ t \notin stopped
  /\ writer' = t
  /\ UNCHANGED stopped

End ==
  /\ writer # NoTask
  /\ writer' = NoTask
  /\ UNCHANGED stopped

Next == Stop \/ (\E t \in Tasks : Begin(t)) \/ End

Spec == Init /\ [][Next]_<<writer, stopped>>
=============================================================================
