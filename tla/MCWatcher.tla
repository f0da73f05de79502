----------------------------- MODULE MCWatcher -----------------------------
(***************************************************************************)
(* Instances of Watcher for TLC: a user does not add and remove one folder *)
(* at the same time.                                                       *)
(***************************************************************************)
EXTENDS Watcher

CONSTANTS a, b, c1, c2

ApartSpec == Init /\ [][Next /\ Apart']_vars
             /\ (\A o \in Observers : WF_vars(Observe(o)))
             /\ (\A t \in Timers : WF_vars(Timed(t)))
=============================================================================
