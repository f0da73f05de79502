---------------------------- MODULE MCSingletons ----------------------------
(***************************************************************************)
(* Instances of Singletons for TLC: the startup thread, POST /folders,     *)
(* PUT /config with another model, a search.                               *)
(***************************************************************************)
EXTENDS Singletons, TLC

CONSTANTS start, post, put, search

Requests == start  :> <<"store", "tasks", "indexer">>
         @@ post   :> <<"config", "watcher", "tasks", "indexer">>
         @@ put    :> <<"config", "store", "reset", "config", "tasks", "indexer">>
         @@ search :> <<"engine", "registry">>
=============================================================================
