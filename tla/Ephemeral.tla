----------------------------- MODULE Ephemeral -----------------------------
(***************************************************************************)
(* Ephemeral indexes: a .smart-search directory inside a folder            *)
(* (ephemeral_store.py) and a registry of such folders in the database of  *)
(* the server (ephemeral_registry.py), created, listed and removed by the  *)
(* HTTP server (http_routes_ephemeral.py), searched by the MCP process     *)
(* (server.py), with nothing that ties directory and registry together.    *)
(***************************************************************************)
EXTENDS Naturals, FiniteSets

CONSTANTS
  Folders,
  Callers,  \* requests at a time, of both processes
  Chunks,   \* chunks of a folder's documents
  None

ASSUME EphemeralAssumption == Chunks \in Nat /\ None \notin Folders \union Nat

VARIABLES
  dir,    \* .smart-search: "none", "empty", "indexed", or "part" of it removed
  entry,  \* ephemeral_indexes: chunk_count, or None
  call,   \* each request
  unregistered, \* history: directories whose index call ended before it registered
  overlapped    \* history: folders that two requests were busy with at once

vars == <<dir, entry, call, unregistered, overlapped>>

CallAt == {"idle", "create", "index", "register", "remove", "deregister", "list",
           "open", "touch"}
Call == [at : CallAt, folder : Folders \union {None}, new : {0, Chunks},
         left : SUBSET Folders]
Idle == [at |-> "idle", folder |-> None, new |-> 0, left |-> {}]

TypeOK ==
  /\ dir \in [Folders -> {"none", "empty", "indexed", "part"}]
  /\ entry \in [Folders -> {None, 0, Chunks}] /\ call \in [Callers -> Call]
  /\ {unregistered, overlapped} \subseteq SUBSET Folders

Init ==
  /\ dir = [f \in Folders |-> "none"] /\ entry = [f \in Folders |-> None]
  /\ call = [c \in Callers |-> Idle] /\ unregistered = {} /\ overlapped = {}

Goto(c, at) == call' = [call EXCEPT ![c].at = at]
End(c) == call' = [call EXCEPT ![c] = Idle]
Start(c, at, f) ==
  call[c] = Idle /\ call' = [call EXCEPT ![c].at = at, ![c].folder = f]
Exists(f) == dir[f] # "none"
Made(f) == dir' = [dir EXCEPT ![f] = IF @ = "none" THEN "empty" ELSE @]
Deregistered(f) == entry' = [entry EXCEPT ![f] = None]

----------------------------------------------------------------------------
\* POST /ephemeral/index
StartIndex(c, f) == Start(c, "create", f) /\ UNCHANGED <<dir, entry, unregistered>>

CreateComponents(c) ==
  /\ call[c].at = "create" /\ Goto(c, "index") /\ Made(call[c].folder)
  /\ UNCHANGED <<entry, unregistered>>

\* Files that are indexed already count as skipped unless they are forced.
IndexFolder(c) ==
  /\ call[c].at = "index" /\ Exists(call[c].folder)
  /\ LET f == call[c].folder
     IN /\ \E new \in IF dir[f] = "indexed" THEN {0, Chunks} ELSE {Chunks} :
             call' = [call EXCEPT ![c].at = "register", ![c].new = new]
        /\ dir' = [dir EXCEPT ![f] = "indexed"]
  /\ UNCHANGED <<entry, unregistered>>

Register(c) ==
  /\ call[c].at = "register" /\ End(c)
  /\ entry' = [entry EXCEPT ![call[c].folder] = call[c].new]
  /\ unregistered' = unregistered \ {call[c].folder}
  /\ UNCHANGED dir

\* DELETE /ephemeral: the directory first, the entry afterwards.
StartCleanup(c, f) == Start(c, "remove", f) /\ UNCHANGED <<dir, entry, unregistered>>

DeregisterThenRemove(c) ==
  /\ call[c].at = "remove" /\ End(c)
  /\ Deregistered(call[c].folder)
  /\ \/ dir' = [dir EXCEPT ![call[c].folder] = "none"]
     \/ Exists(call[c].folder) /\ dir' = [dir EXCEPT ![call[c].folder] = "part"]
  /\ UNCHANGED unregistered

\* rmtree() stops at a file another process has open; the request fails.
Remove(c) ==
  /\ call[c].at = "remove"
  /\ \/ dir' = [dir EXCEPT ![call[c].folder] = "none"] /\ Goto(c, "deregister")
     \/ /\ Exists(call[c].folder) /\ End(c)
        /\ dir' = [dir EXCEPT ![call[c].folder] = "part"]
  /\ UNCHANGED <<entry, unregistered>>

Deregister(c) ==
  /\ call[c].at = "deregister" /\ Deregistered(call[c].folder)
  /\ call' = [call EXCEPT ![c] = IF @.left = {} THEN Idle
                                 ELSE [@ EXCEPT !.at = "list", !.folder = None]]
  /\ UNCHANGED <<dir, unregistered>>

\* GET /ephemeral: entries without a directory are removed one by one.
StartList(c) ==
  /\ call[c] = Idle
  /\ LET listed == {f \in Folders : entry[f] # None}
     IN /\ listed # {}
        /\ call' = [call EXCEPT ![c] = [Idle EXCEPT !.at = "list", !.left = listed]]
  /\ UNCHANGED <<dir, entry, unregistered>>

PruneAll(c, f) ==
  /\ call[c].at = "list" /\ f \in call[c].left
  /\ call' = [call EXCEPT ![c].folder = f, ![c].left = @ \ {f}, ![c].at = "deregister"]
  /\ UNCHANGED <<dir, entry, unregistered>>

Prune(c, f) ==
  /\ call[c].at = "list" /\ f \in call[c].left
  /\ LET left == call[c].left \ {f}
     IN call' = [call EXCEPT ![c] =
                   CASE ~ Exists(f) -> [@ EXCEPT !.at = "deregister", !.folder = f,
                                                 !.left = left]
                     [] Exists(f) /\ left # {} -> [@ EXCEPT !.left = left]
                     [] OTHER -> Idle]
  /\ UNCHANGED <<dir, entry, unregistered>>

\* knowledge_search() and find_related() with ephemeral_folder
StartSearch(c, f) ==
  /\ Start(c, IF Exists(f) THEN "open" ELSE "deregister", f)
  /\ UNCHANGED <<dir, entry, unregistered>>

Open(c) ==
  /\ call[c].at = "open" /\ Goto(c, "touch") /\ Made(call[c].folder)
  /\ UNCHANGED <<entry, unregistered>>

Touch(c) == call[c].at = "touch" /\ End(c) /\ UNCHANGED <<dir, entry, unregistered>>

\* A request ends with an error, or its process is killed.
Fail(c) ==
  /\ call[c] # Idle /\ End(c)
  /\ unregistered' = unregistered \union
       {f \in Folders : /\ call[c].folder = f /\ call[c].at \in {"index", "register"}
                       /\ entry[f] = None}
  /\ UNCHANGED <<dir, entry>>

\* The user deletes the directory.
UserRemoves(f) ==
  dir' = [dir EXCEPT ![f] = "none"] /\ UNCHANGED <<entry, call, unregistered>>

----------------------------------------------------------------------------
\* A listing is busy with an entry from its look at the directory to the removal.
BusyWith(c, f) == call[c].folder = f

Step(c) ==
  \/ CreateComponents(c) \/ IndexFolder(c) \/ Register(c) \/ Remove(c) \/ Deregister(c)
  \/ Open(c) \/ Touch(c) \/ StartList(c) \/ Fail(c)
  \/ \E f \in Folders : \/ StartIndex(c, f) \/ StartCleanup(c, f) \/ StartSearch(c, f)
                        \/ Prune(c, f)

Next ==
  /\ (\E c \in Callers : Step(c)) \/ (\E f \in Folders : UserRemoves(f))
  /\ overlapped' = overlapped \union
       {f \in Folders : \E c, d \in Callers : c # d /\ BusyWith(c, f)' /\ BusyWith(d, f)'}

Spec == Init /\ [][Next]_vars

----------------------------------------------------------------------------
\* An index left on the user's disk is in the registry, where GET /ephemeral shows
\* it, whatever requests fail or are killed at whatever step, apart from index
\* requests that never came to register it and from requests for one folder at once.
IndexIsListed ==
  \A f \in Folders \ (unregistered \union overlapped) :
    Exists(f) /\ entry[f] = None
      => \E c \in Callers : call[c].folder = f /\ call[c].at \in {"index", "register"}

\* Requests for other folders do not remove a directory's entry: one that is
\* listed goes only after its directory.
ListedIsKept ==
  [][\A f \in Folders \ overlapped' :
       entry[f] # None /\ entry'[f] = None => dir[f] = "none"]_vars
=============================================================================
