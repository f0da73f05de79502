------------------------------ MODULE Settings ------------------------------
(***************************************************************************)
(* config.json (config_manager.py), the requests that change it            *)
(* (http_routes.py), the configuration a server closes over when it starts *)
(* (http.py), and the check of the index against it (startup.py).  The     *)
(* index holds one document.                                               *)
(***************************************************************************)
EXTENDS Naturals

CONSTANTS
  Models,    \* embedding_model with embedding_dimensions
  Chunkings, \* chunk_max_words, chunk_min_words, chunk_overlap_words
  Folders,
  Default,   \* _DEFAULTS
  Callers,   \* HTTP threads
  None, Torn, \* nothing stored, half a configuration
  MaxStarts  \* bound: starts of the server

Configs == [model : Models, chunking : Chunkings, dirs : SUBSET Folders]

ASSUME SettingsAssumption ==
  /\ Default \in Configs /\ MaxStarts \in Nat
  /\ {None, Torn} \intersect Configs = {} /\ None # Torn
  /\ None \notin Models \union Chunkings

VARIABLES
  file,    \* config.json: a configuration, None, or Torn
  call,    \* each request that saves
  tmp,     \* its temporary file
  server,  \* its configuration and the place of its startup thread, or None
  meta,    \* index_metadata: what is stored for model and chunking
  row,     \* the document: model and chunking it was indexed with, its hash
  starts,
  reported, \* history: a check since the document was indexed has warned
  lost      \* history: the parts of the settings of which a check that did not
            \* finish, or a repair before the check, has lost track

vars == <<file, call, tmp, server, meta, row, starts, reported, lost>>

CallAt == {"idle", "write", "unlink", "rename", "rebuild"}
StartAt == {"check", "set", "clear", "resume", "done"}
Parts == {"model", "chunking"}
ASSUME NoneIsNoServer == None \notin [config : Configs, at : StartAt, rechunk : BOOLEAN]

Idle == [at |-> "idle", config |-> Default, remodel |-> FALSE]

TypeOK ==
  /\ file \in Configs \union {None, Torn}
  /\ call \in [Callers -> [at : CallAt, config : Configs, remodel : BOOLEAN]]
  /\ tmp \in [Callers -> Configs \union {None, Torn}]
  /\ server \in [config : Configs, at : StartAt, rechunk : BOOLEAN] \union {None}
  /\ meta \in [model : Models \union {None}, chunking : Chunkings \union {None}]
  /\ row \in [model : Models, chunking : Chunkings, hash : BOOLEAN] \union {None}
  /\ starts \in 0 .. MaxStarts /\ reported \in BOOLEAN /\ lost \subseteq Parts

Init ==
  /\ file = None /\ server = None /\ row = None /\ starts = 0
  /\ meta = [model |-> None, chunking |-> None]
  /\ call = [c \in Callers |-> Idle] /\ tmp = [c \in Callers |-> None]
  /\ reported = FALSE /\ lost = {}

index == <<meta, row, reported>>
process == <<server, starts, lost>>
requests == <<file, call, tmp>>

----------------------------------------------------------------------------

\* load(): what cannot be read counts as no file.
Loaded == IF file \in Configs THEN file ELSE Default

\* load() and the change of one request: PUT /config, POST and DELETE /folders; then
\* save() begins with mkstemp().
Changed(config) ==
  {[config EXCEPT !.model = m] : m \in Models}
    \union {[config EXCEPT !.chunking = k] : k \in Chunkings}
    \union {[config EXCEPT !.dirs = @ \union {f}] : f \in Folders}
    \union {[config EXCEPT !.dirs = @ \ {f}] : f \in Folders}

Load(c) ==
  /\ server # None /\ call[c] = Idle
  /\ \E new \in Changed(Loaded) :
       call' = [call EXCEPT ![c] = [at |-> "write", config |-> new,
                                    remodel |-> new.model # Loaded.model]]
  /\ tmp' = [tmp EXCEPT ![c] = Torn]
  /\ UNCHANGED <<file, process, index>>

At(c, a, b) == call[c].at = a /\ call' = [call EXCEPT ![c].at = b]

WriteTempLater(c) == At(c, "write", "unlink") /\ UNCHANGED <<file, tmp, process, index>>

WriteTemp(c) ==
  /\ At(c, "write", "unlink") /\ tmp' = [tmp EXCEPT ![c] = call[c].config]
  /\ UNCHANGED <<file, process, index>>

Unlink(c) ==
  /\ At(c, "unlink", "rename") /\ file' = None
  /\ UNCHANGED <<tmp, process, index>>

\* POSIX replaces a file that came back meanwhile; on Windows the rename fails.
Rename(c) ==
  /\ call[c].at = "rename"
  /\ file' = tmp[c] /\ tmp' = [tmp EXCEPT ![c] = None]
  /\ IF call[c].remodel
     THEN call' = [call EXCEPT ![c].at = "rebuild"]
     ELSE call' = [call EXCEPT ![c] = Idle]
  /\ UNCHANGED <<process, index>>

\* An OSError in any of the steps: the temporary file goes, the request fails.
SaveFails(c) ==
  /\ call[c].at \in {"write", "unlink", "rename"}
  /\ call' = [call EXCEPT ![c] = Idle] /\ tmp' = [tmp EXCEPT ![c] = None]
  /\ UNCHANGED <<file, process, index>>

\* The table is new: no document, and no record of one to miss but where the stored
\* settings are not those it will be indexed with.
Emptied ==
  /\ server # None /\ row' = None /\ reported' = FALSE
  /\ lost' = {p \in lost : meta[p] # server.config[p]}
  /\ UNCHANGED <<file, tmp, server, starts>>

RebuildAndClear(c) ==
  /\ call[c].at = "rebuild" /\ call' = [call EXCEPT ![c] = Idle]
  /\ meta' = [model |-> None, chunking |-> None]
  /\ Emptied

\* PUT /config with another model: rebuild_table() and new singletons, which
\* get the configuration the server closed over.
Rebuild(c) ==
  /\ call[c].at = "rebuild" /\ call' = [call EXCEPT ![c] = Idle]
  /\ UNCHANGED meta
  /\ Emptied

\* POST /rebuild
RebuildAll == Emptied /\ UNCHANGED <<call, meta>>

----------------------------------------------------------------------------
\* create_app() merges config.json into the configuration.
StartServer ==
  /\ server = None /\ starts < MaxStarts /\ starts' = starts + 1
  /\ server' = [config |-> Loaded, at |-> "check", rechunk |-> FALSE]
  /\ UNCHANGED <<requests, lost, index>>

\* check_mismatch(): a key that is not stored is no mismatch.
Differs(p) == meta[p] \notin {None, server.config[p]}

\* check_index_compatibility(): compare and warn ...
Check ==
  /\ server # None /\ server.at = "check"
  /\ server' = [server EXCEPT !.at = "set", !.rechunk = Differs("chunking")]
  /\ reported' = (reported \/ Differs("model"))
  /\ lost' = IF Differs("model") THEN lost \ {"model"} ELSE lost
  /\ UNCHANGED <<requests, starts, meta, row>>

\* ... then store the settings.  A part has several keys and each is committed by
\* itself: in between what is stored may be taken for any settings, or for none.
Between(old, new, values) == IF old = new THEN {new} ELSE values \union {None}

Stores ==
  \E m \in Between(meta.model, server.config.model, Models),
     k \in Between(meta.chunking, server.config.chunking, Chunkings) :
    /\ k # meta.chunking => m = server.config.model
    /\ meta' = [model |-> m, chunking |-> k]

SetMetadata ==
  /\ server # None /\ server.at = "set"
  /\ Stores
  /\ server' = [server EXCEPT !.at =
       IF \E p \in Parts : meta'[p] # server.config[p] THEN "set"
       ELSE IF server.rechunk THEN "clear" ELSE "resume"]
  /\ UNCHANGED <<requests, starts, lost, row, reported>>

ClearIfModelChanged ==
  /\ server # None /\ server.at = "clear" /\ server' = [server EXCEPT !.at = "resume"]
  /\ row' = IF row # None /\ row.model # server.config.model
            THEN [row EXCEPT !.hash = FALSE] ELSE row
  /\ lost' = lost \ {"chunking"}
  /\ UNCHANGED <<requests, starts, meta, reported>>

\* clear_all_file_hashes(): every document, whatever was lost of it.
Clear ==
  /\ server # None /\ server.at = "clear" /\ server' = [server EXCEPT !.at = "resume"]
  /\ row' = IF row # None THEN [row EXCEPT !.hash = FALSE] ELSE row
  /\ lost' = lost \ {"chunking"}
  /\ UNCHANGED <<requests, starts, meta, reported>>

\* What the check of this start still has to store or to clear.
Pending ==
  IF server.at \in {"check", "set", "clear"}
  THEN {p \in Parts : \/ meta[p] # server.config[p]
                      \/ p = "chunking" /\ server.rechunk}
  ELSE {}

\* Anything on the way raises (a locked database, get_store()): _run_startup_tasks()
\* logs it and goes on.
CheckFails ==
  /\ server # None /\ server.at \in {"check", "set", "clear"}
  /\ server' = [server EXCEPT !.at = "resume"]
  /\ lost' = lost \union Pending
  /\ UNCHANGED <<requests, starts, index>>

Resume ==
  /\ server # None /\ server.at = "resume" /\ server' = [server EXCEPT !.at = "done"]
  /\ UNCHANGED <<requests, starts, lost, index>>

\* POST /repair ends with check_index_compatibility() too, and clears nothing; it may
\* fail at any commit.
RepairChecks ==
  /\ server # None
  /\ reported' = (reported \/ Differs("model"))
  /\ Stores
  /\ lost' = IF server.at = "check" /\ Differs("chunking")
             THEN lost \union {"chunking"} ELSE lost
  /\ UNCHANGED <<requests, server, starts, row>>

\* Some task or request indexes the document unless its hash says it is.
Index ==
  /\ server # None /\ (row # None => ~ row.hash)
  /\ row' = [model |-> server.config.model, chunking |-> server.config.chunking,
             hash |-> TRUE]
  /\ reported' = FALSE
  /\ UNCHANGED <<requests, meta, process>>

\* The process ends, with every request in it; temporary files are left behind.
Kill ==
  /\ server # None /\ server' = None
  /\ lost' = IF row = None THEN lost ELSE lost \union Pending
  /\ call' = [c \in Callers |-> Idle] /\ tmp' = [c \in Callers |-> None]
  /\ UNCHANGED <<file, starts, index>>

Save(c) == WriteTemp(c) \/ Unlink(c) \/ Rename(c) \/ SaveFails(c)
Startup == Check \/ SetMetadata \/ Clear \/ CheckFails \/ Resume

Next ==
  \/ \E c \in Callers : Load(c) \/ Save(c) \/ Rebuild(c)
  \/ RebuildAll \/ StartServer \/ Startup \/ RepairChecks \/ Index \/ Kill

Spec == Init /\ [][Next]_vars

----------------------------------------------------------------------------
Checked == server # None /\ server.at \in {"resume", "done"}

\* Whatever requests overlap and wherever the process is killed, config.json is
\* never seen half written: save() renames a finished file over it.
ConfigIsWhole == file # Torn

\* After its startup checks a server counts no document as indexed that was
\* cut with other chunk settings than its own, over any number of restarts and
\* changes of them, unless a check failed or was killed over settings it had yet to
\* store or clear for, or a repair stored them first; the next completed clearing
\* makes up for that too.
OldChunksAreReindexed ==
  Checked /\ "chunking" \notin lost /\ row # None /\ row.hash
    => row.chunking = server.config.chunking

\* Vectors of another model than the server's, which its queries cannot be
\* compared with, were reported by a check after they were written, unless one
\* failed or was killed before it had stored a new model; the next check that finds
\* the model changed makes up for that.
OtherModelIsReported ==
  Checked /\ "model" \notin lost /\ row # None /\ row.model # server.config.model
    => reported
=============================================================================
