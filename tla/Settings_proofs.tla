-------------------------- MODULE Settings_proofs --------------------------
(***************************************************************************)
(* Theorems of Settings and their proofs.                                  *)
(***************************************************************************)
EXTENDS Settings, TLAPS

\* From the written file to the rename the temporary file is whole.
TempIsWhole ==
  \A c \in Callers : call[c].at \in {"unlink", "rename"} => tmp[c] \in Configs

\* A server past its checks has stored its settings, or what it had not is lost; one
\* that is to clear has found a reason to.
MetadataIsStored ==
  server # None =>
    /\ server.at = "clear" => /\ server.rechunk
                              /\ \A p \in Parts : meta[p] = server.config[p]
    /\ server.at \in {"resume", "done"} =>
         \A p \in Parts : meta[p] = server.config[p] \/ p \in lost

\* Of a document whose hash counts, some record tells the chunk settings: the metadata
\* between two servers; until the check the metadata or the server, which may have
\* indexed it already; between check and clearing what the check found.
ChunkingIsTraced ==
  row # None /\ row.hash /\ "chunking" \notin lost =>
    /\ server = None => row.chunking = meta.chunking
    /\ server # None /\ row.chunking # server.config.chunking =>
         /\ server.at = "check" => row.chunking = meta.chunking
         /\ server.at = "set" => server.rechunk
         /\ server.at \notin {"resume", "done"}

\* The same of the model, which a start reports when it checks.
ModelIsTraced ==
  row # None /\ "model" \notin lost /\ ~ reported =>
    /\ server = None => row.model = meta.model
    /\ server # None /\ row.model # server.config.model
         => server.at = "check" /\ row.model = meta.model

Metadata == [model : Models \union {None}, chunking : Chunkings \union {None}]

IInv ==
  /\ TypeOK /\ ConfigIsWhole /\ TempIsWhole /\ MetadataIsStored
  /\ ChunkingIsTraced /\ ModelIsTraced

LEMMA InitInv == Init => IInv
<1> SUFFICES ASSUME Init PROVE IInv
  OBVIOUS
<1>1. Idle \in [at : CallAt, config : Configs, remodel : BOOLEAN]
  BY SettingsAssumption DEF Idle, CallAt
<1>2. starts \in 0 .. MaxStarts
  BY SettingsAssumption DEF Init
<1>3. TypeOK
  BY <1>1, <1>2 DEF Init, TypeOK
<1>4. ConfigIsWhole /\ TempIsWhole /\ MetadataIsStored /\ ChunkingIsTraced /\ ModelIsTraced
  BY SettingsAssumption
     DEF Init, Idle, ConfigIsWhole, TempIsWhole, MetadataIsStored, ChunkingIsTraced,
         ModelIsTraced
<1>5. QED
  BY <1>3, <1>4 DEF IInv

----------------------------------------------------------------------------
LEMMA LoadedIsConfig == Loaded \in Configs
BY SettingsAssumption DEF Loaded

LEMMA ChangedAreConfigs ==
  ASSUME NEW config \in Configs
  PROVE  Changed(config) \subseteq Configs
BY DEF Changed, Configs

(***************************************************************************)
(* Requests: they change the file and the temporary files only, apart from *)
(* the rebuild, which drops the document.                                  *)
(***************************************************************************)
LEMMA RequestsKeepInv ==
  ASSUME IInv, NEW c \in Callers,
         Load(c) \/ WriteTemp(c) \/ Unlink(c) \/ Rename(c) \/ SaveFails(c)
  PROVE  IInv'
<1> USE SettingsAssumption DEF IInv, TypeOK, ConfigIsWhole, TempIsWhole, CallAt, Idle, At
<1>1. UNCHANGED <<process, index>>
  BY DEF Load, WriteTemp, Unlink, Rename, SaveFails
<1>2. MetadataIsStored' /\ ChunkingIsTraced' /\ ModelIsTraced'
  BY <1>1 DEF MetadataIsStored, ChunkingIsTraced, ModelIsTraced, process, index
<1>3. /\ server' \in [config : Configs, at : StartAt, rechunk : BOOLEAN] \union {None}
      /\ meta' \in Metadata
      /\ row' \in [model : Models, chunking : Chunkings, hash : BOOLEAN] \union {None}
      /\ starts' \in 0 .. MaxStarts /\ reported' \in BOOLEAN /\ lost' \subseteq Parts
  BY <1>1 DEF process, index, Metadata
<1>4. /\ file' \in Configs \union {None} /\ TempIsWhole'
      /\ call' \in [Callers -> [at : CallAt, config : Configs, remodel : BOOLEAN]]
      /\ tmp' \in [Callers -> Configs \union {None, Torn}]
  <2>1. CASE Load(c)
    <3>1. PICK new \in Changed(Loaded) :
            call' = [call EXCEPT ![c] = [at |-> "write", config |-> new,
                                         remodel |-> new.model # Loaded.model]]
      BY <2>1 DEF Load
    <3>2. new \in Configs
      BY LoadedIsConfig, ChangedAreConfigs
    <3>3. QED
      BY <2>1, <3>1, <3>2 DEF Load
  <2>2. CASE WriteTemp(c)
    BY <2>2 DEF WriteTemp
  <2>3. CASE Unlink(c)
    BY <2>3 DEF Unlink
  <2>4. CASE Rename(c)
    <3>1. /\ file' = tmp[c] /\ tmp[c] \in Configs
          /\ tmp' = [tmp EXCEPT ![c] = None]
      BY <2>4 DEF Rename
    <3>2. /\ call' = [call EXCEPT ![c].at = "rebuild"] \/ call' = [call EXCEPT ![c] = Idle]
          /\ Idle \in [at : CallAt, config : Configs, remodel : BOOLEAN]
      BY <2>4 DEF Rename
    <3>3. /\ call' \in [Callers -> [at : CallAt, config : Configs, remodel : BOOLEAN]]
          /\ call'[c].at \in {"rebuild", "idle"}
          /\ \A d \in Callers \ {c} : call'[d] = call[d]
      <4>1. CASE call' = [call EXCEPT ![c].at = "rebuild"]
        BY <4>1
      <4>2. CASE call' = [call EXCEPT ![c] = Idle]
        BY <3>2, <4>2
      <4>3. QED
        BY <3>2, <4>1, <4>2
    <3>4. QED
      BY <3>1, <3>3
  <2>5. CASE SaveFails(c)
    BY <2>5 DEF SaveFails
  <2>6. QED
    BY <2>1, <2>2, <2>3, <2>4, <2>5
<1>5. QED
  BY <1>2, <1>3, <1>4 DEF Metadata

LEMMA RebuildsKeepInv ==
  ASSUME IInv, (\E c \in Callers : Rebuild(c)) \/ RebuildAll
  PROVE  IInv'
<1> USE SettingsAssumption DEF IInv, TypeOK, ConfigIsWhole, TempIsWhole, CallAt, Idle
<1>1. /\ row' = None /\ UNCHANGED <<file, tmp, meta, server, starts>>
      /\ server # None /\ reported' = FALSE
      /\ lost' = {p \in lost : meta[p] # server.config[p]}
  BY DEF Rebuild, RebuildAll, Emptied
<1>2. /\ call' \in [Callers -> [at : CallAt, config : Configs, remodel : BOOLEAN]]
      /\ TempIsWhole'
  <2>1. CASE RebuildAll
    BY <2>1, <1>1 DEF RebuildAll
  <2>2. ASSUME NEW c \in Callers, Rebuild(c)
        PROVE  /\ call' \in [Callers -> [at : CallAt, config : Configs, remodel : BOOLEAN]]
               /\ TempIsWhole'
    BY <2>2, <1>1 DEF Rebuild
  <2>3. QED
    BY <2>1, <2>2
<1>3. MetadataIsStored' /\ ChunkingIsTraced' /\ ModelIsTraced'
  BY <1>1 DEF MetadataIsStored, ChunkingIsTraced, ModelIsTraced
<1>4. lost' \subseteq Parts
  BY <1>1
<1>5. QED
  BY <1>1, <1>2, <1>3, <1>4

(***************************************************************************)
(* The server: its start, its checks, indexing, and being killed.          *)
(***************************************************************************)
RequestsAlone == UNCHANGED <<file, call, tmp>>

LEMMA RequestsUntouched ==
  ASSUME IInv, RequestsAlone
  PROVE  /\ ConfigIsWhole' /\ TempIsWhole'
         /\ file' \in Configs \union {None, Torn}
         /\ call' \in [Callers -> [at : CallAt, config : Configs, remodel : BOOLEAN]]
         /\ tmp' \in [Callers -> Configs \union {None, Torn}]
BY DEF RequestsAlone, IInv, TypeOK, ConfigIsWhole, TempIsWhole

\* What a step of the server has to keep.
ServerInv ==
  /\ server \in [config : Configs, at : StartAt, rechunk : BOOLEAN] \union {None}
  /\ meta \in Metadata
  /\ row \in [model : Models, chunking : Chunkings, hash : BOOLEAN] \union {None}
  /\ starts \in 0 .. MaxStarts /\ reported \in BOOLEAN /\ lost \subseteq Parts
  /\ MetadataIsStored /\ ChunkingIsTraced /\ ModelIsTraced

LEMMA ServerInvSuffices ==
  ASSUME IInv, RequestsAlone, ServerInv'
  PROVE  IInv'
BY RequestsUntouched DEF IInv, TypeOK, ServerInv, Metadata

LEMMA ServerInvHolds == IInv => ServerInv
BY DEF IInv, TypeOK, ServerInv, Metadata

LEMMA StartKeepsInv == ASSUME IInv, StartServer PROVE IInv'
<1> USE DEF StartAt
<1>1. ServerInv
  BY ServerInvHolds
<1>2. server' = [config |-> Loaded, at |-> "check", rechunk |-> FALSE]
      /\ server = None /\ Loaded \in Configs
  BY LoadedIsConfig DEF StartServer
<1>3. starts' \in 0 .. MaxStarts
  BY <1>1, SettingsAssumption DEF StartServer, ServerInv
<1>4. MetadataIsStored'
  BY <1>2 DEF MetadataIsStored
<1>5. UNCHANGED <<meta, row, reported, lost>>
  BY DEF StartServer, index
<1>6. ChunkingIsTraced'
  BY <1>1, <1>2, <1>5 DEF ChunkingIsTraced, ServerInv
<1>7. ModelIsTraced'
  BY <1>1, <1>2, <1>5 DEF ModelIsTraced, ServerInv
<1>8. ServerInv'
  BY <1>1, <1>2, <1>3, <1>4, <1>5, <1>6, <1>7 DEF ServerInv
<1>9. QED
  BY <1>8, ServerInvSuffices DEF StartServer, RequestsAlone, requests

LEMMA CheckKeepsInv == ASSUME IInv, Check PROVE IInv'
<1> USE DEF StartAt
<1>1. ServerInv
  BY ServerInvHolds
<1>2. /\ server # None /\ server.at = "check" /\ server'.at = "set"
      /\ server'.config = server.config
      /\ meta.chunking \notin {None, server.config.chunking} => server'.rechunk
      /\ server' \in [config : Configs, at : StartAt, rechunk : BOOLEAN] /\ server' # None
  BY <1>1, NoneIsNoServer DEF Check, ServerInv, Differs
<1>3. /\ reported \/ meta.model \notin {None, server.config.model} => reported'
      /\ reported' \in BOOLEAN
      /\ ~ reported' => lost' = lost
      /\ "chunking" \in lost' <=> "chunking" \in lost
      /\ lost' \subseteq Parts
      /\ UNCHANGED <<meta, row, starts>>
  BY <1>1 DEF Check, ServerInv, Differs
<1>4. row # None => row.chunking # None /\ row.model # None
  BY <1>1, SettingsAssumption DEF ServerInv
<1>5. MetadataIsStored'
  BY <1>2 DEF MetadataIsStored
<1>6. ChunkingIsTraced'
  BY <1>1, <1>2, <1>3, <1>4 DEF ChunkingIsTraced, ServerInv
<1>7. ModelIsTraced'
  BY <1>1, <1>2, <1>3, <1>4 DEF ModelIsTraced, ServerInv
<1>8. ServerInv'
  BY <1>1, <1>2, <1>3, <1>5, <1>6, <1>7 DEF ServerInv
<1>9. QED
  BY <1>8, ServerInvSuffices DEF Check, RequestsAlone, requests

\* What a check stores, or a repair: its own settings, or not all of them yet.
LEMMA StoresTyped ==
  ASSUME ServerInv, server # None, Stores
  PROVE  /\ meta' \in Metadata
         /\ \A p \in Parts : meta[p] = server.config[p] => meta'[p] = meta[p]
<1>1. PICK m \in Between(meta.model, server.config.model, Models),
           k \in Between(meta.chunking, server.config.chunking, Chunkings) :
        meta' = [model |-> m, chunking |-> k]
  BY DEF Stores
<1>2. server.config.model \in Models /\ server.config.chunking \in Chunkings
  BY DEF ServerInv, Configs
<1>3. m \in Models \union {None} /\ k \in Chunkings \union {None}
  BY <1>1, <1>2 DEF Between
<1>4. /\ meta.model = server.config.model => m = meta.model
      /\ meta.chunking = server.config.chunking => k = meta.chunking
  BY <1>1 DEF Between
<1>5. meta'.model = m /\ meta'.chunking = k
  BY <1>1
<1>6. QED
  BY <1>1, <1>3, <1>4, <1>5 DEF Metadata, Parts

LEMMA SetMetadataKeepsInv == ASSUME IInv, SetMetadata PROVE IInv'
<1> USE DEF StartAt
<1>1. ServerInv
  BY ServerInvHolds
<1>2. /\ server # None /\ server.at = "set" /\ server' # None
      /\ server'.config = server.config /\ server'.rechunk = server.rechunk
      /\ server' \in [config : Configs, at : StartAt, rechunk : BOOLEAN]
      /\ \/ server'.at = "set"
         \/ /\ \A p \in Parts : meta'[p] = server.config[p]
            /\ server'.at = IF server.rechunk THEN "clear" ELSE "resume"
  BY <1>1, NoneIsNoServer DEF SetMetadata, ServerInv
<1>3. meta' \in Metadata
  BY <1>1, <1>2, StoresTyped DEF SetMetadata
<1>4. UNCHANGED <<row, reported, starts, lost>>
  BY DEF SetMetadata
<1>5. MetadataIsStored'
  BY <1>2 DEF MetadataIsStored
<1>6. ChunkingIsTraced'
  BY <1>1, <1>2, <1>4 DEF ChunkingIsTraced, ServerInv
<1>7. ModelIsTraced'
  BY <1>1, <1>2, <1>4 DEF ModelIsTraced, ServerInv
<1>8. ServerInv'
  BY <1>1, <1>2, <1>3, <1>4, <1>5, <1>6, <1>7 DEF ServerInv
<1>9. QED
  BY <1>8, ServerInvSuffices DEF SetMetadata, RequestsAlone, requests

LEMMA ClearKeepsInv == ASSUME IInv, Clear PROVE IInv'
<1> USE DEF StartAt
<1>1. ServerInv
  BY ServerInvHolds
<1>2. /\ server # None /\ server.at = "clear"
      /\ server'.config = server.config /\ server'.at = "resume"
      /\ server' \in [config : Configs, at : StartAt, rechunk : BOOLEAN] /\ server' # None
  BY <1>1, NoneIsNoServer DEF Clear, ServerInv
<1>3. /\ row = None => row' = None
      /\ row # None => /\ row' \in [model : Models, chunking : Chunkings, hash : BOOLEAN]
                       /\ row'.model = row.model /\ row'.hash = FALSE
  BY <1>1 DEF Clear, ServerInv
<1>4. UNCHANGED <<meta, reported, starts>> /\ lost' = lost \ {"chunking"}
  BY DEF Clear
<1>5. MetadataIsStored'
  BY <1>1, <1>2, <1>4 DEF MetadataIsStored, ServerInv
<1>6. ChunkingIsTraced'
  BY <1>3 DEF ChunkingIsTraced
<1>7. ModelIsTraced'
  BY <1>1, <1>2, <1>3, <1>4 DEF ModelIsTraced, ServerInv
<1>8. ServerInv'
  BY <1>1, <1>2, <1>3, <1>4, <1>5, <1>6, <1>7 DEF ServerInv
<1>9. QED
  BY <1>8, ServerInvSuffices DEF Clear, RequestsAlone, requests

LEMMA CheckFailsKeepsInv == ASSUME IInv, CheckFails PROVE IInv'
<1> USE DEF StartAt
<1>1. ServerInv
  BY ServerInvHolds
<1>2. /\ server # None /\ server.at \in {"check", "set", "clear"}
      /\ server'.config = server.config /\ server'.at = "resume"
      /\ server' \in [config : Configs, at : StartAt, rechunk : BOOLEAN] /\ server' # None
  BY <1>1, NoneIsNoServer DEF CheckFails, ServerInv
<1>3. /\ UNCHANGED <<meta, row, reported, starts>>
      /\ lost' = lost \union Pending
  BY DEF CheckFails, index
<1>p. /\ \A p \in Parts : meta[p] = server.config[p] \/ p \in Pending
      /\ "chunking" \notin Pending => ~ server.rechunk
  BY <1>2 DEF Pending, Parts
<1>4. MetadataIsStored'
  BY <1>2, <1>3, <1>p DEF MetadataIsStored
<1>5. ChunkingIsTraced'
  <2>1. "chunking" \notin lost' => /\ "chunking" \notin lost /\ ~ server.rechunk
                                  /\ meta.chunking = server.config.chunking
    BY <1>3, <1>p DEF Parts
  <2>2. server.at = "clear" /\ "chunking" \notin lost' /\ row # None /\ row.hash
          => row.chunking = server.config.chunking
    BY <1>1, <1>2, <2>1 DEF ServerInv, MetadataIsStored
  <2>3. QED
    BY <1>1, <1>2, <1>3, <2>1, <2>2 DEF ChunkingIsTraced, ServerInv
<1>6. ModelIsTraced'
  <2>1. "model" \notin lost' => "model" \notin lost /\ meta.model = server.config.model
    BY <1>3, <1>p DEF Parts
  <2>2. QED
    BY <1>1, <1>2, <1>3, <2>1 DEF ModelIsTraced, ServerInv
<1>7. lost' \subseteq Parts
  BY <1>1, <1>3 DEF ServerInv, Pending
<1>8. ServerInv'
  BY <1>1, <1>2, <1>3, <1>4, <1>5, <1>6, <1>7 DEF ServerInv
<1>9. QED
  BY <1>8, ServerInvSuffices DEF CheckFails, RequestsAlone, requests

LEMMA RepairKeepsInv == ASSUME IInv, RepairChecks PROVE IInv'
<1>1. ServerInv
  BY ServerInvHolds
<1>2. /\ server # None /\ UNCHANGED <<server, row, starts>>
      /\ lost' = IF server.at = "check" /\ Differs("chunking")
                 THEN lost \union {"chunking"} ELSE lost
      /\ reported \/ meta.model \notin {None, server.config.model} => reported'
      /\ reported' \in BOOLEAN
  BY <1>1 DEF RepairChecks, Differs, ServerInv
<1>3. /\ meta' \in Metadata
      /\ \A p \in Parts : meta[p] = server.config[p] => meta'[p] = meta[p]
  BY <1>1, <1>2, StoresTyped DEF RepairChecks
<1>4. row # None => row.chunking # None /\ row.model # None
  BY <1>1, SettingsAssumption DEF ServerInv
<1>5. MetadataIsStored'
  BY <1>1, <1>2, <1>3 DEF MetadataIsStored, ServerInv
<1>6. ChunkingIsTraced'
  <2>1. CASE server.at = "check" /\ Differs("chunking")
    BY <1>2, <2>1 DEF ChunkingIsTraced
  <2>2. CASE ~ (server.at = "check" /\ Differs("chunking"))
    BY <1>1, <1>2, <1>4, <2>2 DEF ChunkingIsTraced, ServerInv, Differs
  <2>3. QED
    BY <2>1, <2>2
<1>7. ModelIsTraced'
  BY <1>1, <1>2, <1>4 DEF ModelIsTraced, ServerInv
<1>8. lost' \subseteq Parts
  BY <1>1, <1>2 DEF ServerInv, Parts
<1>9. ServerInv'
  BY <1>1, <1>2, <1>3, <1>5, <1>6, <1>7, <1>8 DEF ServerInv
<1>10. QED
  BY <1>9, ServerInvSuffices DEF RepairChecks, RequestsAlone, requests

LEMMA ResumeKeepsInv == ASSUME IInv, Resume PROVE IInv'
<1> USE DEF StartAt
<1>1. ServerInv
  BY ServerInvHolds
<1>2. /\ server # None /\ server.at = "resume"
      /\ server'.config = server.config /\ server'.at = "done"
      /\ server' \in [config : Configs, at : StartAt, rechunk : BOOLEAN] /\ server' # None
  BY <1>1, NoneIsNoServer DEF Resume, ServerInv
<1>3. UNCHANGED <<meta, row, reported, starts, lost>>
  BY DEF Resume, index
<1>4. MetadataIsStored'
  BY <1>1, <1>2, <1>3 DEF MetadataIsStored, ServerInv
<1>5. ChunkingIsTraced' /\ ModelIsTraced'
  BY <1>1, <1>2, <1>3 DEF ChunkingIsTraced, ModelIsTraced, ServerInv, MetadataIsStored
<1>6. ServerInv'
  BY <1>1, <1>2, <1>3, <1>4, <1>5 DEF ServerInv
<1>7. QED
  BY <1>6, ServerInvSuffices DEF Resume, RequestsAlone, requests

LEMMA IndexKeepsInv == ASSUME IInv, Index PROVE IInv'
<1>1. ServerInv
  BY ServerInvHolds
<1>2. /\ server # None /\ UNCHANGED <<server, meta, starts, lost>>
      /\ row'.model = server.config.model /\ row'.chunking = server.config.chunking
      /\ row' \in [model : Models, chunking : Chunkings, hash : BOOLEAN]
      /\ reported' = FALSE
  BY <1>1 DEF Index, ServerInv, process, Configs
<1>3. MetadataIsStored' /\ ChunkingIsTraced' /\ ModelIsTraced'
  BY <1>1, <1>2 DEF MetadataIsStored, ChunkingIsTraced, ModelIsTraced, ServerInv
<1>4. ServerInv'
  BY <1>1, <1>2, <1>3 DEF ServerInv
<1>5. QED
  BY <1>4, ServerInvSuffices DEF Index, RequestsAlone, requests

LEMMA KillKeepsInv == ASSUME IInv, Kill PROVE IInv'
<1> USE DEF StartAt
<1>1. ServerInv
  BY ServerInvHolds
<1>2. /\ server # None /\ server' = None /\ UNCHANGED <<file, starts, meta, row, reported>>
      /\ lost' = IF row = None THEN lost ELSE lost \union Pending
      /\ call' = [c \in Callers |-> Idle] /\ tmp' = [c \in Callers |-> None]
  BY DEF Kill, index
<1>3. MetadataIsStored' /\ ChunkingIsTraced' /\ ModelIsTraced'
  <2>1. MetadataIsStored'
    BY <1>2 DEF MetadataIsStored
  <2>2. ASSUME row # None, "chunking" \notin lost', row.hash
        PROVE  row.chunking = meta.chunking
    <3>1. "chunking" \notin lost /\ "chunking" \notin Pending
      BY <1>2, <2>2
    <3>2. CASE server.at \in {"check", "set", "clear"}
      <4>1. meta.chunking = server.config.chunking /\ ~ server.rechunk
        BY <3>1, <3>2 DEF Pending, Parts
      <4>2. QED
        BY <1>1, <1>2, <2>2, <3>1, <3>2, <4>1 DEF ChunkingIsTraced, MetadataIsStored, ServerInv
    <3>3. CASE server.at \in {"resume", "done"}
      BY <1>1, <1>2, <2>2, <3>1, <3>3
         DEF ChunkingIsTraced, MetadataIsStored, ServerInv, Parts
    <3>4. QED
      BY <1>1, <1>2, <3>2, <3>3 DEF ServerInv
  <2>3. ASSUME row # None, "model" \notin lost', ~ reported
        PROVE  row.model = meta.model
    <3>1. "model" \notin lost /\ "model" \notin Pending
      BY <1>2, <2>3
    <3>2. meta.model = server.config.model
      <4>1. server.at \in {"check", "set", "clear"} => meta.model = server.config.model
        BY <3>1 DEF Pending, Parts
      <4>2. server.at \in {"resume", "done"} => meta.model = server.config.model
        BY <1>1, <1>2, <3>1 DEF MetadataIsStored, ServerInv, Parts
      <4>3. QED
        BY <1>1, <1>2, <4>1, <4>2 DEF ServerInv
    <3>3. QED
      BY <1>1, <1>2, <2>3, <3>1, <3>2 DEF ModelIsTraced, ServerInv
  <2>4. QED
    BY <1>2, <2>1, <2>2, <2>3 DEF ChunkingIsTraced, ModelIsTraced
<1>4. ConfigIsWhole' /\ TempIsWhole' /\ file' \in Configs \union {None, Torn}
  BY <1>2 DEF IInv, TypeOK, ConfigIsWhole, TempIsWhole, Idle
<1>5. /\ call' \in [Callers -> [at : CallAt, config : Configs, remodel : BOOLEAN]]
      /\ tmp' \in [Callers -> Configs \union {None, Torn}]
  BY <1>2, SettingsAssumption DEF Idle, CallAt
<1>6. lost' \subseteq Parts
  BY <1>1, <1>2 DEF ServerInv, Pending
<1>7. QED
  BY <1>1, <1>2, <1>3, <1>4, <1>5, <1>6 DEF IInv, TypeOK, ServerInv, Metadata

LEMMA StutterKeepsInv == IInv /\ UNCHANGED vars => IInv'
BY DEF IInv, TypeOK, ConfigIsWhole, TempIsWhole, MetadataIsStored, ChunkingIsTraced,
       ModelIsTraced, vars

LEMMA StepInv == IInv /\ [Next]_vars => IInv'
BY RequestsKeepInv, RebuildsKeepInv, StartKeepsInv, CheckKeepsInv, SetMetadataKeepsInv,
   ClearKeepsInv, CheckFailsKeepsInv, RepairKeepsInv, ResumeKeepsInv, IndexKeepsInv, KillKeepsInv, StutterKeepsInv
   DEF Next, Save, Startup

LEMMA Inductive == Spec => []IInv
BY InitInv, StepInv, PTL DEF Spec

----------------------------------------------------------------------------
\* Every variable keeps its type (TypeOK of config_manager.py, http.py, startup.py).
THEOREM TypeCorrect == Spec => []TypeOK
<1>1. IInv => TypeOK
  BY DEF IInv
<1>2. QED
  BY Inductive, <1>1, PTL

\* config.json is never half written, however many requests save it at once and
\* wherever the process ends (config_manager.py:90-114).
THEOREM NeverTorn == Spec => []ConfigIsWhole
<1>1. IInv => ConfigIsWhole
  BY DEF IInv
<1>2. QED
  BY Inductive, <1>1, PTL

\* For any settings and any number of restarts: after its checks no server counts a
\* document as indexed that was cut with other chunk settings (startup.py:47-103).
THEOREM OldChunksReindexed == Spec => []OldChunksAreReindexed
<1>1. IInv => OldChunksAreReindexed
  BY DEF IInv, ChunkingIsTraced, OldChunksAreReindexed, Checked
<1>2. QED
  BY Inductive, <1>1, PTL

\* For any models and any number of restarts: vectors of another model than the
\* server's were reported since they were written (startup.py:60-77).
THEOREM OtherModelReported == Spec => []OtherModelIsReported
<1>1. IInv => OtherModelIsReported
  BY DEF IInv, ModelIsTraced, OtherModelIsReported, Checked
<1>2. QED
  BY Inductive, <1>1, PTL
=============================================================================
