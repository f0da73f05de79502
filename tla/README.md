# smart-search in TLA+

A verification project for the `smart_search` server (`src/src/smart_search/`):
TLA+ modules translated from its code, TLC configurations that check them on
small instances, and TLAPS proofs of the properties that matter most, for every
value of the constants. Paths below are relative to `src/smart_search/` unless
they say otherwise.

## 1. The system

smart-search indexes folders of documents for hybrid search. One Python process
serves HTTP (FastAPI) to a desktop shell (Tauri, Rust) and to an MCP server;
everything below except the shell and the MCP process lives in it.

| component | state it keeps | operations | talks to |
|---|---|---|---|
| indexing task manager, `indexing_task.py` | registries of tasks, cancel events, threads, folder -> task; a semaphore; a pause event; per-task status | submit, cancel, cancel and wait, pause, resume, shutdown; one worker thread per task | indexer (call), HTTP threads and startup thread (callers) |
| document index, `indexer.py`, `store.py`, `store_sqlite.py`, `fts.py`, maintenance in `startup.py` | LanceDB vector table; SQLite: full-text rows and `indexed_files` | index_file, delete, upsert, record, reconcile, backfill, repair, rebuild, clear | embedder, converter, chunker (calls) |
| embedder, `embedder.py`, and reranker, `reranker.py` | ONNX session, tokenizer, idle timer | load on demand, infer, unload when idle | search and indexing threads, timer threads |
| model download, `model_download.py`, `http_routes_model.py` | status and progress (globals), cache on disk | download with timeout, poll | download thread, HTTP threads |
| conversion, `subprocess_conversion_worker.py`, `conversion_worker.py`, `markitdown_parser.py` | child process and two queues, or a thread and a global converter | convert with timeout, restart, retry | indexer |
| watcher, `watcher.py` | observers, debounce timers | start, stop, add, remove, on events | indexer and store (calls), timers |
| configuration, `config_manager.py` | `config.json` | load, save, add and remove a folder | HTTP threads, startup |
| application, `http.py`, `startup.py` | lazily created singletons | getters, startup thread, shutdown | all of the above |
| ephemeral indexes, `http_routes_ephemeral.py`, `ephemeral_*.py`, `server.py` | temporary stores, a registry in SQLite | create, search, cleanup, prune | HTTP threads, MCP process |
| search, `search.py`, `fusion.py`, `mmr.py`, `query_preprocessor.py` | none | pure ranking over two stores | embedder, reranker, store |
| chunking, `markdown_chunker.py`, `reader.py` | none | pure | indexer |
| MCP and command line, `server.py`, `mcp_*.py`, `cli*.py` | none of their own | translate requests | HTTP or the above |
| desktop shell, `src/desktop/src-tauri/src/lib.rs` | child process, health monitor | start, stop, restart | server process |
| desktop UI, `src/desktop/src/` | what it polled last | poll, request | HTTP |

What is hard in it, in the order of what can be lost:

* three writes to two stores per file (vector chunks; full-text rows; the row
  that says "indexed"), in an order that must survive a kill, a failing statement
  and another thread, since a file whose row says "indexed" is never looked at
  again;
* one SQLite connection shared by all threads, so a commit of one makes half of
  another's work durable;
* workers that are cancelled, superseded, paused and joined by callers who see
  the registries in an intermediate state;
* results computed from a file that changes under the reader;
* maintenance (reconcile, repair, rebuild) next to indexing;
* locks released before what they protect is used (embedder, reranker), timers
  that race with their own cancellation (watcher, idle unloading), timeouts
  that abandon a thread which goes on (conversion, download), a health monitor
  that races with the user (shell).

`PROJECT.json` lists each as a hazard at its line, with the properties that
would notice it or the reason why none does.

What makes each component correct: for tasks, that nobody loses track of a
running worker, that one file is indexed at a time, that a pause and a stop are
obeyed and that every task ends; for the index, that "indexed" means searchable,
that both indexes agree and that nothing is left that cannot be removed; for the
models, that one is loaded once, an idle one is unloaded and every call ends
whatever the timers do; for downloads, that the status everybody polls settles;
for conversions, that an answer belongs to its question and that a timeout ends
in a state from which one can go on; for the watcher, that the last change of a
file is read and an added folder is watched; for the configuration, that its
file is never half written and that a change of it reaches the documents indexed
before; for the singletons, that there is one of each and that nobody waits for
ever; for ephemeral indexes, that what lies on the user's disk is listed; for
chunking, that no text is lost on the way and every chunk is filed under its
heading; for ranking, that the stages agree about what is better.

## 2. Modules

| module | what it is |
|---|---|
| `IndexingTask` | the task manager and its workers, complete except the model watcher (which only tests start) |
| `IndexingTaskObserved` | `IndexingTask` with two observers: what is begun after a pause, and which tasks found no model |
| `OneWriter` | the abstract specification `IndexingTask` implements: one task at a time writes, a stopped one does not begin |
| `FileIndex` | the document index and the threads that write it |
| `ModelDownload` | downloads, imports and polls of embedding models, with the one status they share |
| `ModelLifecycle` | extends `ModelDownload`: embedder or reranker, loaded on demand, unloaded by timers |
| `Conversion` | both conversion workers |
| `Watcher` | observers, debounce timers, and the routes that add and remove folders |
| `Settings` | `config.json`, the configuration a server closes over, index metadata, the check at start |
| `Singletons` | the getters of `http.py`, called inside each other |
| `Ephemeral` | directories and registry of ephemeral indexes, used by two processes |
| `Chunking` | the Markdown chunker as functions |
| `Ranking` | fusion, reranking, diversity and related notes as functions |
| `MC...` | instances for TLC; `MCFileIndexApart` narrows to two threads that share a transaction, `MCText` the inputs of `Chunking` and `Ranking` |
| `..._proofs` | theorems of `IndexingTask`, `FileIndex`, `ModelLifecycle`, `Conversion`, `Settings`, `Ephemeral`, `Singletons`, `Watcher` |

Modules meet where the code does: a whole `index_file()` is a start and an end in
`IndexingTask`, a reading and a storing in `Watcher`, one step in `Settings`, and
what it consists of in `FileIndex`; the conversion and the embedding it calls are
`Conversion` and `ModelLifecycle`; who may call it at the same time is what
`IndexingTask` proves and `FileIndex` assumes.

### IndexingTask

Variables are the attributes of `IndexingTaskManager` (`tasks`, `cancelKeys`,
`threads`, `current` for `_tasks`, `_cancel_events`, `_threads`,
`_folder_to_task`; `event` for the events themselves, which a thread keeps when
their entry is deleted; `sem`; `paused`), the status records, the locals of each
worker (`scan`, `todo`, `file`, `seen`) and what each calling thread is doing
(`call`). A block under `self._lock` is one action; so is every stretch of a
worker between two points at which another thread can be noticed. `submit()` is
three actions (`Submit`, `StartThread`, `RegisterThread`) because it starts the
thread between two blocks; `cancel_folder_and_wait()` and the rest of
`remove_folder()` are `CancelAndWait`, `JoinReturns` and `RemoveData`. A worker
goes through `Run`, `Discover`, `ScanFile`, `Queue`, `Acquire`, the file loop and
`Finish`; `ScanFails`, `ScanCancelled`, `LoopCancelled` and `FileRaises` (whatever
`index_file()` raises outside its `try`: `stat()`, the look at the row, the reading for the
hash) are its error and early-return paths. `index_file()` is a start and an end here, with
the skips by mtime or hash; its steps are in `FileIndex`. The ten seconds of
`join()` are the choice between a thread that ended and one that did not.

### FileIndex

`lance`, `fts` and `rows` are the vector table, `chunks_fts` and `indexed_files`
as every thread sees them; `saved` is what SQLite committed last, for all
threads together. `disk` is the contents and mtimes of the files, `deletions`
the events the watcher has not delivered yet. A thread (`pc`, `job`) is an
indexing task, a watcher timer or observer, an HTTP thread or the startup thread;
`Works[w]` is what it indexes and removes. Each call into LanceDB or SQLite is one action;
the two statements of a transaction are separate because another thread's commit
can come in between, and a kill (`Crash`) after any of them. A file is read
twice by the code, for its hash (`Hash`) and for its text (`Read`), and twice by
the model. `Raise` is any exception inside the `try` of `index_file()`, `GiveUp`
one in maintenance. A startup comes in two forms: `Startup` goes to reconcile at once,
`StartupRechunks` has found other chunk settings and deletes all rows first, which
is what `clear_all_file_hashes()` does (`store_sqlite.py:195`). The history variable
`forgotten` has the files whose row such a startup or a retry dropped, while their chunks
stayed, until they get a row again. It is kept where no fault is on, which is where
`NothingWithoutARow` needs it.

A content is a number standing for bytes, its hash and its text at once
(SHA-256 is taken to be injective); every change of a file has its own mtime; a
chunk is its position, its text and who wrote it, so that a duplicate id can be
told apart. Chunk boundaries, embeddings and the text itself are left out: no
property here is about them.

### ModelDownload and ModelLifecycle

`embedder.py` and `reranker.py` have the same design, so one module describes
both; `kind` says which it is in a behaviour (a reranker loads from the hub
without the shared status). A thread goes through `_ensure_loaded()` (`Ensure`,
`LockTokenizer`, `LoadTokenizer`, `LockSession`, `LoadSession`), reads `_session`
twice (`Inputs`, `Run`), infers, and resets the timer in three statements that
read `_timer` anew each (`ResetTimer`, `CancelTimer`, `MakeTimer`, `StartTimer`).
`CheckIdleOrEnd` and `Unload` are the timer thread. Time is left out: a timer that
is not cancelled may fire whenever no inference began since it was made, and
`latest` remembers which one that is. `idleTimeout` says whether there is a timeout at all:
`_idle_timeout` is 0 on every GPU machine, `_reset_idle_timer()` then returns at once, and
the model stays. `ModelDownload` has a step for each way out
of `download_with_timeout()`, for what the abandoned thread does later
(`OrphanEnds`), and for the check-then-set of a poll (`PollBegins`, `PollEnds`).

### Conversion

One caller, its process with the two queues, and what can go wrong with either:
the process dies, hangs (it need not go on), answers late or over its memory
threshold. A restart is a stop and a start; queues belong to the process they
were made with, and a caller waits on the queue it has read from the attribute.
In thread mode the converter is a global that abandoned threads (`strays`) and
`reset_converter()` write.

### Watcher

A file has a version; observers have queues of events, timers are reused once
they are dead. `_schedule` cancels and replaces the timer of a path under the
lock, `_do_index` pops whatever timer is there (`PopAndRead`), a deletion handler
cancels under the lock and removes from the index without. `read` is what was
read last and is the yardstick of the liveness property.

### Settings

`save()` is a write of a temporary file, an unlink and a rename, each of which
may fail or be the last one before a kill; a request loads, changes and saves
without a lock. A server takes its configuration once; its startup thread compares it with
the metadata (`Check`), stores it key by key, each with a commit of its own
(`SetMetadata`), clears the hashes if the chunk settings differed (`Clear`) and goes on
(`Resume`), also when any of that raises (`CheckFails`: `http.py:145` logs it). `POST
/repair` ends with the same comparing and storing, and clears nothing (`RepairChecks`).
The index is one document with the settings it was indexed with. The history variable
`lost` has the parts of the settings, model or chunking, whose change such a check did not
carry through; a completed clearing takes "chunking" out again, a check that warns "model",
a rebuild whatever is stored as the server has it.

### Singletons

A thread has a stack of getters. Each looks without the lock, gets what it needs,
takes the reentrant lock, looks again, assigns, initialises and returns; which
getters are called before and inside the lock is in `Before` and `Inside`. The
startup thread, `POST /folders`, `PUT /config` and a search are the four lists in
`Wants` of the instance.

### Ephemeral

A folder has a directory (absent, empty, indexed, partly removed) and perhaps an
entry; requests of both processes create, index, register, remove, deregister,
prune and open in steps between which any other may come, fail, or be killed.

### Chunking and Ranking

Functions, written with the folds of the community modules. Words are numbers,
so a chunk is a sequence of positions in the text and "lost", "out of order" and
"under the wrong heading" can be said exactly; sizes count words. Scores are
integers with a scale. `MCText` grows a text line by line and two hit lists hit by
hit, so that every text and every pair of lists within the bounds is one state.

## 3. What is checked

All runs finish in under three minutes with two workers.

| run | instance | properties | what it shows |
|---|---|---|---|
| `task_registry` | 1 folder, 1 file, 2 task ids, 2 callers | `OneUncancelledTaskPerFolder`, `RunningIsAlive`, `OneSlot`, `ImplementsOneWriter` | every order of two API threads' calls against two workers |
| `task_files` | 2 files (one keyword-only), 2 tasks, 1 edit or deletion | `TypeOK`, `CompletedReportsEveryFile`, `PauseStopsAfterOneFile` | files that change between scan and turn, or raise, with and without model, paused at any point: a completed task accounts for all it discovered |
| `task_liveness` | 1 folder, 2 tasks, 1 caller, 1 edit or deletion, fairness | `CancelledHolderEnds`, `ShutdownEndsAll`, `EveryTaskEnds` | nobody waits for ever |
| `index_crash` | 2 files (Markdown, keyword-only), 3 contents (2, 0 and 1 chunks, batch of 1), 3 changes; 1 thread with startup (same or other chunk settings) and retry, kills and failing statements anywhere; for a while 2 threads on a file each | `TypeOK`, `IndexedIsSearchable`, `KeywordOnlyIsFound` | the order of the writes survives any interruption, and so does a transaction two threads share |
| `index_maintenance` | 2 files, 1 thread doing everything in any order, forced indexing included | `IndexedIsInKeywordSearch`, `NothingWithoutARow` | both indexes agree; everything can be removed but the chunks of files whose row was dropped to have them indexed again |
| `models` | 2 inference threads with 2 timers, failing loads and inferences, with or without idle timeout; or 2 HTTP threads with 2 models | `LoadsOnlyOnce`, `QuietIsNotDownloading`, `CachedIsThere`, `EveryCallEnds`, `IdleUnloads` | timers without a lock keep no idle model in memory, the shared status settles |
| `conversion` | 1 caller, 2 files, 3 process objects, both workers | `AnswerIsForFile`, `OneProcess`, `ConverterStays`, `EveryConversionEnds` | a late or lost answer is never taken for another |
| `watcher` | 1 folder, 2 requests, 2 observers, 2 timers, 2 versions | `AddedIsWatched`, `LastChangeIsRead` | whatever debouncing cancels or drops, the last change is read |
| `settings` | 2 requests, 3 starts, 2 models, 2 chunk settings | `ConfigIsWhole`, `OldChunksAreReindexed`, `OtherModelIsReported` | kills and failing checks anywhere, repairs and rebuilds in between; a change of settings reaches old documents after any restart unless a check lost it |
| `singletons` | 4 threads with the getters they really call, 1 reset | `OneOfEach`, `EveryGetterReturns` | double-checked locking inside itself |
| `ephemeral` | 2 requests, 2 folders | `IndexIsListed`, `ListedIsKept` | directory and entry stay together, within the limits the property names |
| `text` | texts of up to 6 lines of 6 kinds; pairs of lists over 4 chunks of 2 documents, limits 1 to 4, with reranker, diversity or both | `OnlyTheTailIsLost`, `ChunkIsAPassage`, `PathIsWhereItBegins`, `FusionRespectsBoth`, `BestComesFirst`, `ScoresDescend`, `RelatedIsFull` | cutting and ranking against what their results must be |

Bounds and why they are enough. Two tasks and two callers are what it takes for a
submission to supersede, for a cancellation to meet a half-finished submission
and for one worker to queue behind another; a third of either adds no new pair,
and the theorems cover any number. Two files are what it takes for a pause or a
deletion to come between two of them and for one thread's commit to touch
another's file. Three changes allow new, changed and changed-while-indexed; a
content with more chunks than a batch and one with fewer chunks than its
predecessor are what stale chunks need. Two timers are what it takes for one to
be replaced while it fires, two observers for a folder to be watched twice, two
versions for a file to change after it was read (`MaxVersions` are told apart at
a time and reused, `MaxEvents` of one folder wait at once: more of the same kind
only repeat what is there). Three process objects allow a dead, a stopped and a
new one (`Procs`). Three starts (`MaxStarts`) allow a change of settings to be
noticed, undone and noticed again; the theorems cover any number. `settings` has no
folders: they are data that a request carries beside the settings, nothing branches on them, and
a set of them multiplies the states of a run that has seven million. Six lines make
a document of three headings with text under each, which merging, splitting and
overlap all meet; four hits are more than the limit, the reranker's share and the
cap per document. `SYMMETRY` is used in runs of safety properties only.

Each property has a mutant in `PROJECT.json`: a plausible slip in one
definition (a variant that stands before it in the module) with which TLC finds
the property violated.

`CHECK_DEADLOCK FALSE` stands where a system that has used up its bounds may
stop: the index with its clock at the bound and nothing missing, the settings
when all starts are used, the singletons when every thread has what it wanted,
the watcher when it was stopped, the text when it has grown to its bound.

Fairness. `IndexingTask`: each worker thread that can run does run, and a call
that was begun goes on. Python threads are scheduled by the system and hold no
lock for long, and `Acquire` of a semaphore with one waiting thread at a time
needs no more than weak fairness. `ModelLifecycle`: threads run and get a lock
that is free again and again (strong fairness, since loading and unloading keep
taking it); a started timer fires. `Conversion`: the caller alone is fair, since
its timeout is a step of its own; the process need not answer. `Watcher`:
observer and timer threads run. `Singletons`: threads run; the reentrant lock is
asked for by a thread that finds it free again and again, and every thread wants
finitely much. Nowhere is it assumed that anybody calls, resumes, or leaves files
alone.

Three instances narrow the behaviours on purpose. `MCFileIndexApart` (an
action constraint) lets a second thread work only beside one that indexes the other
file, while no statement raises in a transaction the two share.
`MCWatcher` leaves out a user who
adds and removes one folder at the same time. The fault "lookup" (a lookup in LanceDB that
fails silently) is off in all runs. Some properties leave out, by a history
variable, what the code does not live up to: `IndexIsListed` and `ListedIsKept`
two requests that look at one folder at the same time and index requests that die
before they register (`overlapped`), `NothingWithoutARow` files whose row was dropped to
have them indexed again (`forgotten`), `OldChunksAreReindexed` and `OtherModelIsReported`
changes that a check lost (`lost`), `IdleUnloads` an inference that raised
(`raised`). What happens there is in the next section.

### Where the code disagrees with what it says, or with what one expects

Seen while modelling; most can be reproduced by widening an instance (another
caller, another fault) or a property, and none is in a run.

*Tasks and index.* `DELETE /folders` with `remove_data` (`http_routes.py:247`) waits
at most ten seconds for the worker, or not at all when `submit()` has not
registered the thread yet, ignores the answer and deletes: the worker writes
again. A file deleted between scan and turn ends its whole task as failed, where
`indexing_task.py:504` says "let index_file handle it": the `stat` at
`indexer.py:191` is outside the `try`. `POST /rebuild` under a running
`index_file()` leaves a row that says "indexed" over an empty table.
`upsert_chunks()` is called idempotent (`store.py:176`) and is not when two
threads store one file. The full-text rows of a deleted keyword-only file stay
(`store.py:244`), and repair (`startup.py:273`) loses those of existing ones for
good. With failing statements two writers on one connection can make an
"indexed" row durable whose chunks were rolled back. A forced submission does not
force (`indexing_task.py:553`); `cancel_folder()` answers None where False is
documented (217); a thread that ends before it is registered stays in `_threads`
(196); `get_status()` of a superseded task answers None where a test expects
"cancelled" (178). A file that changes while it is indexed and then gets its
earlier content back is skipped with the wrong chunks (`indexer.py:210`, `Reverts =
TRUE`); a kill during a forced indexing of an unchanged file leaves it without
chunks and up to date (`indexer.py:316`, `TRUE \in Forces` with "crash"), and so
does a kill between the two deletions of `remove_files_for_folder()`; chunks
without a row after a kill are invisible to `reconcile()` (`store.py:424`); a startup with
other chunk settings deletes all rows (`http.py:136`, `store_sqlite.py:195`), and the chunks
of a file that is gone by then, or goes before it is indexed again, stay searchable for
good, since `reconcile()` and `remove_folder()` start from the rows; so do those of a
failed file that is retried and gone (`store_sqlite.py:223`); a file
that becomes blank keeps its old chunks (`indexer.py:294`);
`migrate_fts_schema_if_needed()` compares an upper-case needle with lower-cased
text (`startup.py:191`), so it never migrates.

*Models.* The embedder is documented as thread-safe (`embedder.py:57`), but the
session can be unloaded between `_ensure_loaded()` and its use, which raises
(`Inputs`, `Run`), and an inference that raises leaves the model in memory without a timer,
until the next one (`raised`). On a GPU no idle model is unloaded, on purpose
(`embedder.py:87`), although the class promises it without that condition.

*Conversion.* With two callers (a task and a watcher timer) answers are mixed and
`_get_converter()` can return None (`markitdown_parser.py:38`).

*Watcher.* A fired timer pops a newer one (215), so that two timers of one file
are armed and two `index_file()` of it overlap, where the older version can be
stored last; a pending timer of a removed folder indexes after its data was
removed; `start()` watches the folders the server was started with, also one that
was removed since, and not the changes made before the first `POST /folders`
after a restart; two requests that start it at once, or add one folder, leak an
observer; `stop()` cancels timers before it stops observers; a moved file is
neither indexed nor removed (257).

*Settings.* Between unlink and rename (`config_manager.py:109`) a kill, a failing
rename or a load of another request loses all settings, where the docstring says
"atomically"; requests overwrite each other's changes; `PUT /config` with another
model re-indexes with the old one, and the next start warns once and stores the
new metadata over the old vectors. `check_index_compatibility()` says that it "clears file
hashes to force a full re-index" (`startup.py:50`); it does not, it stores the new settings
and leaves the clearing to the startup (`http.py:136`). So old chunks stay for good after a
kill between the two, after an exception there, which `http.py:145` swallows, and after a
`POST /repair` before the check of the start, which stores the new settings and
ignores the answer (`startup.py:294`). An exception before the warning leaves
another model unreported until the next start, and for good if something stores the new
settings by then (all `lost`).
`IndexMetadata.clear()` is "used during index rebuild" (`index_metadata.py:93`) and has no
caller.

*Singletons.* The store is published before it is initialised (`http.py:198`);
`get_engine()` and `get_indexer()` may return None after a reset; the ephemeral
registry is made without the lock; the watcher keeps the old indexer after a
reset; shutdown misses what the startup thread creates later.

*Ephemeral indexes.* A search re-creates a directory the user removed; index and
clean-up, prune and index, search and clean-up of one folder leave a directory
nobody lists; an index request that dies before it registers leaves one too; an
index request over unchanged files registers zero chunks
(`ephemeral_registry.py:75`); on Windows the MCP process's open store blocks the
removal.

*Ranking and chunking.* Filters by type and folder come after the limit and leave
gaps in the ranks; in a query without vector hits and more candidates than are
reranked the tail keeps raw BM25 scores, which diversity then puts first; without
diversity (`mmr_enabled`, `search.py:296`) the tail keeps the scores of fusion, which may be
above those of the reranked hits before it; a section below `min_chunk_length` is dropped
anywhere, not at the end only, when `chunk_min_words` is set so low that it is not merged
(`config.py:31`); chunks
exceed `chunk_max_words` by a merged beginning or a long sentence; merging a
short first part repeats the overlap; a heading without text gives its path to
the next; a one-heading text of over 1000 characters loses its path; a short last
chunk is dropped.

*Desktop shell* (read, not modelled). `kill_sidecar_by_name()` says that it skips MCP
servers (`lib.rs:582`), but compares nothing except the path, which they share; the
health monitor (867) is never told that the user quits.

## 4. What is proved

With TLAPS, for all constants that satisfy the named assumptions of the modules.
Each theorem follows the same argument: an inductive invariant `IInv` that
implies the property, `InitInv`, one lemma per action or group of actions, and
`PTL` for the last step.

`IndexingTask_proofs`: `Invariance`, from it `TypeCorrect`,
`AtMostOneUncancelled`, `SlotIsHeldOnce`, `NoZombieStatus`, and `Refinement`
(every behaviour implements `OneWriter`). `IInv` adds to the properties what ties
them to the registries: the id a caller is starting is a created thread nobody
else starts; a registered folder's task is in `_tasks` and `_cancel_events` and
works on that folder; an id not drawn yet is in no registry. `OneSlot` needs
`MaxConcurrent = 1`, which is proved first for every amount of memory and every
number of processors. `EveryFileReported` (`CompletedReportsEveryFile`): until a
counter has it, a file that the discovery promised (`Promised`: all of them, or those that
need no model once the task was found to have none, `unready`) is on one of the lists of its
worker (`Pending`), and only the worker of a task writes the counters of its entry
(`NobodyElseReports`), so none is lost when a pass ends (`Accounts`).
`PausedManagerStops` (`PauseStopsAfterOneFile`): to begin a file a worker stands in
its loop with the slot, and the one that has begun since the pause is still busy
with its file or waits in the gate, with that slot (`LateInv`), so there is no second.

`FileIndex_proofs`: `TypeCorrect`, without any further assumption, and two groups
of theorems, with kills and without.

*With kills.* `IndexedStaysSearchable` (`IndexedIsSearchable` of every reachable
state) holds under `PlainUse` and `[]ClaimsApart`: indexing, startup and retry are
what happens, contents do not come back, indexing is not forced and lookups in
LanceDB answer truly (a startup may find other chunk settings); and at no time do two threads claim one file, where a thread
claims the file it is at work on and those on its list. The tasks satisfy that
among themselves, since one at a time holds the semaphore (`SlotIsHeldOnce`), and
the startup submits folders only when its maintenance is over; a watcher timer of
the same file need not. Kills and failing statements may come anywhere,
and files change and vanish at any time. (A removal is left out because a kill
between its two deletions leaves an up-to-date row over an empty table.) The
inductive invariant (`Invariance`)
has three parts per thread: hashes grow (`Grows`: the row of a file that is being
stored is behind the hash taken, that is not ahead of the text read, and that is
not ahead of the file, so an interrupted storing never looks finished); what the
vector table holds at each step of storing (`Stores`); and that startup removes
only files whose row is not up to date (`Maintains`). That hash and text come
from two readings is why the order of the three numbers is needed: the row is
right exactly when all three are equal. `KeywordOnlyStaysFound`
(`KeywordOnlyIsFound` of every reachable state) holds under the same hypotheses: `KInv` adds
that a keyword-only file has no vectors, so the backfill brings none (`NoVectors`),
that its full-text row is committed before its record is (`StoresWhole`), and that
with an up-to-date record it is in the last commit too (`FoundForGood`), which is
what a kill goes back to.

*Without kills.* When nothing fails, is killed or gets an earlier content back
(`Undisturbed`), every operation may happen, in any order: forced indexing,
removals, repair, rebuild. As long as threads that run at the same time have
different files, and who is in a step on all files (drop, backfill, rebuild,
clearing the hashes) is alone (`FilesApart`), `IndexedStaysSearchableApart`,
`IndexedStaysInKeywordSearch` (`IndexedIsInKeywordSearch`) and
`NothingStaysWithoutARow` (`NothingWithoutARow`) hold of every reachable
state. The last one says which rows are missing: only those a retry of
failed files or a startup with other chunk settings dropped (`forgotten`), while all else
may happen before and after. Their inductive
invariant is `MInv` (`InStepInvariance`): a file nobody works on has the same chunks
in both tables, or none, a true row if it is up to date, and a row if it has
chunks (`Settles`); for a thread inside `index_file()` or a removal,
`StagesOfFile` says how far both tables are at each step, and `StagesOfAll` the
same of the steps on all files, where what the backfill read must still be what
the vector table holds when it writes. `Framed` (a step of another thread leaves a
file alone) and `OneFile` carry it from one file to the other.

`SeparateWorksStayApart` shows who satisfies `ClaimsApart` and `FilesApart`: one
thread, whatever it does, and any number of threads with files of their own that
index, remove and retry.

`ModelLifecycle_proofs`: `OneLoad`, `StatusSettles` and `CachedIsReal`. Who loads
holds the lock (`LockIsHeld`); a status "downloading" belongs to a call that will
leave a final one (`DownloadIsInHand`), although other calls overwrite it
meanwhile; what was fetched or polled is on the disk (`FoundIsThere`).
`NoTimeoutNoUnload` is about a timeout of 0: no thread ever gets as far as a timer
(`NobodyUnloads`), so no step unloads a loaded model.

`Conversion_proofs`, for one caller: `AnswersAreForFiles`, `AtMostOneProcess`,
`ConverterIsKept`. `QueueInv` says where the one request is while it is waited
for (`Underway`), and that a process that goes on afterwards has nothing left to
convert, because one that had was stopped.

`Settings_proofs`: `NeverTorn`, `OldChunksReindexed`, `OtherModelReported`, for any
number of requests, restarts and settings. `ChunkingIsTraced` and `ModelIsTraced`
say, for each place of the startup thread, which record still tells what a
document was indexed with: the metadata between two servers, the metadata or the
server before the check, and what the check found between check and clearing. A check may
raise or be killed at any commit, and repairs check beside it: each such step either leaves
a record that tells, or puts the part of the settings into `lost` (`CheckFailsKeepsInv`,
`RepairKeepsInv`, `KillKeepsInv`), and `ClearKeepsInv` shows that "chunking" may leave it
again.

`Ephemeral_proofs`: `EveryIndexIsListed` and `ListedStays` (an action property),
for any number of folders and requests. `DeregisteredIsGone` and
`SearchedIsListed` are what requests know when they come to change the registry
or the directory, and why `overlapped` has to be left out.

`Singletons_proofs`: `BuiltOnce`, for any number of threads, requests and resets. The
getters' calls go down (`Rank`), so no getter is called inside itself
(`CallsDescend`); `depth` is the number of frames of the owner that hold the lock,
and others have none (`LockIsCounted`); hence what its owner saw missing nobody
else assigns (`MissingUnderTheLock`), and each assignment but the first has a reset
before it (`AssignedOrReset`).

`Watcher_proofs`: `TypeCorrect`, and `AddedStaysWatched` (`AddedIsWatched`, under
`Apart`: nobody adds and removes one folder at the same time), for any folders,
requests, observers and timers. Until the server has stopped the map names an
observer of the folder itself (`MapIsTrue`), so ending one folder's observer, or
starting others, leaves the rest watched; and nobody calls while it stops
(`NobodyCallsIntoStop`).

*Towards liveness.* That something eventually happens rests on fairness, and ENABLED
is out of the prover's reach, so the liveness properties stay with TLC. What they
need besides fair threads is of two kinds, and is proved for all constants: a number
that every step of a thread lowers and no step of another raises, so a thread that
goes on ends; and that at each moment somebody still has it in hand. TLC
finds no counterexample to any of them on instances like those of the runs.

- `TasksRunOut` (for `EveryTaskEnds`): a worker with n files to scan and m to index
  has `StepsLeft`, which its own steps lower and nobody else's change, not an edited
  file, a pause, a removal or another submission of its folder. It assumes that there are
  finitely many files, which the module itself need not say. `NoWorkerIsStuck`:
  the only waits are for the slot and at the pause, and the holder of the slot
  goes on unless the manager is paused and nobody told that holder to stop.
  `ShutdownReaches` (for `ShutdownEndsAll`): `shutdown()` sets the event of every
  worker there is. It sets only those still in `_cancel_events`, so this needs
  `OneUncancelledTaskPerFolder`: whoever was displaced from there has its event set.
- `IdleModelHasTimer` (for `IdleUnloads`): with an idle timeout, while a model is loaded and every thread is
  idle, the embedder's timer is there, is the latest one made, and will fire. The
  invariant follows the threads too (`UnloadIsInHand`: one that will make a timer, start
  the one it made, or is about to cancel one counts), and `TimerIsLatest` says that no
  timer but the latest is ever kept, so cancelling one and making another leaves one.
- `NoChangeIsLost` (for `LastChangeIsRead`): in a watched folder, until the server stops,
  a file that differs from what was last read has an event with an observer, a
  deletion under way, or a timer that has yet to read (`ChangeIsInHand`). It needs that
  the map names true observers (`MapIsTrue`), that the last event of an observer tells
  what is on the disk (`LastEventIsTrue`), that an index cleared late, of a file that
  is there again, is not the last to hear of it (`DeletedOrTold`), and that the timer of
  a file in the dictionary has not begun to read (`TimersWait`). It does not need
  `Apart`.
- `CallsRunOut` and `NobodyLockedOut` (for `EveryGetterReturns`): each getter has a price
  nine times that of the getters below it in rank, so the work before a thread (`Work`, over
  its stack and the calls it has not begun) falls with every step of it and never
  with a step of another, through re-entrant calls and resets; and whoever waits for
  the lock waits for a thread that is in a call and waits for nothing itself.
- `EveryConversionRunsOut` (for `EveryConversionEnds`): a `convert()` has a bounded
  number of steps, retries and restarts included, whatever processes do and, unlike
  the other theorems of `Conversion_proofs`, for any number of callers.

Only model-checked. The liveness properties as such (`CancelledHolderEnds`,
`ShutdownEndsAll`, `EveryTaskEnds`, `EveryCallEnds`, `IdleUnloads`,
`EveryConversionEnds`, `LastChangeIsRead`, `EveryGetterReturns`), for the reason
given. The seven properties of
`text`: `Chunking` and `Ranking` are folds over sequences, and what a fold computes
for every input needs an induction over data, which the prover cannot do; `text` checks
them exhaustively within its bounds. Every other property of a run is proved.

## 5. Plan

1. `Sidecar`: the health monitor of the desktop shell (`lib.rs:867`) against start,
   stop and restart by the user; at most one server runs and none after stop.
2. Two folders in `Watcher`, and its composition with `FileIndex` instead of a
   reading and a storing.
3. The model watcher of `indexing_task.py`, when something besides tests starts it.

## 6. Not modelled

MCP formatting and client, the command line, query rewriting, reading of notes,
statistics, installation and packaging are sequential input and output over the
operations above. The desktop user interface renders what it polls. Routes that
only read are left out. Inside the modelled components: which provider a session
gets, batching and the arithmetic of embeddings; logging and progress; frontmatter
and the title prefix of chunks; the steps of the hub library between its first
and its last file; the ten seconds, five minutes and idle times, which are
choices between "ended" and "not yet".
