------------------------------ MODULE FileIndex ------------------------------
(***************************************************************************)
(* One document index (smart_search/store.py, store_sqlite.py) and the     *)
(* threads that write it: index_file() of indexer.py step by step, the     *)
(* removal of files that are gone, startup, repair and rebuild.            *)
(*                                                                         *)
(* LanceDB keeps what it is given at once.  SQLite (full-text rows and     *)
(* indexed_files) is one connection shared by all threads: a statement is  *)
(* seen by all of them when it was executed, and any thread's commit makes *)
(* it durable.  A crash leaves LanceDB and the last commit.                *)
(***************************************************************************)
EXTENDS Naturals, FiniteSets

CONSTANTS
  Files,
  Type,         \* Type[x] \in {"md", "binary", "keyword"}, by extension
  Contents,     \* what a file can contain; its SHA-256 stands for it exactly
  ChunkCount,   \* ChunkCount[c] = chunks made of content c; 0: blank
  BatchSize,    \* UPSERT_BATCH_SIZE
  Writers,      \* threads: indexing tasks, watcher timers and observers, HTTP
  Works,        \* Works[w] = the files thread w indexes or removes
  MaxClock,     \* bound on the changes made to files
  Forces,       \* the values of index_file(force) tried
  Ops,          \* the other operations that happen, a subset of
                \* {"delete", "folder", "startup", "rechunk", "repair",
                \* "rebuild", "clear"}
  Faults,       \* subset of {"crash", "store", "lookup"}: the process may be
                \* killed; a statement of LanceDB or SQLite may raise; a lookup
                \* or a delete by id in LanceDB may fail, which is passed over
  Reverts,      \* whether a file may get a content back that it had before
  NoFile

ASSUME ConstantsAssumption ==
  /\ Type \in [Files -> {"md", "binary", "keyword"}]
  /\ Contents \subseteq Nat \ {0}
  /\ ChunkCount \in [Contents -> Nat]
  /\ BatchSize \in Nat \ {0}
  /\ Works \in [Writers -> SUBSET Files]
  /\ MaxClock \in Nat \ {0}
  /\ Forces \subseteq BOOLEAN /\ Reverts \in BOOLEAN
  /\ NoFile \notin Files

VARIABLES
  disk,      \* what is at each path: .content (0 at first), .mtime, .exists
  clock,     \* number of contents put into files
  deletions, \* files whose deletion the watcher has not been told of yet
  lance,     \* lance[x] = chunks in the vector table with source_path x
  fts, rows, \* chunks_fts and indexed_files, as the shared connection sees them
  saved,     \* both as of the last commit
  forgotten, \* history, kept where Faults = {}: files whose row a retry or a startup with
             \* another chunk configuration dropped, and their chunks not, and that got no
             \* row since
  booting,   \* the startup thread of this process has not begun
  pc, job    \* where each thread stands, and its locals

sqlite == <<fts, rows, saved, forgotten>>
world  == <<disk, clock, deletions, booting>>
vars   == <<world, lance, sqlite, pc, job>>

\* A chunk: its id is a hash of path and position, .by tells apart two physical
\* rows with the same id.  The one full-text row of a keyword-only file has an
\* id of its own, drawn anew each time: 0.
Chunk == [id : Nat, text : Contents, by : Writers]
Chunks(c, w) == {[id |-> i, text |-> c, by |-> w] : i \in 1..ChunkCount[c]}
WholeFile(c, w) == {[id |-> 0, text |-> c, by |-> w]}

NoRow == [status |-> "none", hash |-> 0, mtime |-> 0, count |-> 0]
Row == [status : {"indexed", "failed"}, hash : Contents, mtime : 1..MaxClock,
        count : Nat]
Job == [file : Files \union {NoFile}, mtime : 0..MaxClock,
        hash : Contents \union {0}, text : Contents \union {0}, added : Nat,
        force : BOOLEAN, todo : SUBSET Files, then : {"idle", "startup", "repair"},
        copy : SUBSET (Files \X Chunk)]
NoJob == [file |-> NoFile, mtime |-> 0, hash |-> 0, text |-> 0, added |-> 0,
          force |-> FALSE, todo |-> {}, then |-> "idle", copy |-> {}]

Storing == {"delete", "deleteFts", "upsertDelete", "upsertDeleteFts", "add",
            "insert", "ftsDelete", "ftsInsert", "record"}
Maintaining == {"reconcile", "pick", "remove", "removeFts", "removeRow", "drop",
                "backfill", "copy", "rebuild", "clearAll"}
Indexing == {"check", "hash", "compare", "touch", "read", "fail"} \union Storing

Missing == {x \in Files : rows[x] # NoRow /\ ~ disk[x].exists}

TypeOK ==
  /\ disk \in [Files -> [content : Contents \union {0}, mtime : 0..MaxClock,
                         exists : BOOLEAN]]
  /\ clock \in 0..MaxClock /\ deletions \subseteq Files
  /\ lance \in [Files -> SUBSET Chunk]
  /\ fts \in [Files -> SUBSET Chunk]
  /\ rows \in [Files -> Row \union {NoRow}]
  /\ saved \in [fts : [Files -> SUBSET Chunk], rows : [Files -> Row \union {NoRow}]]
  /\ forgotten \subseteq Files /\ booting \in BOOLEAN
  /\ pc \in [Writers -> {"idle"} \union Indexing \union Maintaining]
  /\ job \in [Writers -> Job]

Empty == [x \in Files |-> {}]
NoRows == [x \in Files |-> NoRow]

Init ==
  /\ disk = [x \in Files |-> [content |-> 0, mtime |-> 0, exists |-> FALSE]]
  /\ clock = 0 /\ deletions = {}
  /\ lance = Empty /\ fts = Empty /\ rows = NoRows
  /\ saved = [fts |-> Empty, rows |-> NoRows]
  /\ forgotten = {} /\ booting = TRUE
  /\ pc = [w \in Writers |-> "idle"]
  /\ job = [w \in Writers |-> NoJob]
-----------------------------------------------------------------------------
Goto(w, from, to) == pc[w] = from /\ pc' = [pc EXCEPT ![w] = to]

\* A thread is done: its locals go.
Done(w) == job' = [job EXCEPT ![w] = NoJob]

\* The statements executed leave f and r, and the transaction is committed; the rows of
\* the files in S are dropped to have them indexed again.
CommitForgetting(f, r, S) ==
  /\ fts' = f /\ rows' = r /\ saved' = [fts |-> f, rows |-> r]
  /\ forgotten' =
      {x \in forgotten \union S : Faults = {} /\ r[x] = NoRow /\ lance[x] # {}}

Commit(f, r) == CommitForgetting(f, r, {})

Recorded == {x \in Files : rows[x] # NoRow}
-----------------------------------------------------------------------------
(* index_file().  Some definitions are preceded by a variant with a slip,   *)
(* named after it; no specification uses the variants: they show that a     *)
(* property notices.                                                        *)

\* stat().  A path that is gone raises, and nothing was done.
Stat(w, x, force) ==
  /\ Goto(w, "idle", IF force THEN "hash" ELSE "check")
  /\ x \in Works[w] /\ disk[x].exists
  /\ job' = [job EXCEPT ![w] = [NoJob EXCEPT !.file = x, !.force = force,
                                             !.mtime = disk[x].mtime]]
  /\ UNCHANGED <<world, lance, sqlite>>

\* is_file_unchanged(): mtime and size as recorded, whatever the status.
Unchanged(w) ==
  /\ Goto(w, "check", "idle")
  /\ rows[job[w].file].mtime = job[w].mtime
  /\ Done(w)
  /\ UNCHANGED <<world, lance, sqlite>>

Changed(w) ==
  /\ Goto(w, "check", "hash")
  /\ rows[job[w].file].mtime # job[w].mtime
  /\ UNCHANGED <<world, lance, sqlite, job>>

\* _compute_file_hash(), still outside the try: open() may raise.
Hash(w) ==
  /\ pc[w] = "hash"
  /\ LET d == disk[job[w].file] IN
     IF d.exists
     THEN /\ Goto(w, "hash", IF job[w].force THEN "read" ELSE "compare")
          /\ job' = [job EXCEPT ![w].hash = d.content]
     ELSE Goto(w, "hash", "idle") /\ Done(w)
  /\ UNCHANGED <<world, lance, sqlite>>

\* is_file_indexed(): the hash as recorded, whatever the status.
Compare(w) ==
  /\ Goto(w, "compare",
          IF rows[job[w].file].hash = job[w].hash THEN "touch" ELSE "read")
  /\ UNCHANGED <<world, lance, sqlite, job>>

TouchUpserts(w) ==
  LET x == job[w].file IN
  /\ Goto(w, "touch", "idle")
  /\ Commit(fts, [rows EXCEPT ![x].mtime = job[w].mtime])
  /\ Done(w)
  /\ UNCHANGED <<world, lance>>

\* update_file_metadata(): only the new mtime, if the row is still there.
Touch(w) ==
  LET x == job[w].file IN
  /\ Goto(w, "touch", "idle")
  /\ Commit(fts, IF rows[x] = NoRow THEN rows
                 ELSE [rows EXCEPT ![x].mtime = job[w].mtime])
  /\ Done(w)
  /\ UNCHANGED <<world, lance>>

\* The file is read again: as text for the full-text index, or converted,
\* chunked and (time passes) embedded.  Blank files go straight to their record.
Read(w) ==
  LET x == job[w].file
      c == disk[x].content
  IN
  /\ pc[w] = "read" /\ disk[x].exists
  /\ Goto(w, "read", IF ChunkCount[c] = 0
                     THEN IF Type[x] = "binary" THEN "fail" ELSE "record"
                     ELSE IF Type[x] = "keyword" THEN "ftsDelete" ELSE "delete")
  /\ job' = [job EXCEPT ![w].text = c]
  /\ UNCHANGED <<world, lance, sqlite>>

FtsDeleteById(w) ==
  /\ Goto(w, "ftsDelete", "ftsInsert")
  /\ UNCHANGED <<world, lance, sqlite, job>>

\* insert_fts_only(): two statements, one commit.
FtsDelete(w) ==
  /\ Goto(w, "ftsDelete", "ftsInsert")
  /\ fts' = [fts EXCEPT ![job[w].file] = {}]
  /\ UNCHANGED <<world, lance, rows, saved, forgotten, job>>

FtsInsert(w) ==
  /\ Goto(w, "ftsInsert", "record")
  /\ Commit([fts EXCEPT ![job[w].file] = @ \union WholeFile(job[w].text, w)],
            rows)
  /\ UNCHANGED <<world, lance, job>>

\* delete_chunks_for_file(): the full-text rows only when LanceDB had some, which
\* a lookup that fails quietly (get_chunks_for_file() returns []) denies.
LanceDeleteFindsNothing(w, x, found, none) ==
  /\ pc' = [pc EXCEPT ![w] = none]
  /\ UNCHANGED lance

LanceDelete(w, x, found, none) ==
  \/ /\ lance[x] # {}
     /\ pc' = [pc EXCEPT ![w] = found]
     /\ lance' = [lance EXCEPT ![x] = {}]
  \/ /\ lance[x] = {} \/ "lookup" \in Faults
     /\ pc' = [pc EXCEPT ![w] = none]
     /\ UNCHANGED lance

FtsKeptFor(x) == Commit(fts, rows)

FtsDeleteFor(x) == Commit([fts EXCEPT ![x] = {}], rows)

Delete(w) ==
  /\ pc[w] = "delete"
  /\ LanceDelete(w, job[w].file, "deleteFts", "upsertDelete")
  /\ UNCHANGED <<world, sqlite, job>>

DeleteFts(w) ==
  /\ Goto(w, "deleteFts", "upsertDelete")
  /\ FtsDeleteFor(job[w].file)
  /\ UNCHANGED <<world, lance, job>>

\* upsert_chunks(): out with the chunks of the same ids (a failing delete of
\* LanceDB is logged and passed over), in batch by batch, a commit at the end.
WithoutIds(S, n) == {r \in S : r.id \notin 1..n}

UpsertDelete(w) ==
  LET x == job[w].file IN
  /\ Goto(w, "upsertDelete", "upsertDeleteFts")
  /\ \E kept \in IF "lookup" \in Faults THEN SUBSET lance[x] ELSE {{}} :
       lance' = [lance EXCEPT ![x] = WithoutIds(@, ChunkCount[job[w].text])
                                       \union kept]
  /\ UNCHANGED <<world, sqlite, job>>

UpsertDeleteFts(w) ==
  LET x == job[w].file IN
  /\ Goto(w, "upsertDeleteFts", "add")
  /\ fts' = [fts EXCEPT ![x] = WithoutIds(@, ChunkCount[job[w].text])]
  /\ UNCHANGED <<world, lance, rows, saved, forgotten, job>>

Add(w) ==
  LET x == job[w].file
      next == job[w].added + BatchSize
      batch == {r \in Chunks(job[w].text, w) : job[w].added < r.id /\ r.id <= next}
  IN
  /\ Goto(w, "add", IF next >= ChunkCount[job[w].text] THEN "insert" ELSE "add")
  /\ lance' = [lance EXCEPT ![x] = @ \union batch]
  /\ job' = [job EXCEPT ![w].added = next]
  /\ UNCHANGED <<world, sqlite>>

Insert(w) ==
  /\ Goto(w, "insert", "record")
  /\ Commit([fts EXCEPT ![job[w].file] = @ \union Chunks(job[w].text, w)], rows)
  /\ UNCHANGED <<world, lance, job>>

RowOfRehashed(w, status, count) ==
  [status |-> status, hash |-> disk[job[w].file].content,
   mtime |-> job[w].mtime, count |-> count]

\* record_file_indexed() with the mtime and the hash taken at the beginning.
RowOf(w, status, count) ==
  [status |-> status, hash |-> job[w].hash, mtime |-> job[w].mtime,
   count |-> count]

RecordIndexed(w) ==
  LET x == job[w].file
      made == IF Type[x] = "keyword" /\ ChunkCount[job[w].text] > 0 THEN 1
              ELSE ChunkCount[job[w].text]
  IN
  /\ Goto(w, "record", "idle")
  /\ Commit(fts, [rows EXCEPT ![x] = RowOf(w, "indexed", made)])
  /\ Done(w)
  /\ UNCHANGED <<world, lance>>

\* Anything inside the try raises: reading a file that is gone, the conversion,
\* the embedding (before the first step of storing), or a statement.
Raise(w) ==
  /\ \/ pc[w] \in {"read", "delete"}
     \/ pc[w] \in Storing /\ "store" \in Faults
  /\ pc' = [pc EXCEPT ![w] = "fail"]
  /\ UNCHANGED <<world, lance, sqlite, job>>

\* record_file_failed(); if that raises too, nobody hears of it.
RecordFailed(w) ==
  /\ Goto(w, "fail", "idle")
  /\ \/ Commit(fts, [rows EXCEPT ![job[w].file] = RowOf(w, "failed", 0)])
     \/ "store" \in Faults /\ UNCHANGED sqlite
  /\ Done(w)
  /\ UNCHANGED <<world, lance>>
-----------------------------------------------------------------------------
(* Removing files: the watcher on a deletion, remove_folder(), reconcile(). *)

Begin(w, at, S, then) ==
  /\ Goto(w, "idle", at)
  /\ job' = [job EXCEPT ![w] = [NoJob EXCEPT !.todo = S, !.then = then]]
  /\ UNCHANGED <<disk, clock, lance, sqlite>>

\* _handle_delete(): the event may come when the file is back again.
DeletionSeen(w, x) ==
  /\ x \in deletions /\ x \in Works[w]
  /\ deletions' = deletions \ {x}
  /\ Begin(w, "pick", {x}, "idle")
  /\ UNCHANGED booting

\* remove_files_for_folder(): the recorded files of a folder.
FolderRemoved(w) ==
  /\ "folder" \in Ops
  /\ Begin(w, "pick", {x \in Works[w] : rows[x] # NoRow}, "idle")
  /\ UNCHANGED <<deletions, booting>>

\* _run_startup_tasks(), the chunk configuration being unchanged: reconcile()
\* and backfill_fts_if_needed(); then it submits the folders.
Startup(w) ==
  /\ "startup" \in Ops /\ booting
  /\ booting' = FALSE
  /\ Begin(w, "pick", Missing, "startup")
  /\ UNCHANGED deletions

\* The same with another chunk configuration than the one stored: first
\* clear_all_file_hashes(), which deletes the rows and leaves the chunks.
StartupRechunks(w) ==
  /\ {"startup", "rechunk"} \subseteq Ops /\ booting
  /\ booting' = FALSE
  /\ Goto(w, "idle", "reconcile")
  /\ CommitForgetting(fts, NoRows, Recorded)
  /\ UNCHANGED <<disk, clock, deletions, lance, job>>

Reconcile(w) ==
  /\ Goto(w, "reconcile", "pick")
  /\ job' = [job EXCEPT ![w] = [NoJob EXCEPT !.todo = Missing, !.then = "startup"]]
  /\ UNCHANGED <<world, lance, sqlite>>

\* repair_index(): reconcile(), then a new full-text index made from LanceDB.
Repair(w) ==
  /\ "repair" \in Ops
  /\ Begin(w, "pick", Missing, "repair")
  /\ UNCHANGED <<deletions, booting>>

Pick(w) ==
  /\ \E x \in job[w].todo :
       /\ Goto(w, "pick", "remove")
       /\ job' = [job EXCEPT ![w].file = x, ![w].todo = @ \ {x}]
  /\ UNCHANGED <<world, lance, sqlite>>

Remove(w) ==
  /\ pc[w] = "remove"
  /\ LanceDelete(w, job[w].file, "removeFts", "removeRow")
  /\ UNCHANGED <<world, sqlite, job>>

RemoveFts(w) ==
  /\ Goto(w, "removeFts", "removeRow")
  /\ FtsDeleteFor(job[w].file)
  /\ UNCHANGED <<world, lance, job>>

RemoveRow(w) ==
  /\ Goto(w, "removeRow", "pick")
  /\ Commit(fts, [rows EXCEPT ![job[w].file] = NoRow])
  /\ job' = [job EXCEPT ![w].file = NoFile]
  /\ UNCHANGED <<world, lance>>

\* Startup fills an empty full-text index, repair drops it first.
AllRemoved(w) ==
  /\ pc[w] = "pick" /\ job[w].todo = {}
  /\ IF job[w].then = "repair" THEN Goto(w, "pick", "drop") /\ UNCHANGED job
     ELSE IF job[w].then = "startup" /\ fts = Empty
     THEN Goto(w, "pick", "backfill") /\ UNCHANGED job
     ELSE Goto(w, "pick", "idle") /\ Done(w)
  /\ UNCHANGED <<world, lance, sqlite>>

Drop(w) ==
  /\ Goto(w, "drop", "backfill")
  /\ Commit(Empty, rows)
  /\ UNCHANGED <<world, lance, job>>

\* backfill_fts(): the vector table is read, then its texts are inserted.
Backfill(w) ==
  /\ Goto(w, "backfill", "copy")
  /\ job' = [job EXCEPT ![w].copy = UNION {{x} \X lance[x] : x \in Files}]
  /\ UNCHANGED <<world, lance, sqlite>>

Copy(w) ==
  LET texts(x) == {[e[2] EXCEPT !.by = w] : e \in {e \in job[w].copy : e[1] = x}}
  IN
  /\ Goto(w, "copy", "idle")
  /\ Commit([x \in Files |-> fts[x] \union texts(x)], rows)
  /\ Done(w)
  /\ UNCHANGED <<world, lance>>

\* rebuild_table(): the vector table first, then everything in SQLite; POST
\* /rebuild, unlike PUT /config, goes on with clear_all_file_hashes().
Rebuild(w) ==
  /\ "rebuild" \in Ops
  /\ Goto(w, "idle", "rebuild")
  /\ lance' = Empty
  /\ UNCHANGED <<world, sqlite, job>>

RebuildSqlite(w) ==
  /\ \E next \in {"idle", "clearAll"} : Goto(w, "rebuild", next)
  /\ Commit(Empty, NoRows)
  /\ UNCHANGED <<world, lance, job>>

ClearAll(w) ==
  /\ Goto(w, "clearAll", "idle")
  /\ Commit(fts, NoRows)
  /\ UNCHANGED <<world, lance, job>>

\* POST /retry-failed: clear_failed_status().
ClearFailed ==
  /\ "clear" \in Ops
  /\ CommitForgetting(fts, [x \in Files |-> IF rows[x].status = "failed" THEN NoRow
                                            ELSE rows[x]], Recorded)
  /\ UNCHANGED <<world, lance, pc, job>>

\* A statement of a removal raises: logged by the watcher and by startup, an
\* error answer otherwise.
GiveUp(w) ==
  /\ "store" \in Faults /\ pc[w] \in Maintaining
  /\ pc' = [pc EXCEPT ![w] = "idle"]
  /\ Done(w)
  /\ UNCHANGED <<world, lance, sqlite>>
-----------------------------------------------------------------------------
(* Outside: files change, the process is killed and started again.          *)

Put(x) ==
  /\ clock < MaxClock /\ clock' = clock + 1
  /\ \E c \in Contents :
       /\ \/ Reverts \/ c > disk[x].content
          \/ disk[x].exists /\ c = disk[x].content
       /\ disk' = [disk EXCEPT ![x] = [content |-> c, mtime |-> clock + 1,
                                       exists |-> TRUE]]
  /\ UNCHANGED <<deletions, booting, lance, sqlite, pc, job>>

Vanish(x) ==
  /\ disk[x].exists
  /\ disk' = [disk EXCEPT ![x].exists = FALSE]
  /\ deletions' = IF "delete" \in Ops THEN deletions \union {x} ELSE {}
  /\ UNCHANGED <<clock, booting, lance, sqlite, pc, job>>

Crash ==
  /\ "crash" \in Faults
  /\ fts' = saved.fts /\ rows' = saved.rows
  /\ pc' = [w \in Writers |-> "idle"]
  /\ job' = [w \in Writers |-> NoJob]
  /\ booting' = TRUE /\ deletions' = {}
  /\ UNCHANGED <<disk, clock, lance, saved, forgotten>>
-----------------------------------------------------------------------------
IndexFile(w) ==
  \/ \E x \in Files, k \in Forces : Stat(w, x, k)
  \/ Unchanged(w) \/ Changed(w) \/ Hash(w) \/ Compare(w) \/ Touch(w) \/ Read(w)
  \/ FtsDelete(w) \/ FtsInsert(w) \/ Delete(w) \/ DeleteFts(w)
  \/ UpsertDelete(w) \/ UpsertDeleteFts(w) \/ Add(w) \/ Insert(w)
  \/ RecordIndexed(w) \/ Raise(w) \/ RecordFailed(w)

Maintain(w) ==
  \/ \E x \in Files : DeletionSeen(w, x)
  \/ FolderRemoved(w) \/ Startup(w) \/ StartupRechunks(w) \/ Reconcile(w) \/ Repair(w)
  \/ Pick(w) \/ Remove(w) \/ RemoveFts(w) \/ RemoveRow(w) \/ AllRemoved(w)
  \/ Drop(w) \/ Backfill(w) \/ Copy(w)
  \/ Rebuild(w) \/ RebuildSqlite(w) \/ ClearAll(w) \/ GiveUp(w)

Next ==
  \/ \E w \in Writers : IndexFile(w) \/ Maintain(w)
  \/ ClearFailed
  \/ \E x \in Files : Put(x) \/ Vanish(x)
  \/ Crash

Spec == Init /\ [][Next]_vars
-----------------------------------------------------------------------------
(* Properties.                                                              *)

\* By its row, x holds what was indexed: is_file_indexed() would answer True.
UpToDate(x) ==
  disk[x].exists /\ rows[x].status = "indexed" /\ rows[x].hash = disk[x].content

\* Thread w is changing what is stored for x, or all that is stored.
Busy(w, x) ==
  \/ job[w].file = x /\ pc[w] \in Storing \union {"fail", "removeFts", "removeRow"}
  \/ pc[w] \in {"drop", "backfill", "copy", "rebuild", "clearAll"}

\* S has each chunk of content c, once, and nothing else.
Exactly(S, c) == \E w \in Writers : S = Chunks(c, w)

Settled(x) == UpToDate(x) /\ \A w \in Writers : ~ Busy(w, x)

\* "True if the file is indexed at exactly this hash": a file that indexing
\* will skip has in the vector table its chunks, all of them, once, and none of
\* an earlier content, whatever was killed or raised on the way there.
IndexedIsSearchable ==
  \A x \in Files : Settled(x) /\ Type[x] # "keyword" /\ ChunkCount[disk[x].content] > 0
                    => Exactly(lance[x], disk[x].content)

\* The same for the full-text index: what a search by words and one by meaning
\* find are the same chunks.
IndexedIsInKeywordSearch ==
  \A x \in Files : Settled(x) /\ Type[x] # "keyword" /\ ChunkCount[disk[x].content] > 0
                    => Exactly(fts[x], disk[x].content)

\* A keyword-only file that indexing will skip is in the full-text index, once,
\* with the content it has: nothing else would find it.
KeywordOnlyIsFound ==
  \A x \in Files : Settled(x) /\ Type[x] = "keyword" /\ ChunkCount[disk[x].content] > 0
                    => \E w \in Writers : fts[x] = WholeFile(disk[x].content, w)

\* What is searchable can be found again to be removed: chunks of a file nobody
\* works on have a row, from which reconcile() and remove_folder() start.  The one
\* exception: the row was dropped to have the file indexed again, and it was not
\* yet; if it is gone by now, neither of the two finds its chunks any more.  (A kill
\* may leave chunks without a row as well: this is about Faults = {}.)
NothingWithoutARow ==
  \A x \in Files : (\A w \in Writers : ~ Busy(w, x)) /\ lance[x] # {}
                    => rows[x] # NoRow \/ x \in forgotten
=============================================================================
