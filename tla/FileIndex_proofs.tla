-------------------------- MODULE FileIndex_proofs --------------------------
(***************************************************************************)
(* Invariants of FileIndex, for every set of files, contents and threads.  *)
(***************************************************************************)
EXTENDS FileIndex, TLAPS

\* What the locals of a thread hold where they are used, and a path that
\* exists has a content.
LocalsConsistent ==
  /\ \A x \in Files : disk[x].exists => disk[x].content # 0 /\ disk[x].mtime # 0
  /\ \A w \in Writers :
       /\ pc[w] \in Indexing \union {"remove", "removeFts", "removeRow"}
            => job[w].file \in Files
       /\ pc[w] \in Indexing => job[w].mtime # 0
       /\ pc[w] \in {"compare", "touch", "read", "fail"} \union Storing
            => job[w].hash # 0
       /\ pc[w] \in Storing => job[w].text # 0

TypeInv == TypeOK /\ LocalsConsistent

(***************************************************************************)
(* The parts of TypeOK a step of one thread can disturb.                   *)
(***************************************************************************)
LEMMA NoJobTyped == NoJob \in Job
BY ConstantsAssumption DEF NoJob, Job

LEMMA ChunksTyped ==
  ASSUME NEW w \in Writers, NEW c \in Contents
  PROVE  Chunks(c, w) \subseteq Chunk /\ WholeFile(c, w) \subseteq Chunk
<1>1. ChunkCount[c] \in Nat
  BY ConstantsAssumption
<1>2. QED
  BY <1>1 DEF Chunks, WholeFile, Chunk

LEMMA RowTyped ==
  ASSUME NEW j \in Job, j.hash # 0, j.mtime # 0, NEW n \in Nat,
         NEW s \in {"indexed", "failed"}
  PROVE  [status |-> s, hash |-> j.hash, mtime |-> j.mtime, count |-> n] \in Row
BY ConstantsAssumption DEF Job, Row

LEMMA RowTouched ==
  ASSUME NEW r \in Row, NEW m \in 1..MaxClock
  PROVE  [r EXCEPT !.mtime = m] \in Row
BY DEF Row

LEMMA JobWithHash ==
  ASSUME NEW j \in Job, NEW h \in Contents
  PROVE  LET k == [j EXCEPT !.hash = h] IN
         k \in Job /\ k.hash = h /\ k.file = j.file /\ k.mtime = j.mtime
BY DEF Job

LEMMA JobWithText ==
  ASSUME NEW j \in Job, NEW c \in Contents
  PROVE  LET k == [j EXCEPT !.text = c] IN
         /\ k \in Job /\ k.text = c
         /\ k.file = j.file /\ k.mtime = j.mtime /\ k.hash = j.hash
BY DEF Job

LEMMA JobWithAdded ==
  ASSUME NEW j \in Job, NEW n \in Nat
  PROVE  LET k == [j EXCEPT !.added = n] IN
         /\ k \in Job /\ k.added = n
         /\ k.file = j.file /\ k.mtime = j.mtime /\ k.hash = j.hash /\ k.text = j.text
BY DEF Job

LEMMA JobWithoutFile ==
  ASSUME NEW j \in Job
  PROVE  [j EXCEPT !.file = NoFile] \in Job
BY DEF Job

LEMMA JobPicks ==
  ASSUME NEW j \in Job, NEW x \in Files, NEW S \in SUBSET Files
  PROVE  /\ [j EXCEPT !.file = x, !.todo = S] \in Job
         /\ [j EXCEPT !.file = x, !.todo = S].file = x
BY DEF Job

LEMMA JobWithCopy ==
  ASSUME NEW j \in Job, NEW S \in SUBSET (Files \X Chunk)
  PROVE  [j EXCEPT !.copy = S] \in Job
BY DEF Job

LEMMA JobBegun ==
  ASSUME NEW S \in SUBSET Files, NEW t \in {"idle", "startup", "repair"}
  PROVE  [NoJob EXCEPT !.todo = S, !.then = t] \in Job
BY NoJobTyped DEF Job

\* A step that replaces the locals of one thread and says where it goes.
LEMMA ThreadMoves ==
  ASSUME TypeInv, NEW w \in Writers, NEW k \in Job, pc[w] \in Indexing,
         NEW p \in {"idle"} \union Indexing \union Maintaining,
         pc' = [pc EXCEPT ![w] = p], job' = [job EXCEPT ![w] = k],
         k.file = job[w].file, k.mtime = job[w].mtime,
         p \in {"compare", "touch", "read", "fail"} \union Storing => k.hash # 0,
         p \in Storing => k.text # 0,
         p \notin {"remove", "removeFts", "removeRow"},
         UNCHANGED disk
  PROVE  /\ pc' \in [Writers -> {"idle"} \union Indexing \union Maintaining]
         /\ job' \in [Writers -> Job]
         /\ LocalsConsistent'
BY DEF TypeInv, TypeOK, LocalsConsistent, Indexing

LEMMA InitTyped == Init => TypeInv
BY ConstantsAssumption, NoJobTyped
   DEF Init, TypeInv, TypeOK, LocalsConsistent, Empty, NoRows, Indexing, Storing,
       Maintaining
-----------------------------------------------------------------------------
LEMMA IndexFileTyped ==
  ASSUME TypeInv, NEW w \in Writers, IndexFile(w)
  PROVE  TypeInv'
<1> USE ConstantsAssumption, NoJobTyped
    DEF TypeInv, TypeOK, LocalsConsistent, Goto, Done, Commit, CommitForgetting,
        world, sqlite,
        Indexing, Storing, Maintaining
<1>1. ASSUME NEW x \in Files, NEW k \in Forces, Stat(w, x, k) PROVE TypeInv'
  <2> DEFINE j == [NoJob EXCEPT !.file = x, !.force = k, !.mtime = disk[x].mtime]
  <2>1. disk[x].exists /\ disk[x].mtime \in 0..MaxClock /\ disk[x].mtime # 0
    BY <1>1 DEF Stat
  <2>2. j \in Job /\ j.file = x /\ j.mtime # 0
    BY <2>1 DEF NoJob, Job
  <2>3. \E to \in {"hash", "check"} : pc' = [pc EXCEPT ![w] = to]
    BY <1>1 DEF Stat
  <2>4. job' = [job EXCEPT ![w] = j] /\ UNCHANGED <<world, lance, sqlite>>
    BY <1>1 DEF Stat
  <2> HIDE DEF j
  <2>5. QED
    BY <2>2, <2>3, <2>4
<1>2. CASE Unchanged(w) BY <1>2 DEF Unchanged
<1>3. CASE Changed(w) BY <1>3 DEF Changed
<1>4. CASE Hash(w)
  <2>1. job[w] \in Job /\ job[w].file \in Files /\ pc[w] = "hash"
    BY <1>4 DEF Hash
  <2>2. CASE disk[job[w].file].exists
    <3> DEFINE h == disk[job[w].file].content
               k == [job[w] EXCEPT !.hash = h]
    <3>1. h \in Contents
      BY <2>1, <2>2
    <3>2. /\ \E p \in {"read", "compare"} : pc' = [pc EXCEPT ![w] = p]
          /\ job' = [job EXCEPT ![w] = k]
          /\ UNCHANGED <<world, lance, sqlite>>
      BY <1>4, <2>2 DEF Hash
    <3>3. k \in Job /\ k.hash = h /\ k.file = job[w].file /\ k.mtime = job[w].mtime
      BY <2>1, <3>1, JobWithHash
    <3> HIDE DEF k, h
    <3>4. QED
      BY <2>1, <3>1, <3>2, <3>3, ThreadMoves
  <2>3. CASE ~ disk[job[w].file].exists
    <3>1. /\ pc' = [pc EXCEPT ![w] = "idle"] /\ job' = [job EXCEPT ![w] = NoJob]
          /\ UNCHANGED <<world, lance, sqlite>>
      BY <1>4, <2>3 DEF Hash
    <3>2. QED
      BY <3>1
  <2>4. QED BY <2>2, <2>3
<1>5. CASE Compare(w) BY <1>5 DEF Compare
<1>6. CASE Touch(w)
  <2> DEFINE x == job[w].file
             new == [rows[x] EXCEPT !.mtime = job[w].mtime]
  <2>1. x \in Files /\ job[w].mtime \in 1..MaxClock
    BY <1>6 DEF Touch, Job
  <2>2. rows[x] # NoRow => new \in Row
    BY <2>1, RowTouched
  <2>3. /\ rows' = IF rows[x] = NoRow THEN rows ELSE [rows EXCEPT ![x] = new]
        /\ pc' = [pc EXCEPT ![w] = "idle"] /\ job' = [job EXCEPT ![w] = NoJob]
        /\ fts' = fts /\ saved' = [fts |-> fts', rows |-> rows']
        /\ forgotten' \subseteq Files
        /\ UNCHANGED <<world, lance>>
    BY <1>6 DEF Touch
  <2> HIDE DEF x, new
  <2>4. rows' \in [Files -> Row \union {NoRow}]
    BY <2>1, <2>2, <2>3
  <2>5. QED
    BY <2>3, <2>4
<1>7. CASE Read(w)
  <2> DEFINE c == disk[job[w].file].content
             k == [job[w] EXCEPT !.text = c]
  <2>1. job[w] \in Job /\ job[w].file \in Files /\ job[w].hash # 0 /\ pc[w] = "read"
    BY <1>7 DEF Read
  <2>2. c \in Contents
    BY <1>7, <2>1 DEF Read
  <2>3. /\ \E p \in {"fail", "record", "ftsDelete", "delete"} :
             pc' = [pc EXCEPT ![w] = p]
        /\ job' = [job EXCEPT ![w] = k]
        /\ UNCHANGED <<world, lance, sqlite>>
    BY <1>7 DEF Read
  <2>4. /\ k \in Job /\ k.text = c
        /\ k.file = job[w].file /\ k.mtime = job[w].mtime /\ k.hash = job[w].hash
    BY <2>1, <2>2, JobWithText
  <2> HIDE DEF c, k
  <2>5. QED
    BY <2>1, <2>2, <2>3, <2>4, ThreadMoves
<1>8. CASE FtsDelete(w) BY <1>8 DEF FtsDelete
<1>9. CASE FtsInsert(w) BY <1>9, ChunksTyped DEF FtsInsert, Job
<1>10. CASE Delete(w)
  <2>1. /\ pc[w] = "delete"
        /\ \E p \in {"deleteFts", "upsertDelete"} : pc' = [pc EXCEPT ![w] = p]
        /\ lance' = [lance EXCEPT ![job[w].file] = {}] \/ lance' = lance
        /\ UNCHANGED <<world, sqlite, job>>
    BY <1>10 DEF Delete, LanceDelete
  <2>2. QED
    BY <2>1
<1>11. CASE DeleteFts(w) BY <1>11 DEF DeleteFts, FtsDeleteFor
<1>12. CASE UpsertDelete(w) BY <1>12 DEF UpsertDelete, WithoutIds
<1>13. CASE UpsertDeleteFts(w) BY <1>13 DEF UpsertDeleteFts, WithoutIds
<1>14. CASE Add(w)
  <2> DEFINE x == job[w].file
             next == job[w].added + BatchSize
             batch == {r \in Chunks(job[w].text, w) :
                         job[w].added < r.id /\ r.id <= next}
             k == [job[w] EXCEPT !.added = next]
  <2>1. /\ job[w] \in Job /\ x \in Files /\ pc[w] = "add"
        /\ job[w].text \in Contents /\ job[w].hash # 0
        /\ job[w].added \in Nat
    BY <1>14 DEF Add, Job
  <2>2. batch \subseteq Chunk
    BY <2>1, ChunksTyped
  <2>3. next \in Nat
    BY <2>1
  <2>4. /\ \E p \in {"insert", "add"} : pc' = [pc EXCEPT ![w] = p]
        /\ lance' = [lance EXCEPT ![x] = lance[x] \union batch]
        /\ job' = [job EXCEPT ![w] = k]
        /\ UNCHANGED <<world, sqlite>>
    BY <1>14 DEF Add
  <2>5. /\ k \in Job /\ k.file = job[w].file /\ k.mtime = job[w].mtime
        /\ k.hash = job[w].hash /\ k.text = job[w].text
    BY <2>1, <2>3, JobWithAdded
  <2> HIDE DEF x, next, batch, k
  <2>6. lance' \in [Files -> SUBSET Chunk]
    BY <2>1, <2>2, <2>4
  <2>7. QED
    BY <2>1, <2>4, <2>5, <2>6, ThreadMoves DEF x
<1>15. CASE Insert(w) BY <1>15, ChunksTyped DEF Insert, Job
<1>16. CASE RecordIndexed(w) BY <1>16, RowTyped DEF RecordIndexed, RowOf, Job
<1>17. CASE Raise(w) BY <1>17 DEF Raise
<1>18. CASE RecordFailed(w)
  <2>1. RowOf(w, "failed", 0) \in Row
    BY <1>18, RowTyped DEF RecordFailed, RowOf
  <2>2. CASE UNCHANGED sqlite
    BY <1>18, <2>2 DEF RecordFailed
  <2>3. CASE Commit(fts, [rows EXCEPT ![job[w].file] = RowOf(w, "failed", 0)])
    BY <1>18, <2>1, <2>3 DEF RecordFailed
  <2>4. QED
    BY <1>18, <2>2, <2>3 DEF RecordFailed
<1>19. QED
  BY <1>1, <1>2, <1>3, <1>4, <1>5, <1>6, <1>7, <1>8, <1>9, <1>10, <1>11, <1>12,
     <1>13, <1>14, <1>15, <1>16, <1>17, <1>18 DEF IndexFile

LEMMA MaintainTyped ==
  ASSUME TypeInv, NEW w \in Writers, Maintain(w)
  PROVE  TypeInv'
<1> USE ConstantsAssumption, NoJobTyped
    DEF TypeInv, TypeOK, LocalsConsistent, Goto, Done, Commit, CommitForgetting,
        world, sqlite,
        Indexing, Storing, Maintaining
<1>1. ASSUME NEW x \in Files, DeletionSeen(w, x) PROVE TypeInv'
  <2>1. /\ deletions' = deletions \ {x}
        /\ pc' = [pc EXCEPT ![w] = "pick"]
        /\ job' = [job EXCEPT ![w] = [NoJob EXCEPT !.todo = {x}, !.then = "idle"]]
        /\ UNCHANGED <<disk, clock, booting, lance, sqlite>>
    BY <1>1 DEF DeletionSeen, Begin
  <2>2. [NoJob EXCEPT !.todo = {x}, !.then = "idle"] \in Job
    BY JobBegun
  <2>3. QED
    BY <2>1, <2>2
<1>2. CASE FolderRemoved(w)
  <2> DEFINE S == {x \in Works[w] : rows[x] # NoRow}
  <2>1. S \in SUBSET Files
    OBVIOUS
  <2>2. [NoJob EXCEPT !.todo = S, !.then = "idle"] \in Job
    BY <2>1, JobBegun
  <2>3. /\ pc' = [pc EXCEPT ![w] = "pick"]
        /\ job' = [job EXCEPT ![w] = [NoJob EXCEPT !.todo = S, !.then = "idle"]]
        /\ UNCHANGED <<world, lance, sqlite>>
    BY <1>2 DEF FolderRemoved, Begin
  <2> HIDE DEF S
  <2>4. QED
    BY <2>2, <2>3
<1>3. CASE Startup(w) BY <1>3 DEF Startup, Begin, NoJob, Job, Missing
<1>3a. CASE StartupRechunks(w) BY <1>3a DEF StartupRechunks, NoRows, Recorded
<1>3b. CASE Reconcile(w)
  <2>1. [NoJob EXCEPT !.todo = Missing, !.then = "startup"] \in Job
    BY JobBegun DEF Missing
  <2>2. /\ pc' = [pc EXCEPT ![w] = "pick"]
        /\ job' = [job EXCEPT ![w] = [NoJob EXCEPT !.todo = Missing, !.then = "startup"]]
        /\ UNCHANGED <<world, lance, sqlite>>
    BY <1>3b DEF Reconcile
  <2>3. QED
    BY <2>1, <2>2
<1>4. CASE Repair(w) BY <1>4 DEF Repair, Begin, NoJob, Job, Missing
<1>5. CASE Pick(w)
  <2>1. PICK x \in job[w].todo :
          /\ pc' = [pc EXCEPT ![w] = "remove"]
          /\ job' = [job EXCEPT ![w] =
                       [job[w] EXCEPT !.file = x, !.todo = job[w].todo \ {x}]]
          /\ UNCHANGED <<world, lance, sqlite>>
    BY <1>5 DEF Pick
  <2>2. job[w] \in Job /\ job[w].todo \subseteq Files
    BY DEF Job
  <2> DEFINE rest == job[w].todo \ {x}
             k == [job[w] EXCEPT !.file = x, !.todo = rest]
  <2>3. k \in Job /\ k.file = x
    <3>1. job[w] \in Job /\ x \in Files /\ rest \in SUBSET Files
      BY <2>1, <2>2
    <3> HIDE DEF rest
    <3>2. QED
      BY ONLY <3>1, JobPicks DEF k
  <2> HIDE DEF k
  <2>4. job' = [job EXCEPT ![w] = k]
    BY <2>1 DEF k
  <2>5. QED
    BY <2>1, <2>2, <2>3, <2>4
<1>6. CASE Remove(w)
  <2>1. lance' \in [Files -> SUBSET Chunk] /\ UNCHANGED <<world, sqlite, job>>
    BY <1>6 DEF Remove, LanceDelete
  <2>2. \E to \in {"removeFts", "removeRow"} : pc' = [pc EXCEPT ![w] = to]
    BY <1>6 DEF Remove, LanceDelete
  <2>3. pc[w] = "remove"
    BY <1>6 DEF Remove
  <2>4. QED
    BY <2>1, <2>2, <2>3
<1>7. CASE RemoveFts(w) BY <1>7 DEF RemoveFts, FtsDeleteFor
<1>8. CASE RemoveRow(w)
  <2>1. /\ pc' = [pc EXCEPT ![w] = "pick"]
        /\ job' = [job EXCEPT ![w] = [job[w] EXCEPT !.file = NoFile]]
        /\ rows' = [rows EXCEPT ![job[w].file] = NoRow]
        /\ fts' = fts /\ saved' = [fts |-> fts', rows |-> rows']
        /\ forgotten' \subseteq Files
        /\ UNCHANGED <<world, lance>>
    BY <1>8 DEF RemoveRow
  <2>2. [job[w] EXCEPT !.file = NoFile] \in Job
    BY JobWithoutFile
  <2>3. QED
    BY <2>1, <2>2
<1>9. CASE AllRemoved(w)
  <2>1. \E to \in {"drop", "backfill", "idle"} : pc' = [pc EXCEPT ![w] = to]
    BY <1>9 DEF AllRemoved
  <2>2. UNCHANGED <<world, lance, sqlite>> /\ job' \in {job, [job EXCEPT ![w] = NoJob]}
    BY <1>9 DEF AllRemoved
  <2>3. QED
    BY <2>1, <2>2
<1>10. CASE Drop(w) BY <1>10 DEF Drop, Empty
<1>11. CASE Backfill(w)
  <2> DEFINE S == UNION {{x} \X lance[x] : x \in Files}
  <2>1. S \in SUBSET (Files \X Chunk)
    OBVIOUS
  <2> HIDE DEF S
  <2>2. /\ pc' = [pc EXCEPT ![w] = "copy"]
        /\ job' = [job EXCEPT ![w] = [job[w] EXCEPT !.copy = S]]
        /\ UNCHANGED <<world, lance, sqlite>>
    BY <1>11 DEF Backfill, S
  <2>3. [job[w] EXCEPT !.copy = S] \in Job
    BY <2>1, JobWithCopy
  <2>4. QED
    BY <2>2, <2>3
<1>12. CASE Copy(w)
  <2> DEFINE texts(x) == {[e[2] EXCEPT !.by = w] : e \in {e \in job[w].copy : e[1] = x}}
  <2>1. ASSUME NEW x \in Files PROVE texts(x) \subseteq Chunk
    <3>1. job[w].copy \subseteq Files \X Chunk
      BY DEF Job
    <3>2. ASSUME NEW c \in Chunk PROVE [c EXCEPT !.by = w] \in Chunk
      BY DEF Chunk
    <3>3. QED
      BY <3>1, <3>2
  <2>2. /\ fts' = [x \in Files |-> fts[x] \union texts(x)]
        /\ pc' = [pc EXCEPT ![w] = "idle"] /\ job' = [job EXCEPT ![w] = NoJob]
        /\ rows' = rows /\ saved' = [fts |-> fts', rows |-> rows']
        /\ forgotten' \subseteq Files
        /\ UNCHANGED <<world, lance>>
    BY <1>12 DEF Copy
  <2> HIDE DEF texts
  <2>3. fts' \in [Files -> SUBSET Chunk]
    BY <2>1, <2>2
  <2>4. QED
    BY <2>2, <2>3
<1>13. CASE Rebuild(w) BY <1>13 DEF Rebuild, Empty
<1>14. CASE RebuildSqlite(w) BY <1>14 DEF RebuildSqlite, Empty, NoRows
<1>15. CASE ClearAll(w) BY <1>15 DEF ClearAll, NoRows
<1>16. CASE GiveUp(w) BY <1>16 DEF GiveUp
<1>17. QED
  BY <1>1, <1>2, <1>3, <1>3a, <1>3b, <1>4, <1>5, <1>6, <1>7, <1>8, <1>9, <1>10, <1>11, <1>12,
     <1>13, <1>14, <1>15, <1>16 DEF Maintain

LEMMA OthersTyped ==
  ASSUME TypeInv,
         ClearFailed \/ Crash \/ \E x \in Files : Put(x) \/ Vanish(x)
  PROVE  TypeInv'
<1> USE ConstantsAssumption, NoJobTyped
    DEF TypeInv, TypeOK, LocalsConsistent, Commit, CommitForgetting, world, sqlite,
        Indexing, Storing, Maintaining
<1>1. CASE ClearFailed BY <1>1 DEF ClearFailed, Recorded
<1>2. CASE Crash BY <1>2 DEF Crash
<1>3. ASSUME NEW x \in Files, Put(x) PROVE TypeInv'
  BY <1>3 DEF Put
<1>4. ASSUME NEW x \in Files, Vanish(x) PROVE TypeInv'
  <2>1. /\ disk' = [disk EXCEPT ![x] = [disk[x] EXCEPT !.exists = FALSE]]
        /\ deletions' \subseteq Files
        /\ UNCHANGED <<clock, booting, lance, sqlite, pc, job>>
    BY <1>4 DEF Vanish
  <2>2. disk[x] \in [content : Contents \union {0}, mtime : 0..MaxClock,
                     exists : BOOLEAN]
    OBVIOUS
  <2>3. LET d == [disk[x] EXCEPT !.exists = FALSE] IN
        /\ d \in [content : Contents \union {0}, mtime : 0..MaxClock, exists : BOOLEAN]
        /\ ~ d.exists
    BY <2>2
  <2>4. QED
    BY <2>1, <2>3
<1>5. QED
  BY <1>1, <1>2, <1>3, <1>4

THEOREM TypesInvariant == Spec => []TypeInv
<1>1. Init => TypeInv
  BY InitTyped
<1>2. TypeInv /\ [Next]_vars => TypeInv'
  <2>1. CASE UNCHANGED vars
    BY <2>1 DEF vars, world, sqlite, TypeInv, TypeOK, LocalsConsistent
  <2>2. QED
    BY <2>1, IndexFileTyped, MaintainTyped, OthersTyped DEF Next
<1>3. QED
  BY <1>1, <1>2, PTL DEF Spec

\* Types, the counters' ranges included, for any sets of files and threads.
THEOREM TypeCorrect == Spec => []TypeOK
BY TypesInvariant, PTL DEF TypeInv
-----------------------------------------------------------------------------
(***************************************************************************)
(* IndexedIsSearchable, as long as no two threads are at work on the same  *)
(* file at the same time, startup included; contents do not come back,     *)
(* indexing is not forced.  The README says what goes wrong without each   *)
(* of these.                                                               *)
(***************************************************************************)
PlainUse ==
  /\ Ops \subseteq {"startup", "rechunk", "clear"}
  /\ ~ Reverts /\ Forces \subseteq {FALSE} /\ "lookup" \notin Faults

\* The files a thread is at work on, or has on its list.
Claims(w) ==
  IF pc[w] = "idle" THEN {} ELSE ({job[w].file} \union job[w].todo) \ {NoFile}

ClaimsApart ==
  \A v, w \in Writers : v # w => Claims(v) \intersect Claims(w) = {}

Hashed == {"compare", "touch", "read", "fail"} \union Storing
Stale(x) == ~ disk[x].exists \/ rows[x].hash < disk[x].content

\* Hashes only grow: the row of a file is behind what is being indexed, and
\* that is not ahead of the file.
Grows(w) ==
  LET j == job[w]
      x == job[w].file
  IN
  /\ j.force = FALSE
  /\ pc[w] \in Hashed => rows[x].hash <= j.hash /\ j.hash <= disk[x].content
  /\ pc[w] \in {"read", "fail"} \union Storing => rows[x].hash < j.hash
  /\ pc[w] \in Storing => j.hash <= j.text /\ j.text <= disk[x].content

\* What is in the vector table at each step of storing a file.
Stores(w) ==
  LET j == job[w]
      x == job[w].file
  IN
  /\ pc[w] \in Indexing \ {"add", "insert", "record", "fail"} => j.added = 0
  /\ pc[w] \in {"ftsDelete", "ftsInsert"} => Type[x] = "keyword"
  /\ pc[w] \in {"deleteFts", "upsertDelete", "upsertDeleteFts"} => lance[x] = {}
  /\ pc[w] = "add" => lance[x] = {r \in Chunks(j.text, w) : r.id <= j.added}
  /\ pc[w] = "insert" => lance[x] = Chunks(j.text, w)
  /\ pc[w] = "record" /\ Type[x] # "keyword" /\ ChunkCount[j.text] > 0
       => lance[x] = Chunks(j.text, w)

\* Maintenance is startup, and removes what no up-to-date row stands for.
Maintains(w) ==
  LET j == job[w] IN
  /\ j.then # "repair"
  /\ pc[w] \in Maintaining =>
       /\ "startup" \in Ops /\ pc[w] \notin {"drop", "rebuild", "clearAll"}
       /\ \A x \in j.todo : Stale(x)
  /\ pc[w] \in {"remove", "removeFts", "removeRow"} => Stale(j.file)

FilesConsistent ==
  \A x \in Files :
    /\ rows[x].hash <= disk[x].content
    /\ /\ UpToDate(x) /\ Type[x] # "keyword" /\ ChunkCount[disk[x].content] > 0
       => Exactly(lance[x], disk[x].content)

IInv ==
  /\ TypeInv
  /\ saved.rows = rows /\ deletions = {}
  /\ FilesConsistent
  /\ \A w \in Writers : Grows(w) /\ Stores(w) /\ Maintains(w)

LEMMA NumbersTyped ==
  ASSUME TypeInv
  PROVE  /\ \A x \in Files : rows[x].hash \in Nat /\ disk[x].content \in Nat
         /\ \A w \in Writers : /\ job[w].hash \in Nat /\ job[w].text \in Nat
                             /\ job[w].added \in Nat
<1>0. Contents \union {0} \subseteq Nat
  BY ConstantsAssumption
<1>1. ASSUME NEW x \in Files PROVE rows[x].hash \in Nat /\ disk[x].content \in Nat
  <2>1. rows[x] \in Row \union {NoRow}
    BY DEF TypeInv, TypeOK
  <2>2. rows[x].hash \in Contents \union {0}
    BY <2>1 DEF NoRow, Row
  <2>3. disk[x].content \in Contents \union {0}
    BY DEF TypeInv, TypeOK
  <2>4. QED
    BY ONLY <1>0, <2>2, <2>3
<1>2. ASSUME NEW w \in Writers
      PROVE job[w].hash \in Nat /\ job[w].text \in Nat /\ job[w].added \in Nat
  <2>1. job[w] \in Job
    BY DEF TypeInv, TypeOK
  <2>2. /\ job[w].hash \in Contents \union {0} /\ job[w].text \in Contents \union {0}
        /\ job[w].added \in Nat
    BY <2>1 DEF Job
  <2>3. QED
    BY ONLY <1>0, <2>2
<1>3. QED
  BY <1>1, <1>2

\* A file whose new content is being stored is not up to date by its row.
LEMMA Behind ==
  ASSUME IInv, NEW w \in Writers, pc[w] \in {"read", "fail"} \union Storing
  PROVE  job[w].file \in Files /\ rows[job[w].file].hash # disk[job[w].file].content
<1>1. job[w].file \in Files
  BY DEF IInv, TypeInv, LocalsConsistent, Indexing
<1>2. /\ rows[job[w].file].hash < job[w].hash
      /\ job[w].hash <= disk[job[w].file].content
  BY DEF IInv, Grows, Hashed
<1>3. QED
  BY <1>1, <1>2, NumbersTyped DEF IInv

\* What a step of one thread leaves alone.
StepOf(w) ==
  /\ disk' = disk /\ deletions' = deletions /\ saved'.rows = rows'
  /\ \A v \in Writers \ {w} : pc'[v] = pc[v] /\ job'[v] = job[v]
  /\ \A x \in Files \ Claims(w) :
       rows'[x] \in {rows[x], NoRow} /\ lance'[x] = lance[x]

LEMMA FileIsClaimed ==
  ASSUME NEW w \in Writers, pc[w] # "idle", job[w].file \in Files
  PROVE  job[w].file \in Claims(w)
BY ConstantsAssumption DEF Claims

LEMMA IndexFileStep ==
  ASSUME IInv, NEW w \in Writers, IndexFile(w)
  PROVE  StepOf(w)
<1>a. pc[w] \in Indexing => job[w].file \in Claims(w)
  BY FileIsClaimed DEF IInv, TypeInv, LocalsConsistent, Indexing, Storing
<1> USE <1>a DEF IInv, TypeInv, TypeOK, StepOf, Goto, Done, Commit, CommitForgetting,
        world, sqlite,
                 Indexing, Storing
<1>1. ASSUME NEW x \in Files, NEW k \in Forces, Stat(w, x, k) PROVE StepOf(w)
  BY <1>1 DEF Stat
<1>2. CASE Unchanged(w) BY <1>2 DEF Unchanged
<1>3. CASE Changed(w) BY <1>3 DEF Changed
<1>4. CASE Hash(w) BY <1>4 DEF Hash
<1>5. CASE Compare(w) BY <1>5 DEF Compare
<1>6. CASE Touch(w) BY <1>6 DEF Touch
<1>7. CASE Read(w) BY <1>7 DEF Read
<1>8. CASE FtsDelete(w) BY <1>8 DEF FtsDelete
<1>9. CASE FtsInsert(w) BY <1>9 DEF FtsInsert
<1>10. CASE Delete(w) BY <1>10 DEF Delete, LanceDelete
<1>11. CASE DeleteFts(w) BY <1>11 DEF DeleteFts, FtsDeleteFor
<1>12. CASE UpsertDelete(w) BY <1>12 DEF UpsertDelete
<1>13. CASE UpsertDeleteFts(w) BY <1>13 DEF UpsertDeleteFts
<1>14. CASE Add(w) BY <1>14 DEF Add
<1>15. CASE Insert(w) BY <1>15 DEF Insert
<1>16. CASE RecordIndexed(w) BY <1>16 DEF RecordIndexed
<1>17. CASE Raise(w) BY <1>17 DEF Raise
<1>18. CASE RecordFailed(w) BY <1>18 DEF RecordFailed
<1>19. QED
  BY <1>1, <1>2, <1>3, <1>4, <1>5, <1>6, <1>7, <1>8, <1>9, <1>10, <1>11, <1>12,
     <1>13, <1>14, <1>15, <1>16, <1>17, <1>18 DEF IndexFile

LEMMA MaintainStep ==
  ASSUME PlainUse, IInv, NEW w \in Writers, Maintain(w)
  PROVE  StepOf(w)
<1>a. pc[w] \in {"remove", "removeFts", "removeRow"} => job[w].file \in Claims(w)
  BY FileIsClaimed DEF IInv, TypeInv, LocalsConsistent
<1>b. saved.rows = rows /\ deletions = {} /\ Maintains(w)
  BY DEF IInv
<1> USE <1>a, <1>b DEF IInv, TypeInv, TypeOK, StepOf, Goto, Done, Begin,
        Commit, CommitForgetting,
                       world, sqlite
<1>1. /\ \A x \in Files : ~ DeletionSeen(w, x)
      /\ ~ FolderRemoved(w) /\ ~ Repair(w) /\ ~ Drop(w)
      /\ ~ Rebuild(w) /\ ~ RebuildSqlite(w) /\ ~ ClearAll(w)
  BY DEF PlainUse, Maintains, Maintaining, DeletionSeen, FolderRemoved, Repair, Drop,
         Rebuild, RebuildSqlite, ClearAll
<1>2. CASE Startup(w) BY <1>2 DEF Startup
<1>2a. CASE StartupRechunks(w) BY <1>2a DEF StartupRechunks, NoRows
<1>2b. CASE Reconcile(w) BY <1>2b DEF Reconcile
<1>3. CASE Pick(w) BY <1>3 DEF Pick
<1>4. CASE Remove(w) BY <1>4 DEF Remove, LanceDelete
<1>5. CASE RemoveFts(w) BY <1>5 DEF RemoveFts, FtsDeleteFor
<1>6. CASE RemoveRow(w) BY <1>6 DEF RemoveRow
<1>7. CASE AllRemoved(w) BY <1>7 DEF AllRemoved
<1>8. CASE Backfill(w) BY <1>8 DEF Backfill
<1>9. CASE Copy(w) BY <1>9 DEF Copy
<1>10. CASE GiveUp(w) BY <1>10 DEF GiveUp
<1>11. QED
  BY <1>1, <1>2, <1>2a, <1>2b, <1>3, <1>4, <1>5, <1>6, <1>7, <1>8, <1>9, <1>10 DEF Maintain

\* A step of one thread does not disturb the others: they claim other files.
LEMMA OthersKeep ==
  ASSUME ClaimsApart, IInv, NEW w \in Writers, StepOf(w), NEW v \in Writers, v # w
  PROVE  Grows(v)' /\ Stores(v)' /\ Maintains(v)'
<1>1. pc'[v] = pc[v] /\ job'[v] = job[v] /\ disk' = disk
  BY DEF StepOf
<1>2. Grows(v) /\ Stores(v) /\ Maintains(v)
  BY DEF IInv
<1>3. CASE pc[v] = "idle"
  BY <1>1, <1>2, <1>3 DEF Grows, Stores, Maintains, Hashed, Indexing, Storing, Maintaining
<1>4. CASE pc[v] # "idle"
  <2>1. \A x \in Claims(v) \intersect Files :
          rows'[x] \in {rows[x], NoRow} /\ lance'[x] = lance[x]
    BY DEF ClaimsApart, StepOf
  <2>n. /\ NoRow.hash = 0
        /\ \A x \in Files : disk[x].exists => 0 < disk[x].content
        /\ job[v].hash \in Nat
        /\ pc[v] \in Hashed => 0 < job[v].hash
    BY NumbersTyped DEF IInv, TypeInv, LocalsConsistent, NoRow, Hashed
  <2>2. pc[v] \in Indexing \union {"remove", "removeFts", "removeRow"}
          => job[v].file \in Claims(v) \intersect Files
    BY <1>4, FileIsClaimed DEF IInv, TypeInv, LocalsConsistent
  <2>3. job[v].todo \subseteq Claims(v) \intersect Files
    BY <1>4, ConstantsAssumption DEF Claims, IInv, TypeInv, TypeOK, Job
  <2>4. Grows(v)'
    <3>1. CASE pc[v] \notin Hashed
      BY <1>1, <1>2, <3>1 DEF Grows, Hashed
    <3>2. CASE pc[v] \in Hashed
      <4>1. /\ job[v].file \in Files
            /\ rows'[job[v].file] \in {rows[job[v].file], NoRow}
        BY <3>2, <2>1, <2>2 DEF Hashed, Indexing
      <4>2. \/ rows'[job[v].file].hash = rows[job[v].file].hash
            \/ rows'[job[v].file].hash = 0
        BY <4>1, <2>n
      <4>3. 0 < job[v].hash /\ job[v].hash \in Nat
        BY <3>2, <2>n
      <4>4. QED
        BY <1>1, <1>2, <3>2, <4>2, <4>3 DEF Grows
    <3>3. QED
      BY <3>1, <3>2
  <2>5. Stores(v)'
    BY <1>1, <1>2, <2>1, <2>2 DEF Stores, Indexing, Storing
  <2>6. Maintains(v)'
    <3>1. \A x \in Claims(v) \intersect Files : Stale(x) => Stale(x)'
      BY <1>1, <2>1, <2>n DEF Stale
    <3>2. QED
      BY <1>1, <1>2, <2>2, <2>3, <3>1 DEF Maintains
  <2>7. QED
    BY <2>4, <2>5, <2>6
<1>5. QED
  BY <1>3, <1>4

\* Chunks are numbered from 1.
LEMMA Numbered ==
  ASSUME NEW c \in Contents, NEW w \in Writers, NEW r \in Chunks(c, w)
  PROVE  r.id \in Nat /\ 0 < r.id /\ r.id <= ChunkCount[c] /\ ChunkCount[c] \in Nat
<1>1. ChunkCount[c] \in Nat
  BY ConstantsAssumption
<1>2. QED
  BY <1>1 DEF Chunks

\* The thread itself, and the file it works on.
LEMMA IndexFileKeeps ==
  ASSUME PlainUse, IInv, NEW w \in Writers, IndexFile(w), TypeInv'
  PROVE  Grows(w)' /\ Stores(w)' /\ Maintains(w)' /\ FilesConsistent'
<1> DEFINE Kept == Grows(w)' /\ Stores(w)' /\ Maintains(w)' /\ FilesConsistent'
<1>a. /\ pc \in [Writers -> {"idle"} \union Indexing \union Maintaining]
      /\ job \in [Writers -> Job]
      /\ lance \in [Files -> SUBSET Chunk]
      /\ rows \in [Files -> Row \union {NoRow}]
  BY DEF IInv, TypeInv, TypeOK
<1>b. Grows(w) /\ Stores(w) /\ Maintains(w) /\ FilesConsistent
  BY DEF IInv
<1>c. pc[w] \in Indexing => job[w].file \in Files
  BY DEF IInv, TypeInv, LocalsConsistent
<1>d. pc[w] \in {"read", "fail"} \union Storing => ~ UpToDate(job[w].file)
  BY Behind DEF UpToDate
<1>e. /\ \A x \in Files : rows[x].hash \in Nat /\ disk[x].content \in Nat
      /\ job[w].hash \in Nat /\ job[w].text \in Nat /\ job[w].added \in Nat
  BY NumbersTyped DEF IInv
<1>f. pc[w] \in Storing => job[w].text \in Contents
  <2>1. job[w].text \in Contents \union {0}
    BY <1>a DEF Job
  <2>2. QED
    BY <2>1 DEF IInv, TypeInv, LocalsConsistent, Storing
<1> USE <1>a, <1>b, <1>c, <1>e
    DEF Goto, Done, Commit, CommitForgetting, world, sqlite, Grows, Stores, Maintains,
        Indexing, Storing, Maintaining, Hashed
<1>1. ASSUME NEW x \in Files, NEW k \in Forces, Stat(w, x, k) PROVE Kept
  BY <1>1 DEF Stat, NoJob, PlainUse, FilesConsistent, UpToDate
<1>2. CASE Unchanged(w) BY <1>2 DEF Unchanged, NoJob, FilesConsistent, UpToDate
<1>3. CASE Changed(w) BY <1>3 DEF Changed, FilesConsistent, UpToDate
<1>4. CASE Hash(w) BY <1>4 DEF Hash, NoJob, Job, FilesConsistent, UpToDate
<1>5. CASE Compare(w)
  <2>1. /\ pc[w] = "compare" /\ UNCHANGED <<disk, lance, rows, job>>
        /\ \/ pc' = [pc EXCEPT ![w] = "touch"]
           \/ /\ pc' = [pc EXCEPT ![w] = "read"]
              /\ rows[job[w].file].hash # job[w].hash
    BY <1>5 DEF Compare
  <2>2. rows[job[w].file].hash # job[w].hash => rows[job[w].file].hash < job[w].hash
    BY <2>1
  <2>3. FilesConsistent'
    BY <2>1 DEF FilesConsistent, UpToDate
  <2>4. QED
    BY <2>1, <2>2, <2>3
<1>6. CASE Touch(w) BY <1>6 DEF Touch, NoJob, FilesConsistent, UpToDate
<1>7. CASE Read(w) BY <1>7 DEF Read, Job, FilesConsistent, UpToDate
<1>8. CASE FtsDelete(w) BY <1>8 DEF FtsDelete, FilesConsistent, UpToDate
<1>9. CASE FtsInsert(w) BY <1>9 DEF FtsInsert, FilesConsistent, UpToDate
<1>10. CASE Delete(w) BY <1>10, <1>d DEF Delete, LanceDelete, PlainUse, FilesConsistent, UpToDate
<1>11. CASE DeleteFts(w) BY <1>11 DEF DeleteFts, FtsDeleteFor, FilesConsistent, UpToDate
<1>12. CASE UpsertDelete(w) BY <1>12, <1>d DEF UpsertDelete, WithoutIds, PlainUse, FilesConsistent, UpToDate
<1>13. CASE UpsertDeleteFts(w)
  <2>1. /\ job[w].text \in Contents
        /\ job[w].added = 0 /\ lance[job[w].file] = {}
    BY <1>13, <1>f DEF UpsertDeleteFts
  <2>2. {r \in Chunks(job[w].text, w) : r.id <= job[w].added} = {}
    BY <2>1, Numbered
  <2>3. /\ job' = job /\ lance' = lance /\ rows' = rows /\ disk' = disk
        /\ pc' = [pc EXCEPT ![w] = "add"] /\ pc[w] = "upsertDeleteFts"
    BY <1>13 DEF UpsertDeleteFts
  <2> QED
    BY <2>1, <2>2, <2>3 DEF FilesConsistent, UpToDate
<1>14. CASE Add(w)
  <2> DEFINE x == job[w].file
             c == job[w].text
             next == job[w].added + BatchSize
             batch == {r \in Chunks(c, w) : job[w].added < r.id /\ r.id <= next}
             S == {r \in Chunks(c, w) : r.id <= job[w].added}
  <2>1. /\ pc[w] = "add" /\ lance' = [lance EXCEPT ![x] = @ \union batch]
        /\ pc' = [pc EXCEPT ![w] = IF next >= ChunkCount[c] THEN "insert" ELSE "add"]
        /\ job' = [job EXCEPT ![w] = [job[w] EXCEPT !.added = next]]
        /\ disk' = disk /\ rows' = rows
    BY <1>14 DEF Add
  <2>2. x \in Files /\ c \in Contents /\ lance[x] = S
    BY <2>1, <1>f
  <2>3. job[w].added \in Nat /\ next \in Nat /\ job[w].added <= next
    BY <1>e, ConstantsAssumption
  <2>4. S \union batch = {r \in Chunks(c, w) : r.id <= next}
    BY <2>2, <2>3, Numbered
  <2>5. next >= ChunkCount[c] => {r \in Chunks(c, w) : r.id <= next} = Chunks(c, w)
    BY <2>2, <2>3, Numbered
  <2>6. lance'[x] = {r \in Chunks(c, w) : r.id <= next}
    BY <2>1, <2>2, <2>4
  <2>7. job'[w] = [job[w] EXCEPT !.added = next]
    BY <2>1
  <2>8. /\ job'[w].file = x /\ job'[w].text = c /\ job'[w].hash = job[w].hash
        /\ job'[w].force = job[w].force /\ job'[w].todo = job[w].todo
        /\ job'[w].then = job[w].then /\ job'[w].added = next
    BY <2>7 DEF Job
  <2>9. \/ pc'[w] = "add"
        \/ pc'[w] = "insert" /\ next >= ChunkCount[c]
    BY <2>1
  <2> HIDE DEF next, batch, S, c, x
  <2>10. Grows(w)'
    BY <2>1, <2>8, <2>9 DEF x, c
  <2>11. Stores(w)'
    BY <2>5, <2>6, <2>8, <2>9
  <2>12. Maintains(w)'
    BY <2>8, <2>9
  <2>13. FilesConsistent'
    <3>1. \A y \in Files : y # x => lance'[y] = lance[y]
      BY <2>1
    <3>2. ~ UpToDate(x)
      BY <2>1, <1>d DEF x
    <3>3. QED
      BY <2>1, <3>1, <3>2 DEF FilesConsistent, UpToDate
  <2>14. QED
    BY <2>10, <2>11, <2>12, <2>13
<1>15. CASE Insert(w) BY <1>15 DEF Insert, FilesConsistent, UpToDate
<1>16. CASE RecordIndexed(w)
  <2> DEFINE x == job[w].file
             row == rows'[x]
  <2>1. /\ pc[w] = "record" /\ pc' = [pc EXCEPT ![w] = "idle"]
        /\ job' = [job EXCEPT ![w] = NoJob] /\ disk' = disk /\ lance' = lance
        /\ \A y \in Files : y # x => rows'[y] = rows[y]
        /\ row.hash = job[w].hash
    BY <1>16 DEF RecordIndexed, RowOf
  <2>2. /\ x \in Files
        /\ job[w].hash <= job[w].text /\ job[w].text <= disk[x].content
    BY <2>1
  <2>3. row.hash = disk[x].content => job[w].text = disk[x].content
    BY <2>1, <2>2
  <2>4. Grows(w)' /\ Stores(w)' /\ Maintains(w)'
    BY <2>1 DEF NoJob
  <2> HIDE DEF row, x
  <2>5. row.hash <= disk[x].content
    BY <2>1, <2>2, <1>e
  <2>6. /\ row.hash = disk[x].content /\ Type[x] # "keyword"
        /\ ChunkCount[disk[x].content] > 0
      => lance[x] = Chunks(disk[x].content, w)
    BY <2>1, <2>3 DEF x
  <2>7. ASSUME NEW y \in Files
        PROVE  /\ rows'[y].hash <= disk'[y].content
               /\ /\ UpToDate(y)' /\ Type[y] # "keyword"
                  /\ ChunkCount[disk'[y].content] > 0
                  => Exactly(lance'[y], disk'[y].content)
    <3>1. CASE y = x
      BY <3>1, <2>1, <2>5, <2>6 DEF row, UpToDate, Exactly
    <3>2. CASE y # x
      BY <3>2, <2>1 DEF FilesConsistent, UpToDate
    <3>3. QED BY <3>1, <3>2
  <2>8. FilesConsistent'
    BY <2>7 DEF FilesConsistent
  <2>9. QED
    BY <2>4, <2>8
<1>17. CASE Raise(w) BY <1>17 DEF Raise, FilesConsistent, UpToDate
<1>18. CASE RecordFailed(w) BY <1>18 DEF RecordFailed, RowOf, NoJob, FilesConsistent, UpToDate
<1>19. QED
  BY <1>1, <1>2, <1>3, <1>4, <1>5, <1>6, <1>7, <1>8, <1>9, <1>10, <1>11, <1>12,
     <1>13, <1>14, <1>15, <1>16, <1>17, <1>18 DEF IndexFile

\* Startup works on files that no row makes up to date.
LEMMA MaintainKeeps ==
  ASSUME PlainUse, IInv, NEW w \in Writers, Maintain(w), TypeInv'
  PROVE  Grows(w)' /\ Stores(w)' /\ Maintains(w)' /\ FilesConsistent'
<1>a. /\ pc \in [Writers -> {"idle"} \union Indexing \union Maintaining]
      /\ job \in [Writers -> Job]
      /\ lance \in [Files -> SUBSET Chunk]
      /\ rows \in [Files -> Row \union {NoRow}]
  BY DEF IInv, TypeInv, TypeOK
<1>b. /\ Grows(w) /\ Stores(w) /\ Maintains(w) /\ FilesConsistent
      /\ saved.rows = rows /\ deletions = {}
  BY DEF IInv
<1>c. pc[w] \in {"remove", "removeFts", "removeRow"}
        => /\ job[w].file \in Files /\ Stale(job[w].file) /\ "startup" \in Ops
  BY <1>b DEF IInv, TypeInv, LocalsConsistent, Maintains, Maintaining
<1>d. \A x \in Files : /\ rows[x].hash \in Nat /\ disk[x].content \in Nat
                       /\ Stale(x) => ~ UpToDate(x)
  BY NumbersTyped DEF IInv, Stale, UpToDate
<1>e. /\ Ops \subseteq {"startup", "rechunk", "clear"} /\ "lookup" \notin Faults
      /\ pc[w] \notin {"drop", "rebuild", "clearAll"} /\ job[w].then # "repair"
  BY <1>b DEF PlainUse, Maintains, Maintaining
<1> USE <1>a, <1>b, <1>c, <1>d, <1>e
    DEF Goto, Done, Begin, Commit, CommitForgetting, world, sqlite, Grows, Stores, Maintains,
        Indexing, Storing, Maintaining, Hashed
<1>1. /\ \A x \in Files : ~ DeletionSeen(w, x)
      /\ ~ FolderRemoved(w) /\ ~ Repair(w) /\ ~ Drop(w)
      /\ ~ Rebuild(w) /\ ~ RebuildSqlite(w) /\ ~ ClearAll(w)
  BY DEF DeletionSeen, FolderRemoved, Repair, Drop, Rebuild, RebuildSqlite, ClearAll
<1>2. CASE Startup(w)
  BY <1>2 DEF Startup, NoJob, Missing, Stale, FilesConsistent, UpToDate
<1>2a. CASE StartupRechunks(w)
  <2>1. /\ pc[w] = "idle" /\ pc' = [pc EXCEPT ![w] = "reconcile"] /\ "startup" \in Ops
        /\ UNCHANGED <<disk, lance, job>> /\ rows' = NoRows
    BY <1>2a DEF StartupRechunks
  <2>2. \A x \in Files : rows'[x].hash = 0 /\ rows'[x].status = "none"
    BY <2>1 DEF NoRows, NoRow
  <2>3. \A x \in Files : disk[x].exists => 0 < disk[x].content
    BY <1>d DEF IInv, TypeInv, LocalsConsistent
  <2>4. \A x \in Files : Stale(x)'
    BY <2>1, <2>2, <2>3 DEF Stale
  <2>5. FilesConsistent'
    BY <2>1, <2>2, <1>d DEF FilesConsistent, UpToDate
  <2>6. job[w].todo \subseteq Files
    BY DEF Job
  <2>7. Maintains(w)'
    BY <2>1, <2>4, <2>6
  <2>8. Grows(w)' /\ Stores(w)'
    BY <2>1
  <2>9. QED
    BY <2>5, <2>7, <2>8
<1>2b. CASE Reconcile(w)
  BY <1>2b DEF Reconcile, NoJob, Missing, Stale, FilesConsistent, UpToDate
<1>3. CASE Pick(w)
  BY <1>3 DEF Pick, Job, Stale, FilesConsistent, UpToDate
<1>4. CASE Remove(w)
  BY <1>4 DEF Remove, LanceDelete, Stale, FilesConsistent, UpToDate
<1>5. CASE RemoveFts(w)
  BY <1>5 DEF RemoveFts, FtsDeleteFor, Stale, FilesConsistent, UpToDate
<1>6. CASE RemoveRow(w)
  BY <1>6 DEF RemoveRow, NoRow, Job, Stale, FilesConsistent, UpToDate
<1>7. CASE AllRemoved(w)
  BY <1>7 DEF AllRemoved, NoJob, Stale, FilesConsistent, UpToDate
<1>8. CASE Backfill(w)
  BY <1>8 DEF Backfill, Job, Stale, FilesConsistent, UpToDate
<1>9. CASE Copy(w)
  BY <1>9 DEF Copy, NoJob, Stale, FilesConsistent, UpToDate
<1>10. CASE GiveUp(w)
  BY <1>10 DEF GiveUp, NoJob, Stale, FilesConsistent, UpToDate
<1>11. QED
  BY <1>1, <1>2, <1>2a, <1>2b, <1>3, <1>4, <1>5, <1>6, <1>7, <1>8, <1>9, <1>10 DEF Maintain

LEMMA ThreadKeeps ==
  ASSUME PlainUse, ClaimsApart, IInv, TypeInv', NEW w \in Writers,
         IndexFile(w) \/ Maintain(w)
  PROVE  IInv'
<1>1. StepOf(w)
  BY IndexFileStep, MaintainStep
<1>2. saved'.rows = rows' /\ deletions' = {}
  BY <1>1 DEF StepOf, IInv
<1>3. \A v \in Writers : v # w => Grows(v)' /\ Stores(v)' /\ Maintains(v)'
  BY <1>1, OthersKeep
<1>4. Grows(w)' /\ Stores(w)' /\ Maintains(w)' /\ FilesConsistent'
  BY IndexFileKeeps, MaintainKeeps
<1>5. QED
  BY <1>2, <1>3, <1>4 DEF IInv

\* A change to a file, the removal of failed rows and a crash leave no row ahead
\* of its file, and no row that comes to be right.
LEMMA OutsideKeeps ==
  ASSUME PlainUse, IInv, TypeInv',
         ClearFailed \/ Crash \/ \E x \in Files : Put(x) \/ Vanish(x)
  PROVE  IInv'
<1>a. /\ pc \in [Writers -> {"idle"} \union Indexing \union Maintaining]
      /\ job \in [Writers -> Job]
      /\ rows \in [Files -> Row \union {NoRow}]
      /\ disk \in [Files -> [content : Contents \union {0}, mtime : 0..MaxClock,
                             exists : BOOLEAN]]
  BY DEF IInv, TypeInv, TypeOK
<1>b. /\ \A x \in Files : rows[x].hash \in Nat /\ disk[x].content \in Nat
      /\ \A w \in Writers : job[w].hash \in Nat /\ job[w].text \in Nat
  BY NumbersTyped DEF IInv
<1>c. \A w \in Writers :
        /\ Grows(w) /\ Stores(w) /\ Maintains(w)
        /\ pc[w] \in Indexing \union {"remove", "removeFts", "removeRow"}
             => job[w].file \in Files
  BY DEF IInv, TypeInv, LocalsConsistent
<1>1. CASE ClearFailed
  <2>1. /\ disk' = disk /\ lance' = lance /\ pc' = pc /\ job' = job
        /\ deletions' = deletions /\ saved'.rows = rows'
        /\ rows' \in [Files -> Row \union {NoRow}]
        /\ \A x \in Files : rows'[x] \in {rows[x], NoRow}
    BY <1>1, <1>a DEF ClearFailed, Commit, CommitForgetting, world
  <2>2. \A x \in Files : /\ rows'[x].hash <= rows[x].hash
                         /\ UpToDate(x)' => UpToDate(x)
    BY <2>1, <1>b DEF NoRow, UpToDate
  <2>3. FilesConsistent'
    <3>1. ASSUME NEW x \in Files PROVE rows'[x].hash \in Nat
      BY <2>1, <1>b DEF NoRow
    <3>2. QED
      BY <2>1, <2>2, <3>1, <1>b DEF IInv, FilesConsistent
  <2>4. ASSUME NEW x \in Files, Stale(x) PROVE Stale(x)'
    BY <2>1, <2>4, <1>b DEF NoRow, Stale
  <2>5. ASSUME NEW w \in Writers PROVE Grows(w)' /\ Stores(w)' /\ Maintains(w)'
    <3>1. Grows(w)'
      BY <2>1, <2>2, <1>b, <1>c DEF Grows, Hashed, Indexing, Storing, NoRow
    <3>2. Stores(w)'
      BY <2>1, <1>c DEF Stores
    <3>3. Maintains(w)'
      <4>1. job[w].todo \subseteq Files
        BY <1>a DEF Job
      <4>2. QED
        BY <2>1, <2>4, <4>1, <1>c DEF Maintains
    <3>4. QED
      BY <3>1, <3>2, <3>3
  <2>6. QED
    BY <2>1, <2>3, <2>5 DEF IInv
<1>2. CASE Crash
  <2>1. /\ disk' = disk /\ lance' = lance /\ rows' = rows /\ saved' = saved
        /\ deletions' = {} /\ pc' = [w \in Writers |-> "idle"]
        /\ job' = [w \in Writers |-> NoJob]
    BY <1>2 DEF Crash, IInv
  <2>2. FilesConsistent'
    BY <2>1 DEF IInv, FilesConsistent, UpToDate
  <2>3. ASSUME NEW w \in Writers PROVE Grows(w)' /\ Stores(w)' /\ Maintains(w)'
    BY <2>1 DEF Grows, Stores, Maintains, Hashed, Indexing, Storing, Maintaining, NoJob
  <2>4. QED
    BY <2>1, <2>2, <2>3 DEF IInv
<1>3. ASSUME NEW x \in Files, Put(x) \/ Vanish(x) PROVE IInv'
  <2>1. /\ lance' = lance /\ rows' = rows /\ saved' = saved /\ pc' = pc /\ job' = job
        /\ deletions' = {}
    BY <1>3 DEF Put, Vanish, sqlite, PlainUse, IInv
  <2>2. \A y \in Files : /\ disk'[y].content \in Nat
                         /\ disk[y].content <= disk'[y].content
                         /\ disk'[y].exists =>
                              \/ disk'[y] = disk[y]
                              \/ disk[y].content < disk'[y].content
                              \/ disk[y].exists /\ disk'[y].content = disk[y].content
    <3>1. CASE Vanish(x)
      BY <3>1, <1>a, <1>b DEF Vanish
    <3>2. CASE Put(x)
      <4>1. PICK c \in Contents :
              /\ \/ c > disk[x].content
                 \/ disk[x].exists /\ c = disk[x].content
              /\ disk' = [disk EXCEPT ![x] = [content |-> c, mtime |-> clock + 1,
                                              exists |-> TRUE]]
        BY <3>2 DEF Put, PlainUse
      <4>2. c \in Nat
        BY ConstantsAssumption
      <4>3. QED
        BY <4>1, <4>2, <1>a, <1>b
    <3>3. QED
      BY <1>3, <3>1, <3>2
  <2>3. ASSUME NEW y \in Files
        PROVE  /\ UpToDate(y)' => UpToDate(y) /\ disk'[y].content = disk[y].content
               /\ Stale(y) => Stale(y)'
               /\ rows'[y].hash <= disk'[y].content
    BY <2>1, <2>2, <1>b DEF UpToDate, Stale, IInv, FilesConsistent
  <2>4. FilesConsistent'
    BY <2>1, <2>3 DEF IInv, FilesConsistent
  <2>5. ASSUME NEW w \in Writers PROVE Grows(w)' /\ Stores(w)' /\ Maintains(w)'
    <3>1. Grows(w)'
      BY <2>1, <2>2, <1>b, <1>c DEF Grows, Hashed, Indexing, Storing
    <3>2. Stores(w)'
      BY <2>1, <1>c DEF Stores
    <3>3. Maintains(w)'
      <4>1. job[w].todo \subseteq Files
        BY <1>a DEF Job
      <4>2. QED
        BY <2>1, <2>3, <4>1, <1>c DEF Maintains
    <3>4. QED
      BY <3>1, <3>2, <3>3
  <2>6. QED
    BY <2>1, <2>4, <2>5 DEF IInv
<1>4. QED
  BY <1>1, <1>2, <1>3

\* The inductive invariant, for any files, contents, chunk counts and threads.
THEOREM Invariance == PlainUse => (Spec /\ []ClaimsApart => []IInv)
<1> SUFFICES ASSUME PlainUse PROVE Spec /\ []ClaimsApart => []IInv
  OBVIOUS
<1>1. Init => IInv
  <2>1. Init => /\ TypeInv /\ saved.rows = rows /\ deletions = {}
                /\ \A w \in Writers : pc[w] = "idle" /\ job[w] = NoJob
                /\ \A x \in Files : /\ rows[x].hash = 0 /\ disk[x].content = 0
                                    /\ ~ disk[x].exists
    BY InitTyped DEF Init, NoRows, NoRow
  <2>2. QED
    BY <2>1 DEF IInv, FilesConsistent, UpToDate, Grows, Stores, Maintains, Hashed,
                Indexing, Storing, Maintaining, NoJob
<1>2. IInv /\ ClaimsApart /\ [Next]_vars => IInv'
  <2> SUFFICES ASSUME IInv, ClaimsApart, [Next]_vars PROVE IInv'
    OBVIOUS
  <2>1. TypeInv'
    <3>1. TypeInv
      BY DEF IInv
    <3>2. CASE UNCHANGED vars
      BY <3>1, <3>2 DEF vars, world, sqlite, TypeInv, TypeOK, LocalsConsistent
    <3>3. CASE Next
      BY <3>1, <3>3, IndexFileTyped, MaintainTyped, OthersTyped DEF Next
    <3>4. QED
      BY <3>2, <3>3
  <2>2. CASE UNCHANGED vars
    BY <2>1, <2>2 DEF vars, world, sqlite, IInv, FilesConsistent, UpToDate, Exactly,
                      Stale, Grows, Stores, Maintains
  <2>3. CASE Next
    BY <2>1, <2>3, ThreadKeeps, OutsideKeeps DEF Next
  <2>4. QED
    BY <2>2, <2>3
<1>3. QED
  BY <1>1, <1>2, PTL DEF Spec

\* What indexing skips is in the vector table, whole and once, although the
\* process may be killed and any statement may raise at any time.
THEOREM IndexedStaysSearchable ==
  PlainUse => (Spec /\ []ClaimsApart => []IndexedIsSearchable)
<1>1. IInv => IndexedIsSearchable
  BY DEF IInv, FilesConsistent, IndexedIsSearchable, Settled
<1>2. QED
  BY <1>1, Invariance, PTL

-----------------------------------------------------------------------------
(***************************************************************************)
(* KeywordOnlyIsFound under the same assumption.  A keyword-only file has  *)
(* nothing but its full-text row, and that row is committed before the     *)
(* record is, whoever commits.                                             *)
(***************************************************************************)
Keyword(x) == Type[x] = "keyword"

\* An up-to-date keyword-only file is in the full-text index, for good.
FoundForGood ==
  \A x \in Files :
    Keyword(x) /\ UpToDate(x) /\ ChunkCount[disk[x].content] > 0
      => /\ \E w \in Writers : fts[x] = WholeFile(disk[x].content, w)
         /\ saved.fts[x] = fts[x]

\* What is in the full-text index while a keyword-only file is stored.
StoresWhole(w) ==
  LET j == job[w]
      x == job[w].file
  IN
  /\ pc[w] \in {"delete", "deleteFts", "upsertDelete", "upsertDeleteFts", "add", "insert"}
       => ~ Keyword(x)
  /\ pc[w] = "ftsInsert" => fts[x] = {}
  /\ pc[w] = "record" /\ Keyword(x) /\ ChunkCount[j.text] > 0
       => fts[x] = WholeFile(j.text, w)
  /\ \A e \in j.copy : ~ Keyword(e[1])

\* The backfill of the full-text index finds no keyword-only files.
NoVectors == \A x \in Files : Keyword(x) => lance[x] = {}

KInv == FoundForGood /\ NoVectors /\ \A w \in Writers : StoresWhole(w)

LEMMA OthersStoreWhole ==
  ASSUME ClaimsApart, IInv, KInv, NEW w \in Writers, StepOf(w), NEW v \in Writers, v # w,
         \A x \in Files \ Claims(w) : Keyword(x) => fts'[x] = fts[x]
  PROVE  StoresWhole(v)'
<1>1. pc'[v] = pc[v] /\ job'[v] = job[v] /\ StoresWhole(v)
  BY DEF StepOf, KInv
<1>2. ASSUME pc[v] \in Indexing, Keyword(job[v].file)
      PROVE  fts'[job[v].file] = fts[job[v].file]
  <2>1. job[v].file \in Files /\ job[v].file \in Claims(v)
    BY <1>2, FileIsClaimed DEF IInv, TypeInv, LocalsConsistent, Indexing, Storing
  <2>2. QED
    BY <1>2, <2>1 DEF ClaimsApart
<1>3. pc[v] = "ftsInsert" => Keyword(job[v].file)
  BY DEF IInv, Stores, Keyword
<1>4. QED
  BY <1>1, <1>2, <1>3 DEF StoresWhole, Indexing, Storing

\* What a step of index_file() does to the full-text index, and what follows for
\* the files whose row it does not make up to date.
LEMMA IndexFileKeepsFound ==
  ASSUME PlainUse, IInv, KInv, NEW w \in Writers, IndexFile(w), TypeInv'
  PROVE  /\ FoundForGood' /\ NoVectors' /\ StoresWhole(w)'
         /\ \A x \in Files \ Claims(w) : fts'[x] = fts[x]
<1> DEFINE Kept == /\ FoundForGood' /\ NoVectors' /\ StoresWhole(w)'
                   /\ \A x \in Files \ Claims(w) : fts'[x] = fts[x]
<1>a. /\ pc \in [Writers -> {"idle"} \union Indexing \union Maintaining]
      /\ job \in [Writers -> Job]
      /\ lance \in [Files -> SUBSET Chunk] /\ fts \in [Files -> SUBSET Chunk]
      /\ rows \in [Files -> Row \union {NoRow}]
  BY DEF IInv, TypeInv, TypeOK
<1>b. StoresWhole(w) /\ FoundForGood /\ NoVectors /\ Stores(w)
  BY DEF KInv, IInv
<1>c. pc[w] \in Indexing => job[w].file \in Files /\ job[w].file \in Claims(w)
  BY FileIsClaimed DEF IInv, TypeInv, LocalsConsistent, Indexing, Storing
<1>d. pc[w] \in {"read", "fail"} \union Storing => ~ UpToDate(job[w].file)
  BY Behind DEF UpToDate
<1> USE <1>a, <1>b, <1>c
    DEF Goto, Done, Commit, CommitForgetting,
        world, sqlite, Stores, StoresWhole, NoVectors, Keyword,
        Indexing, Storing, Maintaining
<1>1. ASSUME NEW x \in Files, NEW k \in Forces, Stat(w, x, k) PROVE Kept
  BY <1>1 DEF Stat, NoJob, FoundForGood, UpToDate
<1>2. CASE Unchanged(w) BY <1>2 DEF Unchanged, NoJob, FoundForGood, UpToDate
<1>3. CASE Changed(w) BY <1>3 DEF Changed, FoundForGood, UpToDate
<1>4. CASE Hash(w) BY <1>4 DEF Hash, NoJob, Job, FoundForGood, UpToDate
<1>5. CASE Compare(w) BY <1>5 DEF Compare, FoundForGood, UpToDate
<1>6. CASE Touch(w) BY <1>6 DEF Touch, NoJob, FoundForGood, UpToDate
<1>7. CASE Read(w) BY <1>7 DEF Read, Job, FoundForGood, UpToDate
<1>8. CASE FtsDelete(w) BY <1>8, <1>d DEF FtsDelete, FoundForGood, UpToDate
<1>9. CASE FtsInsert(w)
  <2> DEFINE x == job[w].file
  <2>1. /\ pc[w] = "ftsInsert" /\ pc' = [pc EXCEPT ![w] = "record"]
        /\ UNCHANGED <<disk, lance, rows, job>> /\ saved'.fts = fts'
        /\ fts' = [fts EXCEPT ![x] = @ \union WholeFile(job[w].text, w)]
    BY <1>9 DEF FtsInsert
  <2>2. x \in Files /\ x \in Claims(w) /\ ~ UpToDate(x) /\ fts[x] = {}
    BY <2>1, <1>d
  <2>3. fts'[x] = WholeFile(job[w].text, w)
    BY <2>1, <2>2
  <2>4. \A y \in Files : y # x => fts'[y] = fts[y]
    BY <2>1
  <2>5. FoundForGood'
    BY <2>1, <2>2, <2>4 DEF FoundForGood, UpToDate
  <2>6. NoVectors' /\ StoresWhole(w)'
    BY <2>1, <2>3
  <2>7. QED
    BY <2>2, <2>4, <2>5, <2>6
<1>10. CASE Delete(w) BY <1>10 DEF Delete, LanceDelete, FoundForGood, UpToDate
<1>11. CASE DeleteFts(w) BY <1>11, <1>d DEF DeleteFts, FtsDeleteFor, FoundForGood, UpToDate
<1>12. CASE UpsertDelete(w) BY <1>12 DEF UpsertDelete, FoundForGood, UpToDate
<1>13. CASE UpsertDeleteFts(w)
  BY <1>13, <1>d DEF UpsertDeleteFts, FoundForGood, UpToDate
<1>14. CASE Add(w) BY <1>14 DEF Add, Job, FoundForGood, UpToDate
<1>15. CASE Insert(w) BY <1>15, <1>d DEF Insert, FoundForGood, UpToDate
<1>16. CASE RecordIndexed(w)
  <2> DEFINE x == job[w].file
  <2>1. /\ pc[w] = "record" /\ pc' = [pc EXCEPT ![w] = "idle"]
        /\ job' = [job EXCEPT ![w] = NoJob] /\ disk' = disk /\ lance' = lance
        /\ fts' = fts /\ saved'.fts = fts
        /\ \A y \in Files : y # x => rows'[y] = rows[y]
        /\ rows'[x].hash = job[w].hash
    BY <1>16 DEF RecordIndexed, RowOf
  <2>2. job[w].hash = disk[x].content => job[w].text = disk[x].content
    <3>1. job[w].hash <= job[w].text /\ job[w].text <= disk[x].content
      BY <2>1 DEF IInv, Grows
    <3>2. job[w].hash \in Nat /\ job[w].text \in Nat
      BY NumbersTyped DEF IInv
    <3>3. QED
      BY <2>1, <3>1, <3>2
  <2>3. ASSUME NEW y \in Files, Keyword(y), UpToDate(y)', ChunkCount[disk[y].content] > 0
        PROVE  \E v \in Writers : fts[y] = WholeFile(disk[y].content, v)
    <3>1. CASE y = x
      BY <2>1, <2>2, <2>3, <3>1 DEF UpToDate
    <3>2. CASE y # x
      BY <2>1, <2>3, <3>2 DEF FoundForGood, UpToDate
    <3>3. QED
      BY <3>1, <3>2
  <2>4. FoundForGood'
    BY <2>1, <2>3 DEF FoundForGood
  <2>5. NoVectors' /\ StoresWhole(w)'
    BY <2>1 DEF NoJob
  <2>6. QED
    BY <2>1, <2>4, <2>5
<1>17. CASE Raise(w) BY <1>17 DEF Raise, FoundForGood, UpToDate
<1>18. CASE RecordFailed(w) BY <1>18 DEF RecordFailed, RowOf, NoJob, FoundForGood, UpToDate
<1>19. QED
  BY <1>1, <1>2, <1>3, <1>4, <1>5, <1>6, <1>7, <1>8, <1>9, <1>10, <1>11, <1>12,
     <1>13, <1>14, <1>15, <1>16, <1>17, <1>18 DEF IndexFile

LEMMA MaintainKeepsFound ==
  ASSUME PlainUse, IInv, KInv, NEW w \in Writers, Maintain(w), TypeInv'
  PROVE  /\ FoundForGood' /\ NoVectors' /\ StoresWhole(w)'
         /\ \A x \in Files \ Claims(w) : Keyword(x) => fts'[x] = fts[x]
<1>a. /\ pc \in [Writers -> {"idle"} \union Indexing \union Maintaining]
      /\ job \in [Writers -> Job]
      /\ lance \in [Files -> SUBSET Chunk] /\ fts \in [Files -> SUBSET Chunk]
      /\ rows \in [Files -> Row \union {NoRow}]
  BY DEF IInv, TypeInv, TypeOK
<1>b. StoresWhole(w) /\ FoundForGood /\ NoVectors /\ Maintains(w) /\ deletions = {}
  BY DEF KInv, IInv
<1>c. pc[w] \in {"remove", "removeFts", "removeRow"}
        => /\ job[w].file \in Files /\ job[w].file \in Claims(w)
           /\ ~ UpToDate(job[w].file)
  <2>1. pc[w] \in {"remove", "removeFts", "removeRow"}
          => job[w].file \in Files /\ Stale(job[w].file)
    BY <1>b DEF IInv, TypeInv, LocalsConsistent, Maintains, Maintaining
  <2>2. \A x \in Files : Stale(x) => ~ UpToDate(x)
    BY NumbersTyped DEF IInv, Stale, UpToDate
  <2>3. QED
    BY <2>1, <2>2, FileIsClaimed
<1>e. /\ Ops \subseteq {"startup", "rechunk", "clear"}
      /\ pc[w] \notin {"drop", "rebuild", "clearAll"} /\ job[w].then # "repair"
  BY <1>b DEF PlainUse, Maintains, Maintaining
<1> USE <1>a, <1>b, <1>c, <1>e
    DEF Goto, Done, Begin, Commit, CommitForgetting,
        world, sqlite, StoresWhole, NoVectors, Keyword,
        Indexing, Storing, Maintaining
<1>1. /\ \A x \in Files : ~ DeletionSeen(w, x)
      /\ ~ FolderRemoved(w) /\ ~ Repair(w) /\ ~ Drop(w)
      /\ ~ Rebuild(w) /\ ~ RebuildSqlite(w) /\ ~ ClearAll(w)
  BY DEF DeletionSeen, FolderRemoved, Repair, Drop, Rebuild, RebuildSqlite, ClearAll
<1>2. CASE Startup(w) BY <1>2 DEF Startup, NoJob, FoundForGood, UpToDate
<1>2a. CASE StartupRechunks(w)
  BY <1>2a DEF StartupRechunks, NoRows, NoRow, FoundForGood, UpToDate
<1>2b. CASE Reconcile(w) BY <1>2b DEF Reconcile, NoJob, FoundForGood, UpToDate
<1>3. CASE Pick(w) BY <1>3 DEF Pick, Job, FoundForGood, UpToDate
<1>4. CASE Remove(w) BY <1>4 DEF Remove, LanceDelete, FoundForGood, UpToDate
<1>5. CASE RemoveFts(w) BY <1>5 DEF RemoveFts, FtsDeleteFor, FoundForGood, UpToDate
<1>6. CASE RemoveRow(w) BY <1>6 DEF RemoveRow, NoRow, Job, FoundForGood, UpToDate
<1>7. CASE AllRemoved(w) BY <1>7 DEF AllRemoved, NoJob, FoundForGood, UpToDate
<1>8. CASE Backfill(w)
  <2>1. /\ pc' = [pc EXCEPT ![w] = "copy"]
        /\ job' = [job EXCEPT ![w].copy = UNION {{x} \X lance[x] : x \in Files}]
        /\ UNCHANGED <<disk, lance, fts, rows, saved>>
    BY <1>8 DEF Backfill
  <2>2. \A e \in UNION {{x} \X lance[x] : x \in Files} : ~ Keyword(e[1])
    OBVIOUS
  <2>3. job'[w].copy = UNION {{x} \X lance[x] : x \in Files}
    BY <2>1 DEF Job
  <2>4. FoundForGood' /\ NoVectors'
    BY <2>1 DEF FoundForGood, UpToDate
  <2>5. QED
    BY <2>1, <2>2, <2>3, <2>4
<1>9. CASE Copy(w)
  <2> DEFINE texts(x) == {[e[2] EXCEPT !.by = w] : e \in {e \in job[w].copy : e[1] = x}}
  <2>1. /\ pc' = [pc EXCEPT ![w] = "idle"] /\ job' = [job EXCEPT ![w] = NoJob]
        /\ UNCHANGED <<disk, lance, rows>> /\ saved'.fts = fts'
        /\ fts' = [x \in Files |-> fts[x] \union texts(x)]
    BY <1>9 DEF Copy
  <2>2. \A x \in Files : Keyword(x) => texts(x) = {}
    OBVIOUS
  <2> HIDE DEF texts
  <2>3. \A x \in Files : Keyword(x) => fts'[x] = fts[x]
    BY <2>1, <2>2
  <2>4. FoundForGood'
    BY <2>1, <2>3 DEF FoundForGood, UpToDate
  <2>5. NoVectors' /\ StoresWhole(w)'
    BY <2>1 DEF NoJob
  <2>6. QED
    BY <2>3, <2>4, <2>5
<1>10. CASE GiveUp(w) BY <1>10 DEF GiveUp, NoJob, FoundForGood, UpToDate
<1>11. QED
  BY <1>1, <1>2, <1>2a, <1>2b, <1>3, <1>4, <1>5, <1>6, <1>7, <1>8, <1>9, <1>10 DEF Maintain

\* Nothing from outside makes a row right, and what is found is found after a crash.
LEMMA OutsideKeepsFound ==
  ASSUME PlainUse, IInv, KInv,
         ClearFailed \/ Crash \/ \E x \in Files : Put(x) \/ Vanish(x)
  PROVE  KInv'
<1>a. /\ rows \in [Files -> Row \union {NoRow}]
      /\ disk \in [Files -> [content : Contents \union {0}, mtime : 0..MaxClock,
                             exists : BOOLEAN]]
      /\ saved.rows = rows
  BY DEF IInv, TypeInv, TypeOK
<1>b. /\ FoundForGood /\ NoVectors /\ \A w \in Writers : StoresWhole(w)
      /\ \A x \in Files : rows[x].hash \in Nat /\ disk[x].content \in Nat
      /\ \A x \in Files : rows[x].hash <= disk[x].content
  BY NumbersTyped DEF IInv, KInv, FilesConsistent
<1>1. CASE ClearFailed
  <2>1. /\ disk' = disk /\ lance' = lance /\ pc' = pc /\ job' = job
        /\ fts' = fts /\ saved'.fts = fts
        /\ \A x \in Files : rows'[x] \in {rows[x], NoRow}
    BY <1>1, <1>a DEF ClearFailed, Commit, CommitForgetting, world
  <2>2. \A x \in Files : UpToDate(x)' => UpToDate(x)
    BY <2>1 DEF NoRow, UpToDate
  <2>3. FoundForGood'
    BY <2>1, <2>2, <1>b DEF FoundForGood
  <2>4. QED
    BY <2>1, <2>3, <1>b DEF KInv, NoVectors, StoresWhole
<1>2. CASE Crash
  <2>1. /\ disk' = disk /\ lance' = lance /\ rows' = rows /\ saved' = saved
        /\ fts' = saved.fts /\ pc' = [w \in Writers |-> "idle"]
        /\ job' = [w \in Writers |-> NoJob]
    BY <1>2, <1>a DEF Crash
  <2>2. FoundForGood'
    BY <2>1, <1>b DEF FoundForGood, UpToDate
  <2>3. \A w \in Writers : StoresWhole(w)'
    BY <2>1 DEF StoresWhole, NoJob
  <2>4. QED
    BY <2>1, <2>2, <2>3, <1>b DEF KInv, NoVectors
<1>3. ASSUME NEW x \in Files, Put(x) \/ Vanish(x) PROVE KInv'
  <2>1. /\ lance' = lance /\ rows' = rows /\ saved' = saved /\ fts' = fts
        /\ pc' = pc /\ job' = job
    BY <1>3 DEF Put, Vanish, sqlite
  <2>2. \A y \in Files : disk'[y].exists =>
                           \/ disk'[y] = disk[y]
                           \/ disk[y].content < disk'[y].content
                           \/ disk[y].exists /\ disk'[y].content = disk[y].content
    <3>1. CASE Vanish(x)
      BY <3>1, <1>a DEF Vanish
    <3>2. CASE Put(x)
      <4>1. PICK c \in Contents :
              /\ \/ c > disk[x].content
                 \/ disk[x].exists /\ c = disk[x].content
              /\ disk' = [disk EXCEPT ![x] = [content |-> c, mtime |-> clock + 1,
                                              exists |-> TRUE]]
        BY <3>2 DEF Put, PlainUse
      <4>2. c \in Nat
        BY ConstantsAssumption
      <4>3. QED
        BY <4>1, <4>2, <1>a, <1>b
    <3>3. QED
      BY <1>3, <3>1, <3>2
  <2>3. \A y \in Files : disk'[y].content \in Nat
    <3>1. CASE Vanish(x)
      BY <3>1, <1>a, <1>b DEF Vanish
    <3>2. CASE Put(x)
      BY <3>2, <1>a, <1>b, ConstantsAssumption DEF Put
    <3>3. QED
      BY <1>3, <3>1, <3>2
  <2>4. \A y \in Files : UpToDate(y)' => UpToDate(y) /\ disk'[y].content = disk[y].content
    BY <2>1, <2>2, <2>3, <1>b DEF UpToDate
  <2>5. FoundForGood'
    BY <2>1, <2>4, <1>b DEF FoundForGood
  <2>6. QED
    BY <2>1, <2>5, <1>b DEF KInv, NoVectors, StoresWhole
<1>4. QED
  BY <1>1, <1>2, <1>3

\* A keyword-only file that indexing skips is in the full-text index, once, with
\* the content it has, whatever was killed or raised while it was indexed.
THEOREM KeywordOnlyStaysFound ==
  PlainUse => (Spec /\ []ClaimsApart => []KeywordOnlyIsFound)
<1> SUFFICES ASSUME PlainUse PROVE Spec /\ []ClaimsApart => []KeywordOnlyIsFound
  OBVIOUS
<1>1. Init => KInv
  BY DEF Init, KInv, FoundForGood, NoVectors, StoresWhole, UpToDate, NoJob, Empty
<1>2. IInv /\ IInv' /\ KInv /\ ClaimsApart /\ [Next]_vars => KInv'
  <2> SUFFICES ASSUME IInv, IInv', KInv, ClaimsApart, [Next]_vars PROVE KInv'
    OBVIOUS
  <2>1. TypeInv'
    BY DEF IInv
  <2>2. ASSUME NEW w \in Writers, IndexFile(w) \/ Maintain(w) PROVE KInv'
    <3>1. StepOf(w)
      BY <2>2, IndexFileStep, MaintainStep
    <3>2. /\ FoundForGood' /\ NoVectors' /\ StoresWhole(w)'
          /\ \A x \in Files \ Claims(w) : Keyword(x) => fts'[x] = fts[x]
      BY <2>1, <2>2, IndexFileKeepsFound, MaintainKeepsFound
    <3>3. \A v \in Writers : v # w => StoresWhole(v)'
      BY <3>1, <3>2, OthersStoreWhole
    <3>4. QED
      BY <3>2, <3>3 DEF KInv
  <2>3. CASE UNCHANGED vars
    BY <2>3 DEF vars, world, sqlite, KInv, FoundForGood, NoVectors, StoresWhole, UpToDate
  <2>4. QED
    BY <2>2, <2>3, OutsideKeepsFound DEF Next
<1>3. IInv /\ KInv => KeywordOnlyIsFound
  BY DEF KInv, FoundForGood, KeywordOnlyIsFound, Settled, Keyword
<1>4. QED
  BY <1>1, <1>2, <1>3, Invariance, PTL DEF Spec
-----------------------------------------------------------------------------
(***************************************************************************)
(* The two tables and the rows, under every operation: indexing (forced or *)
(* not), deletions, the removal of a folder, startup, repair, rebuild and  *)
(* retry, by any number of threads, which are at work on different files   *)
(* at a time, or one of them alone on all files.  Nothing fails, nothing   *)
(* is killed.                                                              *)
(***************************************************************************)
OfAll == {"reconcile", "drop", "backfill", "copy", "rebuild", "clearAll"}

FilesApart ==
  \A v, w \in Writers : v # w /\ pc[v] # "idle" /\ pc[w] # "idle" =>
    /\ pc[v] \notin OfAll
    /\ job[v].file \in Files => job[v].file # job[w].file

Undisturbed == Faults = {} /\ ~ Reverts

Vector(x) == ~ Keyword(x)

\* Both tables hold the chunks of one content, or both nothing.
InStep(x) ==
  \/ lance[x] = {} /\ fts[x] = {}
  \/ \E c \in Contents : Exactly(lance[x], c) /\ Exactly(fts[x], c)

\* The vector table holds the chunks of one content.
Whole(x) == lance[x] = {} \/ \E c \in Contents : Exactly(lance[x], c)

RowIsTrue(x) ==
  UpToDate(x) /\ ChunkCount[disk[x].content] > 0 => Exactly(lance[x], disk[x].content)

Settles(x) == Vector(x) => InStep(x) /\ RowIsTrue(x)

\* What the tables hold at each step of storing and removing.
StagesOfFile(w) ==
  LET j == job[w]
      x == job[w].file
  IN
  /\ pc[w] \in {"delete", "deleteFts", "upsertDelete", "upsertDeleteFts", "add", "insert"}
       => Vector(x)
  /\ pc[w] \in {"ftsDelete", "ftsInsert"} => Keyword(x)
  /\ pc[w] \in {"delete", "fail", "record"} /\ Vector(x) => InStep(x)
  /\ pc[w] = "record" /\ Vector(x) /\ ChunkCount[j.text] > 0 => Exactly(lance[x], j.text)
  /\ pc[w] \in {"deleteFts", "removeFts"} => lance[x] = {}
  /\ pc[w] \in {"upsertDelete", "upsertDeleteFts", "removeRow"}
       => lance[x] = {} /\ (Vector(x) => fts[x] = {})
  /\ pc[w] \in Indexing \ {"add", "insert", "record", "fail"} => j.added = 0
  /\ pc[w] = "add" => lance[x] = {r \in Chunks(j.text, w) : r.id <= j.added} /\ fts[x] = {}
  /\ pc[w] = "insert" => lance[x] = Chunks(j.text, w) /\ fts[x] = {}

\* What they hold at each step that concerns all files.
StagesOfAll(w) ==
  /\ pc[w] = "drop" => \A x \in Files : Settles(x)
  /\ pc[w] \in {"backfill", "copy"} =>
       fts = Empty /\ \A x \in Files : Vector(x) => Whole(x) /\ RowIsTrue(x)
  /\ pc[w] = "copy" => job[w].copy = UNION {{x} \X lance[x] : x \in Files}
  /\ pc[w] \in {"rebuild", "clearAll"} => lance = Empty
  /\ pc[w] = "clearAll" => fts = Empty /\ rows = NoRows

\* The hash taken is not ahead of the text read, nor that of the file.
HashesGrow(w) ==
  LET j == job[w]
      x == job[w].file
  IN
  /\ pc[w] \in Hashed => j.hash <= disk[x].content
  /\ pc[w] \in Storing => j.hash <= j.text /\ j.text <= disk[x].content

RowsBehind == \A x \in Files : rows[x].hash <= disk[x].content

MInv ==
  /\ TypeInv /\ NoVectors /\ RowsBehind
  /\ \A w \in Writers : StagesOfFile(w) /\ StagesOfAll(w) /\ HashesGrow(w)
  /\ \A x \in Files : (\A w \in Writers : ~ Busy(w, x)) => Settles(x)

----------------------------------------------------------------------------
(* What a table holds.                                                     *)

LEMMA ContentOfChunks ==
  ASSUME NEW c \in Contents, NEW d \in Contents, NEW S, Exactly(S, c), Exactly(S, d),
         ChunkCount[c] > 0
  PROVE  c = d
<1>1. PICK v \in Writers : S = Chunks(c, v)
  BY DEF Exactly
<1>2. PICK w \in Writers : S = Chunks(d, w)
  BY DEF Exactly
<1>3. [id |-> 1, text |-> c, by |-> v] \in S
  BY <1>1, ConstantsAssumption DEF Chunks
<1>4. QED
  BY <1>2, <1>3 DEF Chunks

LEMMA EmptyTogether ==
  ASSUME NEW x \in Files, InStep(x), lance[x] = {}
  PROVE  fts[x] = {}
<1>1. ASSUME NEW c \in Contents, Exactly({}, c), NEW S, Exactly(S, c)
      PROVE  S = {}
  <2>1. PICK v \in Writers : {} = Chunks(c, v)
    BY <1>1 DEF Exactly
  <2>2. PICK w \in Writers : S = Chunks(c, w)
    BY <1>1 DEF Exactly
  <2>3. \A i \in 1..ChunkCount[c] : FALSE
    BY <2>1 DEF Chunks
  <2>4. QED
    BY <2>2, <2>3 DEF Chunks
<1>2. QED
  BY <1>1 DEF InStep

\* What a step leaves alone is as settled as before.
LEMMA Framed ==
  ASSUME NEW x \in Files, lance'[x] = lance[x], fts'[x] = fts[x], rows'[x] = rows[x],
         disk'[x] = disk[x]
  PROVE  /\ InStep(x)' <=> InStep(x)
         /\ Whole(x)' <=> Whole(x)
         /\ RowIsTrue(x)' <=> RowIsTrue(x)
         /\ Settles(x)' <=> Settles(x)
BY DEF InStep, Whole, RowIsTrue, Settles, UpToDate, Exactly, Vector, Keyword


LEMMA IdleRests ==
  ASSUME NEW w, pc[w] = "idle"
  PROVE  /\ StagesOfFile(w) /\ StagesOfAll(w) /\ HashesGrow(w)
         /\ \A x : ~ Busy(w, x)
BY DEF StagesOfFile, StagesOfAll, HashesGrow, Busy, Hashed, Indexing, Storing

\* A step of thread w leaves the others where they are, and all files but its own,
\* unless it is one that concerns all files.
StepTouches(w) ==
  /\ \A v \in Writers \ {w} : pc'[v] = pc[v] /\ job'[v] = job[v]
  /\ pc[w] # "idle" \/ pc'[w] # "idle"
  /\ disk' = disk
  /\ pc[w] \notin OfAll /\ pc'[w] \notin OfAll =>
       \A x \in Files : pc[w] = "idle" \/ x # job[w].file =>
         lance'[x] = lance[x] /\ fts'[x] = fts[x] /\ rows'[x] = rows[x]

LEMMA StepOfThread ==
  ASSUME TypeInv, NEW w \in Writers, IndexFile(w) \/ Maintain(w)
  PROVE  StepTouches(w)
<1>1. /\ pc \in [Writers -> {"idle"} \union Indexing \union Maintaining]
      /\ job \in [Writers -> Job]
      /\ lance \in [Files -> SUBSET Chunk] /\ fts \in [Files -> SUBSET Chunk]
      /\ rows \in [Files -> Row \union {NoRow}]
  BY DEF TypeInv, TypeOK
<1> USE <1>1 DEF StepTouches, Goto, Done, Begin, Commit, CommitForgetting,
        world, sqlite, OfAll
<1>2. ASSUME NEW x \in Files, NEW k \in Forces, Stat(w, x, k) PROVE StepTouches(w)
  BY <1>2 DEF Stat
<1>3. ASSUME NEW x \in Files, DeletionSeen(w, x) PROVE StepTouches(w)
  BY <1>3 DEF DeletionSeen
<1>4. CASE \/ Unchanged(w) \/ Changed(w) \/ Hash(w) \/ Compare(w) \/ Touch(w) \/ Read(w)
  BY <1>4 DEF Unchanged, Changed, Hash, Compare, Touch, Read
<1>5. CASE \/ FtsDelete(w) \/ FtsInsert(w) \/ Delete(w) \/ DeleteFts(w)
           \/ UpsertDelete(w) \/ UpsertDeleteFts(w) \/ Add(w) \/ Insert(w)
  BY <1>5 DEF FtsDelete, FtsInsert, Delete, LanceDelete, DeleteFts, FtsDeleteFor,
              UpsertDelete, UpsertDeleteFts, Add, Insert
<1>6. CASE RecordIndexed(w) \/ Raise(w) \/ RecordFailed(w)
  BY <1>6 DEF RecordIndexed, Raise, RecordFailed, Storing
<1>7. CASE \/ FolderRemoved(w) \/ Startup(w) \/ StartupRechunks(w) \/ Reconcile(w)
           \/ Repair(w) \/ Pick(w) \/ Remove(w) \/ RemoveFts(w) \/ RemoveRow(w)
           \/ AllRemoved(w)
  BY <1>7 DEF FolderRemoved, Startup, StartupRechunks, Reconcile, Repair, Pick, Remove, LanceDelete, RemoveFts,
              FtsDeleteFor, RemoveRow, AllRemoved
<1>8. CASE \/ Drop(w) \/ Backfill(w) \/ Copy(w) \/ Rebuild(w) \/ RebuildSqlite(w)
           \/ ClearAll(w) \/ GiveUp(w)
  BY <1>8 DEF Drop, Backfill, Copy, Rebuild, RebuildSqlite, ClearAll, GiveUp, Maintaining
<1>9. QED
  BY <1>2, <1>3, <1>4, <1>5, <1>6, <1>7, <1>8 DEF IndexFile, Maintain

\* The files other threads are at work on.
FilesOfOthers(w) ==
  {x \in Files : \E v \in Writers \ {w} : pc[v] # "idle" /\ job[v].file = x}

\* What the invariant says of thread w, the files in R being those of others.
AtWork(w, R) ==
  /\ NoVectors /\ RowsBehind
  /\ StagesOfFile(w) /\ StagesOfAll(w) /\ HashesGrow(w)
  /\ \A x \in Files \ R : ~ Busy(w, x) => Settles(x)

\* A step that changes nothing but what concerns one file.
LEMMA OneFile ==
  ASSUME NEW w \in Writers, NEW R, NEW f, f = job[w].file, pc[w] \notin OfAll,
         \A x \in Files \ R : ~ Busy(w, x) => Settles(x),
         \A x \in Files \ {f} :
           /\ lance'[x] = lance[x] /\ fts'[x] = fts[x]
           /\ rows'[x] = rows[x] /\ disk'[x] = disk[x],
         f \in Files \ R => Busy(w, f)' \/ Settles(f)'
  PROVE  \A x \in Files \ R : ~ Busy(w, x)' => Settles(x)'
<1>1. ASSUME NEW x \in Files \ R, x # f PROVE Settles(x)'
  <2>1. Settles(x)
    BY <1>1 DEF Busy, OfAll
  <2>2. QED
    BY <1>1, <2>1, Framed
<1>2. QED
  BY <1>1

LEMMA FileStep ==
  ASSUME NEW w \in Writers, NEW R, NEW f, f = job[w].file, AtWork(w, R),
         pc[w] \notin OfAll, pc'[w] \notin OfAll, disk' = disk,
         \A x \in Files \ {f} :
           lance'[x] = lance[x] /\ fts'[x] = fts[x] /\ rows'[x] = rows[x],
         f \in Files => /\ Keyword(f) => lance'[f] = {}
                        /\ rows'[f].hash <= disk[f].content,
         f \in Files \ R => Busy(w, f)' \/ Settles(f)',
         StagesOfFile(w)', HashesGrow(w)'
  PROVE  AtWork(w, R)'
<1>1. \A x \in Files \ R : ~ Busy(w, x)' => Settles(x)'
  BY OneFile DEF AtWork
<1>2. NoVectors'
  BY DEF AtWork, NoVectors, Keyword
<1>3. RowsBehind'
  BY DEF AtWork, RowsBehind
<1>4. StagesOfAll(w)'
  BY DEF StagesOfAll, OfAll
<1>5. QED
  BY <1>1, <1>2, <1>3, <1>4 DEF AtWork

\* A step that only looks, and goes where the file is left alone or is busy.
LEMMA LooksAtFile ==
  ASSUME NEW w \in Writers, NEW R, NEW f, f = job[w].file, AtWork(w, R),
         pc[w] \notin OfAll, pc'[w] \notin OfAll,
         UNCHANGED <<disk, lance, fts, rows>>,
         f \in Files => ~ Busy(w, f) \/ Busy(w, f)',
         StagesOfFile(w)', HashesGrow(w)'
  PROVE  AtWork(w, R)'
<1>1. f \in Files \ R => Busy(w, f)' \/ Settles(f)'
  BY Framed DEF AtWork
<1>2. f \in Files => (Keyword(f) => lance'[f] = {}) /\ rows'[f].hash <= disk[f].content
  BY DEF AtWork, NoVectors, RowsBehind, Keyword
<1>3. QED
  BY <1>1, <1>2, FileStep

\* A step that changes what is stored for a file on whose storing it is.
LEMMA StoresFile ==
  ASSUME NEW w \in Writers, NEW R, NEW f, f = job[w].file, AtWork(w, R),
         pc[w] \notin OfAll, pc'[w] \in Storing, job'[w].file = f,
         disk' = disk, rows' = rows,
         \A x \in Files \ {f} : lance'[x] = lance[x] /\ fts'[x] = fts[x],
         f \in Files => (Keyword(f) => lance'[f] = {}),
         StagesOfFile(w)', HashesGrow(w)'
  PROVE  AtWork(w, R)'
<1>1. Busy(w, f)' /\ pc'[w] \notin OfAll
  BY DEF Busy, Storing, OfAll
<1>2. f \in Files => rows'[f].hash <= disk[f].content
  BY DEF AtWork, RowsBehind
<1>3. QED
  BY <1>1, <1>2, FileStep

LEMMA IndexFileKeepsInStep ==
  ASSUME Undisturbed, TypeInv, NEW w \in Writers, NEW R, AtWork(w, R), IndexFile(w),
         pc[w] # "idle" => job[w].file \notin R
  PROVE  AtWork(w, R)'
<1>0. PICK f : f = job[w].file
  OBVIOUS
<1>a. /\ pc \in [Writers -> {"idle"} \union Indexing \union Maintaining]
      /\ job \in [Writers -> Job]
      /\ lance \in [Files -> SUBSET Chunk] /\ fts \in [Files -> SUBSET Chunk]
      /\ rows \in [Files -> Row \union {NoRow}]
  BY DEF TypeInv, TypeOK
<1>b. /\ NoVectors /\ RowsBehind /\ StagesOfFile(w) /\ HashesGrow(w)
      /\ Faults = {}
  BY DEF AtWork, Undisturbed
<1>c. pc[w] \in Indexing => f \in Files
  BY <1>0 DEF TypeInv, LocalsConsistent
<1>d. pc[w] \in Storing => job[w].text \in Contents
  <2>1. job[w].text \in Contents \union {0}
    BY <1>a DEF Job
  <2>2. QED
    BY <2>1 DEF TypeInv, LocalsConsistent, Storing
<1>e. /\ \A x \in Files : rows[x].hash \in Nat /\ disk[x].content \in Nat
      /\ job[w].hash \in Nat /\ job[w].text \in Nat /\ job[w].added \in Nat
  BY NumbersTyped
<1>g. pc[w] \in Indexing /\ ~ Busy(w, f) => Settles(f)
  BY <1>0, <1>c DEF AtWork, Indexing, Storing
<1> USE <1>0, <1>a, <1>b, <1>c
    DEF Goto, Done, Commit, CommitForgetting,
        world, sqlite, StagesOfFile, HashesGrow, OfAll, Busy,
        Indexing, Storing, Maintaining, Hashed
<1>1. ASSUME NEW x \in Files, NEW k \in Forces, Stat(w, x, k) PROVE AtWork(w, R)'
  <2>1. /\ pc[w] = "idle" /\ pc'[w] \in {"hash", "check"}
        /\ job'[w] = [NoJob EXCEPT !.file = x, !.force = k, !.mtime = disk[x].mtime]
        /\ UNCHANGED <<disk, lance, fts, rows>>
    BY <1>1 DEF Stat
  <2>2. job'[w].added = 0
    BY <2>1 DEF NoJob
  <2>3. QED
    BY <2>1, <2>2, LooksAtFile
<1>2. CASE Unchanged(w)
  BY <1>2, LooksAtFile DEF Unchanged
<1>3. CASE Changed(w)
  BY <1>3, LooksAtFile DEF Changed
<1>5. CASE Compare(w)
  BY <1>5, LooksAtFile DEF Compare
<1>4. CASE Hash(w)
  <2>1. /\ pc[w] = "hash" /\ pc'[w] \in {"idle", "read", "compare"}
        /\ UNCHANGED <<disk, lance, fts, rows>>
        /\ \/ job'[w] = [job[w] EXCEPT !.hash = disk[f].content]
           \/ job'[w] = NoJob /\ pc'[w] = "idle"
    BY <1>4 DEF Hash
  <2>2. pc'[w] # "idle" => /\ job'[w].file = f /\ job'[w].hash = disk[f].content
                           /\ job'[w].added = job[w].added
    BY <2>1 DEF Job
  <2>3. QED
    BY <2>1, <2>2, <1>e, LooksAtFile
<1>6. CASE Touch(w)
  <2>1. /\ pc[w] = "touch" /\ pc'[w] = "idle" /\ UNCHANGED <<disk, lance, fts>>
        /\ rows' \in {rows, [rows EXCEPT ![f].mtime = job[w].mtime]}
        /\ rows[f] = NoRow => rows' = rows
    BY <1>6 DEF Touch
  <2>2. /\ rows'[f].hash = rows[f].hash /\ rows'[f].status = rows[f].status
        /\ rows'[f] = NoRow => rows[f] = NoRow
        /\ \A x \in Files \ {f} : rows'[x] = rows[x]
    BY <2>1 DEF Row, NoRow
  <2>3. Settles(f)'
    <3>1. Settles(f)
      BY <2>1, <1>g
    <3>2. QED
      BY <3>1, <2>1, <2>2 DEF Settles, InStep, RowIsTrue, UpToDate, Exactly,
                              Vector, Keyword
  <2>4. QED
    BY <2>1, <2>2, <2>3, FileStep DEF NoVectors, RowsBehind, Keyword
<1>7. CASE Read(w)
  <2> DEFINE c == disk[f].content
  <2>1. /\ pc[w] = "read" /\ disk[f].exists /\ UNCHANGED <<disk, lance, fts, rows>>
        /\ job'[w] = [job[w] EXCEPT !.text = c]
        /\ pc'[w] = IF ChunkCount[c] = 0
                    THEN IF Type[f] = "binary" THEN "fail" ELSE "record"
                    ELSE IF Type[f] = "keyword" THEN "ftsDelete" ELSE "delete"
    BY <1>7 DEF Read
  <2>2. /\ job'[w].text = c /\ job'[w].file = f /\ job'[w].added = job[w].added
        /\ job'[w].hash = job[w].hash
    BY <2>1 DEF Job
  <2>3. InStep(f)' <=> InStep(f)
    BY <2>1, Framed
  <2>4. StagesOfFile(w)'
    BY <2>1, <2>2, <2>3, <1>g DEF Vector, Keyword, Settles
  <2>5. HashesGrow(w)'
    BY <2>1, <2>2, <1>e
  <2>6. QED
    BY <2>1, <2>2, <2>4, <2>5, LooksAtFile
<1>8. CASE FtsDelete(w)
  BY <1>8, StoresFile DEF FtsDelete, NoVectors
<1>9. CASE FtsInsert(w)
  BY <1>9, StoresFile DEF FtsInsert, NoVectors, Vector
<1>10. CASE Delete(w)
  <2>1. /\ pc[w] = "delete" /\ UNCHANGED <<disk, fts, rows, job>>
        /\ \/ pc'[w] = "deleteFts" /\ lance' = [lance EXCEPT ![f] = {}]
           \/ pc'[w] = "upsertDelete" /\ lance[f] = {} /\ lance' = lance
    BY <1>10 DEF Delete, LanceDelete
  <2>2. lance[f] = {} => fts[f] = {}
    BY <2>1, EmptyTogether
  <2>3. QED
    BY <2>1, <2>2, StoresFile DEF NoVectors
<1>11. CASE DeleteFts(w)
  BY <1>11, StoresFile DEF DeleteFts, FtsDeleteFor, NoVectors
<1>12. CASE UpsertDelete(w)
  <2>1. /\ pc[w] = "upsertDelete" /\ pc'[w] = "upsertDeleteFts"
        /\ lance' = [lance EXCEPT ![f] = {}] /\ UNCHANGED <<disk, fts, rows, job>>
    BY <1>12 DEF UpsertDelete, WithoutIds
  <2>2. QED
    BY <2>1, StoresFile
<1>13. CASE UpsertDeleteFts(w)
  <2>1. /\ pc[w] = "upsertDeleteFts" /\ pc'[w] = "add"
        /\ fts' = [fts EXCEPT ![f] = {}] /\ UNCHANGED <<disk, lance, rows, job>>
    BY <1>13 DEF UpsertDeleteFts, WithoutIds, Vector
  <2>2. {r \in Chunks(job[w].text, w) : r.id <= job[w].added} = {}
    BY <2>1, <1>d, Numbered
  <2>3. QED
    BY <2>1, <2>2, StoresFile DEF NoVectors
<1>14. CASE Add(w)
  <2> DEFINE c == job[w].text
             next == job[w].added + BatchSize
             batch == {r \in Chunks(c, w) : job[w].added < r.id /\ r.id <= next}
             S == {r \in Chunks(c, w) : r.id <= job[w].added}
  <2>1. /\ pc[w] = "add" /\ lance' = [lance EXCEPT ![f] = @ \union batch]
        /\ pc'[w] = IF next >= ChunkCount[c] THEN "insert" ELSE "add"
        /\ job'[w] = [job[w] EXCEPT !.added = next]
        /\ UNCHANGED <<disk, fts, rows>>
    BY <1>14 DEF Add
  <2>2. /\ f \in Files /\ c \in Contents /\ lance[f] = S /\ fts[f] = {} /\ Vector(f)
        /\ job[w].hash <= c /\ c <= disk[f].content
    BY <2>1, <1>d
  <2>3. job[w].added \in Nat /\ next \in Nat /\ job[w].added <= next
    BY <1>e, ConstantsAssumption
  <2>4. S \union batch = {r \in Chunks(c, w) : r.id <= next}
    BY <2>2, <2>3, Numbered
  <2>5. next >= ChunkCount[c] => {r \in Chunks(c, w) : r.id <= next} = Chunks(c, w)
    BY <2>2, <2>3, Numbered
  <2>6. lance'[f] = {r \in Chunks(c, w) : r.id <= next}
    BY <2>1, <2>2, <2>4
  <2>8. /\ job'[w].file = f /\ job'[w].text = c /\ job'[w].hash = job[w].hash
        /\ job'[w].added = next
    BY <2>1 DEF Job
  <2>9. \/ pc'[w] = "add"
        \/ pc'[w] = "insert" /\ next >= ChunkCount[c]
    BY <2>1
  <2>10. \A x \in Files \ {f} : lance'[x] = lance[x]
    BY <2>1
  <2> HIDE DEF next, batch, S, c
  <2>11. StagesOfFile(w)'
    BY <2>1, <2>2, <2>5, <2>6, <2>8, <2>9 DEF Vector, Keyword
  <2>12. HashesGrow(w)'
    BY <2>1, <2>2, <2>8, <2>9
  <2>13. QED
    BY <2>1, <2>2, <2>8, <2>9, <2>10, <2>11, <2>12, StoresFile DEF Vector
<1>15. CASE Insert(w)
  <2> DEFINE c == job[w].text
  <2>1. /\ pc[w] = "insert" /\ pc'[w] = "record"
        /\ fts' = [fts EXCEPT ![f] = @ \union Chunks(c, w)]
        /\ UNCHANGED <<disk, lance, rows, job>>
    BY <1>15 DEF Insert
  <2>2. lance[f] = Chunks(c, w) /\ fts'[f] = Chunks(c, w) /\ c \in Contents /\ Vector(f)
    BY <2>1, <1>d
  <2>3. InStep(f)' /\ Exactly(lance[f], c)'
    BY <2>1, <2>2 DEF InStep, Exactly
  <2>4. QED
    BY <2>1, <2>2, <2>3, StoresFile DEF NoVectors, Vector, Keyword
<1>16. CASE RecordIndexed(w)
  <2>1. /\ pc[w] = "record" /\ pc'[w] = "idle" /\ job'[w] = NoJob
        /\ UNCHANGED <<disk, lance, fts>>
        /\ \A x \in Files \ {f} : rows'[x] = rows[x]
        /\ rows'[f].hash = job[w].hash /\ rows'[f].status = "indexed"
    BY <1>16 DEF RecordIndexed, RowOf
  <2>2. /\ job[w].hash <= job[w].text /\ job[w].text <= disk[f].content /\ f \in Files
    BY <2>1
  <2>3. rows'[f].hash = disk[f].content => job[w].text = disk[f].content
    BY <2>1, <2>2, <1>e
  <2>4. rows'[f].hash <= disk[f].content
    BY <2>1, <2>2, <1>e
  <2>5. Vector(f) => InStep(f)' /\ RowIsTrue(f)'
    <3>1. Vector(f) => InStep(f)'
      BY <2>1, Framed DEF InStep, Exactly
    <3>2. Vector(f) => RowIsTrue(f)'
      BY <2>1, <2>3 DEF RowIsTrue, UpToDate, Exactly
    <3>3. QED
      BY <3>1, <3>2
  <2>7. Settles(f)'
    BY <2>5 DEF Settles, Vector, Keyword
  <2>8. StagesOfFile(w)' /\ HashesGrow(w)'
    BY <2>1
  <2>9. QED
    BY <2>1, <2>2, <2>4, <2>7, <2>8, FileStep DEF NoVectors
<1>17. CASE Raise(w)
  BY <1>17, <1>g, LooksAtFile, Framed DEF Raise, Settles
<1>18. CASE RecordFailed(w)
  <2>1. /\ pc[w] = "fail" /\ pc'[w] = "idle" /\ job'[w] = NoJob
        /\ UNCHANGED <<disk, lance, fts>>
        /\ \A x \in Files \ {f} : rows'[x] = rows[x]
        /\ f \in Files => rows'[f].hash = job[w].hash /\ rows'[f].status = "failed"
    BY <1>18 DEF RecordFailed, RowOf
  <2>2. Settles(f)'
    BY <2>1 DEF Settles, InStep, RowIsTrue, UpToDate, Exactly, NoRow, Vector,
                Keyword
  <2>3. QED
    BY <2>1, <2>2, FileStep DEF NoVectors
<1>19. QED
  BY <1>1, <1>2, <1>3, <1>4, <1>5, <1>6, <1>7, <1>8, <1>9, <1>10, <1>11, <1>12,
     <1>13, <1>14, <1>15, <1>16, <1>17, <1>18 DEF IndexFile

\* The table rebuilt from the chunks of a content, in the name of thread w.
LEMMA CopiedChunks ==
  ASSUME NEW c \in Contents, NEW v \in Writers, NEW w \in Writers
  PROVE  {[r EXCEPT !.by = w] : r \in Chunks(c, v)} = Chunks(c, w)
<1>1. ASSUME NEW i
      PROVE  [[id |-> i, text |-> c, by |-> v] EXCEPT !.by = w]
               = [id |-> i, text |-> c, by |-> w]
  OBVIOUS
<1>2. ASSUME NEW i \in 1..ChunkCount[c]
      PROVE  [id |-> i, text |-> c, by |-> w] \in {[r EXCEPT !.by = w] : r \in Chunks(c, v)}
  <2>1. [id |-> i, text |-> c, by |-> v] \in Chunks(c, v)
    BY DEF Chunks
  <2>2. QED
    BY <1>1, <2>1
<1>3. ASSUME NEW r \in Chunks(c, v) PROVE [r EXCEPT !.by = w] \in Chunks(c, w)
  <2>1. PICK i \in 1..ChunkCount[c] : r = [id |-> i, text |-> c, by |-> v]
    BY DEF Chunks
  <2>2. [r EXCEPT !.by = w] = [id |-> i, text |-> c, by |-> w]
    BY <2>1, <1>1
  <2>3. QED
    BY <2>2 DEF Chunks
<1>4. {[r EXCEPT !.by = w] : r \in Chunks(c, v)} \subseteq Chunks(c, w)
  BY <1>3
<1>5. Chunks(c, w) \subseteq {[r EXCEPT !.by = w] : r \in Chunks(c, v)}
  BY <1>2 DEF Chunks
<1>6. QED
  BY <1>4, <1>5

LEMMA LooksAtAll ==
  ASSUME NEW w \in Writers, NEW R, AtWork(w, R),
         pc[w] \in {"idle", "pick", "reconcile"},
         pc'[w] \in {"idle", "pick", "remove"},
         UNCHANGED <<disk, lance, fts, rows>>
  PROVE  AtWork(w, R)'
<1>1. \A x \in Files \ R : Settles(x)'
  BY Framed DEF AtWork, Busy, Storing
<1>2. StagesOfFile(w)' /\ StagesOfAll(w)' /\ HashesGrow(w)'
  BY DEF StagesOfFile, StagesOfAll, HashesGrow, Hashed, Indexing, Storing
<1>3. QED
  BY <1>1, <1>2 DEF AtWork, NoVectors, RowsBehind, Keyword

LEMMA MaintainKeepsInStep ==
  ASSUME Undisturbed, TypeInv, NEW w \in Writers, NEW R, AtWork(w, R), Maintain(w),
         pc[w] # "idle" => job[w].file \notin R,
         pc[w] \in OfAll \/ pc'[w] \in OfAll => R = {}
  PROVE  AtWork(w, R)'
<1>0. PICK f : f = job[w].file
  OBVIOUS
<1>a. /\ pc \in [Writers -> {"idle"} \union Indexing \union Maintaining]
      /\ job \in [Writers -> Job]
      /\ lance \in [Files -> SUBSET Chunk] /\ fts \in [Files -> SUBSET Chunk]
      /\ rows \in [Files -> Row \union {NoRow}]
  BY DEF TypeInv, TypeOK
<1>b. /\ NoVectors /\ RowsBehind /\ StagesOfFile(w) /\ StagesOfAll(w)
      /\ Faults = {}
  BY DEF AtWork, Undisturbed
<1>c. pc[w] \in {"remove", "removeFts", "removeRow"} => f \in Files
  BY <1>0 DEF TypeInv, LocalsConsistent
<1>d. \A x \in Files : disk[x].content \in Nat
  BY NumbersTyped
<1>e. \A x \in Files \ R : ~ Busy(w, x) => Settles(x)
  BY DEF AtWork
<1> USE <1>0, <1>a, <1>b, <1>c
    DEF Goto, Done, Begin, Commit, CommitForgetting,
        world, sqlite, StagesOfFile, StagesOfAll, HashesGrow,
        OfAll, Busy, Indexing, Storing, Maintaining, Hashed
<1>1. ASSUME NEW x \in Files, DeletionSeen(w, x) PROVE AtWork(w, R)'
  BY <1>1, LooksAtAll DEF DeletionSeen
<1>2. CASE FolderRemoved(w)
  BY <1>2, LooksAtAll DEF FolderRemoved
<1>3. CASE Startup(w)
  BY <1>3, LooksAtAll DEF Startup
<1>3a. CASE StartupRechunks(w)
  <2>1. /\ pc[w] = "idle" /\ pc'[w] = "reconcile"
        /\ UNCHANGED <<disk, lance, fts, job>> /\ rows' = NoRows
    BY <1>3a DEF StartupRechunks
  <2>2. \A x \in Files : Settles(x)'
    BY <2>1, <1>e DEF Settles, InStep, RowIsTrue, UpToDate, Exactly, NoRows, NoRow, Vector,
                      Keyword
  <2>3. RowsBehind'
    BY <2>1, <1>d DEF RowsBehind, NoRows, NoRow
  <2>4. QED
    BY <2>1, <2>2, <2>3 DEF AtWork, NoVectors, Keyword
<1>3b. CASE Reconcile(w)
  BY <1>3b, LooksAtAll DEF Reconcile
<1>4. CASE Repair(w)
  BY <1>4, LooksAtAll DEF Repair
<1>5. CASE Pick(w)
  BY <1>5, LooksAtAll DEF Pick
<1>6. CASE Remove(w)
  <2>1. /\ pc[w] = "remove" /\ UNCHANGED <<disk, fts, rows, job>>
        /\ \/ pc'[w] = "removeFts" /\ lance' = [lance EXCEPT ![f] = {}]
           \/ pc'[w] = "removeRow" /\ lance[f] = {} /\ lance' = lance
    BY <1>6 DEF Remove, LanceDelete
  <2>2. Vector(f) /\ lance[f] = {} => fts[f] = {}
    BY <2>1, <1>e, EmptyTogether DEF Settles
  <2>3. StagesOfFile(w)'
    BY <2>1, <2>2 DEF Vector, Keyword
  <2>4. QED
    BY <2>1, <2>3, FileStep DEF NoVectors, RowsBehind
<1>7. CASE RemoveFts(w)
  BY <1>7, FileStep DEF RemoveFts, FtsDeleteFor, NoVectors, RowsBehind
<1>8. CASE RemoveRow(w)
  <2>1. /\ pc[w] = "removeRow" /\ pc'[w] = "pick" /\ UNCHANGED <<disk, lance, fts>>
        /\ \A x \in Files \ {f} : rows'[x] = rows[x]
        /\ rows'[f] = NoRow
    BY <1>8 DEF RemoveRow
  <2>2. Settles(f)'
    BY <2>1 DEF Settles, InStep, RowIsTrue, UpToDate, NoRow, Vector, Keyword
  <2>3. rows'[f].hash <= disk[f].content
    BY <2>1, <1>d DEF NoRow
  <2>4. QED
    BY <2>1, <2>2, <2>3, FileStep DEF NoVectors
<1>9. CASE AllRemoved(w)
  <2>1. /\ pc[w] = "pick" /\ UNCHANGED <<disk, lance, fts, rows>>
        /\ \/ pc'[w] \in {"drop", "idle"}
           \/ pc'[w] = "backfill" /\ fts = Empty
    BY <1>9 DEF AllRemoved
  <2>2. \A x \in Files \ R : Settles(x) /\ Settles(x)'
    BY <2>1, <1>e, Framed
  <2>3. StagesOfAll(w)'
    BY <2>1, <2>2, Framed DEF Settles, InStep, Whole
  <2>4. QED
    BY <2>1, <2>2, <2>3 DEF AtWork, NoVectors, RowsBehind, Keyword
<1>10. CASE Drop(w)
  <2>1. /\ pc[w] = "drop" /\ pc'[w] = "backfill" /\ UNCHANGED <<disk, lance, rows>>
        /\ fts' = Empty
    BY <1>10 DEF Drop
  <2>2. \A x \in Files : Vector(x) => Whole(x) /\ RowIsTrue(x)
    BY <2>1 DEF Settles, InStep, Whole
  <2>3. \A x \in Files : Vector(x) => Whole(x)' /\ RowIsTrue(x)'
    BY <2>1, <2>2 DEF Whole, RowIsTrue, UpToDate, Exactly
  <2>4. StagesOfAll(w)'
    BY <2>1, <2>3 DEF Vector, Keyword, Empty
  <2>5. QED
    BY <2>1, <2>4 DEF AtWork, NoVectors, RowsBehind, Keyword
<1>11. CASE Backfill(w)
  <2>1. /\ pc[w] = "backfill" /\ pc'[w] = "copy" /\ UNCHANGED <<disk, lance, fts, rows>>
        /\ job'[w].copy = UNION {{x} \X lance[x] : x \in Files}
    BY <1>11 DEF Backfill, Job
  <2>2. \A x \in Files : Vector(x) => Whole(x)' /\ RowIsTrue(x)'
    BY <2>1, Framed
  <2>3. StagesOfAll(w)'
    BY <2>1, <2>2 DEF Vector, Keyword, Empty
  <2>4. QED
    BY <2>1, <2>3 DEF AtWork, NoVectors, RowsBehind, Keyword
<1>12. CASE Copy(w)
  <2> DEFINE texts(x) == {[e[2] EXCEPT !.by = w] : e \in {e \in job[w].copy : e[1] = x}}
  <2>1. /\ pc[w] = "copy" /\ pc'[w] = "idle" /\ UNCHANGED <<disk, lance, rows>>
        /\ fts' = [x \in Files |-> fts[x] \union texts(x)]
    BY <1>12 DEF Copy
  <2>2. ASSUME NEW x \in Files
        PROVE  texts(x) = {[r EXCEPT !.by = w] : r \in lance[x]}
    <3>1. job[w].copy = UNION {{y} \X lance[y] : y \in Files}
      BY <2>1
    <3>2. \A e \in {e \in job[w].copy : e[1] = x} : e[2] \in lance[x]
      BY <3>1
    <3>3. \A r \in lance[x] : <<x, r>> \in {e \in job[w].copy : e[1] = x}
      BY <3>1
    <3>4. texts(x) \subseteq {[r EXCEPT !.by = w] : r \in lance[x]}
      BY <3>2
    <3>5. ASSUME NEW r \in lance[x] PROVE [r EXCEPT !.by = w] \in texts(x)
      <4>1. <<x, r>>[2] = r
        OBVIOUS
      <4>2. QED
        BY <3>3, <4>1
    <3> HIDE DEF texts
    <3>6. QED
      BY <3>4, <3>5
  <2> HIDE DEF texts
  <2>3. ASSUME NEW x \in Files
        PROVE  fts'[x] = {[r EXCEPT !.by = w] : r \in lance[x]}
    BY <2>1, <2>2 DEF Empty
  <2>4. ASSUME NEW x \in Files, Vector(x) PROVE InStep(x)'
    <3>1. Whole(x)
      BY <2>1, <2>4
    <3>2. CASE lance[x] = {}
      BY <2>1, <2>3, <3>2 DEF InStep
    <3>3. ASSUME NEW c \in Contents, NEW v \in Writers, lance[x] = Chunks(c, v)
          PROVE  InStep(x)'
      <4>1. fts'[x] = {[r EXCEPT !.by = w] : r \in Chunks(c, v)}
        BY ONLY <2>3, <3>3, x \in Files, Zenon
      <4>2. fts'[x] = Chunks(c, w)
        BY <4>1, CopiedChunks
      <4>3. QED
        BY <2>1, <3>3, <4>2 DEF InStep, Exactly
    <3>4. QED
      BY <3>1, <3>2, <3>3 DEF Whole, Exactly
  <2>5. \A x \in Files : Vector(x) => RowIsTrue(x)'
    BY <2>1 DEF RowIsTrue, UpToDate, Exactly
  <2>6. \A x \in Files : Settles(x)'
    BY <2>4, <2>5 DEF Settles, Vector, Keyword
  <2>7. QED
    BY <2>1, <2>6 DEF AtWork, NoVectors, RowsBehind, Keyword
<1>13. CASE Rebuild(w)
  BY <1>13 DEF Rebuild, AtWork, NoVectors, RowsBehind, Empty
<1>14. CASE RebuildSqlite(w)
  <2>1. /\ pc[w] = "rebuild" /\ pc'[w] \in {"idle", "clearAll"}
        /\ UNCHANGED <<disk, lance>> /\ lance = Empty /\ fts' = Empty /\ rows' = NoRows
    BY <1>14 DEF RebuildSqlite
  <2>2. \A x \in Files : Settles(x)'
    BY <2>1 DEF Settles, InStep, RowIsTrue, UpToDate, Empty, NoRows, NoRow
  <2>3. RowsBehind' /\ StagesOfAll(w)'
    BY <2>1, <1>d DEF RowsBehind, NoRows, NoRow, Empty
  <2>4. QED
    BY <2>1, <2>2, <2>3 DEF AtWork, NoVectors, Keyword
<1>15. CASE ClearAll(w)
  <2>1. /\ pc[w] = "clearAll" /\ pc'[w] = "idle" /\ UNCHANGED <<disk, lance, fts>>
        /\ lance = Empty /\ fts = Empty /\ rows' = NoRows
    BY <1>15 DEF ClearAll
  <2>2. \A x \in Files : Settles(x)'
    BY <2>1 DEF Settles, InStep, RowIsTrue, UpToDate, Empty, NoRows, NoRow
  <2>3. RowsBehind'
    BY <2>1, <1>d DEF RowsBehind, NoRows, NoRow
  <2>4. QED
    BY <2>1, <2>2, <2>3 DEF AtWork, NoVectors, Keyword
<1>16. CASE GiveUp(w)
  BY <1>16 DEF GiveUp
<1>17. QED
  BY <1>1, <1>2, <1>3, <1>3a, <1>3b, <1>4, <1>5, <1>6, <1>7, <1>8, <1>9, <1>10, <1>11, <1>12,
     <1>13, <1>14, <1>15, <1>16 DEF Maintain

\* Contents only grow, and a change to a file or the removal of failed rows makes
\* no row right.
LEMMA OutsideKeepsInStep ==
  ASSUME Undisturbed, MInv, TypeInv',
         ClearFailed \/ Crash \/ \E x \in Files : Put(x) \/ Vanish(x)
  PROVE  MInv'
<1>a. /\ pc \in [Writers -> {"idle"} \union Indexing \union Maintaining]
      /\ rows \in [Files -> Row \union {NoRow}]
      /\ disk \in [Files -> [content : Contents \union {0}, mtime : 0..MaxClock,
                             exists : BOOLEAN]]
  BY DEF MInv, TypeInv, TypeOK
<1>b. /\ \A x \in Files : rows[x].hash \in Nat /\ disk[x].content \in Nat
      /\ \A w \in Writers : job[w].hash \in Nat /\ job[w].text \in Nat
  BY NumbersTyped DEF MInv
<1>c. \A w \in Writers : pc[w] \in Indexing => job[w].file \in Files
  BY DEF MInv, TypeInv, LocalsConsistent
<1>1. \/ ClearFailed
      \/ \E x \in Files : Put(x) \/ Vanish(x)
  BY DEF Crash, Undisturbed
<1>2. UNCHANGED <<lance, fts, pc, job>>
  BY <1>1 DEF ClearFailed, Put, Vanish, Commit, CommitForgetting, world, sqlite
<1>3. \A x \in Files : rows'[x] \in {rows[x], NoRow}
  BY <1>1, <1>a DEF ClearFailed, Put, Vanish, Commit, CommitForgetting, sqlite
<1>4. ASSUME NEW x \in Files
      PROVE  /\ disk'[x].content \in Nat /\ disk[x].content <= disk'[x].content
             /\ disk'[x].exists => \/ disk'[x].content > disk[x].content
                                   \/ /\ disk[x].exists
                                      /\ disk'[x].content = disk[x].content
  <2>1. CASE ClearFailed
    BY <2>1, <1>b DEF ClearFailed, world
  <2>2. ASSUME NEW y \in Files, Vanish(y)
        PROVE  disk'[x].content = disk[x].content /\ (disk'[x].exists => disk[x].exists)
    BY <2>2, <1>a DEF Vanish
  <2>3. ASSUME NEW y \in Files, Put(y)
        PROVE  /\ disk'[x].content \in Nat /\ disk[x].content <= disk'[x].content
               /\ disk'[x].exists => \/ disk'[x].content > disk[x].content
                                     \/ /\ disk[x].exists
                                        /\ disk'[x].content = disk[x].content
    <3>1. PICK c \in Contents :
            /\ \/ c > disk[y].content
               \/ disk[y].exists /\ c = disk[y].content
            /\ disk' = [disk EXCEPT ![y] = [content |-> c, mtime |-> clock + 1,
                                            exists |-> TRUE]]
      BY <2>3 DEF Put, Undisturbed
    <3>2. c \in Nat
      BY ConstantsAssumption
    <3>3. QED
      BY <3>1, <3>2, <1>a, <1>b
  <2>4. QED
    BY <1>1, <1>b, <2>1, <2>2, <2>3
<1>5. ASSUME NEW x \in Files
      PROVE  UpToDate(x)' => UpToDate(x) /\ disk'[x].content = disk[x].content
  <2>1. NoRow.status # "indexed"
    BY DEF NoRow
  <2>2. rows[x].hash <= disk[x].content
    BY DEF MInv, RowsBehind
  <2>3. QED
    BY <1>3, <1>4, <1>b, <2>1, <2>2 DEF UpToDate
<1>6. \A x \in Files : /\ InStep(x)' <=> InStep(x)
                       /\ Whole(x)' <=> Whole(x)
                       /\ RowIsTrue(x) => RowIsTrue(x)'
  BY <1>2, <1>3, <1>5 DEF InStep, Whole, RowIsTrue, Exactly
<1>7. \A x \in Files : Settles(x) => Settles(x)'
  BY <1>6 DEF Settles, Vector, Keyword
<1>8. RowsBehind'
  <2>1. NoRow.hash = 0
    BY DEF NoRow
  <2>2. \A x \in Files : rows[x].hash <= disk[x].content
    BY DEF MInv, RowsBehind
  <2>3. QED
    BY <1>3, <1>4, <1>b, <2>1, <2>2 DEF RowsBehind
<1>9. ASSUME NEW w \in Writers
      PROVE  StagesOfFile(w)' /\ StagesOfAll(w)' /\ HashesGrow(w)'
  <2>1. StagesOfFile(w) /\ StagesOfAll(w) /\ HashesGrow(w)
    BY DEF MInv
  <2>2. StagesOfFile(w)'
    <3>1. ASSUME NEW x PROVE InStep(x)' <=> InStep(x)
      BY <1>2 DEF InStep, Exactly
    <3>2. QED
      BY <1>2, <2>1, <3>1 DEF StagesOfFile, Exactly, Vector, Keyword
  <2>3. StagesOfAll(w)'
    <3>1. rows = NoRows => rows' = NoRows
      BY <1>1, <1>a DEF ClearFailed, Put, Vanish, Commit, CommitForgetting, sqlite, NoRows
    <3>2. QED
      BY <1>2, <1>6, <1>7, <2>1, <3>1 DEF StagesOfAll, Vector, Keyword, Empty
  <2>4. HashesGrow(w)'
    <3>1. pc[w] \in Hashed \union Storing => job[w].file \in Files
      BY <1>c DEF Hashed, Indexing
    <3>2. QED
      BY <1>2, <1>4, <1>b, <2>1, <3>1 DEF HashesGrow
  <2>5. QED
    BY <2>2, <2>3, <2>4
<1>10. \A x \in Files : (\A w \in Writers : ~ Busy(w, x)') => Settles(x)'
  BY <1>2, <1>7 DEF MInv, Busy
<1>11. NoVectors'
  BY <1>2 DEF MInv, NoVectors, Keyword
<1>12. QED
  BY <1>8, <1>9, <1>10, <1>11 DEF MInv

\* One thread's step, the others being on other files or idle.
LEMMA ThreadKeepsInStep ==
  ASSUME Undisturbed, MInv, TypeInv', FilesApart, FilesApart', NEW w \in Writers,
         IndexFile(w) \/ Maintain(w)
  PROVE  MInv'
<1> DEFINE Concerns == pc[w] \in OfAll \/ pc'[w] \in OfAll
<1>1. StepTouches(w) /\ TypeInv
  BY StepOfThread DEF MInv
<1>2. PICK R : R = FilesOfOthers(w)
  OBVIOUS
<1>3. ASSUME NEW v \in Writers \ {w}, pc[v] # "idle"
      PROVE  /\ ~ Concerns /\ pc[v] \notin OfAll
             /\ job[v].file \in Files => job[v].file \in R
             /\ job[v].file \in Files /\ pc[w] # "idle" => job[v].file # job[w].file
  <2>1. pc'[v] # "idle"
    BY <1>1, <1>3 DEF StepTouches
  <2>2. "idle" \notin OfAll
    BY DEF OfAll
  <2>3. ~ Concerns
    BY <1>3, <2>1, <2>2 DEF FilesApart
  <2>4. pc[v] \notin OfAll
    <3>1. CASE pc[w] # "idle"
      BY <1>3, <3>1 DEF FilesApart
    <3>2. CASE pc'[w] # "idle"
      <4>1. pc'[v] \notin OfAll
        BY <2>1, <3>2 DEF FilesApart
      <4>2. QED
        BY <1>1, <4>1 DEF StepTouches
    <3>3. QED
      BY <1>1, <3>1, <3>2 DEF StepTouches
  <2>5. job[v].file \in Files => job[v].file \in R
    BY <1>2, <1>3 DEF FilesOfOthers
  <2>6. job[v].file \in Files /\ pc[w] # "idle" => job[v].file # job[w].file
    BY <1>3 DEF FilesApart
  <2>7. QED
    BY <2>3, <2>4, <2>5, <2>6
<1>4. Concerns => R = {}
  BY <1>2, <1>3 DEF FilesOfOthers
<1>5. pc[w] # "idle" => job[w].file \notin R
  <2>1. \A x \in R : x \in Files /\ \E v \in Writers \ {w} : pc[v] # "idle" /\ x = job[v].file
    BY <1>2 DEF FilesOfOthers
  <2>2. QED
    BY <1>3, <2>1
<1>6. AtWork(w, R)
  <2>1. ASSUME NEW x \in Files \ R, ~ Busy(w, x) PROVE Settles(x)
    <3>1. ASSUME NEW v \in Writers \ {w} PROVE ~ Busy(v, x)
      <4>1. CASE pc[v] = "idle"
        BY <4>1 DEF Busy, Storing
      <4>2. CASE pc[v] # "idle"
        BY <1>3, <2>1, <4>2 DEF Busy, OfAll
      <4>3. QED
        BY <4>1, <4>2
    <3>2. QED
      BY <2>1, <3>1 DEF MInv
  <2>2. QED
    BY <2>1 DEF AtWork, MInv
<1>7. AtWork(w, R)'
  BY <1>1, <1>4, <1>5, <1>6, IndexFileKeepsInStep, MaintainKeepsInStep
\* What the others are at work on is as it was.
<1>8. ASSUME NEW v \in Writers \ {w}, pc[v] # "idle", job[v].file \in Files
      PROVE  LET x == job[v].file IN
             /\ x \in R /\ lance'[x] = lance[x] /\ fts'[x] = fts[x] /\ rows'[x] = rows[x]
  <2>1. ~ Concerns /\ (pc[w] = "idle" \/ job[v].file # job[w].file) /\ job[v].file \in R
    BY <1>3, <1>8
  <2>2. QED
    BY <1>1, <1>8, <2>1 DEF StepTouches
<1>9. ASSUME NEW v \in Writers \ {w}
      PROVE  StagesOfFile(v)' /\ StagesOfAll(v)' /\ HashesGrow(v)'
  <2>1. pc'[v] = pc[v] /\ job'[v] = job[v] /\ disk' = disk
    BY <1>1 DEF StepTouches
  <2>2. CASE pc[v] = "idle"
    BY <2>1, <2>2 DEF StagesOfFile, StagesOfAll, HashesGrow, Hashed, Indexing, Storing
  <2>3. CASE pc[v] # "idle"
    <3>1. StagesOfFile(v) /\ HashesGrow(v) /\ pc[v] \notin OfAll
      BY <1>3, <2>3 DEF MInv
    <3>2. StagesOfAll(v)' /\ HashesGrow(v)'
      BY <2>1, <3>1 DEF StagesOfAll, HashesGrow, OfAll
    <3>3. PICK x : x = job[v].file
      OBVIOUS
    <3>4. CASE x \in Files
      <4>1. lance'[x] = lance[x] /\ fts'[x] = fts[x]
        BY <1>8, <2>3, <3>3, <3>4
      <4>2. QED
        BY <2>1, <3>1, <3>2, <3>3, <4>1 DEF StagesOfFile, InStep, Exactly, Vector, Keyword
    <3>5. CASE x \notin Files
      <4>1. pc[v] \notin Indexing \union {"remove", "removeFts", "removeRow"}
        BY <1>1, <3>3, <3>5 DEF TypeInv, LocalsConsistent
      <4>2. QED
        BY <2>1, <3>2, <4>1 DEF StagesOfFile, Indexing, Storing
    <3>6. QED
      BY <3>4, <3>5
  <2>4. QED
    BY <2>2, <2>3
<1>10. ASSUME NEW x \in Files, \A v \in Writers : ~ Busy(v, x)' PROVE Settles(x)'
  <2>1. CASE x \notin R
    BY <1>7, <1>10, <2>1 DEF AtWork
  <2>2. CASE x \in R
    <3>1. PICK v \in Writers \ {w} : pc[v] # "idle" /\ x = job[v].file
      BY <1>2, <2>2 DEF FilesOfOthers
    <3>2. /\ ~ Concerns /\ (pc[w] = "idle" \/ x # job[w].file)
          /\ lance'[x] = lance[x] /\ fts'[x] = fts[x] /\ rows'[x] = rows[x]
      BY <1>3, <1>8, <3>1
    <3>3. ~ Busy(w, x)
      BY <3>2 DEF Busy, Storing, OfAll
    <3>4. \A u \in Writers \ {w} : ~ Busy(u, x)
      <4>1. \A u \in Writers \ {w} : pc'[u] = pc[u] /\ job'[u] = job[u]
        BY <1>1 DEF StepTouches
      <4>2. QED
        BY <1>10, <4>1 DEF Busy
    <3>5. Settles(x)
      BY <3>3, <3>4 DEF MInv
    <3>6. disk'[x] = disk[x]
      BY <1>1 DEF StepTouches
    <3>7. QED
      BY <3>2, <3>5, <3>6, Framed
  <2>3. QED
    BY <2>1, <2>2
<1>11. QED
  BY <1>7, <1>9, <1>10 DEF AtWork, MInv

\* The inductive invariant of an index on whose files threads work apart.
THEOREM InStepInvariance == Undisturbed => (Spec /\ []FilesApart => []MInv)
<1> SUFFICES ASSUME Undisturbed PROVE Spec /\ []FilesApart => []MInv
  OBVIOUS
<1>1. Init => MInv
  <2>1. Init => /\ TypeInv /\ lance = Empty /\ fts = Empty
                /\ \A w \in Writers : pc[w] = "idle"
                /\ \A x \in Files : rows[x] = NoRow /\ disk[x].content = 0
    BY InitTyped DEF Init, NoRows
  <2>2. Init => RowsBehind /\ NoVectors /\ \A x \in Files : Settles(x)
    BY <2>1 DEF RowsBehind, NoVectors, Settles, InStep, RowIsTrue, UpToDate,
                Empty, NoRow
  <2>3. QED
    BY <2>1, <2>2 DEF MInv, StagesOfFile, StagesOfAll, HashesGrow, Hashed, Indexing,
                     Storing
<1>2. MInv /\ FilesApart /\ FilesApart' /\ [Next]_vars => MInv'
  <2> SUFFICES ASSUME MInv, FilesApart, FilesApart', [Next]_vars PROVE MInv'
    OBVIOUS
  <2>1. TypeInv /\ TypeInv'
    <3>1. TypeInv
      BY DEF MInv
    <3>2. CASE UNCHANGED vars
      BY <3>1, <3>2 DEF vars, world, sqlite, TypeInv, TypeOK, LocalsConsistent
    <3>3. CASE Next
      BY <3>1, <3>3, IndexFileTyped, MaintainTyped, OthersTyped DEF Next
    <3>4. QED
      BY <3>1, <3>2, <3>3
  <2>2. ASSUME NEW w \in Writers, IndexFile(w) \/ Maintain(w) PROVE MInv'
    BY <2>1, <2>2, ThreadKeepsInStep
  <2>3. CASE UNCHANGED vars
    <3>1. UNCHANGED <<disk, lance, fts, rows, pc, job>>
      BY <2>3 DEF vars, world, sqlite
    <3>2. \A x \in Files : Settles(x)' <=> Settles(x)
      BY <3>1, Framed
    <3>3. ASSUME NEW w \in Writers
          PROVE  StagesOfFile(w)' /\ StagesOfAll(w)' /\ HashesGrow(w)'
      <4>1. StagesOfFile(w) /\ StagesOfAll(w) /\ HashesGrow(w)
        BY DEF MInv
      <4>2. StagesOfFile(w)'
        BY <3>1, <4>1 DEF StagesOfFile, InStep, Exactly, Vector, Keyword
      <4>3. StagesOfAll(w)'
        BY <3>1, <3>2, <4>1, Framed DEF StagesOfAll, Vector, Keyword, Empty, NoRows
      <4>4. HashesGrow(w)'
        BY <3>1, <4>1 DEF HashesGrow
      <4>5. QED
        BY <4>2, <4>3, <4>4
    <3>4. QED
      BY <2>1, <3>1, <3>2, <3>3 DEF MInv, Busy, NoVectors, RowsBehind, Keyword
  <2>4. QED
    BY <2>1, <2>2, <2>3, OutsideKeepsInStep DEF Next
<1>3. QED
  BY <1>1, <1>2, PTL DEF Spec

LEMMA BothTablesHold ==
  ASSUME MInv, NEW x \in Files, Settled(x), Type[x] # "keyword",
         ChunkCount[disk[x].content] > 0
  PROVE  Exactly(lance[x], disk[x].content) /\ Exactly(fts[x], disk[x].content)
<1>1. InStep(x) /\ RowIsTrue(x) /\ UpToDate(x)
  BY DEF MInv, Settled, Settles, Vector, Keyword
<1>2. Exactly(lance[x], disk[x].content)
  BY <1>1 DEF RowIsTrue
<1>3. disk[x].content \in Contents
  BY <1>1 DEF MInv, TypeInv, TypeOK, LocalsConsistent, UpToDate
<1>4. lance[x] # {}
  <2>1. PICK w \in Writers : lance[x] = Chunks(disk[x].content, w)
    BY <1>2 DEF Exactly
  <2>2. ChunkCount[disk[x].content] \in Nat
    BY <1>3, ConstantsAssumption
  <2>3. 1 \in 1..ChunkCount[disk[x].content]
    BY <2>2
  <2>4. QED
    BY <2>1, <2>3 DEF Chunks
<1>5. PICK c \in Contents : Exactly(lance[x], c) /\ Exactly(fts[x], c)
  BY <1>1, <1>4 DEF InStep
<1>6. c = disk[x].content
  BY <1>2, <1>3, <1>5, ContentOfChunks
<1>7. QED
  BY <1>2, <1>5, <1>6

\* A file that indexing skips is in the vector table, whole and once, also when
\* files are removed, the index is repaired or rebuilt and indexing is forced,
\* by threads that work on different files.
THEOREM IndexedStaysSearchableApart ==
  Undisturbed => (Spec /\ []FilesApart => []IndexedIsSearchable)
<1>1. MInv => IndexedIsSearchable
  BY BothTablesHold DEF IndexedIsSearchable
<1>2. QED
  BY <1>1, InStepInvariance, PTL

\* What a search by words and one by meaning find are the same chunks: such a file
\* is in the full-text index too, whole and once.
THEOREM IndexedStaysInKeywordSearch ==
  Undisturbed => (Spec /\ []FilesApart => []IndexedIsInKeywordSearch)
<1>1. MInv => IndexedIsInKeywordSearch
  BY BothTablesHold DEF IndexedIsInKeywordSearch
<1>2. QED
  BY <1>1, InStepInvariance, PTL

-----------------------------------------------------------------------------
(***************************************************************************)
(* Rows and chunks: a row is dropped with chunks left behind in no other   *)
(* way than on purpose.                                                    *)
(***************************************************************************)
\* Thread w is storing x, and will record it.
Holds(w, x) == job[w].file = x /\ pc[w] \in Storing \union {"fail"}

RInv ==
  \A x \in Files : lance[x] # {}
    => rows[x] # NoRow \/ x \in forgotten \/ \E w \in Writers : Holds(w, x)

\* After a step of thread w, chunks without a row are those w is storing or has dropped
\* the row of on purpose, or were there before without one, w not storing them.
LeavesRows(w) ==
  \A x \in Files : lance'[x] # {} /\ rows'[x] = NoRow =>
    \/ Holds(w, x)' \/ x \in forgotten'
    \/ /\ lance[x] # {} /\ rows[x] = NoRow
       /\ ~ Holds(w, x) /\ x \notin forgotten

\* A step drops none from forgotten that should stay there.
StillForgotten ==
  \A x \in forgotten : rows'[x] = NoRow /\ lance[x] # {} => x \in forgotten'

LEMMA IndexFileLeavesRows ==
  ASSUME Undisturbed, MInv, NEW w \in Writers, IndexFile(w)
  PROVE  LeavesRows(w)
<1>0. PICK f : f = job[w].file
  OBVIOUS
<1>a. /\ pc \in [Writers -> {"idle"} \union Indexing \union Maintaining]
      /\ job \in [Writers -> Job]
      /\ lance \in [Files -> SUBSET Chunk]
      /\ rows \in [Files -> Row \union {NoRow}]
      /\ StagesOfFile(w) /\ Faults = {}
  BY DEF MInv, TypeInv, TypeOK, Undisturbed
<1>b. pc[w] \in Indexing => f \in Files
  BY <1>0 DEF MInv, TypeInv, LocalsConsistent
<1>c. \A s, h, m, n : [status |-> s, hash |-> h, mtime |-> m, count |-> n] = NoRow
                        => s = "none"
  BY DEF NoRow
<1> USE <1>0, <1>a, <1>b
    DEF LeavesRows, StillForgotten, Holds, Goto, Done, Commit, CommitForgetting,
        world, sqlite, Indexing, Storing
<1>1. ASSUME NEW x \in Files, NEW k \in Forces, Stat(w, x, k) PROVE LeavesRows(w)
  BY <1>1 DEF Stat
<1>2. CASE Unchanged(w) \/ Changed(w) \/ Hash(w) \/ Compare(w)
  BY <1>2 DEF Unchanged, Changed, Hash, Compare
<1>3. CASE Touch(w)
  <2>1. /\ pc[w] = "touch" /\ lance' = lance
        /\ \A x \in Files : rows'[x] = NoRow => rows[x] = NoRow
        /\ StillForgotten
    <3>1. /\ pc[w] = "touch" /\ lance' = lance /\ StillForgotten
          /\ \/ rows' = rows
             \/ rows[f] # NoRow /\ rows' = [rows EXCEPT ![f].mtime = job[w].mtime]
      BY <1>3 DEF Touch
    <3>2. \A r \in Row : [r EXCEPT !.mtime = job[w].mtime].status # "none"
      BY DEF Row
    <3>3. QED
      BY <3>1, <3>2 DEF NoRow
  <2>2. QED
    BY <2>1
<1>4. CASE Read(w)
  BY <1>4 DEF Read
<1>5. CASE FtsDelete(w) \/ FtsInsert(w)
  BY <1>5 DEF FtsDelete, FtsInsert
<1>6. CASE Delete(w)
  BY <1>6 DEF Delete, LanceDelete
<1>7. CASE DeleteFts(w) \/ UpsertDeleteFts(w) \/ Insert(w)
  BY <1>7 DEF DeleteFts, FtsDeleteFor, UpsertDeleteFts, Insert
<1>8. CASE UpsertDelete(w)
  BY <1>8 DEF UpsertDelete, WithoutIds
<1>9. CASE Add(w)
  <2> DEFINE k == [job[w] EXCEPT !.added = job[w].added + BatchSize]
  <2>1. /\ pc[w] = "add" /\ pc'[w] \in {"add", "insert"} /\ rows' = rows
        /\ job'[w] = k /\ forgotten' = forgotten
        /\ \A x \in Files \ {f} : lance'[x] = lance[x]
    BY <1>9 DEF Add
  <2>2. k.file = f
    BY DEF Job
  <2> HIDE DEF k
  <2>3. QED
    BY <2>1, <2>2
<1>10. CASE RecordIndexed(w) \/ RecordFailed(w)
  <2>1. /\ lance' = lance /\ \A x \in Files \ {f} : rows'[x] = rows[x]
        /\ f \in Files /\ rows'[f] # NoRow
    BY <1>10, <1>c DEF RecordIndexed, RecordFailed, RowOf
  <2>2. StillForgotten
    BY <1>10 DEF RecordIndexed, RecordFailed
  <2>3. QED
    BY <2>1, <2>2
<1>11. CASE Raise(w)
  BY <1>11 DEF Raise
<1>12. QED
  BY <1>1, <1>2, <1>3, <1>4, <1>5, <1>6, <1>7, <1>8, <1>9, <1>10, <1>11 DEF IndexFile

LEMMA MaintainLeavesRows ==
  ASSUME Undisturbed, MInv, NEW w \in Writers, Maintain(w)
  PROVE  LeavesRows(w)
<1>a. /\ pc \in [Writers -> {"idle"} \union Indexing \union Maintaining]
      /\ job \in [Writers -> Job]
      /\ lance \in [Files -> SUBSET Chunk]
      /\ rows \in [Files -> Row \union {NoRow}]
      /\ StagesOfFile(w) /\ StagesOfAll(w) /\ Faults = {}
  BY DEF MInv, TypeInv, TypeOK, Undisturbed
<1>b. pc[w] \notin Storing \union {"fail"} => \A x \in Files : ~ Holds(w, x)
  BY DEF Holds
<1> USE <1>a, <1>b DEF LeavesRows, Goto, Done, Begin, Commit, CommitForgetting,
        world, sqlite, Storing
<1>1. ASSUME NEW x \in Files, DeletionSeen(w, x) PROVE LeavesRows(w)
  BY <1>1 DEF DeletionSeen
<1>2. CASE FolderRemoved(w) \/ Startup(w) \/ Repair(w) \/ Reconcile(w)
  BY <1>2 DEF FolderRemoved, Startup, Repair, Reconcile
<1>3. CASE StartupRechunks(w)
  <2>1. pc[w] = "idle" /\ lance' = lance
    BY <1>3 DEF StartupRechunks
  <2>2. QED
    BY <1>3, <2>1 DEF StartupRechunks, Recorded
<1>4. CASE Pick(w) \/ AllRemoved(w) \/ Backfill(w)
  BY <1>4 DEF Pick, AllRemoved, Backfill
<1>5. CASE Remove(w) \/ RemoveFts(w)
  BY <1>5 DEF Remove, LanceDelete, RemoveFts, FtsDeleteFor
<1>6. CASE RemoveRow(w)
  BY <1>6 DEF RemoveRow, StagesOfFile
<1>7. CASE Drop(w) \/ Copy(w)
  BY <1>7 DEF Drop, Copy
<1>8. CASE Rebuild(w) \/ RebuildSqlite(w) \/ ClearAll(w)
  BY <1>8 DEF Rebuild, RebuildSqlite, ClearAll, StagesOfAll, Empty
<1>9. CASE GiveUp(w)
  BY <1>9 DEF GiveUp
<1>10. QED
  BY <1>1, <1>2, <1>3, <1>4, <1>5, <1>6, <1>7, <1>8, <1>9 DEF Maintain

LEMMA RowsStay ==
  ASSUME Undisturbed, MInv, RInv, Next
  PROVE  RInv'
<1> SUFFICES ASSUME NEW x \in Files, lance'[x] # {}, rows'[x] = NoRow, x \notin forgotten'
             PROVE  \E v \in Writers : Holds(v, x)'
  BY DEF RInv
<1>1. ASSUME NEW w \in Writers, IndexFile(w) \/ Maintain(w)
      PROVE  \E v \in Writers : Holds(v, x)'
  <2>1. LeavesRows(w)
    BY <1>1, IndexFileLeavesRows, MaintainLeavesRows
  <2>2. StepTouches(w)
    BY <1>1, StepOfThread DEF MInv
  <2>3. CASE Holds(w, x)'
    BY <2>3
  <2>4. CASE ~ Holds(w, x)'
    <3>1. lance[x] # {} /\ rows[x] = NoRow /\ ~ Holds(w, x) /\ x \notin forgotten
      BY <2>1, <2>4 DEF LeavesRows
    <3>2. PICK v \in Writers \ {w} : Holds(v, x)
      BY <3>1 DEF RInv
    <3>3. QED
      BY <2>2, <3>2 DEF StepTouches, Holds
  <2>5. QED
    BY <2>3, <2>4
<1>2. ASSUME ClearFailed \/ \E y \in Files : Put(y) \/ Vanish(y)
      PROVE  \E v \in Writers : Holds(v, x)'
  <2>1. lance' = lance /\ pc' = pc /\ job' = job
    BY <1>2 DEF ClearFailed, Put, Vanish
  <2>2. rows[x] = NoRow /\ x \notin forgotten
    <3>1. CASE ClearFailed
      BY <2>1, <3>1 DEF ClearFailed, CommitForgetting, Recorded, Undisturbed
    <3>2. CASE \E y \in Files : Put(y) \/ Vanish(y)
      BY <3>2 DEF Put, Vanish, sqlite
    <3>3. QED
      BY <1>2, <3>1, <3>2
  <2>3. PICK v \in Writers : Holds(v, x)
    BY <2>1, <2>2 DEF RInv
  <2>4. QED
    BY <2>1, <2>3 DEF Holds
<1>3. ~ Crash
  BY DEF Crash, Undisturbed
<1>4. QED
  BY <1>1, <1>2, <1>3 DEF Next

\* Chunks of a file nobody works on have a row, from which the startup's check and
\* the removal of a folder find them, or their row was dropped on purpose, by a
\* retry of the failed files or a startup with another chunk configuration.
THEOREM NothingStaysWithoutARow ==
  Undisturbed => (Spec /\ []FilesApart => []NothingWithoutARow)
<1> SUFFICES ASSUME Undisturbed PROVE Spec /\ []FilesApart => []NothingWithoutARow
  OBVIOUS
<1>1. Init => RInv
  BY DEF Init, RInv, Empty
<1>2. MInv /\ RInv /\ [Next]_vars => RInv'
  <2>1. ASSUME RInv, UNCHANGED vars PROVE RInv'
    BY <2>1 DEF RInv, Holds, vars, sqlite
  <2>2. QED
    BY <2>1, RowsStay
<1>3. RInv => NothingWithoutARow
  <2>1. \A w \in Writers, x \in Files : Holds(w, x) => Busy(w, x)
    BY DEF Holds, Busy
  <2>2. QED
    BY <2>1 DEF RInv, NothingWithoutARow
<1>4. QED
  BY <1>1, <1>2, <1>3, InStepInvariance, PTL DEF Spec
-----------------------------------------------------------------------------
(***************************************************************************)
(* Who satisfies the two hypotheses: one thread, whatever it does; and     *)
(* threads with files of their own, while nobody runs the startup, repairs *)
(* or rebuilds.                                                            *)
(***************************************************************************)
SeparateWorks ==
  \A v, w \in Writers : v # w =>
    /\ Works[v] \intersect Works[w] = {}
    /\ Ops \subseteq {"delete", "folder", "clear"}

\* A thread claims only files of its own, and never comes to a step on all files.
KeepsToWorks(w) ==
  /\ Claims(w) \subseteq Works[w]
  /\ job[w].then = "idle" /\ pc[w] \notin OfAll

KeepToWorks == TypeInv /\ \A w \in Writers : KeepsToWorks(w)

LEMMA IndexFileKeepsToWorks ==
  ASSUME KeepToWorks, NEW w \in Writers, IndexFile(w)
  PROVE  /\ KeepsToWorks(w)'
         /\ \A v \in Writers \ {w} : pc'[v] = pc[v] /\ job'[v] = job[v]
<1>a. /\ pc \in [Writers -> {"idle"} \union Indexing \union Maintaining]
      /\ job \in [Writers -> Job] /\ KeepsToWorks(w)
      /\ Works \in [Writers -> SUBSET Files]
  BY ConstantsAssumption DEF KeepToWorks, TypeInv, TypeOK
<1> DEFINE Kept == /\ KeepsToWorks(w)'
                   /\ \A v \in Writers \ {w} : pc'[v] = pc[v] /\ job'[v] = job[v]
<1> USE <1>a DEF Goto, Done, KeepsToWorks, Claims, OfAll, NoJob, Storing
<1>1. ASSUME NEW x \in Files, NEW k \in Forces, Stat(w, x, k) PROVE Kept
  BY <1>1 DEF Stat
<1>2. CASE Unchanged(w) BY <1>2 DEF Unchanged
<1>3. CASE Changed(w) BY <1>3 DEF Changed
<1>4. CASE Hash(w) BY <1>4 DEF Hash, Job
<1>5. CASE Compare(w) BY <1>5 DEF Compare
<1>6. CASE Touch(w) BY <1>6 DEF Touch
<1>7. CASE Read(w) BY <1>7 DEF Read, Job
<1>8. CASE FtsDelete(w) BY <1>8 DEF FtsDelete
<1>9. CASE FtsInsert(w) BY <1>9 DEF FtsInsert
<1>10. CASE Delete(w) BY <1>10 DEF Delete, LanceDelete
<1>11. CASE DeleteFts(w) BY <1>11 DEF DeleteFts
<1>12. CASE UpsertDelete(w) BY <1>12 DEF UpsertDelete
<1>13. CASE UpsertDeleteFts(w) BY <1>13 DEF UpsertDeleteFts
<1>14. CASE Add(w) BY <1>14 DEF Add, Job
<1>15. CASE Insert(w) BY <1>15 DEF Insert
<1>16. CASE RecordIndexed(w) BY <1>16 DEF RecordIndexed
<1>17. CASE Raise(w) BY <1>17 DEF Raise
<1>18. CASE RecordFailed(w) BY <1>18 DEF RecordFailed
<1>19. QED
  BY <1>1, <1>2, <1>3, <1>4, <1>5, <1>6, <1>7, <1>8, <1>9, <1>10, <1>11, <1>12,
     <1>13, <1>14, <1>15, <1>16, <1>17, <1>18 DEF IndexFile

LEMMA MaintainKeepsToWorks ==
  ASSUME Ops \subseteq {"delete", "folder", "clear"},
         KeepToWorks, NEW w \in Writers, Maintain(w)
  PROVE  /\ KeepsToWorks(w)'
         /\ \A v \in Writers \ {w} : pc'[v] = pc[v] /\ job'[v] = job[v]
<1>a. /\ pc \in [Writers -> {"idle"} \union Indexing \union Maintaining]
      /\ job \in [Writers -> Job] /\ KeepsToWorks(w)
      /\ Works \in [Writers -> SUBSET Files]
  BY ConstantsAssumption DEF KeepToWorks, TypeInv, TypeOK
<1> DEFINE Kept == /\ KeepsToWorks(w)'
                   /\ \A v \in Writers \ {w} : pc'[v] = pc[v] /\ job'[v] = job[v]
<1> USE <1>a DEF Goto, Done, Begin, KeepsToWorks, Claims, OfAll, NoJob
<1>1. ASSUME NEW x \in Files, DeletionSeen(w, x) PROVE Kept
  BY <1>1 DEF DeletionSeen
<1>2. CASE FolderRemoved(w) BY <1>2 DEF FolderRemoved
<1>3. ~ Startup(w) /\ ~ StartupRechunks(w) /\ ~ Repair(w) /\ ~ Rebuild(w)
  BY DEF Startup, StartupRechunks, Repair, Rebuild
<1>4. CASE Pick(w) BY <1>4 DEF Pick, Job
<1>5. CASE Remove(w) BY <1>5 DEF Remove, LanceDelete
<1>6. CASE RemoveFts(w) BY <1>6 DEF RemoveFts
<1>7. CASE RemoveRow(w) BY <1>7 DEF RemoveRow, Job
<1>8. CASE AllRemoved(w) BY <1>8 DEF AllRemoved
<1>9. /\ ~ Reconcile(w) /\ ~ Drop(w) /\ ~ Backfill(w) /\ ~ Copy(w)
      /\ ~ RebuildSqlite(w) /\ ~ ClearAll(w)
  BY DEF Reconcile, Drop, Backfill, Copy, RebuildSqlite, ClearAll
<1>10. CASE GiveUp(w) BY <1>10 DEF GiveUp
<1>11. QED
  BY <1>1, <1>2, <1>3, <1>4, <1>5, <1>6, <1>7, <1>8, <1>9, <1>10 DEF Maintain

\* The hypotheses of the theorems above, of an index with one thread and of one
\* whose threads (tasks of different folders, say) have different files.
THEOREM SeparateWorksStayApart ==
  SeparateWorks => (Spec => []ClaimsApart /\ []FilesApart)
<1> SUFFICES ASSUME SeparateWorks PROVE Spec => []ClaimsApart /\ []FilesApart
  OBVIOUS
<1>1. CASE \A v, w \in Writers : v = w
  <2>1. Init => ClaimsApart /\ FilesApart
    BY <1>1 DEF ClaimsApart, FilesApart
  <2>2. [Next]_vars => (ClaimsApart /\ FilesApart)'
    BY <1>1 DEF ClaimsApart, FilesApart
  <2>3. QED
    BY <2>1, <2>2, PTL DEF Spec
<1>2. CASE \E v, w \in Writers : v # w
  <2>a. Ops \subseteq {"delete", "folder", "clear"}
    BY <1>2 DEF SeparateWorks
  <2>1. Init => KeepToWorks
    BY InitTyped DEF Init, KeepToWorks, KeepsToWorks, Claims, OfAll, NoJob
  <2>2. KeepToWorks /\ [Next]_vars => KeepToWorks'
    <3> SUFFICES ASSUME KeepToWorks, [Next]_vars PROVE KeepToWorks'
      OBVIOUS
    <3>1. TypeInv'
      <4>1. TypeInv
        BY DEF KeepToWorks
      <4>2. CASE UNCHANGED vars
        BY <4>1, <4>2 DEF vars, world, sqlite, TypeInv, TypeOK, LocalsConsistent
      <4>3. QED
        BY <4>1, <4>2, IndexFileTyped, MaintainTyped, OthersTyped DEF Next
    <3>2. ASSUME NEW w \in Writers, IndexFile(w) \/ Maintain(w) PROVE KeepToWorks'
      <4>1. /\ KeepsToWorks(w)'
            /\ \A v \in Writers \ {w} : pc'[v] = pc[v] /\ job'[v] = job[v]
        BY <2>a, <3>2, IndexFileKeepsToWorks, MaintainKeepsToWorks
      <4>2. QED
        BY <3>1, <4>1 DEF KeepToWorks, KeepsToWorks, Claims
    <3>3. CASE Crash
      BY <3>1, <3>3 DEF Crash, KeepToWorks, KeepsToWorks, Claims, OfAll, NoJob
    <3>4. CASE UNCHANGED <<pc, job>>
      BY <3>1, <3>4 DEF KeepToWorks, KeepsToWorks, Claims
    <3>5. QED
      BY <3>2, <3>3, <3>4 DEF Next, vars, ClearFailed, Put, Vanish
  <2>3. KeepToWorks => ClaimsApart
    BY DEF KeepToWorks, KeepsToWorks, ClaimsApart, SeparateWorks
  <2>4. KeepToWorks => FilesApart
    <3> SUFFICES ASSUME KeepToWorks, NEW v \in Writers, NEW w \in Writers, v # w,
                        pc[v] # "idle", pc[w] # "idle"
                 PROVE  /\ pc[v] \notin OfAll
                        /\ job[v].file \in Files => job[v].file # job[w].file
      BY DEF FilesApart
    <3>1. job[v].file \in Files => job[v].file \in Claims(v)
      BY FileIsClaimed
    <3>2. job[w].file \in Files => job[w].file \in Claims(w)
      BY FileIsClaimed
    <3>3. QED
      BY <3>1, <3>2, <2>3 DEF ClaimsApart, KeepToWorks, KeepsToWorks
  <2>5. QED
    BY <2>1, <2>2, <2>3, <2>4, PTL DEF Spec
<1>3. QED
  BY <1>1, <1>2
=============================================================================
