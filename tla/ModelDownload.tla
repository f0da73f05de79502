--------------------------- MODULE ModelDownload ---------------------------
(***************************************************************************)
(* Downloads of embedding models (model_download.py), the import of a      *)
(* model from a directory (model_importer.py) and the route that polls the *)
(* status (http_routes_model.py).  One global status serves all            *)
(* downloads of all models; each caller waits for a thread of its own, for *)
(* at most Timeout seconds, and leaves it running when that time is over.  *)
(***************************************************************************)
EXTENDS Naturals, FiniteSets

CONSTANTS
  Callers,     \* threads that may call download_with_timeout()
  Names,       \* models
  Timeout,     \* model_download_timeout in seconds, 0 for none
  MaxOrphans   \* bound: threads left running by timeouts

ASSUME DownloadAssumption == Timeout \in Nat /\ MaxOrphans \in Nat

VARIABLES
  status,   \* _download_status; the progress shown beside it is left out
  disk,     \* what the cache directory holds of each model
  call,     \* each caller in download_with_timeout()
  orphans   \* per model, download threads nobody waits for

downloadVars == <<status, disk, call, orphans>>

Phase == {"out", "fetch", "fetched", "failed", "import", "polled"}

Out == [name |-> CHOOSE m \in Names : TRUE, at |-> "out"]

DownloadTypeOK ==
  /\ status \in {"idle", "downloading", "cached", "timeout"}
  /\ disk \in [Names -> {"absent", "partial", "complete"}]
  /\ call \in [Callers -> [name : Names, at : Phase]]
  /\ orphans \in [Names -> 0 .. MaxOrphans]

DownloadInit ==
  /\ status = "idle"
  /\ disk \in [Names -> {"absent", "complete"}]
  /\ call = [c \in Callers |-> Out]
  /\ orphans = [m \in Names |-> 0]

Ends(c, from) == call[c].at = from /\ call' = [call EXCEPT ![c] = Out]
At(c, from, to) == call[c].at = from /\ call' = [call EXCEPT ![c].at = to]

\* download_with_timeout(m), until its thread runs.
BeginDownload(c, m) ==
  /\ call[c].at = "out"
  /\ call' = [call EXCEPT ![c] = [name |-> m, at |-> "fetch"]]
  /\ status' = "downloading"
  /\ UNCHANGED <<disk, orphans>>

\* Files come one by one: an .onnx file is there before the rest is.
PartlyFetched(c) ==
  /\ call[c].at \in {"fetch", "import"}
  /\ disk[call[c].name] = "absent"
  /\ disk' = [disk EXCEPT ![call[c].name] = "partial"]
  /\ UNCHANGED <<status, call, orphans>>

\* snapshot_download() returned, or, on Windows without the right to make
\* links, the directory was copied into the cache.
Fetched(c) ==
  /\ At(c, "fetch", "fetched")
  /\ disk' = [disk EXCEPT ![call[c].name] = "complete"]
  /\ UNCHANGED <<status, orphans>>

FetchFails(c) ==
  /\ At(c, "fetch", "failed")
  /\ UNCHANGED <<status, disk, orphans>>

\* The three ways out: the path, the exception of the download, the timeout.
DownloadReturns(c) ==
  /\ Ends(c, "fetched") /\ status' = "cached"
  /\ UNCHANGED <<disk, orphans>>

DownloadRaisesKeepingStatus(c) ==
  /\ Ends(c, "failed")
  /\ UNCHANGED <<status, disk, orphans>>

DownloadRaises(c) ==
  /\ Ends(c, "failed") /\ status' = "idle"
  /\ UNCHANGED <<disk, orphans>>

DownloadTimesOutAsCached(c) ==
  /\ Timeout > 0 /\ Ends(c, "fetch")
  /\ orphans[call[c].name] < MaxOrphans
  /\ orphans' = [orphans EXCEPT ![call[c].name] = @ + 1]
  /\ status' = "cached"
  /\ UNCHANGED <<disk>>

DownloadTimesOut(c) ==
  /\ Timeout > 0 /\ Ends(c, "fetch")
  /\ orphans[call[c].name] < MaxOrphans
  /\ orphans' = [orphans EXCEPT ![call[c].name] = @ + 1]
  /\ status' = "timeout"
  /\ UNCHANGED <<disk>>

\* The thread that was left running ends: its result is read by nobody.
OrphanEnds(m) ==
  /\ orphans[m] > 0 /\ orphans' = [orphans EXCEPT ![m] = @ - 1]
  /\ \/ disk' = [disk EXCEPT ![m] = "complete"]
     \/ UNCHANGED disk
  /\ UNCHANGED <<status, call>>

\* POST /model/import: copy_model_to_cache() of a directory with an .onnx file.
ImportBegins(c, m) ==
  /\ call[c].at = "out" /\ call' = [call EXCEPT ![c] = [name |-> m, at |-> "import"]]
  /\ UNCHANGED <<status, disk, orphans>>

\* copy2() of some file may raise: what was copied before it stays.
ImportEnds(c) ==
  /\ Ends(c, "import")
  /\ \/ disk' = [disk EXCEPT ![call[c].name] = "complete"]
     \/ UNCHANGED disk
  /\ UNCHANGED <<status, orphans>>

\* GET /model/status: is_model_cached(m) looks for an .onnx file, reads the status
\* and, in a second step, upgrades it.
PollBegins(c, m) ==
  /\ call[c].at = "out" /\ disk[m] # "absent" /\ status \in {"idle", "downloading"}
  /\ call' = [call EXCEPT ![c] = [name |-> m, at |-> "polled"]]
  /\ UNCHANGED <<status, disk, orphans>>

PollEnds(c) ==
  /\ Ends(c, "polled") /\ status' = "cached"
  /\ UNCHANGED <<disk, orphans>>

\* What goes on without the caller returning.
Downloading(c) == PartlyFetched(c) \/ Fetched(c) \/ FetchFails(c)

\* What an HTTP thread does, POST /model/download included.
Request(c) ==
  \/ \E m \in Names : BeginDownload(c, m) \/ ImportBegins(c, m) \/ PollBegins(c, m)
  \/ DownloadReturns(c) \/ DownloadRaises(c) \/ DownloadTimesOut(c)
  \/ ImportEnds(c) \/ PollEnds(c)

----------------------------------------------------------------------------
\* With no download in any caller's hands the page that polls never goes on
\* showing "downloading": every way out of download_with_timeout(), whatever
\* other calls did to the shared status meanwhile, leaves a final one.
QuietIsNotDownloading ==
  (\A c \in Callers : call[c].at = "out") => status # "downloading"

\* "cached" is never shown while the cache directory holds nothing of any model,
\* though it is one status for all and set by polls as well as by downloads.
CachedIsThere == status = "cached" => \E m \in Names : disk[m] # "absent"
=============================================================================
