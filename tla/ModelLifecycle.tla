--------------------------- MODULE ModelLifecycle ---------------------------
(***************************************************************************)
(* The life of an ONNX model in memory: embedder.py and reranker.py, which *)
(* share their design.  It is loaded by the first inference, under a lock; *)
(* inference and the idle timer use it without.  Loading an embedding      *)
(* model downloads it when it is missing (ModelDownload); a reranker calls *)
(* the hub directly.  The variable "kind" says which of the two it is.     *)
(***************************************************************************)
EXTENDS ModelDownload

CONSTANTS
  Threads,     \* threads that embed or rerank
  Model,       \* the model in the configuration
  NoThread,
  Timers,      \* objects threading.Timer, reused once they are dead
  NoTimer,
  Faults       \* of {"load", "infer"}: what may raise

ASSUME LifecycleAssumption ==
  /\ Threads \subseteq Callers /\ Model \in Names
  /\ NoThread \notin Threads /\ NoTimer \notin Timers
  /\ Faults \subseteq {"load", "infer"}

VARIABLES
  kind,       \* "embedder", "reranker", or "none" when only HTTP requests come
  idleTimeout, \* whether _idle_timeout is above 0; it is 0 on every GPU machine
  tokenizer,  \* _tokenizer_loaded
  loaded,     \* _loaded, and _session is not None
  lock,       \* who holds _lock
  pc,         \* each thread
  timer,      \* _timer
  latest,     \* the timer made together with the present _last_used
  tstate,     \* each Timer object
  cancelled,  \* the timers whose "finished" event is set
  raised      \* history: an inference has raised since a timer was made

given == <<kind, idleTimeout>>
modelVars == <<given, tokenizer, loaded, lock, pc, timer, latest, tstate, cancelled, raised>>
vars == <<modelVars, downloadVars>>

ThreadPC == {"idle", "ensure", "tokLock", "tokLoad", "sessLock", "sessLoad",
             "inputs", "run", "infer", "reset", "cancel", "make", "start"}
TimerState == {"dead", "made", "started", "fired"}

TypeOK ==
  /\ DownloadTypeOK
  /\ kind \in {"embedder", "reranker", "none"} /\ idleTimeout \in BOOLEAN
  /\ tokenizer \in BOOLEAN /\ loaded \in BOOLEAN
  /\ lock \in Threads \union {NoThread}
  /\ pc \in [Threads -> ThreadPC]
  /\ timer \in Timers \union {NoTimer} /\ latest \in Timers \union {NoTimer}
  /\ tstate \in [Timers -> TimerState] /\ cancelled \subseteq Timers /\ raised \in BOOLEAN

Init ==
  /\ DownloadInit
  /\ kind \in {"embedder", "reranker", "none"} /\ idleTimeout \in BOOLEAN
  /\ tokenizer = FALSE /\ loaded = FALSE /\ lock = NoThread
  /\ pc = [t \in Threads |-> "idle"]
  /\ timer = NoTimer /\ latest = NoTimer
  /\ tstate = [m \in Timers |-> "dead"] /\ cancelled = {} /\ raised = FALSE

Goto(t, from, to) == pc[t] = from /\ pc' = [pc EXCEPT ![t] = to]
timerVars == <<timer, latest, tstate, cancelled, raised>>
memoryVars == <<tokenizer, loaded, lock>>

----------------------------------------------------------------------------
\* embed_query(), or a batch of embed_documents().
Encode(t) ==
  /\ kind = "embedder" /\ Goto(t, "idle", "ensure")
  /\ UNCHANGED <<given, memoryVars, timerVars, downloadVars>>

\* rerank() of some results with reranking enabled.
Rerank(t) ==
  /\ kind = "reranker" /\ Goto(t, "idle", "ensure")
  /\ UNCHANGED <<given, memoryVars, timerVars, downloadVars>>

Leave(t) == pc' = [pc EXCEPT ![t] = "idle"]

\* _ensure_loaded(): both flags are looked at without the lock and again with it.
\* The tokenizer stays, so looking at it once more changes nothing.
Ensure(t) ==
  /\ Goto(t, "ensure", CASE ~ tokenizer -> "tokLock"
                         [] tokenizer /\ ~ loaded -> "sessLock"
                         [] OTHER -> "inputs")
  /\ UNCHANGED <<given, memoryVars, timerVars, downloadVars>>

\* A load of an embedding model begins with download_with_timeout().
BeginLoad(t) == IF kind = "embedder" THEN BeginDownload(t, Model) ELSE UNCHANGED downloadVars

LockTokenizer(t) ==
  /\ lock = NoThread
  /\ IF tokenizer
     THEN Goto(t, "tokLock", "ensure") /\ UNCHANGED <<lock, downloadVars>>
     ELSE Goto(t, "tokLock", "tokLoad") /\ lock' = t /\ BeginLoad(t)
  /\ UNCHANGED <<given, tokenizer, loaded, timerVars>>

LockSessionUnchecked(t) ==
  /\ lock = NoThread
  /\ Goto(t, "sessLock", "sessLoad") /\ lock' = t /\ BeginLoad(t)
  /\ UNCHANGED <<given, tokenizer, loaded, timerVars>>

LockSession(t) ==
  /\ lock = NoThread
  /\ IF loaded
     THEN Goto(t, "sessLock", "inputs") /\ UNCHANGED <<lock, downloadVars>>
     ELSE Goto(t, "sessLock", "sessLoad") /\ lock' = t /\ BeginLoad(t)
  /\ UNCHANGED <<given, tokenizer, loaded, timerVars>>

\* The files are there; _load_tokenizer() or _load_session() reads them.
FilesThere(t) ==
  IF kind = "embedder" THEN DownloadReturns(t) ELSE UNCHANGED downloadVars
LoadTokenizer(t) ==
  /\ Goto(t, "tokLoad", "ensure") /\ FilesThere(t)
  /\ tokenizer' = TRUE /\ lock' = NoThread
  /\ UNCHANGED <<given, loaded, timerVars>>

LoadSession(t) ==
  /\ Goto(t, "sessLoad", "inputs") /\ FilesThere(t)
  /\ loaded' = TRUE /\ lock' = NoThread
  /\ UNCHANGED <<given, tokenizer, timerVars>>

\* No network, timeout, or a file is missing or broken: "with" gives the lock back.
LoadFails(t) ==
  /\ "load" \in Faults
  /\ pc[t] \in {"tokLoad", "sessLoad"} /\ Leave(t) /\ lock' = NoThread
  /\ IF kind = "embedder" THEN DownloadRaises(t) \/ DownloadTimesOut(t) \/ DownloadReturns(t)
                          ELSE UNCHANGED downloadVars
  /\ UNCHANGED <<given, tokenizer, loaded, timerVars>>

----------------------------------------------------------------------------
\* _encode() and _score_pairs(): _session is read for its inputs and again to
\* run it; None raises AttributeError.  A run under way keeps its session.
ReadSessionRetrying(t, from, to) ==
  /\ Goto(t, from, IF loaded THEN to ELSE "ensure")
  /\ UNCHANGED <<given, memoryVars, timerVars, downloadVars>>

ReadSession(t, from, to) ==
  /\ IF loaded THEN Goto(t, from, to) ELSE pc[t] = from /\ Leave(t)
  /\ UNCHANGED <<given, memoryVars, timerVars, downloadVars>>
Inputs(t) == ReadSession(t, "inputs", "run")
Run(t) == ReadSession(t, "run", "infer")

Infer(t) ==
  /\ Goto(t, "infer", "reset")
  /\ UNCHANGED <<given, memoryVars, timerVars, downloadVars>>

InferenceFails(t) ==
  /\ "infer" \in Faults /\ pc[t] = "infer" /\ Leave(t) /\ raised' = TRUE
  /\ UNCHANGED <<given, memoryVars, timer, latest, tstate, cancelled, downloadVars>>

\* _reset_idle_timer(), without the lock: each line reads _timer anew.  A timeout of 0
\* stands for never.
ResetTimer(t) ==
  /\ Goto(t, "reset", CASE ~ idleTimeout -> "idle"
                        [] idleTimeout /\ timer = NoTimer -> "make"
                        [] OTHER -> "cancel")
  /\ UNCHANGED <<given, memoryVars, timerVars, downloadVars>>

\* cancel() means something only to a timer that was not fired yet.
Waiting(m) == {n \in {m} \ {NoTimer} : tstate[n] \in {"made", "started"}}

CancelTimer(t) ==
  /\ pc[t] = "cancel"
  /\ IF timer = NoTimer THEN Leave(t) /\ UNCHANGED cancelled
     ELSE /\ Goto(t, "cancel", "make")
          /\ cancelled' = cancelled \union Waiting(timer)
  /\ UNCHANGED <<given, memoryVars, timer, latest, tstate, raised, downloadVars>>

\* A timer nothing refers to, dead or never started, is as good as a new one.
Free(m) == tstate[m] \in {"dead", "made"} /\ m \notin {timer, latest}

MakeTimer(t) ==
  /\ Goto(t, "make", "start")
  /\ \E m \in Timers :
       /\ Free(m) /\ m = CHOOSE n \in Timers : Free(n)
       /\ timer' = m /\ latest' = m
       /\ tstate' = [tstate EXCEPT ![m] = "made"] /\ cancelled' = cancelled \ {m}
  /\ raised' = FALSE
  /\ UNCHANGED <<given, memoryVars, downloadVars>>

\* daemon = True and start(): both raise for None and for a timer that was
\* started, whoever did it.
StartTimer(t) ==
  /\ pc[t] = "start"
  /\ IF timer # NoTimer /\ tstate[timer] = "made"
     THEN tstate' = [tstate EXCEPT ![timer] = "started"]
     ELSE UNCHANGED tstate
  /\ Leave(t)
  /\ UNCHANGED <<given, memoryVars, timer, latest, cancelled, raised, downloadVars>>

----------------------------------------------------------------------------
CheckIdleOrEndEarly(m) ==
  /\ tstate[m] = "started" /\ cancelled' = cancelled \ {m}
  /\ \/ /\ m \notin cancelled
        /\ tstate' = [tstate EXCEPT ![m] = "fired"]
     \/ tstate' = [tstate EXCEPT ![m] = "dead"]
  /\ UNCHANGED <<given, memoryVars, pc, timer, latest, raised, downloadVars>>

\* A started timer that is cancelled ends; one that is not calls _check_idle(),
\* which finds the time elapsed when no inference reset _last_used since, and
\* may find either when one did.
CheckIdleOrEnd(m) ==
  /\ tstate[m] = "started" /\ cancelled' = cancelled \ {m}
  /\ \/ /\ m \notin cancelled
        /\ tstate' = [tstate EXCEPT ![m] = "fired"]
     \/ /\ m \in cancelled \/ m # latest
        /\ tstate' = [tstate EXCEPT ![m] = "dead"]
  /\ UNCHANGED <<given, memoryVars, pc, timer, latest, raised, downloadVars>>

\* unload(), which takes the lock and cancels whatever timer there is now.
Unload(m) ==
  /\ tstate[m] = "fired" /\ lock = NoThread
  /\ loaded' = FALSE
  /\ tstate' = [tstate EXCEPT ![m] = "dead"]
  /\ cancelled' = cancelled \union Waiting(timer)
  /\ timer' = NoTimer
  /\ UNCHANGED <<given, tokenizer, lock, pc, latest, raised, downloadVars>>

----------------------------------------------------------------------------
Continues(t) ==
  \/ Ensure(t) \/ LockTokenizer(t) \/ LoadTokenizer(t)
  \/ LockSession(t) \/ LoadSession(t) \/ LoadFails(t)
  \/ Inputs(t) \/ Run(t) \/ Infer(t) \/ InferenceFails(t)
  \/ ResetTimer(t) \/ CancelTimer(t) \/ MakeTimer(t) \/ StartTimer(t)

\* HTTP threads meet loading threads in the download status alone, and there they
\* are alike: to keep instances small, they are checked against each other.
Post(c) == kind = "none" /\ Request(c) /\ UNCHANGED modelVars

DownloadGoesOn(c) == Downloading(c) /\ UNCHANGED modelVars
OrphansGoOn == (\E m \in Names : OrphanEnds(m)) /\ UNCHANGED modelVars

Next ==
  \/ \E t \in Threads : Encode(t) \/ Rerank(t) \/ Continues(t)
  \/ \E m \in Timers : CheckIdleOrEnd(m) \/ Unload(m)
  \/ \E c \in Callers \ Threads : Post(c)
  \/ \E c \in Callers : DownloadGoesOn(c)
  \/ OrphansGoOn

Spec == Init /\ [][Next]_vars

\* Threads run, and get a lock that is free again and again; a started timer
\* fires; a download answers, fails or runs into its timeout.  (Making a Timer
\* never waits in the code, only for one of the bounded number here.)
Fairness ==
  /\ \A t \in Threads : SF_vars(Continues(t)) /\ WF_vars(DownloadGoesOn(t))
  /\ \A m \in Timers : SF_vars(CheckIdleOrEnd(m) \/ Unload(m))

FairSpec == Spec /\ Fairness

----------------------------------------------------------------------------
\* Double-checked locking: whoever loads under the lock found nothing loaded,
\* so no session of 400 MB replaces another one that is still referred to.
LoadsOnlyOnce == \A t \in Threads : pc[t] = "sessLoad" => ~ loaded

\* Whatever goes wrong in loading or with timers, every call returns or raises.
EveryCallEnds == \A t \in Threads : []<>(pc[t] = "idle")

\* With an idle timeout, a model that is not used for long enough does not stay in memory,
\* although timers are cancelled, replaced and started without the lock by threads that
\* read each other's: unless the last inference raised, after which nobody made a timer.
IdleUnloads ==
  []<>(idleTimeout => ~ loaded \/ raised \/ \E t \in Threads : pc[t] # "idle")
=============================================================================
