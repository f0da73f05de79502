----------------------- MODULE ModelLifecycle_proofs -----------------------
(***************************************************************************)
(* Theorems of ModelLifecycle and ModelDownload and their proofs.          *)
(***************************************************************************)
EXTENDS ModelLifecycle, TLAPS

\* Who loads holds the lock, and the other way round.
LockIsHeld == \A t \in Threads : pc[t] \in {"tokLoad", "sessLoad"} <=> lock = t

\* A status "downloading" belongs to a download that will leave a final one.
DownloadIsInHand ==
  status = "downloading" => \E c \in Callers : call[c].at \in {"fetch", "fetched", "failed"}

\* What was fetched or polled is in the cache directory, where nothing is removed.
FoundIsThere ==
  \A c \in Callers : call[c].at \in {"fetched", "polled"} => disk[call[c].name] # "absent"

DownloadInv == DownloadTypeOK /\ DownloadIsInHand /\ FoundIsThere /\ CachedIsThere

ThreadInv ==
  /\ kind \in {"embedder", "reranker", "none"} /\ idleTimeout \in BOOLEAN
  /\ tokenizer \in BOOLEAN /\ loaded \in BOOLEAN
  /\ lock \in Threads \union {NoThread} /\ pc \in [Threads -> ThreadPC]
  /\ LockIsHeld /\ LoadsOnlyOnce

TimerInv ==
  /\ timer \in Timers \union {NoTimer} /\ latest \in Timers \union {NoTimer}
  /\ tstate \in [Timers -> TimerState] /\ cancelled \subseteq Timers /\ raised \in BOOLEAN

IInv == DownloadInv /\ ThreadInv /\ TimerInv

LEMMA OutIsCall == Out \in [name : Names, at : Phase] /\ Out.at = "out"
BY LifecycleAssumption DEF Out, Phase

LEMMA InitInv == Init => IInv
<1> SUFFICES ASSUME Init PROVE IInv
  OBVIOUS
<1>1. DownloadInv
  BY OutIsCall, DownloadAssumption
     DEF Init, DownloadInit, DownloadInv, DownloadTypeOK, DownloadIsInHand, FoundIsThere,
         CachedIsThere
<1>2. ThreadInv /\ TimerInv
  BY LifecycleAssumption
     DEF Init, ThreadInv, TimerInv, LockIsHeld, LoadsOnlyOnce, ThreadPC, TimerState
<1>3. QED
  BY <1>1, <1>2 DEF IInv

----------------------------------------------------------------------------
(***************************************************************************)
(* Downloads                                                               *)
(***************************************************************************)
LEMMA DownloadStep ==
  ASSUME DownloadInv, NEW c \in Callers,
         \/ \E m \in Names : BeginDownload(c, m) \/ ImportBegins(c, m) \/ PollBegins(c, m)
         \/ PartlyFetched(c) \/ Fetched(c) \/ FetchFails(c)
         \/ DownloadReturns(c) \/ DownloadRaises(c) \/ DownloadTimesOut(c)
         \/ ImportEnds(c) \/ PollEnds(c)
  PROVE  DownloadInv'
<1> USE OutIsCall, DownloadAssumption
    DEF DownloadInv, DownloadTypeOK, DownloadIsInHand, FoundIsThere, CachedIsThere, Phase,
        At, Ends
<1>1. ASSUME NEW m \in Names, BeginDownload(c, m) PROVE DownloadInv'
  BY <1>1 DEF BeginDownload
<1>2. ASSUME PartlyFetched(c) PROVE DownloadInv'
  BY <1>2 DEF PartlyFetched
<1>3. ASSUME Fetched(c) PROVE DownloadInv'
  BY <1>3 DEF Fetched
<1>4. ASSUME FetchFails(c) PROVE DownloadInv'
  BY <1>4 DEF FetchFails
<1>5. ASSUME DownloadReturns(c) PROVE DownloadInv'
  BY <1>5 DEF DownloadReturns
<1>6. ASSUME DownloadRaises(c) PROVE DownloadInv'
  BY <1>6 DEF DownloadRaises
<1>7. ASSUME DownloadTimesOut(c) PROVE DownloadInv'
  BY <1>7 DEF DownloadTimesOut
<1>8. ASSUME NEW m \in Names, ImportBegins(c, m) PROVE DownloadInv'
  BY <1>8 DEF ImportBegins
<1>9. ASSUME ImportEnds(c) PROVE DownloadInv'
  BY <1>9 DEF ImportEnds
<1>10. ASSUME NEW m \in Names, PollBegins(c, m) PROVE DownloadInv'
  BY <1>10 DEF PollBegins
<1>11. ASSUME PollEnds(c) PROVE DownloadInv'
  BY <1>11 DEF PollEnds
<1>12. QED
  BY <1>1, <1>2, <1>3, <1>4, <1>5, <1>6, <1>7, <1>8, <1>9, <1>10, <1>11

LEMMA OrphanStep ==
  ASSUME DownloadInv, NEW m \in Names, OrphanEnds(m)
  PROVE  DownloadInv'
BY DownloadAssumption
   DEF DownloadInv, DownloadTypeOK, DownloadIsInHand, FoundIsThere, CachedIsThere, OrphanEnds

LEMMA DownloadStutter == DownloadInv /\ UNCHANGED downloadVars => DownloadInv'
BY DEF DownloadInv, DownloadTypeOK, DownloadIsInHand, FoundIsThere, CachedIsThere, downloadVars

----------------------------------------------------------------------------
(***************************************************************************)
(* Threads and timers                                                      *)
(***************************************************************************)
LEMMA ThreadDownloads ==
  ASSUME DownloadInv, NEW t \in Threads, Encode(t) \/ Rerank(t) \/ Continues(t)
  PROVE  DownloadInv'
<1>1. t \in Callers /\ Model \in Names
  BY LifecycleAssumption
<1>2. \/ UNCHANGED downloadVars \/ BeginDownload(t, Model)
      \/ DownloadReturns(t) \/ DownloadRaises(t) \/ DownloadTimesOut(t)
  BY DEF Encode, Rerank, Continues, Ensure, LockTokenizer, LoadTokenizer, LockSession,
         LoadSession, LoadFails, BeginLoad, FilesThere, Inputs, Run, ReadSession, Infer,
         InferenceFails, ResetTimer, CancelTimer, MakeTimer, StartTimer
<1>3. QED
  BY <1>1, <1>2, DownloadStep, DownloadStutter

LEMMA ThreadStep ==
  ASSUME ThreadInv, NEW t \in Threads, Encode(t) \/ Rerank(t) \/ Continues(t)
  PROVE  ThreadInv'
<1> USE LifecycleAssumption
    DEF ThreadInv, LockIsHeld, LoadsOnlyOnce, ThreadPC, Goto, Leave, memoryVars, given
<1>1. CASE Encode(t)
  BY <1>1 DEF Encode
<1>2. CASE Rerank(t)
  BY <1>2 DEF Rerank
<1>3. CASE Ensure(t)
  BY <1>3 DEF Ensure
<1>4. CASE LockTokenizer(t)
  BY <1>4 DEF LockTokenizer
<1>5. CASE LoadTokenizer(t)
  BY <1>5 DEF LoadTokenizer
<1>6. CASE LockSession(t)
  BY <1>6 DEF LockSession
<1>7. CASE LoadSession(t)
  BY <1>7 DEF LoadSession
<1>8. CASE LoadFails(t)
  BY <1>8 DEF LoadFails
<1>9. CASE Inputs(t)
  BY <1>9 DEF Inputs, ReadSession
<1>10. CASE Run(t)
  BY <1>10 DEF Run, ReadSession
<1>11. CASE Infer(t)
  BY <1>11 DEF Infer
<1>12. CASE InferenceFails(t)
  BY <1>12 DEF InferenceFails
<1>13. CASE ResetTimer(t)
  BY <1>13 DEF ResetTimer
<1>14. CASE CancelTimer(t)
  BY <1>14 DEF CancelTimer
<1>15. CASE MakeTimer(t)
  BY <1>15 DEF MakeTimer
<1>16. CASE StartTimer(t)
  BY <1>16 DEF StartTimer
<1>17. QED
  BY <1>1, <1>2, <1>3, <1>4, <1>5, <1>6, <1>7, <1>8, <1>9, <1>10, <1>11, <1>12, <1>13, <1>14, <1>15, <1>16
     DEF Continues

LEMMA ThreadTimers ==
  ASSUME TimerInv, NEW t \in Threads, Encode(t) \/ Rerank(t) \/ Continues(t)
  PROVE  TimerInv'
<1> USE DEF TimerInv, TimerState, timerVars
<1>1. CASE CancelTimer(t)
  BY <1>1 DEF CancelTimer, Waiting
<1>2. CASE MakeTimer(t)
  BY <1>2 DEF MakeTimer
<1>3. CASE StartTimer(t)
  BY <1>3 DEF StartTimer
<1>4. CASE InferenceFails(t)
  BY <1>4 DEF InferenceFails
<1>5. CASE UNCHANGED timerVars
  BY <1>5
<1>6. QED
  BY <1>1, <1>2, <1>3, <1>4, <1>5
     DEF Encode, Rerank, Continues, Ensure, LockTokenizer, LoadTokenizer, LockSession,
         LoadSession, LoadFails, Inputs, Run, ReadSession, Infer, ResetTimer

LEMMA TimerStep ==
  ASSUME IInv, NEW m \in Timers, CheckIdleOrEnd(m) \/ Unload(m)
  PROVE  IInv'
<1>1. DownloadInv'
  BY DownloadStutter DEF IInv, CheckIdleOrEnd, Unload
<1>2. ThreadInv'
  <2>1. UNCHANGED <<given, tokenizer, lock, pc>> /\ (loaded' = FALSE \/ loaded' = loaded)
    BY DEF CheckIdleOrEnd, Unload, memoryVars
  <2>2. LockIsHeld' /\ LoadsOnlyOnce'
    BY <2>1 DEF IInv, ThreadInv, LockIsHeld, LoadsOnlyOnce
  <2>3. loaded' \in BOOLEAN
    BY <2>1 DEF IInv, ThreadInv
  <2>4. QED
    BY <2>1, <2>2, <2>3 DEF IInv, ThreadInv, given
<1>3. TimerInv'
  BY LifecycleAssumption DEF IInv, TimerInv, TimerState, CheckIdleOrEnd, Unload, Waiting
<1>4. QED
  BY <1>1, <1>2, <1>3 DEF IInv

LEMMA ModelStutter == ThreadInv /\ TimerInv /\ UNCHANGED modelVars => ThreadInv' /\ TimerInv'
BY DEF ThreadInv, TimerInv, LockIsHeld, LoadsOnlyOnce, modelVars, given

LEMMA StepInv == IInv /\ [Next]_vars => IInv'
<1> SUFFICES ASSUME IInv, [Next]_vars PROVE IInv'
  OBVIOUS
<1>1. CASE \E t \in Threads : Encode(t) \/ Rerank(t) \/ Continues(t)
  BY <1>1, ThreadDownloads, ThreadStep, ThreadTimers DEF IInv
<1>2. CASE \E m \in Timers : CheckIdleOrEnd(m) \/ Unload(m)
  BY <1>2, TimerStep
<1>3. CASE \E c \in Callers \ Threads : Post(c)
  BY <1>3, DownloadStep, ModelStutter DEF IInv, Post, Request
<1>4. CASE \E c \in Callers : DownloadGoesOn(c)
  BY <1>4, DownloadStep, ModelStutter DEF IInv, DownloadGoesOn, Downloading
<1>5. CASE OrphansGoOn
  BY <1>5, OrphanStep, ModelStutter DEF IInv, OrphansGoOn
<1>6. CASE UNCHANGED vars
  BY <1>6, DownloadStutter, ModelStutter DEF IInv, vars
<1>7. QED
  BY <1>1, <1>2, <1>3, <1>4, <1>5, <1>6 DEF Next

LEMMA Inductive == Spec => []IInv
BY InitInv, StepInv, PTL DEF Spec

----------------------------------------------------------------------------
\* Every variable keeps its type, for any number of threads, timers and models.
THEOREM TypeCorrect == Spec => []TypeOK
<1>1. IInv => TypeOK
  BY DEF IInv, DownloadInv, ThreadInv, TimerInv, TypeOK
<1>2. QED
  BY Inductive, <1>1, PTL

\* Double-checked locking loads no model over a loaded one (embedder.py:103-128).
THEOREM OneLoad == Spec => []LoadsOnlyOnce
<1>1. IInv => LoadsOnlyOnce
  BY DEF IInv, ThreadInv
<1>2. QED
  BY Inductive, <1>1, PTL

\* The shared status never stays "downloading" (model_download.py:149-235).
THEOREM StatusSettles == Spec => []QuietIsNotDownloading
<1>1. IInv => QuietIsNotDownloading
  BY DEF IInv, DownloadInv, DownloadIsInHand, QuietIsNotDownloading
<1>2. QED
  BY Inductive, <1>1, PTL

\* The shared status says "cached" only with files of some model there.
THEOREM CachedIsReal == Spec => []CachedIsThere
<1>1. IInv => CachedIsThere
  BY DEF IInv, DownloadInv
<1>2. QED
  BY Inductive, <1>1, PTL

----------------------------------------------------------------------------
(***************************************************************************)
(* Somebody will unload an idle model: the part of IdleUnloads that is     *)
(* left when threads and timers are only trusted to go on.                 *)
(***************************************************************************)
\* A timer that will call _check_idle(), or has called it and waits to unload.
Armed(m) == m \notin cancelled /\ tstate[m] \in {"started", "fired"}

\* Threads that leave a new timer behind, unless they find the model unloaded.
WillMakeTimer == \E t \in Threads : pc[t] \in {"inputs", "run", "infer", "reset", "make"}

TimerIsLatest == timer \in {latest, NoTimer}

\* While the model is loaded, a thread will make a timer or the timer there is will
\* fire; a thread at "cancel" counts while there is a timer for it to find.
UnloadIsInHand ==
  idleTimeout /\ loaded /\ ~ raised =>
    \/ WillMakeTimer
    \/ timer # NoTimer /\ (Armed(timer) \/ \E t \in Threads : pc[t] = "cancel")
    \/ /\ timer # NoTimer /\ timer \notin cancelled /\ tstate[timer] = "made"
       /\ \E t \in Threads : pc[t] = "start"

\* Without an idle timeout nobody gets as far as a timer.
NobodyUnloads ==
  ~ idleTimeout =>
    /\ timer = NoTimer /\ tstate = [m \in Timers |-> "dead"]
    /\ \A t \in Threads : pc[t] \notin {"cancel", "make", "start"}

HandInv == TimerIsLatest /\ UnloadIsInHand /\ NobodyUnloads

\* With an idle timeout and every thread idle, only the timer is left to unload.
IdleHasATimer ==
  idleTimeout /\ loaded /\ ~ raised /\ (\A t \in Threads : pc[t] = "idle") =>
    timer # NoTimer /\ timer = latest /\ Armed(timer)

\* Without one, a loaded model is not unloaded.
StaysLoaded == ~ idleTimeout /\ loaded => loaded'

LEMMA ThreadKeepsHand ==
  ASSUME ThreadInv, TimerInv, HandInv, NEW t \in Threads, Encode(t) \/ Rerank(t) \/ Continues(t)
  PROVE  HandInv'
<1> USE LifecycleAssumption
    DEF ThreadInv, TimerInv, HandInv, TimerIsLatest, UnloadIsInHand, NobodyUnloads, Armed, WillMakeTimer,
        ThreadPC, TimerState, Goto, Leave, memoryVars, given, timerVars
<1>1. CASE Encode(t)
  BY <1>1 DEF Encode
<1>2. CASE Rerank(t)
  BY <1>2 DEF Rerank
<1>3. CASE Ensure(t)
  BY <1>3 DEF Ensure
<1>4. CASE LockTokenizer(t)
  BY <1>4 DEF LockTokenizer
<1>5. CASE LoadTokenizer(t)
  BY <1>5 DEF LoadTokenizer
<1>6. CASE LockSession(t)
  BY <1>6 DEF LockSession
<1>7. CASE LoadSession(t)
  BY <1>7 DEF LoadSession
<1>8. CASE LoadFails(t)
  BY <1>8 DEF LoadFails
<1>9. CASE Inputs(t)
  BY <1>9 DEF Inputs, ReadSession
<1>10. CASE Run(t)
  BY <1>10 DEF Run, ReadSession
<1>11. CASE Infer(t)
  BY <1>11 DEF Infer
<1>12. CASE InferenceFails(t)
  BY <1>12 DEF InferenceFails
<1>13. CASE ResetTimer(t)
  BY <1>13 DEF ResetTimer
<1>14. CASE CancelTimer(t)
  BY <1>14 DEF CancelTimer, Waiting
<1>15. CASE MakeTimer(t)
  BY <1>15 DEF MakeTimer, Free
<1>16. CASE StartTimer(t)
  BY <1>16 DEF StartTimer
<1>17. QED
  BY <1>1, <1>2, <1>3, <1>4, <1>5, <1>6, <1>7, <1>8, <1>9, <1>10, <1>11, <1>12, <1>13, <1>14, <1>15, <1>16
     DEF Continues

LEMMA TimerKeepsHand ==
  ASSUME TimerInv, HandInv, NEW m \in Timers, CheckIdleOrEnd(m) \/ Unload(m)
  PROVE  HandInv'
<1> USE LifecycleAssumption
    DEF TimerInv, HandInv, TimerIsLatest, UnloadIsInHand, NobodyUnloads, Armed,
        WillMakeTimer, TimerState, memoryVars, given
<1>1. CASE CheckIdleOrEnd(m)
  BY <1>1 DEF CheckIdleOrEnd
<1>2. CASE Unload(m)
  BY <1>2 DEF Unload
<1>3. QED
  BY <1>1, <1>2

LEMMA HandStep == IInv /\ HandInv /\ [Next]_vars => HandInv'
<1> SUFFICES ASSUME IInv, HandInv, [Next]_vars PROVE HandInv'
  OBVIOUS
<1>1. CASE \E t \in Threads : Encode(t) \/ Rerank(t) \/ Continues(t)
  BY <1>1, ThreadKeepsHand DEF IInv
<1>2. CASE \E m \in Timers : CheckIdleOrEnd(m) \/ Unload(m)
  BY <1>2, TimerKeepsHand DEF IInv
<1>3. CASE UNCHANGED modelVars
  BY <1>3 DEF HandInv, TimerIsLatest, UnloadIsInHand, NobodyUnloads, Armed, WillMakeTimer,
              modelVars, given
<1>4. QED
  BY <1>1, <1>2, <1>3 DEF Next, vars, Post, DownloadGoesOn, OrphansGoOn

\* With an idle timeout, a loaded model that no thread uses has the timer of its last
\* inference running and not cancelled, although timers are replaced without the lock,
\* unless that inference raised (embedder.py:139-158, reranker.py:237-252).
THEOREM IdleModelHasTimer == Spec => []IdleHasATimer
<1>1. Init => HandInv
  BY DEF Init, HandInv, TimerIsLatest, UnloadIsInHand, NobodyUnloads
<1>2. HandInv => IdleHasATimer
  BY LifecycleAssumption
     DEF HandInv, TimerIsLatest, UnloadIsInHand, WillMakeTimer, IdleHasATimer, Armed
<1>3. QED
  BY Inductive, HandStep, <1>1, <1>2, PTL DEF Spec

\* With an idle timeout of 0, as on a GPU, no thread and no timer ever unloads the model:
\* no timer is ever made (embedder.py:87-92 and 145-146, reranker.py:49-54 and 239-240).
THEOREM NoTimeoutNoUnload == Spec => [][StaysLoaded]_vars
<1>1. Init => HandInv
  BY DEF Init, HandInv, TimerIsLatest, UnloadIsInHand, NobodyUnloads
<1>2. IInv /\ HandInv /\ [Next]_vars => [StaysLoaded]_vars
  <2> SUFFICES ASSUME IInv, HandInv, Next, ~ idleTimeout, loaded PROVE loaded'
    BY DEF StaysLoaded
  <2>1. ASSUME NEW t \in Threads, Encode(t) \/ Rerank(t) \/ Continues(t) PROVE loaded'
    BY <2>1 DEF Encode, Rerank, Continues, Ensure, LockTokenizer, LoadTokenizer, LockSession,
                LoadSession, LoadFails, Inputs, Run, ReadSession, Infer, InferenceFails,
                ResetTimer, CancelTimer, MakeTimer, StartTimer, memoryVars
  <2>2. ASSUME NEW m \in Timers, CheckIdleOrEnd(m) \/ Unload(m) PROVE loaded'
    BY <2>2 DEF HandInv, NobodyUnloads, CheckIdleOrEnd, Unload
  <2>3. QED
    BY <2>1, <2>2 DEF Next, Post, DownloadGoesOn, OrphansGoOn, modelVars
<1>3. QED
  BY Inductive, HandStep, <1>1, <1>2, PTL DEF Spec
=============================================================================
