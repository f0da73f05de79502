----------------------------- MODULE Conversion -----------------------------
(***************************************************************************)
(* Conversion of binary files to Markdown: convert() of the worker process *)
(* (subprocess_conversion_worker.py) and of the worker thread              *)
(* (conversion_worker.py), and convert_to_markdown() with its global       *)
(* converter and its retries (markitdown_parser.py).  The variable "mode"  *)
(* says which of the two workers create_conversion_worker() made.          *)
(***************************************************************************)
EXTENDS Naturals, Sequences

CONSTANTS
  Callers,   \* threads that index files
  Files,
  Procs,     \* process objects with their two queues, reused when ended
  NoProc,
  Retries    \* _MAX_RETRIES

ASSUME ConversionAssumption == NoProc \notin Procs /\ Retries \in Nat \ {0}

VARIABLES
  mode,       \* "subprocess" or "thread"
  pc, file,   \* each caller, and the file it asked for
  got,        \* the file whose text it was given
  process,    \* _process
  queues,     \* the process _request_q and _response_q belong to, stopped or not
  from,       \* the process on whose response queue a caller waits
  alive,      \* processes that run
  doing,      \* the file each process converts, NoFile when it waits
  req, resp,  \* the queues of each process
  converter,  \* _converter is not None, in the server's process
  attempt,    \* of convert_to_markdown() in the thread of a caller
  strays,     \* threads given up before they have a converter, at most one
  down        \* the server has begun to shut down

vars == <<mode, pc, file, got, process, queues, from, alive, doing, req, resp,
          converter, attempt, strays, down>>

NoFile == "none"

ASSUME NoFileIsNoFile == NoFile \notin Files

\* What a worker process sends: whose text, whether it converted, and whether
\* its memory is over the threshold.
Answer == [file : Files, ok : BOOLEAN, big : BOOLEAN]

CallerPC == {"idle", "ensure", "drain", "put", "wait", "restart", "start",
             "size", "find", "use", "convert", "failed", "converted", "returned"}

TypeOK ==
  /\ mode \in {"subprocess", "thread"}
  /\ pc \in [Callers -> CallerPC]
  /\ file \in [Callers -> Files \union {NoFile}] /\ got \in [Callers -> Files \union {NoFile}]
  /\ {process, queues} \subseteq Procs \union {NoProc}
  /\ from \in [Callers -> Procs \union {NoProc}]
  /\ alive \subseteq Procs /\ doing \in [Procs -> Files \union {NoFile}]
  /\ req \in [Procs -> Seq(Files)] /\ resp \in [Procs -> Seq(Answer)]
  /\ converter \in BOOLEAN /\ attempt \in [Callers -> 0 .. Retries]
  /\ strays \in 0 .. 1 /\ down \in BOOLEAN

Init ==
  /\ mode \in {"subprocess", "thread"}
  /\ pc = [c \in Callers |-> "idle"] /\ file = [c \in Callers |-> NoFile]
  /\ got = [c \in Callers |-> NoFile]
  /\ process = NoProc /\ queues = NoProc /\ from = [c \in Callers |-> NoProc]
  /\ alive = {} /\ doing = [p \in Procs |-> NoFile]
  /\ req = [p \in Procs |-> <<>>] /\ resp = [p \in Procs |-> <<>>]
  /\ converter = FALSE /\ attempt = [c \in Callers |-> 0] /\ strays = 0
  /\ down = FALSE

procVars == <<process, queues, from, alive, doing, req, resp>>
threadVars == <<converter, attempt, strays>>
Goto(c, a, b) == pc[c] = a /\ pc' = [pc EXCEPT ![c] = b]

Convert(c, f) ==
  /\ Goto(c, "idle", IF mode = "subprocess" THEN "ensure" ELSE "size")
  /\ file' = [file EXCEPT ![c] = f]
  /\ UNCHANGED <<mode, down, got, procVars, threadVars>>

\* convert() ended, by return or exception; its caller goes on.
End(c) ==
  /\ pc[c] \in {"returned", "failed"} /\ pc' = [pc EXCEPT ![c] = "idle"]
  /\ file' = [file EXCEPT ![c] = NoFile] /\ got' = [got EXCEPT ![c] = NoFile]
  /\ UNCHANGED <<mode, down, procVars, threadVars>>

----------------------------------------------------------------------------
\* start(): nothing when a process runs, else a process with two new queues.
Started(p) ==
  /\ process' = p /\ queues' = p /\ alive' = alive \union {p}
  /\ doing' = [doing EXCEPT ![p] = NoFile]
  /\ req' = [req EXCEPT ![p] = <<>>] /\ resp' = [resp EXCEPT ![p] = <<>>]

Fresh(p) == p \notin alive \union {queues} /\ \A c \in Callers : from[c] # p

StartedIfDead ==
  IF process \in alive THEN UNCHANGED <<process, queues, alive, doing, req, resp>>
  ELSE \E p \in Procs : Fresh(p) /\ p = (CHOOSE q \in Procs : Fresh(q)) /\ Started(p)

EnsureAlive(c) ==
  /\ Goto(c, "ensure", "drain") /\ StartedIfDead
  /\ UNCHANGED <<mode, down, file, got, from, threadVars>>

Drain(c) ==
  /\ Goto(c, "drain", "put")
  /\ resp' = [resp EXCEPT ![queues] = <<>>]
  /\ UNCHANGED <<mode, down, file, got, process, queues, from, alive, doing, req, threadVars>>

Put(c) ==
  /\ Goto(c, "put", "wait")
  /\ req' = [req EXCEPT ![queues] = Append(@, file[c])]
  /\ from' = [from EXCEPT ![c] = queues]
  /\ UNCHANGED <<mode, down, file, got, process, queues, alive, doing, resp, threadVars>>

GetOrAskAgain(c) ==
  /\ pc[c] = "wait" /\ resp[from[c]] # <<>>
  /\ LET a == Head(resp[from[c]])
     IN /\ pc' = [pc EXCEPT ![c] = IF a.ok THEN "returned" ELSE "ensure"]
        /\ got' = [got EXCEPT ![c] = IF a.ok THEN a.file ELSE NoFile]
  /\ resp' = [resp EXCEPT ![from[c]] = Tail(@)]
  /\ from' = [from EXCEPT ![c] = NoProc]
  /\ UNCHANGED <<mode, down, file, process, queues, alive, doing, req, threadVars>>

\* The answer at the head of the queue, whoever asked for it.  A worker over its
\* threshold is restarted before the text is returned or the error raised.
Get(c) ==
  /\ pc[c] = "wait" /\ resp[from[c]] # <<>>
  /\ LET a == Head(resp[from[c]])
         out == IF a.ok THEN "returned" ELSE "failed"
     IN /\ pc' = [pc EXCEPT ![c] = IF a.big THEN "restart" ELSE out]
        /\ got' = [got EXCEPT ![c] = IF a.ok THEN a.file ELSE NoFile]
  /\ resp' = [resp EXCEPT ![from[c]] = Tail(@)]
  /\ from' = [from EXCEPT ![c] = NoProc]
  /\ UNCHANGED <<mode, down, file, process, queues, alive, doing, req, threadVars>>

TimeoutWithoutRestart(c) ==
  /\ Goto(c, "wait", "failed") /\ resp[from[c]] = <<>>
  /\ from' = [from EXCEPT ![c] = NoProc]
  /\ UNCHANGED <<mode, down, file, got, process, queues, alive, doing, req, resp, threadVars>>

Timeout(c) ==
  /\ Goto(c, "wait", "restart") /\ resp[from[c]] = <<>>
  /\ from' = [from EXCEPT ![c] = NoProc]
  /\ UNCHANGED <<mode, down, file, got, process, queues, alive, doing, req, resp, threadVars>>

StopUnlessBusy(c) ==
  /\ Goto(c, "restart", "start") /\ process' = NoProc
  /\ alive' = IF process \in alive /\ doing[process] = NoFile
              THEN alive \ {process} ELSE alive
  /\ UNCHANGED <<mode, down, file, got, queues, from, doing, req, resp, threadVars>>

\* _restart(): stop(), by sentinel or, five seconds later, by a kill; start().
Stop(c) ==
  /\ Goto(c, "restart", "start")
  /\ process' = NoProc /\ alive' = alive \ {process}
  /\ UNCHANGED <<mode, down, file, got, queues, from, doing, req, resp, threadVars>>

Start(c) ==
  /\ Goto(c, "start", IF got[c] # NoFile THEN "returned" ELSE "failed")
  /\ StartedIfDead
  /\ UNCHANGED <<mode, down, file, got, from, threadVars>>

\* _worker_loop() in the process, which may also die or take for ever.
Take(p) ==
  /\ p \in alive /\ doing[p] = NoFile /\ req[p] # <<>>
  /\ doing' = [doing EXCEPT ![p] = Head(req[p])]
  /\ req' = [req EXCEPT ![p] = Tail(@)]
  /\ UNCHANGED <<mode, down, pc, file, got, process, queues, from, alive, resp, threadVars>>

Respond(p) ==
  /\ p \in alive /\ doing[p] # NoFile
  /\ \E ok \in BOOLEAN, big \in BOOLEAN :
       resp' = [resp EXCEPT ![p] = Append(@, [file |-> doing[p], ok |-> ok, big |-> big])]
  /\ doing' = [doing EXCEPT ![p] = NoFile]
  /\ UNCHANGED <<mode, down, pc, file, got, process, queues, from, alive, req, threadVars>>

Die(p) ==
  /\ p \in alive /\ alive' = alive \ {p}
  /\ UNCHANGED <<mode, down, pc, file, got, process, queues, from, doing, req, resp, threadVars>>

----------------------------------------------------------------------------
\* convert_to_markdown() in a thread of its own: a file over 100 MB or gone raises.
CheckSize(c) ==
  /\ pc[c] = "size" /\ pc' \in {[pc EXCEPT ![c] = x] : x \in {"find", "failed"}}
  /\ UNCHANGED <<mode, down, file, got, procVars, threadVars>>

\* _get_converter() looks, makes one when there is none, and returns the global.
FindConverter(c) ==
  /\ Goto(c, "find", "use") /\ converter' = TRUE
  /\ UNCHANGED <<mode, down, file, got, procVars, attempt, strays>>

UseConverter(c) ==
  /\ Goto(c, "use", IF converter THEN "convert" ELSE "failed")
  /\ attempt' = [attempt EXCEPT ![c] = IF converter THEN 1 ELSE 0]
  /\ UNCHANGED <<mode, down, file, got, procVars, converter, strays>>

\* An attempt gives text, or an error that is final, or finds the file locked.
Attempt(c) ==
  /\ \/ Goto(c, "convert", "converted") \/ Goto(c, "convert", "failed")
  /\ attempt' = [attempt EXCEPT ![c] = 0]
  /\ UNCHANGED <<mode, down, file, got, procVars, converter, strays>>

LockedFile(c) ==
  /\ IF attempt[c] < Retries
     THEN pc[c] = "convert" /\ UNCHANGED pc /\ attempt' = [attempt EXCEPT ![c] = @ + 1]
     ELSE Goto(c, "convert", "failed") /\ attempt' = [attempt EXCEPT ![c] = 0]
  /\ UNCHANGED <<mode, down, file, got, procVars, converter, strays>>

\* join(timeout) is over and the thread is not: it is left to itself.  One that
\* has its converter can no longer be noticed; one that looks for it can.
GiveUp(c) ==
  /\ pc[c] \in {"size", "find", "use", "convert"} /\ pc' = [pc EXCEPT ![c] = "failed"]
  /\ attempt' = [attempt EXCEPT ![c] = 0]
  /\ strays' = IF pc[c] \in {"size", "find"} THEN 1 ELSE strays
  /\ UNCHANGED <<mode, down, file, got, procVars, converter>>

StrayFindsAndResets ==
  /\ strays = 1 /\ strays' = 0 /\ converter' = FALSE
  /\ UNCHANGED <<mode, down, pc, file, got, procVars, attempt>>

StrayFinds ==
  /\ strays = 1 /\ strays' = 0 /\ converter' = TRUE
  /\ UNCHANGED <<mode, down, pc, file, got, procVars, attempt>>

\* The thread has ended in time: its own box has the text; reset_converter().
Return(c) ==
  /\ Goto(c, "converted", "returned")
  /\ got' = [got EXCEPT ![c] = file[c]] /\ converter' = FALSE
  /\ UNCHANGED <<mode, down, file, procVars, attempt, strays>>

\* The server shuts down: stop() of either worker, whoever is converting.
Shutdown ==
  /\ ~ down /\ down' = TRUE
  /\ process' = NoProc /\ alive' = alive \ {process} /\ converter' = FALSE
  /\ UNCHANGED <<mode, pc, file, got, queues, from, doing, req, resp, attempt, strays>>

----------------------------------------------------------------------------
InConvert(c) ==
  \/ EnsureAlive(c) \/ Drain(c) \/ Put(c) \/ Get(c) \/ Timeout(c) \/ Stop(c) \/ Start(c)
  \/ CheckSize(c) \/ FindConverter(c) \/ UseConverter(c) \/ Attempt(c) \/ LockedFile(c)
  \/ GiveUp(c) \/ Return(c) \/ End(c)

Next ==
  \/ \E c \in Callers : InConvert(c) \/ \E f \in Files : Convert(c, f)
  \/ \E p \in Procs : Take(p) \/ Respond(p) \/ Die(p)
  \/ StrayFinds \/ Shutdown

Spec == Init /\ [][Next]_vars

\* Only the caller is fair: its timeout is a step of its own.
FairSpec == Spec /\ \A c \in Callers : WF_vars(InConvert(c))

----------------------------------------------------------------------------
\* A text is stored for the file it was converted from: no late answer of a
\* conversion that timed out, or of a process that was restarted for its memory,
\* is taken for the answer to the next request.  (With one caller.)
AnswerIsForFile == \A c \in Callers : pc[c] = "returned" => got[c] = file[c]

\* Crashes, timeouts and restarts for memory never leave a second process, which
\* would hold another gigabyte.
OneProcess == \A p, q \in alive : p = q

\* The converter a thread has made is still there when it is read again: threads
\* that were given up do not take it away.  (With one caller, until shutdown.)
ConverterStays == \A c \in Callers : pc[c] = "use" /\ ~ down => converter

\* Every convert() returns or raises, even when the process hangs or dies.
EveryConversionEnds == \A c \in Callers : []<>(pc[c] = "idle")
=============================================================================
