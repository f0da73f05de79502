------------------------- MODULE Conversion_proofs -------------------------
(***************************************************************************)
(* Theorems of Conversion and their proofs, for any number of files and of *)
(* retries: answers and processes for one caller at a time, the end of     *)
(* every conversion for any number of callers.                             *)
(***************************************************************************)
EXTENDS Conversion, TLAPS

OneCaller == \A c, d \in Callers : c = d

Quiet(p) == req[p] = <<>> /\ doing[p] = NoFile

\* The one request that is waited for: asked, being converted, or answered.
Underway(c) ==
  LET p == from[c]
  IN \/ req[p] = <<file[c]>> /\ doing[p] = NoFile /\ resp[p] = <<>>
     \/ req[p] = <<>> /\ doing[p] = file[c] /\ resp[p] = <<>>
     \/ Quiet(p) /\ \E a \in Answer : resp[p] = <<a>> /\ a.file = file[c]

\* What runs is the process in the worker, whose queues are the worker's queues.
ProcessInv == alive \subseteq {process} /\ process \in {NoProc, queues}

\* A process that goes on after a conversion has nothing left to convert: one that had,
\* when its conversion timed out, was stopped.
QueueInv ==
  \A c \in Callers :
    /\ pc[c] \in {"drain", "put"} => queues \in Procs /\ Quiet(queues)
    /\ pc[c] = "put" => resp[queues] = <<>>
    /\ pc[c] = "wait" => from[c] = queues /\ queues \in Procs /\ Underway(c)
    /\ pc[c] \notin {"wait", "restart"} /\ queues \in alive => Quiet(queues)

CallInv ==
  \A c \in Callers :
    /\ pc[c] = "idle" => file[c] = NoFile
    /\ pc[c] # "idle" => file[c] \in Files
    /\ got[c] \in {NoFile, file[c]}
    /\ pc[c] = "returned" => got[c] = file[c]

IInv == TypeOK /\ ProcessInv /\ QueueInv /\ CallInv /\ ConverterStays

----------------------------------------------------------------------------
LEMMA InitInv == Init => IInv
<1> SUFFICES ASSUME Init PROVE IInv
  OBVIOUS
<1> 0 \in 0 .. Retries
  BY ConversionAssumption
<1>1. TypeOK
  <2>1. /\ req \in [Procs -> Seq(Files)] /\ resp \in [Procs -> Seq(Answer)]
        /\ alive \subseteq Procs /\ doing \in [Procs -> Files \union {NoFile}]
    BY DEF Init
  <2>2. /\ pc \in [Callers -> CallerPC] /\ attempt \in [Callers -> 0 .. Retries]
        /\ strays \in 0 .. 1
    BY DEF Init, CallerPC
  <2>3. QED
    BY <2>1, <2>2 DEF Init, TypeOK
<1>2. ProcessInv /\ QueueInv /\ CallInv /\ ConverterStays
  BY DEF Init, ProcessInv, QueueInv, CallInv, ConverterStays
<1>3. QED
  BY <1>1, <1>2 DEF IInv

(***************************************************************************)
(* Steps that leave process and queues alone.                              *)
(***************************************************************************)
LEMMA TypedAttempts ==
  0 \in 0 .. Retries /\ 1 \in 0 .. Retries
    /\ \A n \in 0 .. Retries : n < Retries => n + 1 \in 0 .. Retries
BY ConversionAssumption

\* A step of the only caller that touches no queue, and begins and ends outside of the
\* exchange with the process.
LEMMA QueuesUntouched ==
  ASSUME OneCaller, IInv, NEW c \in Callers, UNCHANGED procVars,
         pc[c] \notin {"wait", "restart"} \/ pc'[c] = "restart",
         pc'[c] \notin {"drain", "put", "wait"}
  PROVE  ProcessInv' /\ QueueInv'
<1>1. ProcessInv'
  BY DEF IInv, ProcessInv, procVars
<1>2. QueueInv'
  BY DEF OneCaller, IInv, QueueInv, procVars, Quiet
<1>3. QED
  BY <1>1, <1>2

LEMMA OtherStep ==
  ASSUME OneCaller, IInv, NEW c \in Callers,
         \/ \E f \in Files : Convert(c, f)
         \/ CheckSize(c) \/ FindConverter(c) \/ UseConverter(c) \/ Attempt(c)
         \/ LockedFile(c) \/ GiveUp(c) \/ Return(c) \/ End(c)
  PROVE  IInv'
<1> USE NoFileIsNoFile, TypedAttempts DEF Goto, CallerPC, threadVars
<1>1. UNCHANGED procVars
  BY DEF Convert, CheckSize, FindConverter, UseConverter, Attempt, LockedFile, GiveUp, Return,
         End
<1>2. ProcessInv' /\ QueueInv'
  <2>1. /\ pc[c] \notin {"wait", "restart"}
        /\ pc'[c] \notin {"drain", "put", "wait"}
    BY DEF IInv, TypeOK, Convert, CheckSize, FindConverter, UseConverter, Attempt, LockedFile,
           GiveUp, Return, End
  <2>2. QED
    BY <1>1, <2>1, QueuesUntouched
<1>3. TypeOK' /\ CallInv' /\ ConverterStays'
  <2>1. ASSUME NEW f \in Files, Convert(c, f) PROVE TypeOK' /\ CallInv' /\ ConverterStays'
    BY <1>1, <2>1
       DEF Convert, OneCaller, IInv, TypeOK, CallInv, ConverterStays, procVars
  <2>2. ASSUME CheckSize(c) PROVE TypeOK' /\ CallInv' /\ ConverterStays'
    BY <1>1, <2>2
       DEF CheckSize, OneCaller, IInv, TypeOK, CallInv, ConverterStays, procVars
  <2>3. ASSUME FindConverter(c) PROVE TypeOK' /\ CallInv' /\ ConverterStays'
    BY <1>1, <2>3
       DEF FindConverter, OneCaller, IInv, TypeOK, CallInv, ConverterStays, procVars
  <2>4. ASSUME UseConverter(c) PROVE TypeOK' /\ CallInv' /\ ConverterStays'
    BY <1>1, <2>4
       DEF UseConverter, OneCaller, IInv, TypeOK, CallInv, ConverterStays, procVars
  <2>5. ASSUME Attempt(c) PROVE TypeOK' /\ CallInv' /\ ConverterStays'
    BY <1>1, <2>5
       DEF Attempt, OneCaller, IInv, TypeOK, CallInv, ConverterStays, procVars
  <2>6. ASSUME LockedFile(c) PROVE TypeOK' /\ CallInv' /\ ConverterStays'
    BY <1>1, <2>6
       DEF LockedFile, OneCaller, IInv, TypeOK, CallInv, ConverterStays, procVars
  <2>7. ASSUME GiveUp(c) PROVE TypeOK' /\ CallInv' /\ ConverterStays'
    BY <1>1, <2>7
       DEF GiveUp, OneCaller, IInv, TypeOK, CallInv, ConverterStays, procVars
  <2>8. ASSUME Return(c) PROVE TypeOK' /\ CallInv' /\ ConverterStays'
    BY <1>1, <2>8
       DEF Return, OneCaller, IInv, TypeOK, CallInv, ConverterStays, procVars
  <2>9. ASSUME End(c) PROVE TypeOK' /\ CallInv' /\ ConverterStays'
    BY <1>1, <2>9
       DEF End, OneCaller, IInv, TypeOK, CallInv, ConverterStays, procVars
  <2>10. QED
    BY <2>1, <2>2, <2>3, <2>4, <2>5, <2>6, <2>7, <2>8, <2>9
<1>4. QED
  BY <1>2, <1>3 DEF IInv

(***************************************************************************)
(* The exchange with the process.                                          *)
(***************************************************************************)
LEMMA StartedStep ==
  ASSUME IInv, StartedIfDead
  PROVE  /\ ProcessInv' /\ queues' \in Procs \union {NoProc} /\ alive' \subseteq Procs
         /\ req' \in [Procs -> Seq(Files)] /\ resp' \in [Procs -> Seq(Answer)]
         /\ doing' \in [Procs -> Files \union {NoFile}]
         /\ \/ process \in alive /\ UNCHANGED <<process, queues, alive, doing, req, resp>>
            \/ queues' \in Procs /\ Quiet(queues)' /\ resp'[queues'] = <<>>
<1>1. CASE process \in alive
  BY <1>1 DEF StartedIfDead, IInv, TypeOK, ProcessInv
<1>2. CASE process \notin alive
  <2>1. PICK p \in Procs : Started(p)
    BY <1>2 DEF StartedIfDead
  <2>2. alive = {}
    BY <1>2 DEF IInv, ProcessInv
  <2>3. QED
    BY <2>1, <2>2 DEF Started, IInv, TypeOK, ProcessInv, Quiet
<1>3. QED
  BY <1>1, <1>2

LEMMA EnsureStep ==
  ASSUME OneCaller, IInv, NEW c \in Callers, EnsureAlive(c)
  PROVE  IInv'
<1>1. pc[c] = "ensure" /\ pc' = [pc EXCEPT ![c] = "drain"]
  BY DEF EnsureAlive, Goto
<1>2. queues' \in Procs /\ Quiet(queues)'
  <2>1. CASE process \in alive
    <3>1. queues \in alive /\ Quiet(queues) /\ UNCHANGED <<queues, doing, req>>
      BY <1>1, <2>1, ConversionAssumption
         DEF EnsureAlive, StartedIfDead, IInv, TypeOK, ProcessInv, QueueInv
    <3>2. QED
      BY <3>1 DEF IInv, TypeOK, Quiet
  <2>2. CASE process \notin alive
    BY <2>2, StartedStep DEF EnsureAlive
  <2>3. QED
    BY <2>1, <2>2
<1>3. TypeOK'
  BY <1>1, StartedStep DEF EnsureAlive, IInv, TypeOK, ProcessInv, CallerPC, threadVars
<1>4. QueueInv'
  BY <1>1, <1>2 DEF QueueInv, OneCaller, IInv, TypeOK
<1>5. CallInv' /\ ConverterStays'
  BY <1>1 DEF EnsureAlive, IInv, TypeOK, CallInv, ConverterStays, threadVars
<1>6. QED
  BY <1>3, <1>4, <1>5, StartedStep DEF EnsureAlive, IInv

LEMMA DrainStep ==
  ASSUME OneCaller, IInv, NEW c \in Callers, Drain(c)
  PROVE  IInv'
<1>1. /\ pc[c] = "drain" /\ pc' = [pc EXCEPT ![c] = "put"]
      /\ queues \in Procs /\ Quiet(queues)
      /\ resp' = [resp EXCEPT ![queues] = <<>>]
      /\ UNCHANGED <<mode, down, file, got, process, queues, from, alive, doing, req>>
      /\ UNCHANGED <<converter, attempt, strays>>
  BY DEF Drain, Goto, threadVars, IInv, QueueInv
<1>2. TypeOK'
  BY <1>1 DEF IInv, TypeOK, CallerPC
<1>3. ProcessInv' /\ CallInv' /\ ConverterStays'
  BY <1>1 DEF IInv, TypeOK, ProcessInv, CallInv, ConverterStays
<1>4. QueueInv'
  BY <1>1 DEF OneCaller, IInv, TypeOK, QueueInv, Quiet
<1>5. QED
  BY <1>2, <1>3, <1>4 DEF IInv

LEMMA PutStep ==
  ASSUME OneCaller, IInv, NEW c \in Callers, Put(c)
  PROVE  IInv'
<1>1. /\ pc[c] = "put" /\ pc' = [pc EXCEPT ![c] = "wait"]
      /\ queues \in Procs /\ Quiet(queues) /\ resp[queues] = <<>> /\ file[c] \in Files
      /\ req' = [req EXCEPT ![queues] = Append(@, file[c])]
      /\ from' = [from EXCEPT ![c] = queues]
      /\ UNCHANGED <<mode, down, file, got, process, queues, alive, doing, resp>>
      /\ UNCHANGED <<converter, attempt, strays>>
  BY DEF Put, Goto, threadVars, IInv, QueueInv, CallInv
<1>2. req'[queues] = <<file[c]>> /\ req' \in [Procs -> Seq(Files)]
  BY <1>1 DEF IInv, TypeOK, Quiet
<1>3. TypeOK'
  BY <1>1, <1>2 DEF IInv, TypeOK, CallerPC
<1>4. ProcessInv' /\ CallInv' /\ ConverterStays'
  BY <1>1 DEF IInv, TypeOK, ProcessInv, CallInv, ConverterStays
<1>5. from'[c] = queues /\ pc'[c] = "wait" /\ Underway(c)'
  BY <1>1, <1>2 DEF IInv, TypeOK, Underway, Quiet
<1>6. QueueInv'
  BY <1>1, <1>5 DEF OneCaller, QueueInv
<1>7. QED
  BY <1>3, <1>4, <1>6 DEF IInv

LEMMA GetStep ==
  ASSUME OneCaller, IInv, NEW c \in Callers, Get(c)
  PROVE  IInv'
<1>1. /\ pc[c] = "wait" /\ from[c] = queues /\ queues \in Procs /\ Quiet(queues)
      /\ file[c] \in Files
  BY DEF Get, IInv, QueueInv, CallInv, Underway
<1>2. PICK a \in Answer : resp[queues] = <<a>> /\ a.file = file[c]
  BY <1>1 DEF Get, IInv, QueueInv, Underway
<1>3. Head(resp[queues]) = a /\ Tail(resp[queues]) = <<>>
  BY <1>2
<1>4. /\ pc' = [pc EXCEPT ![c] = IF a.big THEN "restart"
                                ELSE IF a.ok THEN "returned" ELSE "failed"]
      /\ got' = [got EXCEPT ![c] = IF a.ok THEN file[c] ELSE NoFile]
      /\ resp' = [resp EXCEPT ![queues] = <<>>]
      /\ from' = [from EXCEPT ![c] = NoProc]
      /\ UNCHANGED <<mode, down, file, process, queues, alive, doing, req>>
      /\ UNCHANGED <<converter, attempt, strays>>
  BY <1>1, <1>2, <1>3 DEF Get, threadVars, IInv, TypeOK
<1>5. TypeOK'
  BY <1>1, <1>4 DEF IInv, TypeOK, CallerPC
<1>6. ProcessInv' /\ CallInv' /\ ConverterStays'
  BY <1>1, <1>4 DEF OneCaller, IInv, TypeOK, ProcessInv, CallInv, ConverterStays
<1>7. QueueInv'
  BY <1>1, <1>4 DEF OneCaller, IInv, TypeOK, QueueInv, Quiet
<1>8. QED
  BY <1>5, <1>6, <1>7 DEF IInv

LEMMA TimeoutStep ==
  ASSUME OneCaller, IInv, NEW c \in Callers, Timeout(c)
  PROVE  IInv'
<1>1. /\ pc[c] = "wait" /\ pc' = [pc EXCEPT ![c] = "restart"]
      /\ from' = [from EXCEPT ![c] = NoProc]
      /\ UNCHANGED <<mode, down, file, got, process, queues, alive, doing, req, resp>>
      /\ UNCHANGED <<converter, attempt, strays>>
  BY DEF Timeout, Goto, threadVars
<1>2. TypeOK'
  BY <1>1 DEF IInv, TypeOK, CallerPC
<1>3. ProcessInv' /\ CallInv' /\ ConverterStays'
  BY <1>1 DEF IInv, TypeOK, ProcessInv, CallInv, ConverterStays
<1>4. QueueInv'
  BY <1>1 DEF OneCaller, IInv, TypeOK, QueueInv
<1>5. QED
  BY <1>2, <1>3, <1>4 DEF IInv

LEMMA StopStep ==
  ASSUME OneCaller, IInv, NEW c \in Callers, Stop(c)
  PROVE  IInv'
<1>1. /\ pc[c] = "restart" /\ pc' = [pc EXCEPT ![c] = "start"]
      /\ process' = NoProc /\ alive' = {}
      /\ UNCHANGED <<mode, down, file, got, queues, from, doing, req, resp>>
      /\ UNCHANGED <<converter, attempt, strays>>
  BY DEF Stop, Goto, threadVars, IInv, ProcessInv
<1>2. TypeOK'
  BY <1>1 DEF IInv, TypeOK, CallerPC
<1>3. ProcessInv' /\ CallInv' /\ ConverterStays'
  BY <1>1 DEF IInv, TypeOK, ProcessInv, CallInv, ConverterStays
<1>4. QueueInv'
  BY <1>1 DEF OneCaller, IInv, TypeOK, QueueInv
<1>5. QED
  BY <1>2, <1>3, <1>4 DEF IInv

LEMMA StartStep ==
  ASSUME OneCaller, IInv, NEW c \in Callers, Start(c)
  PROVE  IInv'
<1>1. /\ pc[c] = "start" /\ pc' = [pc EXCEPT ![c] = IF got[c] # NoFile THEN "returned"
                                                    ELSE "failed"]
      /\ UNCHANGED <<mode, down, file, got, from, converter, attempt, strays>>
  BY DEF Start, Goto, threadVars
<1>2. queues' \in alive' => Quiet(queues)'
  <2>1. CASE process \in alive
    <3>1. queues \in alive => Quiet(queues)
      BY <1>1 DEF IInv, QueueInv
    <3>2. UNCHANGED <<queues, alive, doing, req>>
      BY <2>1 DEF Start, StartedIfDead
    <3>3. QED
      BY <3>1, <3>2 DEF Quiet
  <2>2. CASE process \notin alive
    BY <2>2, StartedStep DEF Start
  <2>3. QED
    BY <2>1, <2>2
<1>3. TypeOK'
  BY <1>1, StartedStep DEF Start, IInv, TypeOK, ProcessInv, CallerPC
<1>4. QueueInv'
  BY <1>1, <1>2 DEF QueueInv, OneCaller, IInv, TypeOK
<1>5. CallInv' /\ ConverterStays'
  BY <1>1, NoFileIsNoFile DEF IInv, TypeOK, CallInv, ConverterStays
<1>6. QED
  BY <1>3, <1>4, <1>5, StartedStep DEF Start, IInv

LEMMA ProcessStep ==
  ASSUME IInv, NEW p \in Procs, Take(p) \/ Respond(p) \/ Die(p)
  PROVE  IInv'
<1>1. /\ p = queues /\ p \in alive
      /\ UNCHANGED <<mode, down, pc, file, got, process, queues, from>>
      /\ UNCHANGED <<converter, attempt, strays>>
  BY ConversionAssumption DEF Take, Respond, Die, threadVars, IInv, ProcessInv
<1>2. CallInv' /\ ConverterStays'
  BY <1>1 DEF IInv, CallInv, ConverterStays
<1>3. CASE Die(p)
  BY <1>1, <1>2, <1>3 DEF Die, IInv, TypeOK, ProcessInv, QueueInv, Quiet, Underway
<1>4. CASE Take(p)
  <2>1. TypeOK' /\ ProcessInv'
    BY <1>1, <1>4 DEF Take, IInv, TypeOK, ProcessInv
  <2>2. ASSUME NEW c \in Callers
        PROVE  /\ pc[c] \in {"wait", "restart"}
               /\ pc[c] = "wait" => from[c] = p /\ Underway(c)'
    <3>1. pc[c] \in {"wait", "restart"}
      BY <1>1, <1>4 DEF Take, IInv, QueueInv, Quiet
    <3>2. ASSUME pc[c] = "wait" PROVE from[c] = p /\ Underway(c)'
      <4>1. from[c] = p /\ Underway(c) /\ file[c] \in Files
        BY <1>1, <3>2 DEF IInv, QueueInv, CallInv
      <4>2. req[p] = <<file[c]>> /\ doing[p] = NoFile /\ resp[p] = <<>>
        BY <1>4, <4>1, NoFileIsNoFile DEF Take, Underway, Quiet
      <4>3. req'[p] = <<>> /\ doing'[p] = file[c] /\ resp' = resp
        BY <1>4, <4>2 DEF Take, IInv, TypeOK
      <4>4. QED
        BY <1>1, <4>1, <4>2, <4>3 DEF Underway
    <3>3. QED
      BY <3>1, <3>2
  <2>3. QueueInv'
    BY <1>1, <2>2 DEF QueueInv
  <2>4. QED
    BY <1>2, <2>1, <2>3 DEF IInv
<1>5. CASE Respond(p)
  <2>1. PICK a \in Answer :
          resp' = [resp EXCEPT ![p] = Append(@, a)] /\ a.file = doing[p]
    <3>1. PICK ok \in BOOLEAN, big \in BOOLEAN :
            resp' = [resp EXCEPT ![p] =
                       Append(@, [file |-> doing[p], ok |-> ok, big |-> big])]
      BY <1>5 DEF Respond
    <3>2. doing[p] \in Files
      BY <1>5 DEF Respond, IInv, TypeOK
    <3>3. [file |-> doing[p], ok |-> ok, big |-> big] \in Answer
      BY <3>2 DEF Answer
    <3>4. QED
      BY <3>1, <3>3
  <2>2. TypeOK' /\ ProcessInv'
    BY <1>1, <1>5, <2>1 DEF Respond, IInv, TypeOK, ProcessInv
  <2>3. ASSUME NEW c \in Callers
        PROVE  /\ pc[c] \in {"wait", "restart"}
               /\ pc[c] = "wait" => from[c] = p /\ Underway(c)'
    <3>1. pc[c] \in {"wait", "restart"}
      BY <1>1, <1>5 DEF Respond, IInv, QueueInv, Quiet
    <3>2. ASSUME pc[c] = "wait" PROVE from[c] = p /\ Underway(c)'
      <4>1. from[c] = p /\ Underway(c)
        BY <1>1, <3>2 DEF IInv, QueueInv
      <4>2. req[p] = <<>> /\ doing[p] = file[c] /\ resp[p] = <<>>
        BY <1>5, <4>1 DEF Respond, Underway, Quiet
      <4>3. req' = req /\ doing'[p] = NoFile /\ resp'[p] = <<a>> /\ a.file = file[c]
        BY <1>5, <2>1, <4>2 DEF Respond, IInv, TypeOK
      <4>4. QED
        BY <1>1, <4>1, <4>2, <4>3 DEF Underway, Quiet
    <3>3. QED
      BY <3>1, <3>2
  <2>4. QueueInv'
    BY <1>1, <2>3 DEF QueueInv
  <2>5. QED
    BY <1>2, <2>2, <2>4 DEF IInv
<1>6. QED
  BY <1>3, <1>4, <1>5

LEMMA EnvironmentStep ==
  ASSUME IInv, StrayFinds \/ Shutdown \/ UNCHANGED vars
  PROVE  IInv'
<1> USE DEF IInv, TypeOK, ProcessInv, QueueInv, CallInv, ConverterStays, Quiet, Underway
<1>1. CASE StrayFinds
  BY <1>1 DEF StrayFinds, procVars
<1>2. CASE Shutdown
  BY <1>2 DEF Shutdown
<1>3. CASE UNCHANGED vars
  BY <1>3 DEF vars
<1>4. QED
  BY <1>1, <1>2, <1>3

LEMMA Inductive == ASSUME OneCaller PROVE Spec => []IInv
<1>1. IInv /\ [Next]_vars => IInv'
  <2> SUFFICES ASSUME IInv, [Next]_vars PROVE IInv'
    OBVIOUS
  <2>1. ASSUME NEW c \in Callers, InConvert(c) \/ \E f \in Files : Convert(c, f)
        PROVE  IInv'
    BY <2>1, OtherStep, EnsureStep, DrainStep, PutStep, GetStep, TimeoutStep, StopStep,
       StartStep DEF InConvert
  <2>2. QED
    BY <2>1, ProcessStep, EnvironmentStep DEF Next
<1>2. QED
  BY InitInv, <1>1, PTL DEF Spec

----------------------------------------------------------------------------
\* Every variable keeps its type.
THEOREM TypeCorrect == ASSUME OneCaller PROVE Spec => []TypeOK
<1>1. IInv => TypeOK
  BY DEF IInv
<1>2. QED
  BY Inductive, <1>1, PTL

\* One caller is given the text of the file it asked for, whatever processes die, answer
\* late or are restarted (subprocess_conversion_worker.py:202-265).
THEOREM AnswersAreForFiles == ASSUME OneCaller PROVE Spec => []AnswerIsForFile
<1>1. IInv => AnswerIsForFile
  BY DEF IInv, CallInv, AnswerIsForFile
<1>2. QED
  BY Inductive, <1>1, PTL

\* It has one process at most (subprocess_conversion_worker.py:147-200).
THEOREM AtMostOneProcess == ASSUME OneCaller PROVE Spec => []OneProcess
<1>1. IInv => OneProcess
  BY DEF IInv, ProcessInv, OneProcess
<1>2. QED
  BY Inductive, <1>1, PTL

\* The converter is there where convert_to_markdown() reads it again.
THEOREM ConverterIsKept == ASSUME OneCaller PROVE Spec => []ConverterStays
<1>1. IInv => ConverterStays
  BY DEF IInv
<1>2. QED
  BY Inductive, <1>1, PTL
----------------------------------------------------------------------------
(***************************************************************************)
(* Conversions end, for any number of callers: what is left of             *)
(* EveryConversionEnds when a caller is only trusted to go on.             *)
(***************************************************************************)
\* The most steps before the end of a convert() that is at p, in its a-th attempt.
StepsAt(p, a) ==
  CASE p = "ensure"    -> 7
    [] p = "drain"     -> 6
    [] p = "put"       -> 5
    [] p = "wait"      -> 4
    [] p = "restart"   -> 3
    [] p = "start"     -> 2
    [] p = "size"      -> Retries + 6
    [] p = "find"      -> Retries + 5
    [] p = "use"       -> Retries + 4
    [] p = "convert"   -> (Retries - a) + 3
    [] p = "converted" -> 2
    [] p \in {"returned", "failed"} -> 1
    [] OTHER -> 0

StepsLeft(c) == StepsAt(pc[c], attempt[c])

\* Each step of a caller brings it nearer to its end; no other caller, no process that
\* dies, answers late or hangs, and no shutdown makes its way longer.
ConversionsRunOut ==
  \A c \in Callers : pc[c] # "idle" =>
    /\ StepsLeft(c) \in Nat
    /\ \/ StepsLeft(c)' < StepsLeft(c) /\ InConvert(c)
       \/ StepsLeft(c)' = StepsLeft(c) /\ pc'[c] = pc[c]

CallersTyped == pc \in [Callers -> CallerPC] /\ attempt \in [Callers -> 0 .. Retries]

LEMMA StepsAreCounted ==
  ASSUME CallersTyped, NEW c \in Callers
  PROVE  StepsLeft(c) \in Nat
<1>1. /\ Retries \in Nat /\ attempt[c] \in 0 .. Retries
      /\ Retries - attempt[c] \in Nat
  BY ConversionAssumption DEF CallersTyped
<1>2. QED
  BY <1>1 DEF StepsLeft, StepsAt

\* A step of a caller is towards its end and leaves the others where they are.
LEMMA CallerStep ==
  ASSUME CallersTyped, NEW c \in Callers, InConvert(c)
  PROVE  /\ CallersTyped'
         /\ StepsLeft(c)' < StepsLeft(c)
         /\ \A d \in Callers \ {c} : pc'[d] = pc[d] /\ attempt'[d] = attempt[d]
<1> DEFINE a == attempt[c]
           b == attempt'[c]
           Others == \A d \in Callers \ {c} : pc'[d] = pc[d] /\ attempt'[d] = attempt[d]
<1>1. Retries \in Nat \ {0} /\ a \in 0 .. Retries
  BY ConversionAssumption DEF CallersTyped
<1>2. ASSUME NEW p \in CallerPC, NEW q \in CallerPC, pc[c] = p, pc' = [pc EXCEPT ![c] = q],
             attempt' = attempt \/ (\E n \in 0 .. Retries : attempt' = [attempt EXCEPT ![c] = n]),
             StepsAt(q, b) < StepsAt(p, a)
      PROVE  CallersTyped' /\ StepsLeft(c)' < StepsLeft(c) /\ Others
  <2>1. CallersTyped' /\ pc'[c] = q /\ Others
    BY <1>2 DEF CallersTyped
  <2>2. QED
    BY <1>2, <2>1 DEF StepsLeft
<1> USE DEF Goto, StepsAt, CallerPC
<1>3. CASE EnsureAlive(c) \/ Drain(c) \/ Put(c) \/ Timeout(c) \/ Stop(c)
  <2>1. PICK p \in CallerPC, q \in CallerPC :
          /\ pc[c] = p /\ pc' = [pc EXCEPT ![c] = q] /\ attempt' = attempt
          /\ <<p, q>> \in {<<"ensure", "drain">>, <<"drain", "put">>, <<"put", "wait">>,
                           <<"wait", "restart">>, <<"restart", "start">>}
    BY <1>3 DEF EnsureAlive, Drain, Put, Timeout, Stop, threadVars
  <2>2. StepsAt(q, b) < StepsAt(p, a)
    BY <2>1
  <2>3. QED
    BY <1>2, <2>1, <2>2
<1>4. CASE Get(c) \/ Start(c)
  <2>1. PICK p \in {"wait", "start"}, q \in {"restart", "returned", "failed"} :
          /\ pc[c] = p /\ pc' = [pc EXCEPT ![c] = q] /\ attempt' = attempt
          /\ p = "start" => q # "restart"
    BY <1>4 DEF Get, Start, threadVars
  <2>2. StepsAt(q, b) < StepsAt(p, a)
    BY <2>1
  <2>3. QED
    BY <1>2, <2>1, <2>2
<1>5. CASE CheckSize(c) \/ FindConverter(c) \/ Return(c) \/ End(c)
  <2>1. PICK p \in CallerPC, q \in CallerPC :
          /\ pc[c] = p /\ pc' = [pc EXCEPT ![c] = q] /\ attempt' = attempt
          /\ <<p, q>> \in {<<"size", "find">>, <<"size", "failed">>, <<"find", "use">>,
                           <<"converted", "returned">>, <<"returned", "idle">>,
                           <<"failed", "idle">>}
    BY <1>5 DEF CheckSize, FindConverter, Return, End, threadVars
  <2>2. StepsAt(q, b) < StepsAt(p, a)
    BY <1>1, <2>1
  <2>3. QED
    BY <1>2, <2>1, <2>2
<1>6. CASE UseConverter(c) \/ Attempt(c) \/ GiveUp(c) \/ (LockedFile(c) /\ a >= Retries)
  <2>1. PICK p \in CallerPC, q \in CallerPC, n \in {0, 1} :
          /\ pc[c] = p /\ pc' = [pc EXCEPT ![c] = q] /\ attempt' = [attempt EXCEPT ![c] = n]
          /\ \/ p = "use" /\ q = "convert" /\ n = 1
             \/ p \in {"size", "find", "use", "convert"} /\ q = "failed"
             \/ p = "convert" /\ q = "converted"
    BY <1>1, <1>6 DEF UseConverter, Attempt, GiveUp, LockedFile
  <2>2. n \in 0 .. Retries /\ b = n
    BY <1>1, <2>1 DEF CallersTyped
  <2>3. StepsAt(q, b) < StepsAt(p, a)
    BY <1>1, <2>1, <2>2
  <2>4. QED
    BY <1>2, <2>1, <2>2, <2>3
<1>7. CASE LockedFile(c) /\ a < Retries
  <2>1. /\ pc[c] = "convert" /\ pc' = [pc EXCEPT ![c] = "convert"]
        /\ attempt' = [attempt EXCEPT ![c] = a + 1] /\ a + 1 \in 0 .. Retries
    BY <1>1, <1>7 DEF LockedFile, CallersTyped
  <2>2. b = a + 1
    BY <2>1 DEF CallersTyped
  <2>3. StepsAt("convert", b) < StepsAt("convert", a)
    BY <1>1, <2>2
  <2>4. QED
    BY <1>2, <2>1, <2>3
<1>8. QED
  BY <1>1, <1>3, <1>4, <1>5, <1>6, <1>7 DEF InConvert

\* Nothing else moves a caller that is in convert().
LEMMA NotACaller ==
  ASSUME CallersTyped, [Next]_vars, ~ \E c \in Callers : InConvert(c)
  PROVE  /\ CallersTyped' /\ attempt' = attempt
         /\ \A c \in Callers : pc[c] # "idle" => pc'[c] = pc[c]
<1>1. CASE \E c \in Callers, f \in Files : Convert(c, f)
  BY <1>1 DEF Convert, Goto, threadVars, CallersTyped, CallerPC
<1>2. CASE (\E p \in Procs : Take(p) \/ Respond(p) \/ Die(p)) \/ StrayFinds \/ Shutdown
  BY <1>2 DEF Take, Respond, Die, StrayFinds, Shutdown, threadVars, CallersTyped
<1>3. CASE UNCHANGED vars
  BY <1>3 DEF vars, CallersTyped
<1>4. QED
  BY <1>1, <1>2, <1>3 DEF Next

\* With any number of callers, and whatever the processes do, a convert() has a bounded
\* number of steps, its retries and restarts included (subprocess_conversion_worker.py:
\* 202-265, conversion_worker.py:100-163, markitdown_parser.py:48-138).
THEOREM EveryConversionRunsOut == Spec => [][ConversionsRunOut]_vars
<1>1. Init => CallersTyped
  BY ConversionAssumption DEF Init, CallersTyped, CallerPC
<1>2. CallersTyped /\ [Next]_vars => CallersTyped' /\ [ConversionsRunOut]_vars
  <2> SUFFICES ASSUME CallersTyped, [Next]_vars
               PROVE  CallersTyped' /\ ConversionsRunOut
    OBVIOUS
  <2>1. CASE \E c \in Callers : InConvert(c)
    BY <2>1, CallerStep, StepsAreCounted DEF ConversionsRunOut, StepsLeft
  <2>2. CASE ~ \E c \in Callers : InConvert(c)
    BY <2>2, NotACaller, StepsAreCounted DEF ConversionsRunOut, StepsLeft
  <2>3. QED
    BY <2>1, <2>2
<1>3. QED
  BY <1>1, <1>2, PTL DEF Spec
=============================================================================
