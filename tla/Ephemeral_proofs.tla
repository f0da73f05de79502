-------------------------- MODULE Ephemeral_proofs --------------------------
(***************************************************************************)
(* Theorems of Ephemeral and their proofs.                                 *)
(***************************************************************************)
EXTENDS Ephemeral, TLAPS

\* Two requests for one folder at once are on record.
OverlapsAreKnown ==
  \A f \in Folders : \A c, d \in Callers :
    c # d /\ BusyWith(c, f) /\ BusyWith(d, f) => f \in overlapped

\* A request that removes an entry has found, or made, the directory gone; nobody but
\* another request for the folder brings it back.
DeregisteredIsGone ==
  \A c \in Callers :
    call[c].at = "deregister" /\ call[c].folder \notin overlapped
      => dir[call[c].folder] = "none"

\* A search that has found the directory has an entry for what it may create again.
SearchedIsListed ==
  \A c \in Callers :
    call[c].at = "open" /\ call[c].folder \notin unregistered \union overlapped
      => entry[call[c].folder] # None

CallsHaveFolders ==
  \A c \in Callers : call[c].at \notin {"idle", "list"} => call[c].folder \in Folders

IInv ==
  /\ TypeOK /\ CallsHaveFolders /\ OverlapsAreKnown /\ DeregisteredIsGone
  /\ SearchedIsListed /\ IndexIsListed

LEMMA IdleIsCall == Idle \in Call
BY EphemeralAssumption DEF Idle, Call, CallAt

LEMMA InitInv == Init => IInv
<1> SUFFICES ASSUME Init PROVE IInv
  OBVIOUS
<1>1. TypeOK
  BY IdleIsCall, EphemeralAssumption DEF Init, TypeOK
<1>2. CallsHaveFolders /\ DeregisteredIsGone /\ SearchedIsListed /\ IndexIsListed
  BY DEF Init, Idle, CallsHaveFolders, DeregisteredIsGone, SearchedIsListed, IndexIsListed,
         Exists
<1>3. OverlapsAreKnown
  BY EphemeralAssumption DEF Init, Idle, OverlapsAreKnown, BusyWith
<1>4. QED
  BY <1>1, <1>2, <1>3 DEF IInv

----------------------------------------------------------------------------
\* What Next adds to every step.
Recorded ==
  overlapped' = overlapped \union
    {f \in Folders : \E c, d \in Callers : c # d /\ BusyWith(c, f)' /\ BusyWith(d, f)'}

LEMMA RecordedIsEnough ==
  ASSUME IInv, Recorded
  PROVE  overlapped \subseteq overlapped' /\ overlapped' \subseteq Folders /\ OverlapsAreKnown'
BY DEF IInv, TypeOK, Recorded, OverlapsAreKnown, BusyWith

\* Away from overlaps nobody else has to do with the folder of a request.
LEMMA Alone ==
  ASSUME IInv, Recorded, NEW c \in Callers, NEW f \in Folders, f \notin overlapped',
         call[c].folder = f \/ call'[c].folder = f,
         \A d \in Callers \ {c} : call'[d] = call[d]
  PROVE  \A d \in Callers \ {c} : call[d].folder # f /\ call'[d].folder # f
BY RecordedIsEnough DEF IInv, OverlapsAreKnown, BusyWith

\* A step of one request is a new state of it.
LEMMA OneCallChanges ==
  ASSUME IInv, NEW c \in Callers, Step(c)
  PROVE  /\ call' \in [Callers -> Call] /\ CallsHaveFolders'
         /\ \A d \in Callers \ {c} : call'[d] = call[d]
<1> USE EphemeralAssumption, IdleIsCall
    DEF IInv, TypeOK, CallsHaveFolders, Call, CallAt, Goto, End, Start
<1>1. CASE CreateComponents(c)
  BY <1>1 DEF CreateComponents, Idle
<1>2. CASE IndexFolder(c)
  <2>1. PICK new \in {0, Chunks} :
          call' = [call EXCEPT ![c].at = "register", ![c].new = new]
    BY <1>2 DEF IndexFolder
  <2>2. QED
    BY <1>2, <2>1 DEF IndexFolder
<1>3. CASE Register(c)
  BY <1>3 DEF Register, Idle
<1>4. CASE Remove(c)
  BY <1>4 DEF Remove, Idle
<1>5. CASE Deregister(c)
  BY <1>5 DEF Deregister, Idle
<1>6. CASE Open(c)
  BY <1>6 DEF Open, Idle
<1>7. CASE Touch(c)
  BY <1>7 DEF Touch, Idle
<1>8. CASE StartList(c)
  BY <1>8 DEF StartList, Idle
<1>9. CASE Fail(c)
  BY <1>9 DEF Fail, Idle
<1>10. ASSUME NEW f \in Folders, StartIndex(c, f)
  PROVE  /\ call' \in [Callers -> Call] /\ CallsHaveFolders'
         /\ \A d \in Callers \ {c} : call'[d] = call[d]
  BY <1>10 DEF StartIndex, Idle
<1>11. ASSUME NEW f \in Folders, StartCleanup(c, f)
  PROVE  /\ call' \in [Callers -> Call] /\ CallsHaveFolders'
         /\ \A d \in Callers \ {c} : call'[d] = call[d]
  BY <1>11 DEF StartCleanup, Idle
<1>12. ASSUME NEW f \in Folders, StartSearch(c, f)
  PROVE  /\ call' \in [Callers -> Call] /\ CallsHaveFolders'
         /\ \A d \in Callers \ {c} : call'[d] = call[d]
  BY <1>12 DEF StartSearch, Idle
<1>13. ASSUME NEW f \in Folders, Prune(c, f)
  PROVE  /\ call' \in [Callers -> Call] /\ CallsHaveFolders'
         /\ \A d \in Callers \ {c} : call'[d] = call[d]
  BY <1>13 DEF Prune, Idle
<1>14. QED
  BY <1>1, <1>2, <1>3, <1>4, <1>5, <1>6, <1>7, <1>8, <1>9, <1>10, <1>11, <1>12, <1>13 DEF Step

Kept ==
  /\ dir' \in [Folders -> {"none", "empty", "indexed", "part"}]
  /\ entry' \in [Folders -> {None, 0, Chunks}] /\ unregistered' \subseteq Folders
  /\ DeregisteredIsGone' /\ SearchedIsListed' /\ IndexIsListed'

LEMMA StepKeepsInv ==
  ASSUME IInv, NEW c \in Callers, Step(c), Recorded
  PROVE  IInv'
<1> USE EphemeralAssumption
    DEF Goto, End, Start, Exists, Made, Deregistered, Kept
<1> DEFINE before == call[c].folder
           after == call'[c].folder
<1>a. /\ call' \in [Callers -> Call] /\ CallsHaveFolders'
      /\ \A d \in Callers \ {c} : call'[d] = call[d]
  BY OneCallChanges
<1>b. /\ overlapped \subseteq overlapped' /\ overlapped' \subseteq Folders
      /\ OverlapsAreKnown'
  BY RecordedIsEnough
<1>c. \A f \in Folders \ overlapped' : before = f \/ after = f
        => \A d \in Callers \ {c} : call[d].folder # f
  BY <1>a, Alone
<1>d. TypeOK /\ CallsHaveFolders /\ DeregisteredIsGone /\ SearchedIsListed /\ IndexIsListed
  BY DEF IInv
<1> USE DEF TypeOK, CallsHaveFolders, DeregisteredIsGone, SearchedIsListed, IndexIsListed
<1>1. ASSUME CreateComponents(c) PROVE Kept
  BY <1>a, <1>b, <1>c, <1>d, <1>1 DEF CreateComponents, Idle, Call, CallAt
<1>2. ASSUME IndexFolder(c) PROVE Kept
  BY <1>a, <1>b, <1>c, <1>d, <1>2 DEF IndexFolder, Idle, Call, CallAt
<1>3. ASSUME Register(c) PROVE Kept
  BY <1>a, <1>b, <1>c, <1>d, <1>3 DEF Register, Idle, Call, CallAt
<1>4. ASSUME Remove(c) PROVE Kept
  <2>1. /\ dir' \in [Folders -> {"none", "empty", "indexed", "part"}]
        /\ entry' \in [Folders -> {None, 0, Chunks}] /\ unregistered' \subseteq Folders
    BY <1>a, <1>d, <1>4 DEF Remove, Call, CallAt
  <2>2. DeregisteredIsGone'
    BY <1>a, <1>b, <1>c, <1>d, <1>4 DEF Remove, Idle, Call, CallAt
  <2>3. SearchedIsListed'
    BY <1>a, <1>b, <1>c, <1>d, <1>4 DEF Remove, Idle, Call, CallAt
  <2>4. IndexIsListed'
    BY <1>a, <1>b, <1>c, <1>d, <1>4 DEF Remove, Idle, Call, CallAt
  <2>5. QED
    BY <2>1, <2>2, <2>3, <2>4
<1>5. ASSUME Deregister(c) PROVE Kept
  <2>1. /\ dir' \in [Folders -> {"none", "empty", "indexed", "part"}]
        /\ entry' \in [Folders -> {None, 0, Chunks}] /\ unregistered' \subseteq Folders
    BY <1>a, <1>d, <1>5 DEF Deregister, Call, CallAt
  <2>2. DeregisteredIsGone'
    BY <1>a, <1>b, <1>c, <1>d, <1>5 DEF Deregister, Idle, Call, CallAt
  <2>3. SearchedIsListed'
    BY <1>a, <1>b, <1>c, <1>d, <1>5 DEF Deregister, Idle, Call, CallAt
  <2>4. IndexIsListed'
    <3>1. UNCHANGED <<dir, unregistered>> /\ \A f \in Folders \ {before} : entry'[f] = entry[f]
      BY <1>d, <1>5 DEF Deregister
    <3>2. before \notin overlapped => dir[before] = "none"
      BY <1>d, <1>5 DEF Deregister
    <3>3. call[c].at = "deregister"
      BY <1>5 DEF Deregister
    <3>4. QED
      BY <1>a, <1>b, <1>d, <3>1, <3>2, <3>3
  <2>5. QED
    BY <2>1, <2>2, <2>3, <2>4
<1>6. ASSUME Open(c) PROVE Kept
  BY <1>a, <1>b, <1>c, <1>d, <1>6 DEF Open, Idle, Call, CallAt
<1>7. ASSUME Touch(c) PROVE Kept
  BY <1>a, <1>b, <1>c, <1>d, <1>7 DEF Touch, Idle, Call, CallAt
<1>8. ASSUME StartList(c) PROVE Kept
  <2>1. call[c] = Idle /\ UNCHANGED <<dir, entry, unregistered>>
    BY <1>8 DEF StartList
  <2>2. call'[c].at = "list" /\ call'[c].folder = None
    BY <1>8, <1>d DEF StartList, Idle, Call
  <2>3. DeregisteredIsGone' /\ SearchedIsListed'
    BY <1>a, <1>b, <1>d, <2>1, <2>2
  <2>4. IndexIsListed'
    BY <1>a, <1>b, <1>d, <2>1, <2>2 DEF Idle
  <2>5. QED
    BY <1>d, <2>1, <2>3, <2>4
<1>9. ASSUME Fail(c) PROVE Kept
  BY <1>a, <1>b, <1>c, <1>d, <1>9 DEF Fail, Idle, Call, CallAt
<1>10. ASSUME NEW f \in Folders, StartIndex(c, f) PROVE Kept
  BY <1>a, <1>b, <1>c, <1>d, <1>10 DEF StartIndex, Idle, Call, CallAt
<1>11. ASSUME NEW f \in Folders, StartCleanup(c, f) PROVE Kept
  BY <1>a, <1>b, <1>c, <1>d, <1>11 DEF StartCleanup, Idle, Call, CallAt
<1>12. ASSUME NEW f \in Folders, StartSearch(c, f) PROVE Kept
  BY <1>a, <1>b, <1>c, <1>d, <1>12 DEF StartSearch, Idle, Call, CallAt
<1>13. ASSUME NEW f \in Folders, Prune(c, f) PROVE Kept
  BY <1>a, <1>b, <1>c, <1>d, <1>13 DEF Prune, Idle, Call, CallAt
<1>14. Kept
  BY <1>1, <1>2, <1>3, <1>4, <1>5, <1>6, <1>7, <1>8, <1>9, <1>10, <1>11, <1>12, <1>13 DEF Step
<1>15. QED
  BY <1>a, <1>b, <1>14 DEF IInv

LEMMA UserKeepsInv ==
  ASSUME IInv, NEW f \in Folders, UserRemoves(f), Recorded
  PROVE  IInv'
<1>1. OverlapsAreKnown' /\ overlapped \subseteq overlapped' /\ overlapped' \subseteq Folders
  BY RecordedIsEnough
<1>2. QED
  BY <1>1 DEF UserRemoves, IInv, TypeOK, CallsHaveFolders, DeregisteredIsGone,
              SearchedIsListed, IndexIsListed, Exists

LEMMA StutterKeepsInv == IInv /\ UNCHANGED vars => IInv'
BY DEF IInv, TypeOK, CallsHaveFolders, OverlapsAreKnown, BusyWith, DeregisteredIsGone,
       SearchedIsListed, IndexIsListed, Exists, vars

LEMMA Inductive == Spec => []IInv
<1>1. IInv /\ [Next]_vars => IInv'
  BY StepKeepsInv, UserKeepsInv, StutterKeepsInv DEF Next, Recorded
<1>2. QED
  BY InitInv, <1>1, PTL DEF Spec

----------------------------------------------------------------------------
\* Every variable keeps its type, for every number of folders, requests and chunks.
THEOREM TypeCorrect == Spec => []TypeOK
<1>1. IInv => TypeOK
  BY DEF IInv
<1>2. QED
  BY Inductive, <1>1, PTL

\* An index on the user's disk is in the registry, but for the two cases the property
\* names (ephemeral_store.py, http_routes_ephemeral.py, server.py).
THEOREM EveryIndexIsListed == Spec => []IndexIsListed
<1>1. IInv => IndexIsListed
  BY DEF IInv
<1>2. QED
  BY Inductive, <1>1, PTL

LEMMA StepKeepsListed ==
  ASSUME IInv, Next
  PROVE  \A f \in Folders \ overlapped' :
           entry[f] # None /\ entry'[f] = None => dir[f] = "none"
<1> SUFFICES ASSUME NEW f \in Folders \ overlapped', entry[f] # None, entry'[f] = None
             PROVE  dir[f] = "none"
  OBVIOUS
<1>1. f \notin overlapped
  BY DEF Next
<1>2. PICK c \in Callers : Deregister(c) \/ Register(c)
  BY DEF Next, Step, UserRemoves, CreateComponents, IndexFolder, Remove, Open, Touch,
         StartList, Fail, StartIndex, StartCleanup, StartSearch, Prune
<1>3. CASE Deregister(c)
  <2>1. call[c].at = "deregister" /\ call[c].folder = f
    BY <1>3 DEF Deregister, Deregistered, IInv, TypeOK
  <2>2. QED
    BY <1>1, <2>1 DEF IInv, DeregisteredIsGone
<1>4. CASE Register(c)
  BY <1>4, EphemeralAssumption DEF Register, IInv, TypeOK, Call
<1>5. QED
  BY <1>2, <1>3, <1>4

\* No request removes the entry of a directory that is still there (ephemeral_registry.py:93-111).
THEOREM ListedStays == Spec => ListedIsKept
<1>1. IInv /\ [Next]_vars
        => [\A f \in Folders \ overlapped' :
              entry[f] # None /\ entry'[f] = None => dir[f] = "none"]_vars
  BY StepKeepsListed
<1>2. QED
  BY Inductive, <1>1, PTL DEF Spec, ListedIsKept
=============================================================================
