----------------------------- MODULE Singletons -----------------------------
(***************************************************************************)
(* The objects an HTTP server builds on first use (http.py, create_app):   *)
(* getters that look at a variable, build what the object needs, take one  *)
(* reentrant lock, look again and assign.  Getters call each other, with   *)
(* and without the lock; request threads and the startup thread call them, *)
(* and PUT /config makes the server forget two of the objects.             *)
(***************************************************************************)
EXTENDS Naturals, Sequences, FiniteSets

CONSTANTS
  Threads,
  Wants,  \* what each thread calls, one after the other
  None

Locked == {"config", "store", "engine", "indexer", "watcher", "worker", "tasks"}
Getters == Locked \union {"registry"}
Wishes == Seq(Getters \union {"reset"})
Resettable == {"engine", "indexer"}

ASSUME SingletonsAssumption ==
  /\ Wants \in [Threads -> Wishes]
  /\ None \notin Threads \union {"made", "ready"}

VARIABLES
  object,  \* each singleton: None, "made" and, where this is a step of its own, "ready"
  made,    \* history: how often each was assigned
  calls,   \* each thread's calls in progress, the innermost last
  todo,    \* what each thread still wants
  owner, depth, \* _singleton_lock
  resets   \* history: calls of reset_embedding_singletons()

vars == <<object, made, calls, todo, owner, depth, resets>>

Call == [get : Getters, at : {"first", "build", "inside", "initialize", "return"},
         needs : Seq(Getters)]

TypeOK ==
  /\ object \in [Getters -> {None, "made", "ready"}]
  /\ made \in [Getters -> Nat] /\ {depth, resets} \subseteq Nat
  /\ calls \in [Threads -> Seq(Call)] /\ todo \in [Threads -> Wishes]
  /\ owner \in Threads \union {None} /\ (owner = None <=> depth = 0)

Init ==
  /\ object = [g \in Getters |-> None] /\ made = [g \in Getters |-> 0]
  /\ calls = [t \in Threads |-> <<>>] /\ todo = Wants
  /\ owner = None /\ depth = 0 /\ resets = 0

----------------------------------------------------------------------------
\* What a getter calls before it takes the lock, and while it holds it.
Before(g) == IF g \in {"engine", "indexer"} THEN <<"store">> ELSE <<>>
Inside(g) == CASE g = "watcher" -> <<"indexer", "store">>
               [] g = "indexer" -> <<"worker">>
               [] OTHER -> <<>>

Top(t) == calls[t][Len(calls[t])]
Calling(t, at) == calls[t] # <<>> /\ Top(t).at = at
Frame(g, at, needs) == [get |-> g, at |-> at, needs |-> needs]
Change(frames, at, needs) ==
  LET n == Len(frames) IN [frames EXCEPT ![n] = Frame(frames[n].get, at, needs)]
Goto(t, at, needs) == calls' = [calls EXCEPT ![t] = Change(@, at, needs)]
Push(frames, g) == Append(frames, Frame(g, "first", <<>>))
Pop(t) == calls' = [calls EXCEPT ![t] = SubSeq(@, 1, Len(@) - 1)]

Begin(t) ==
  /\ calls[t] = <<>> /\ todo[t] # <<>> /\ Head(todo[t]) # "reset"
  /\ calls' = [calls EXCEPT ![t] = Push(@, Head(todo[t]))]
  /\ todo' = [todo EXCEPT ![t] = Tail(@)]
  /\ UNCHANGED <<object, made, owner, depth, resets>>

\* reset_embedding_singletons(), without the lock.
Reset(t) ==
  /\ calls[t] = <<>> /\ todo[t] # <<>> /\ Head(todo[t]) = "reset"
  /\ todo' = [todo EXCEPT ![t] = Tail(@)] /\ resets' = resets + 1
  /\ object' = [g \in Getters |-> IF g \in Resettable THEN None ELSE object[g]]
  /\ UNCHANGED <<made, calls, owner, depth>>

\* if _x is None: without the lock.
Look(t) ==
  /\ Calling(t, "first")
  /\ IF object[Top(t).get] # None THEN Pop(t) ELSE Goto(t, "build", Before(Top(t).get))
  /\ UNCHANGED <<object, made, todo, owner, depth, resets>>

\* The next getter that the object's parts come from.
CallNext(t) ==
  /\ Calling(t, "build") \/ Calling(t, "inside")
  /\ LET needs == Top(t).needs
     IN /\ needs # <<>>
        /\ calls' = [calls EXCEPT ![t] = Push(Change(@, Top(t).at, Tail(needs)), Head(needs))]
  /\ UNCHANGED <<object, made, todo, owner, depth, resets>>

AcquireOnce(t) == owner = None /\ owner' = t /\ depth' = depth + 1
Acquire(t) == owner \in {None, t} /\ owner' = t /\ depth' = depth + 1

LookOnceAndEnter(t) ==
  /\ Calling(t, "build") /\ Top(t).needs = <<>> /\ Top(t).get \in Locked
  /\ Acquire(t) /\ Goto(t, "inside", Inside(Top(t).get))
  /\ UNCHANGED <<object, made, todo, resets>>

\* with _singleton_lock: if _x is None:
Enter(t) ==
  /\ Calling(t, "build") /\ Top(t).needs = <<>> /\ Top(t).get \in Locked
  /\ Acquire(t)
  /\ IF object[Top(t).get] # None THEN Goto(t, "return", <<>>)
                                  ELSE Goto(t, "inside", Inside(Top(t).get))
  /\ UNCHANGED <<object, made, todo, resets>>

\* The variable is assigned, and only then the store or registry initialised.
Assign(t) ==
  /\ \/ Calling(t, "inside")
     \/ Calling(t, "build") /\ Top(t).get \notin Locked
  /\ Top(t).needs = <<>>
  /\ LET g == Top(t).get
     IN /\ object' = [object EXCEPT ![g] = "made"] /\ made' = [made EXCEPT ![g] = @ + 1]
        /\ Goto(t, IF g \in {"store", "registry"} THEN "initialize" ELSE "return", <<>>)
  /\ UNCHANGED <<todo, owner, depth, resets>>

Initialize(t) ==
  /\ Calling(t, "initialize") /\ Goto(t, "return", <<>>)
  /\ object' = [object EXCEPT ![Top(t).get] = "ready"]
  /\ UNCHANGED <<made, todo, owner, depth, resets>>

Return(t) ==
  /\ Calling(t, "return") /\ Pop(t)
  /\ IF Top(t).get \in Locked
     THEN depth' = depth - 1 /\ owner' = IF depth = 1 THEN None ELSE owner
     ELSE UNCHANGED <<owner, depth>>
  /\ UNCHANGED <<object, made, todo, resets>>

Step(t) == \/ Begin(t) \/ Reset(t) \/ Look(t) \/ CallNext(t) \/ Enter(t) \/ Assign(t)
           \/ Initialize(t) \/ Return(t)

Next == \E t \in Threads : Step(t)

Spec == Init /\ [][Next]_vars
FairSpec == Spec /\ \A t \in Threads : WF_vars(Step(t))

----------------------------------------------------------------------------
\* However many threads ask first, one object of each kind exists between two
\* resets: two stores would be two writers of one index, two task managers two
\* registries of running tasks.  (EphemeralRegistry has no lock and is left out.)
OneOfEach ==
  \A g \in Locked : made[g] <= 1 + (IF g \in Resettable THEN resets ELSE 0)

\* Getters that wait for the lock inside other getters' locks never wait for
\* each other: every thread gets all it wants.
EveryGetterReturns == \A t \in Threads : <>[](calls[t] = <<>> /\ todo[t] = <<>>)
=============================================================================
