------------------------- MODULE Singletons_proofs -------------------------
(***************************************************************************)
(* Theorems of Singletons and their proofs.                                *)
(***************************************************************************)
EXTENDS Singletons, FiniteSetTheorems, SequenceTheorems, TLAPS

\* The getters' calls go down: the watcher needs the indexer, which needs a store.
Rank(g) == IF g = "watcher" THEN 3 ELSE IF g \in Resettable THEN 2 ELSE 1

Descending(s) ==
  \A i \in 1..Len(s) :
    /\ \A k \in 1..Len(s[i].needs) : Rank(s[i].needs[k]) < Rank(s[i].get)
    /\ \A j \in 1..Len(s) : i < j => Rank(s[j].get) < Rank(s[i].get)
    /\ s[i].at = "inside" => s[i].get \in Locked

\* No getter is called inside itself.
CallsDescend == \A t \in Threads : Descending(calls[t])

\* The frames of s that are inside "with _singleton_lock".
Holding(s) ==
  {i \in 1..Len(s) : s[i].get \in Locked /\ s[i].at \in {"inside", "initialize", "return"}}

\* The lock is entered once for each of its owner's frames that hold it, and
\* nobody else has such frames.
LockIsCounted ==
  \A t \in Threads : Cardinality(Holding(calls[t])) = IF owner = t THEN depth ELSE 0

\* The getters in s that saw, with the lock, that their object is missing.
Building(s) == {s[i].get : i \in {k \in 1..Len(s) : s[k].at = "inside"}}

\* What was found missing under the lock is still missing.
MissingUnderTheLock == \A t \in Threads : \A g \in Building(calls[t]) : object[g] = None

\* A singleton that is not there was assigned no more often than it was reset.
AssignedOrReset ==
  \A g \in Locked : made[g] <= (IF object[g] = None THEN 0 ELSE 1)
                             + (IF g \in Resettable THEN resets ELSE 0)

IInv ==
  /\ TypeOK /\ CallsDescend /\ LockIsCounted /\ MissingUnderTheLock /\ AssignedOrReset

LEMMA InitInv == Init => IInv
<1> SUFFICES ASSUME Init PROVE IInv
  OBVIOUS
<1>1. TypeOK
  BY SingletonsAssumption DEF Init, TypeOK
<1>2. \A t \in Threads : calls[t] = <<>>
  BY DEF Init
<1>3. CallsDescend /\ MissingUnderTheLock
  BY <1>2 DEF CallsDescend, Descending, MissingUnderTheLock, Building
<1>4. \A t \in Threads : Holding(calls[t]) = {}
  BY <1>2 DEF Holding
<1>5. LockIsCounted
  BY <1>4, FS_EmptySet DEF LockIsCounted, Init
<1>6. AssignedOrReset
  BY DEF AssignedOrReset, Init, Getters
<1>7. QED
  BY <1>1, <1>3, <1>5, <1>6 DEF IInv

----------------------------------------------------------------------------
(* Sequences of frames.                                                     *)

LEMMA HoldingIsFinite ==
  ASSUME NEW s \in Seq(Call)
  PROVE  IsFiniteSet(Holding(s)) /\ Cardinality(Holding(s)) \in Nat
<1>1. IsFiniteSet(1..Len(s))
  BY FS_Interval
<1>2. Holding(s) \in SUBSET (1..Len(s))
  BY DEF Holding
<1>3. IsFiniteSet(Holding(s))
  BY <1>1, <1>2, FS_Subset
<1>4. QED
  BY <1>3, FS_CardinalityType

\* A getter is called: by nobody, or by one that needs it.
LEMMA PushDescends ==
  ASSUME NEW s \in Seq(Call), Descending(s), NEW g \in Getters,
         s # <<>> => Rank(g) < Rank(s[Len(s)].get)
  PROVE  /\ Push(s, g) \in Seq(Call) /\ Descending(Push(s, g))
         /\ Holding(Push(s, g)) = Holding(s) /\ Building(Push(s, g)) = Building(s)
<1> DEFINE f == Frame(g, "first", <<>>)
<1>1. f \in Call /\ Push(s, g) = Append(s, f)
  BY DEF Call, Push, Frame
<1> DEFINE n == Len(s)
<1>2. /\ Push(s, g) \in Seq(Call) /\ Len(Push(s, g)) = n + 1 /\ n \in Nat
      /\ Push(s, g)[n + 1] = f /\ \A i \in 1..n : Push(s, g)[i] = s[i]
  BY <1>1
<1>3. \A i \in 1..n : s[i] \in Call
  OBVIOUS
<1>4. \A x \in Getters : Rank(x) \in Nat
  BY DEF Rank
<1>5. \A i \in 1..n : Rank(g) < Rank(s[i].get)
  <2> SUFFICES ASSUME NEW i \in 1..n PROVE Rank(g) < Rank(s[i].get)
    OBVIOUS
  <2>1. i = n \/ Rank(s[n].get) < Rank(s[i].get)
    BY DEF Descending
  <2>2. Rank(g) < Rank(s[n].get)
    OBVIOUS
  <2>3. s[i] \in Call /\ s[n] \in Call
    BY <1>2, <1>3
  <2>4. s[i].get \in Getters /\ s[n].get \in Getters
    BY <2>3 DEF Call
  <2>5. Rank(s[i].get) \in Nat /\ Rank(s[n].get) \in Nat /\ Rank(g) \in Nat
    BY <2>4, <1>4
  <2>6. QED
    BY <2>1, <2>2, <2>5
<1>6. Descending(Push(s, g))
  <2> HIDE DEF f
  <2>1. f.needs = <<>> /\ f.at # "inside" /\ f.get = g
    BY DEF f, Frame
  <2>2. QED
    BY <1>2, <1>5, <2>1 DEF Descending
<1>7. Holding(Push(s, g)) = Holding(s) /\ Building(Push(s, g)) = Building(s)
  <2>1. f.at = "first"
    BY DEF Frame
  <2> HIDE DEF f
  <2>2. QED
    BY <1>2, <2>1 DEF Holding, Building
<1>8. QED
  BY <1>2, <1>6, <1>7

\* A call ends.
LEMMA Popped ==
  ASSUME NEW s \in Seq(Call), s # <<>>
  PROVE  LET p == SubSeq(s, 1, Len(s) - 1)
         IN /\ Len(s) \in Nat \ {0} /\ p \in Seq(Call) /\ Len(p) = Len(s) - 1
            /\ \A i \in 1..Len(p) : p[i] = s[i]
<1> DEFINE p == SubSeq(s, 1, Len(s) - 1)
<1>0. Len(s) \in Nat \ {0}
  OBVIOUS
<1>1. \A i \in 1..(Len(s) - 1) : s[i] \in Call
  BY <1>0
<1>2. Len(s) - 1 \in Int /\ 1 \in Int
  BY <1>0
<1>3. /\ p \in Seq(Call)
      /\ Len(p) = IF 1 <= Len(s) - 1 THEN Len(s) - 1 - 1 + 1 ELSE 0
      /\ \A i \in 1..(Len(s) - 1 - 1 + 1) : p[i] = s[1 + i - 1]
  BY <1>1, <1>2, SubSeqProperties
<1> HIDE DEF p
<1>4. Len(p) = Len(s) - 1
  <2>1. ASSUME NEW n \in Nat \ {0}, NEW l, l = IF 1 <= n - 1 THEN n - 1 - 1 + 1 ELSE 0
        PROVE  l = n - 1
    BY <2>1
  <2>2. QED
    BY <1>0, <1>3, <2>1
<1>5. \A i \in 1..Len(p) : p[i] = s[i]
  <2> SUFFICES ASSUME NEW i \in 1..Len(p) PROVE p[i] = s[i]
    OBVIOUS
  <2>1. i \in 1..(Len(s) - 1 - 1 + 1) /\ 1 + i - 1 = i
    BY <1>0, <1>4
  <2>2. QED
    BY <1>3, <2>1
<1>6. QED
  BY <1>0, <1>3, <1>4, <1>5 DEF p

LEMMA PopDescends ==
  ASSUME NEW s \in Seq(Call), Descending(s), s # <<>>
  PROVE  LET p == SubSeq(s, 1, Len(s) - 1)
         IN /\ p \in Seq(Call) /\ Descending(p) /\ Holding(p) = Holding(s) \ {Len(s)}
            /\ Building(p) \subseteq Building(s)
<1> DEFINE p == SubSeq(s, 1, Len(s) - 1)
<1>1. /\ Len(s) \in Nat \ {0} /\ p \in Seq(Call) /\ Len(p) = Len(s) - 1
      /\ \A i \in 1..Len(p) : p[i] = s[i]
  BY Popped
<1> HIDE DEF p
<1>2. Descending(p)
  BY <1>1 DEF Descending
<1>3. Holding(p) = Holding(s) \ {Len(s)} /\ Building(p) \subseteq Building(s)
  BY <1>1 DEF Holding, Building
<1>4. QED
  BY <1>1, <1>2, <1>3 DEF p

\* The innermost call goes on.
LEMMA TopDescends ==
  ASSUME NEW s \in Seq(Call), Descending(s), s # <<>>,
         NEW at \in {"build", "inside", "initialize", "return"},
         NEW needs \in Seq(Getters),
         \A k \in 1..Len(needs) : Rank(needs[k]) < Rank(s[Len(s)].get),
         at = "inside" => s[Len(s)].get \in Locked
  PROVE  LET u == Change(s, at, needs)
             n == Len(s)
         IN /\ u \in Seq(Call) /\ Descending(u) /\ u # <<>>
            /\ u[Len(u)] = Frame(s[n].get, at, needs)
            /\ Holding(u) = IF s[n].get \in Locked /\ at # "build"
                            THEN Holding(s) \union {n} ELSE Holding(s) \ {n}
            /\ Building(u) \subseteq Building(s) \union {s[n].get}
            /\ at # "inside" => Building(u) \subseteq Building(s) \ {s[n].get}
<1> DEFINE n == Len(s)
           f == Frame(s[n].get, at, needs)
           u == [s EXCEPT ![n] = f]
<1>1. n \in 1..Len(s) /\ s[n] \in Call
  OBVIOUS
<1>2. f \in Call /\ f.get = s[n].get /\ f.at = at /\ f.needs = needs
  BY <1>1 DEF Call, Frame
<1> HIDE DEF f
<1>3. /\ u \in Seq(Call) /\ Len(u) = n
      /\ \A i \in 1..n : u[i] = IF i = n THEN f ELSE s[i]
  BY <1>1, <1>2, ExceptSeq
<1> HIDE DEF u
<1>4. /\ u[n].get = s[n].get /\ u[n].at = at /\ u[n].needs = needs
      /\ \A i \in 1..n : u[i].get = s[i].get
  BY <1>1, <1>2, <1>3
<1>5. n \in Nat \ {0} /\ \A i \in 1..(n - 1) : i \in 1..n /\ i # n
  OBVIOUS
<1>6. Descending(u)
  BY <1>3, <1>4, <1>5 DEF Descending
<1>7. Holding(u) = IF s[n].get \in Locked /\ at # "build"
                   THEN Holding(s) \union {n} ELSE Holding(s) \ {n}
  BY <1>3, <1>4, <1>5 DEF Holding
<1>8. Building(u) \subseteq Building(s) \union {s[n].get}
  BY <1>3, <1>4 DEF Building
<1>9. ASSUME at # "inside" PROVE Building(u) \subseteq Building(s) \ {s[n].get}
  <2>1. \A i \in 1..n : u[i].at = "inside" => i \in 1..(n - 1) /\ s[i].at = "inside"
    <3> SUFFICES ASSUME NEW i \in 1..n, u[i].at = "inside"
                 PROVE  i \in 1..(n - 1) /\ s[i].at = "inside"
      OBVIOUS
    <3>1. i # n
      BY <1>4, <1>9
    <3>2. u[i] = s[i]
      BY <1>3, <3>1
    <3>3. QED
      BY <1>5, <3>1, <3>2
  <2>2. \A i \in 1..(n - 1) : s[i].get # s[n].get
    <3> SUFFICES ASSUME NEW i \in 1..(n - 1) PROVE s[i].get # s[n].get
      OBVIOUS
    <3>1. Rank(s[n].get) < Rank(s[i].get)
      BY <1>5 DEF Descending
    <3>2. s[n].get \in Getters => Rank(s[n].get) \in Nat
      BY DEF Rank
    <3>3. s[n].get \in Getters
      BY <1>1 DEF Call
    <3>4. QED
      BY <3>1, <3>2, <3>3
  <2>3. \A i \in 1..Len(u) : u[i].at = "inside"
          => /\ i \in 1..Len(s) /\ s[i].at = "inside"
             /\ u[i].get = s[i].get /\ s[i].get # s[n].get
    BY <1>3, <1>4, <1>5, <2>1, <2>2
  <2>4. QED
    BY <2>3 DEF Building
<1>10. u = Change(s, at, needs)
  BY DEF u, f, Change
<1>11. QED
  BY <1>1, <1>3, <1>5, <1>6, <1>7, <1>8, <1>9, <1>10 DEF f

LEMMA BuildersHold ==
  ASSUME NEW s \in Seq(Call), Descending(s)
  PROVE  /\ Building(s) \subseteq Locked
         /\ Cardinality(Holding(s)) = 0 => Building(s) = {}
<1>1. \A i \in 1..Len(s) : s[i].at = "inside" => s[i].get \in Locked /\ i \in Holding(s)
  BY DEF Descending, Holding
<1>2. Cardinality(Holding(s)) = 0 => Holding(s) = {}
  BY HoldingIsFinite, FS_EmptySet
<1>3. QED
  BY <1>1, <1>2 DEF Building

----------------------------------------------------------------------------
(* One thread's stack changes.                                              *)

LEMMA OneStackChanges ==
  ASSUME IInv, NEW t \in Threads, NEW s \in Seq(Call), Descending(s),
         calls' = [calls EXCEPT ![t] = s]
  PROVE  /\ calls' \in [Threads -> Seq(Call)] /\ CallsDescend' /\ calls'[t] = s
         /\ \A u \in Threads \ {t} : calls'[u] = calls[u]
BY DEF IInv, TypeOK, CallsDescend

\* A thread in a frame that holds the lock owns it, and nobody else has such a frame.
LEMMA HolderOwns ==
  ASSUME IInv, NEW t \in Threads, Holding(calls[t]) # {}
  PROVE  /\ owner = t /\ depth \in Nat \ {0}
         /\ \A u \in Threads \ {t} : Building(calls[u]) = {}
<1>1. \A u \in Threads : calls[u] \in Seq(Call) /\ Descending(calls[u])
  BY DEF IInv, TypeOK, CallsDescend
<1>2. Cardinality(Holding(calls[t])) # 0
  BY <1>1, HoldingIsFinite, FS_EmptySet
<1>3. owner = t /\ depth # 0 /\ depth \in Nat
  BY <1>2 DEF IInv, LockIsCounted, TypeOK
<1>4. \A u \in Threads \ {t} : Cardinality(Holding(calls[u])) = 0
  BY <1>3 DEF IInv, LockIsCounted
<1>5. QED
  BY <1>1, <1>3, <1>4, BuildersHold

\* The stack changes, but not what it holds.
LEMMA SameHolding ==
  ASSUME IInv, NEW t \in Threads, NEW s \in Seq(Call), Descending(s),
         calls' = [calls EXCEPT ![t] = s], UNCHANGED <<owner, depth>>,
         Holding(s) = Holding(calls[t])
  PROVE  LockIsCounted'
<1>1. \A u \in Threads : Holding(calls'[u]) = Holding(calls[u])
  BY OneStackChanges
<1>2. QED
  BY <1>1 DEF IInv, LockIsCounted, Holding

\* What a thread builds is missing, and nothing is assigned.
LEMMA SameMissing ==
  ASSUME IInv, NEW t \in Threads, NEW s \in Seq(Call), Descending(s),
         calls' = [calls EXCEPT ![t] = s], UNCHANGED object,
         \A g \in Building(s) : object[g] = None
  PROVE  MissingUnderTheLock'
<1>1. \A u \in Threads : \A g \in Building(calls'[u]) : object[g] = None
  BY OneStackChanges DEF IInv, MissingUnderTheLock
<1>2. QED
  BY <1>1 DEF MissingUnderTheLock, Building

\* A call that is in progress is one of a getter.
LEMMA TopIsCall ==
  ASSUME IInv, NEW t \in Threads, calls[t] # <<>>
  PROVE  /\ calls[t] \in Seq(Call) /\ Descending(calls[t])
         /\ Top(t) \in Call /\ Top(t).get \in Getters /\ Top(t).needs \in Seq(Getters)
         /\ Len(calls[t]) \in 1..Len(calls[t])
         /\ \A k \in 1..Len(Top(t).needs) : Rank(Top(t).needs[k]) < Rank(Top(t).get)
         /\ Top(t).at = "inside" => Top(t).get \in Locked
         /\ Len(calls[t]) \in Holding(calls[t]) <=>
              Top(t).get \in Locked /\ Top(t).at \in {"inside", "initialize", "return"}
<1>1. calls[t] \in Seq(Call) /\ Descending(calls[t])
  BY DEF IInv, TypeOK, CallsDescend
<1>2. Len(calls[t]) \in 1..Len(calls[t])
  BY <1>1
<1>3. Top(t) \in Call
  BY <1>1, <1>2 DEF Top
<1>4. QED
  BY <1>1, <1>2, <1>3 DEF Call, Descending, Holding, Top

\* What a getter needs comes below it.
LEMMA NeedsDescend ==
  ASSUME NEW g \in Getters
  PROVE  /\ Before(g) \in Seq(Getters) /\ Inside(g) \in Seq(Getters)
         /\ \A k \in 1..Len(Before(g)) : Rank(Before(g)[k]) < Rank(g)
         /\ \A k \in 1..Len(Inside(g)) : Rank(Inside(g)[k]) < Rank(g)
<1>1. CASE g = "watcher"
  BY <1>1 DEF Before, Inside, Rank, Getters, Locked, Resettable
<1>2. CASE g = "indexer"
  BY <1>2 DEF Before, Inside, Rank, Getters, Locked, Resettable
<1>3. CASE g = "engine"
  BY <1>3 DEF Before, Inside, Rank, Getters, Locked, Resettable
<1>4. CASE g \notin {"watcher", "indexer", "engine"}
  BY <1>4 DEF Before, Inside
<1>5. QED
  BY <1>1, <1>2, <1>3, <1>4

\* A step that neither locks nor assigns.
LEMMA CallOnlyKeeps ==
  ASSUME IInv, NEW t \in Threads, NEW s \in Seq(Call), Descending(s),
         calls' = [calls EXCEPT ![t] = s],
         Holding(s) = Holding(calls[t]), Building(s) \subseteq Building(calls[t]),
         todo' \in [Threads -> Wishes], UNCHANGED <<object, made, owner, depth, resets>>
  PROVE  IInv'
<1>1. CallsDescend' /\ calls' \in [Threads -> Seq(Call)]
  BY OneStackChanges
<1>2. TypeOK'
  BY <1>1 DEF IInv, TypeOK
<1>3. LockIsCounted'
  BY SameHolding
<1>4. MissingUnderTheLock'
  BY SameMissing DEF IInv, MissingUnderTheLock
<1>5. AssignedOrReset'
  BY DEF IInv, AssignedOrReset
<1>6. QED
  BY <1>1, <1>2, <1>3, <1>4, <1>5 DEF IInv

LEMMA BeginKeeps ==
  ASSUME IInv, NEW t \in Threads, Begin(t)
  PROVE  IInv'
<1> DEFINE g == Head(todo[t])
           s == Push(calls[t], g)
<1>1. /\ calls[t] = <<>> /\ todo[t] # <<>> /\ g # "reset"
      /\ calls' = [calls EXCEPT ![t] = s] /\ todo' = [todo EXCEPT ![t] = Tail(@)]
      /\ UNCHANGED <<object, made, owner, depth, resets>>
  BY DEF Begin
<1>2. todo[t] \in Wishes /\ calls[t] \in Seq(Call) /\ Descending(calls[t])
  BY DEF IInv, TypeOK, CallsDescend
<1>3. g \in Getters /\ Tail(todo[t]) \in Wishes
  BY <1>1, <1>2 DEF Wishes
<1> HIDE DEF g
<1>4. s \in Seq(Call) /\ Descending(s) /\ Holding(s) = Holding(calls[t])
      /\ Building(s) = Building(calls[t])
  BY <1>1, <1>2, <1>3, PushDescends
<1>5. QED
  BY <1>1, <1>3, <1>4, CallOnlyKeeps DEF IInv, TypeOK

LEMMA ResetKeeps ==
  ASSUME IInv, NEW t \in Threads, Reset(t)
  PROVE  IInv'
<1>1. Tail(todo[t]) \in Wishes
  BY DEF Reset, IInv, TypeOK, Wishes
<1>2. /\ todo' = [todo EXCEPT ![t] = Tail(@)] /\ resets' = resets + 1
      /\ object' = [g \in Getters |-> IF g \in Resettable THEN None ELSE object[g]]
      /\ UNCHANGED <<made, calls, owner, depth>>
  BY DEF Reset
<1>3. TypeOK'
  BY <1>1, <1>2 DEF IInv, TypeOK
<1>4. CallsDescend' /\ LockIsCounted'
  BY <1>2 DEF IInv, CallsDescend, LockIsCounted
<1>5. \A u \in Threads : Building(calls[u]) \subseteq Locked
  BY BuildersHold DEF IInv, TypeOK, CallsDescend
<1>6. MissingUnderTheLock'
  BY <1>2, <1>5 DEF IInv, MissingUnderTheLock, Getters
<1>7. AssignedOrReset'
  BY <1>2 DEF IInv, TypeOK, AssignedOrReset, Getters
<1>8. QED
  BY <1>3, <1>4, <1>6, <1>7 DEF IInv

LEMMA LookKeeps ==
  ASSUME IInv, NEW t \in Threads, Look(t)
  PROVE  IInv'
<1> DEFINE g == Top(t).get
           s == IF object[g] # None THEN SubSeq(calls[t], 1, Len(calls[t]) - 1)
                                    ELSE Change(calls[t], "build", Before(g))
<1>1. /\ calls[t] # <<>> /\ Top(t).at = "first" /\ calls' = [calls EXCEPT ![t] = s]
      /\ UNCHANGED <<object, made, todo, owner, depth, resets>>
  BY DEF Look, Calling, Pop, Goto
<1>2. /\ calls[t] \in Seq(Call) /\ Descending(calls[t]) /\ g \in Getters
      /\ Len(calls[t]) \notin Holding(calls[t])
  BY <1>1, TopIsCall
<1>3. s \in Seq(Call) /\ Descending(s) /\ Holding(s) = Holding(calls[t])
      /\ Building(s) \subseteq Building(calls[t])
  <2>1. CASE object[g] # None
    <3> DEFINE c == calls[t]
               u == SubSeq(c, 1, Len(c) - 1)
    <3>1. u \in Seq(Call) /\ Descending(u) /\ Holding(u) = Holding(c) \ {Len(c)}
          /\ Building(u) \subseteq Building(c)
      BY <1>1, <1>2, PopDescends
    <3>2. QED
      BY <1>2, <2>1, <3>1
  <2>2. CASE object[g] = None
    <3>1. /\ Before(g) \in Seq(Getters)
          /\ \A k \in 1..Len(Before(g)) : Rank(Before(g)[k]) < Rank(g)
      BY <1>2, NeedsDescend
    <3> DEFINE c == calls[t]
               u == Change(c, "build", Before(g))
    <3>2. g = c[Len(c)].get
      BY DEF Top
    <3>3. u \in Seq(Call) /\ Descending(u) /\ Holding(u) = Holding(c) \ {Len(c)}
          /\ Building(u) \subseteq Building(c) \ {g}
      BY <1>1, <1>2, <3>1, <3>2, TopDescends
    <3>4. QED
      BY <1>2, <2>2, <3>3
  <2>3. QED
    BY <2>1, <2>2
<1>4. QED
  BY <1>1, <1>3, CallOnlyKeeps DEF IInv, TypeOK

LEMMA CallNextKeeps ==
  ASSUME IInv, NEW t \in Threads, CallNext(t)
  PROVE  IInv'
<1> DEFINE c == calls[t]
           needs == Top(t).needs
           u == Change(c, Top(t).at, Tail(needs))
           s == Push(u, Head(needs))
<1>1. /\ c # <<>> /\ Top(t).at \in {"build", "inside"} /\ needs # <<>>
      /\ calls' = [calls EXCEPT ![t] = s]
      /\ UNCHANGED <<object, made, todo, owner, depth, resets>>
  BY DEF CallNext, Calling
<1>2. /\ c \in Seq(Call) /\ Descending(c) /\ Top(t).get \in Getters
      /\ needs \in Seq(Getters) /\ Len(c) \in 1..Len(c)
      /\ \A k \in 1..Len(needs) : Rank(needs[k]) < Rank(Top(t).get)
      /\ Top(t).at = "inside" => Top(t).get \in Locked
      /\ Len(c) \in Holding(c) <=>
           Top(t).get \in Locked /\ Top(t).at \in {"inside", "initialize", "return"}
  BY <1>1, TopIsCall
<1>3. Top(t) = c[Len(c)]
  BY DEF Top
<1> HIDE DEF needs
<1>4. /\ Head(needs) \in Getters /\ Tail(needs) \in Seq(Getters)
      /\ Rank(Head(needs)) < Rank(Top(t).get)
      /\ \A k \in 1..Len(Tail(needs)) : Rank(Tail(needs)[k]) < Rank(Top(t).get)
  BY <1>1, <1>2
<1>5. /\ u \in Seq(Call) /\ Descending(u) /\ u # <<>>
      /\ u[Len(u)] = Frame(Top(t).get, Top(t).at, Tail(needs))
      /\ Holding(u) = Holding(c) /\ Building(u) \subseteq Building(c)
  <2> DEFINE at == Top(t).at
             n == Len(c)
             g == c[n].get
  <2>1. /\ at \in {"build", "inside", "initialize", "return"}
        /\ \A k \in 1..Len(Tail(needs)) : Rank(Tail(needs)[k]) < Rank(c[n].get)
        /\ at = "inside" => c[n].get \in Locked
    BY <1>1, <1>2, <1>3, <1>4
  <2> HIDE DEF at, c
  <2>2. /\ u \in Seq(Call) /\ Descending(u) /\ u # <<>> /\ u[Len(u)] = Frame(g, at, Tail(needs))
        /\ Holding(u) = IF g \in Locked /\ at # "build"
                        THEN Holding(c) \union {n} ELSE Holding(c) \ {n}
        /\ Building(u) \subseteq Building(c) \union {g}
        /\ at # "inside" => Building(u) \subseteq Building(c) \ {g}
    BY <1>1, <1>2, <1>4, <2>1, TopDescends DEF at
  <2>3. at = "inside" => g \in Building(c)
    BY <1>2, <1>3 DEF Building, at
  <2>4. QED
    <3>1. at = "build" \/ at = "inside"
      BY <1>1 DEF at
    <3>2. CASE at = "build"
      BY <1>1, <1>2, <1>3, <2>2, <3>2 DEF at
    <3>3. CASE at = "inside"
      BY <1>2, <1>3, <2>2, <2>3, <3>3 DEF at
    <3>4. QED
      BY <3>1, <3>2, <3>3
<1>6. u[Len(u)].get = Top(t).get
  BY <1>5 DEF Frame
<1> HIDE DEF u
<1>7. s \in Seq(Call) /\ Descending(s) /\ Holding(s) = Holding(c)
      /\ Building(s) \subseteq Building(c)
  BY <1>4, <1>5, <1>6, PushDescends
<1>8. QED
  BY <1>1, <1>7, CallOnlyKeeps DEF IInv, TypeOK

LEMMA EnterKeeps ==
  ASSUME IInv, NEW t \in Threads, Enter(t)
  PROVE  IInv'
<1> DEFINE c == calls[t]
           n == Len(c)
           g == Top(t).get
           s == IF object[g] # None THEN Change(c, "return", <<>>)
                                    ELSE Change(c, "inside", Inside(g))
<1>1. /\ c # <<>> /\ Top(t).at = "build" /\ g \in Locked
      /\ owner \in {None, t} /\ owner' = t /\ depth' = depth + 1
      /\ calls' = [calls EXCEPT ![t] = s]
      /\ UNCHANGED <<object, made, todo, resets>>
  BY DEF Enter, Calling, Acquire, Goto
<1>2. c \in Seq(Call) /\ Descending(c) /\ g \in Getters /\ n \notin Holding(c)
  BY <1>1, TopIsCall
<1>3. g = c[n].get
  BY DEF Top
<1>4. /\ s \in Seq(Call) /\ Descending(s) /\ Holding(s) = Holding(c) \union {n}
      /\ \A x \in Building(s) : object[x] = None
  <2> HIDE DEF c, g
  <2>1. \A x \in Building(c) : object[x] = None
    BY DEF IInv, MissingUnderTheLock, c
  <2>2. CASE object[g] # None
    <3>1. /\ <<>> \in Seq(Getters)
          /\ \A k \in 1..Len(<<>>) : Rank(<<>>[k]) < Rank(c[n].get)
      OBVIOUS
    <3> DEFINE u == Change(c, "return", <<>>)
    <3>2. u \in Seq(Call) /\ Descending(u) /\ Holding(u) = Holding(c) \union {n}
          /\ Building(u) \subseteq Building(c)
      BY <1>1, <1>2, <1>3, <3>1, TopDescends
    <3>3. QED
      BY <2>1, <2>2, <3>2
  <2>3. CASE object[g] = None
    <3>1. /\ Inside(g) \in Seq(Getters)
          /\ \A k \in 1..Len(Inside(g)) : Rank(Inside(g)[k]) < Rank(g)
      BY <1>2, NeedsDescend
    <3> DEFINE u == Change(c, "inside", Inside(g))
    <3>2. u \in Seq(Call) /\ Descending(u) /\ Holding(u) = Holding(c) \union {n}
          /\ Building(u) \subseteq Building(c) \union {g}
      BY <1>1, <1>2, <1>3, <3>1, TopDescends
    <3>3. QED
      BY <2>1, <2>3, <3>2
  <2>4. QED
    BY <2>2, <2>3
<1> HIDE DEF s
<1>5. /\ calls' \in [Threads -> Seq(Call)] /\ CallsDescend' /\ calls'[t] = s
      /\ \A u \in Threads \ {t} : calls'[u] = calls[u]
  BY <1>1, <1>4, OneStackChanges
<1>6. TypeOK'
  BY <1>1, <1>5, SingletonsAssumption DEF IInv, TypeOK
<1>7. LockIsCounted'
  <2>1. Cardinality(Holding(c)) = depth /\ depth \in Nat
    BY <1>1, SingletonsAssumption DEF IInv, LockIsCounted, TypeOK
  <2>2. Cardinality(Holding(s)) = depth + 1
    BY <1>2, <1>4, <2>1, HoldingIsFinite, FS_AddElement
  <2>3. \A u \in Threads \ {t} : Cardinality(Holding(calls[u])) = 0
    BY <1>1, SingletonsAssumption DEF IInv, LockIsCounted
  <2>4. \A u \in Threads : Cardinality(Holding(calls'[u])) = IF owner' = u THEN depth' ELSE 0
    BY <1>1, <1>5, <2>2, <2>3
  <2>5. QED
    BY <2>4 DEF LockIsCounted, Holding
<1>8. MissingUnderTheLock'
  BY <1>1, <1>4, SameMissing
<1>9. AssignedOrReset'
  BY <1>1 DEF IInv, AssignedOrReset
<1>10. QED
  BY <1>5, <1>6, <1>7, <1>8, <1>9 DEF IInv

LEMMA ReturnKeeps ==
  ASSUME IInv, NEW t \in Threads, Return(t)
  PROVE  IInv'
<1> DEFINE c == calls[t]
           n == Len(c)
           s == SubSeq(c, 1, n - 1)
<1>1. /\ c # <<>> /\ Top(t).at = "return" /\ calls' = [calls EXCEPT ![t] = s]
      /\ UNCHANGED <<object, made, todo, resets>>
  BY DEF Return, Calling, Pop
<1>2. /\ c \in Seq(Call) /\ Descending(c) /\ Top(t).get \in Getters
      /\ n \in Holding(c) <=> Top(t).get \in Locked
  BY <1>1, TopIsCall
<1> HIDE DEF c
<1>3. /\ s \in Seq(Call) /\ Descending(s) /\ Holding(s) = Holding(c) \ {n}
      /\ Building(s) \subseteq Building(c)
  BY <1>1, <1>2, PopDescends
<1> HIDE DEF s
<1>4. CASE Top(t).get \notin Locked
  <2>1. UNCHANGED <<owner, depth>>
    BY <1>4 DEF Return
  <2>2. QED
    BY <1>1, <1>2, <1>3, <1>4, <2>1, CallOnlyKeeps DEF IInv, TypeOK, c
<1>5. CASE Top(t).get \in Locked
  <2>1. depth' = depth - 1 /\ owner' = IF depth = 1 THEN None ELSE owner
    BY <1>5 DEF Return
  <2>2. owner = t /\ depth \in Nat \ {0}
    BY <1>2, <1>5, HolderOwns DEF c
  <2>3. /\ calls' \in [Threads -> Seq(Call)] /\ CallsDescend' /\ calls'[t] = s
        /\ \A u \in Threads \ {t} : calls'[u] = calls[u]
    BY <1>1, <1>3, OneStackChanges
  <2>4. TypeOK'
    BY <1>1, <2>1, <2>2, <2>3, SingletonsAssumption DEF IInv, TypeOK
  <2>5. LockIsCounted'
    <3>1. Cardinality(Holding(c)) = depth
      BY <2>2 DEF IInv, LockIsCounted, c
    <3>2. Cardinality(Holding(s)) = depth - 1
      BY <1>2, <1>3, <1>5, <3>1, HoldingIsFinite, FS_RemoveElement
    <3>3. \A u \in Threads \ {t} : Cardinality(Holding(calls[u])) = 0
      BY <2>2 DEF IInv, LockIsCounted
    <3>4. \A u \in Threads : Cardinality(Holding(calls'[u])) = IF owner' = u THEN depth' ELSE 0
      BY <2>1, <2>2, <2>3, <3>2, <3>3, SingletonsAssumption
    <3>5. QED
      BY <3>4 DEF LockIsCounted, Holding
  <2>6. MissingUnderTheLock'
    BY <1>1, <1>3, SameMissing DEF IInv, MissingUnderTheLock, c
  <2>7. AssignedOrReset'
    BY <1>1 DEF IInv, AssignedOrReset
  <2>8. QED
    BY <2>3, <2>4, <2>5, <2>6, <2>7 DEF IInv
<1>6. QED
  BY <1>4, <1>5

\* A getter that holds the lock, or has none, makes its object.
LEMMA MakingKeeps ==
  ASSUME IInv, NEW t \in Threads, NEW v \in {"made", "ready"},
         NEW at \in {"initialize", "return"}, calls[t] # <<>>,
         Top(t).get \in Locked => Top(t).at \in {"inside", "initialize"},
         object' = [object EXCEPT ![Top(t).get] = v], Goto(t, at, <<>>),
         UNCHANGED <<todo, owner, depth, resets>>,
         made' \in [Getters -> Nat], AssignedOrReset'
  PROVE  IInv'
<1> DEFINE c == calls[t]
           n == Len(c)
           g == Top(t).get
           s == Change(c, at, <<>>)
<1>1. calls' = [calls EXCEPT ![t] = s]
  BY DEF Goto
<1>2. /\ c \in Seq(Call) /\ Descending(c) /\ g \in Getters
      /\ n \in Holding(c) <=> g \in Locked /\ Top(t).at \in {"inside", "initialize", "return"}
  BY TopIsCall
<1>3. g = c[n].get
  BY DEF Top
<1>4. /\ s \in Seq(Call) /\ Descending(s) /\ Holding(s) = Holding(c)
      /\ Building(s) \subseteq Building(c) \ {g}
  <2>1. /\ <<>> \in Seq(Getters)
        /\ \A k \in 1..Len(<<>>) : Rank(<<>>[k]) < Rank(c[n].get)
    OBVIOUS
  <2> HIDE DEF c, g
  <2>2. /\ s \in Seq(Call) /\ Descending(s)
        /\ Holding(s) = IF g \in Locked THEN Holding(c) \union {n} ELSE Holding(c) \ {n}
        /\ Building(s) \subseteq Building(c) \ {g}
    <3>1. c # <<>>
      BY DEF c
    <3>2. CASE at = "initialize"
      BY <1>2, <1>3, <2>1, <3>1, <3>2, TopDescends
    <3>3. CASE at = "return"
      BY <1>2, <1>3, <2>1, <3>1, <3>3, TopDescends
    <3>4. QED
      BY <3>2, <3>3
  <2>3. QED
    BY <1>2, <2>2 DEF c, g
<1> HIDE DEF s
<1>5. /\ calls' \in [Threads -> Seq(Call)] /\ CallsDescend' /\ calls'[t] = s
      /\ \A u \in Threads \ {t} : calls'[u] = calls[u]
  BY <1>1, <1>4, OneStackChanges
<1>6. TypeOK'
  BY <1>5 DEF IInv, TypeOK
<1>7. LockIsCounted'
  BY <1>1, <1>4, SameHolding
<1>8. MissingUnderTheLock'
  <2>1. \A u \in Threads \ {t} : g \notin Building(calls[u])
    <3>1. CASE g \in Locked
      BY <1>2, <3>1, HolderOwns
    <3>2. CASE g \notin Locked
      BY <3>2, BuildersHold DEF IInv, TypeOK, CallsDescend
    <3>3. QED
      BY <3>1, <3>2
  <2>2. \A u \in Threads : Building(calls'[u]) \subseteq Building(calls[u]) \ {g}
    BY <1>4, <1>5, <2>1
  <2>3. \A x \in Getters \ {g} : object'[x] = object[x]
    BY <1>2 DEF IInv, TypeOK
  <2>4. \A u \in Threads : Building(calls[u]) \subseteq Getters
    BY BuildersHold DEF IInv, TypeOK, CallsDescend, Getters
  <2>5. \A u \in Threads : \A x \in Building(calls'[u]) : object'[x] = None
    BY <2>2, <2>3, <2>4 DEF IInv, MissingUnderTheLock
  <2>6. QED
    BY <2>5 DEF MissingUnderTheLock, Building
<1>9. QED
  BY <1>5, <1>6, <1>7, <1>8 DEF IInv

LEMMA AssignKeeps ==
  ASSUME IInv, NEW t \in Threads, Assign(t)
  PROVE  IInv'
<1> DEFINE g == Top(t).get
           at == IF g \in {"store", "registry"} THEN "initialize" ELSE "return"
<1>1. /\ calls[t] # <<>>
      /\ Top(t).at = "inside" \/ (Top(t).at = "build" /\ g \notin Locked)
      /\ object' = [object EXCEPT ![g] = "made"] /\ made' = [made EXCEPT ![g] = @ + 1]
      /\ Goto(t, at, <<>>) /\ UNCHANGED <<todo, owner, depth, resets>>
  BY DEF Assign, Calling
<1>2. g \in Getters /\ calls[t] \in Seq(Call) /\ Len(calls[t]) \in 1..Len(calls[t])
  BY <1>1, TopIsCall
<1>3. made' \in [Getters -> Nat]
  BY <1>1, <1>2 DEF IInv, TypeOK
<1>4. AssignedOrReset'
  <2>1. g \in Locked => object[g] = None
    <3>1. Top(t).at = "inside" => g \in Building(calls[t])
      BY <1>2 DEF Building, Top
    <3>2. QED
      BY <1>1, <3>1 DEF IInv, MissingUnderTheLock
  <2> HIDE DEF g
  <2>2. object'[g] = "made" /\ made'[g] = made[g] + 1
    BY <1>1, <1>2 DEF IInv, TypeOK
  <2>3. \A x \in Getters \ {g} : object'[x] = object[x] /\ made'[x] = made[x]
    BY <1>1, <1>2 DEF IInv, TypeOK
  <2>4. made \in [Getters -> Nat] /\ resets \in Nat /\ resets' = resets
    BY <1>1 DEF IInv, TypeOK
  <2>5. Locked \subseteq Getters
    BY DEF Getters
  <2>6. QED
    BY <2>1, <2>2, <2>3, <2>4, <2>5, SingletonsAssumption DEF IInv, AssignedOrReset
<1>5. QED
  BY <1>1, <1>3, <1>4, MakingKeeps

LEMMA InitializeKeeps ==
  ASSUME IInv, NEW t \in Threads, Initialize(t)
  PROVE  IInv'
<1>1. /\ calls[t] # <<>> /\ Top(t).at = "initialize" /\ Goto(t, "return", <<>>)
      /\ object' = [object EXCEPT ![Top(t).get] = "ready"]
      /\ UNCHANGED <<made, todo, owner, depth, resets>>
  BY DEF Initialize, Calling
<1>2. AssignedOrReset'
  BY <1>1, SingletonsAssumption DEF IInv, TypeOK, AssignedOrReset, Getters
<1>3. made' \in [Getters -> Nat]
  BY <1>1 DEF IInv, TypeOK
<1>4. QED
  BY <1>1, <1>2, <1>3, MakingKeeps

LEMMA StepInv == IInv /\ [Next]_vars => IInv'
<1> SUFFICES ASSUME IInv, [Next]_vars PROVE IInv'
  OBVIOUS
<1>1. ASSUME NEW t \in Threads, Step(t) PROVE IInv'
  BY <1>1, BeginKeeps, ResetKeeps, LookKeeps, CallNextKeeps, EnterKeeps, AssignKeeps,
     InitializeKeeps, ReturnKeeps DEF Step
<1>2. ASSUME UNCHANGED vars PROVE IInv'
  BY <1>2 DEF vars, IInv, TypeOK, CallsDescend, LockIsCounted, MissingUnderTheLock,
              AssignedOrReset
<1>3. QED
  BY <1>1, <1>2 DEF Next

----------------------------------------------------------------------------
\* What the proof is by: the getters' calls descend, the lock counts the frames
\* that hold it, and what its owner found missing nobody else makes.
THEOREM Invariance == Spec => []IInv
BY InitInv, StepInv, PTL DEF Spec

\* The objects, the call stacks and the lock of create_app() (http.py) have the
\* types they were given, however many threads call the getters.
THEOREM TypeCorrect == Spec => []TypeOK
<1>1. IInv => TypeOK
  BY DEF IInv
<1>2. QED
  BY <1>1, Invariance, PTL

\* For any number of threads and requests, and however often the model is
\* changed: each singleton is built once, and once more after each reset.
THEOREM BuiltOnce == Spec => []OneOfEach
<1>1. IInv => OneOfEach
  BY DEF IInv, TypeOK, AssignedOrReset, OneOfEach, Getters
<1>2. QED
  BY <1>1, Invariance, PTL

----------------------------------------------------------------------------
(***************************************************************************)
(* Getters end: the part of EveryGetterReturns that is left when threads   *)
(* are only trusted to go on.                                              *)
(***************************************************************************)
\* How much of its own call a frame has before it, and how much one step of a getter
\* is worth: more than a whole call of any getter below.
StepsLeft(f) == CASE f.at = "first" -> 8
                  [] f.at = "build" -> 6 + Len(f.needs)
                  [] f.at = "inside" -> 3 + Len(f.needs)
                  [] f.at = "initialize" -> 2
                  [] OTHER -> 1
Price(g) == IF Rank(g) = 3 THEN 729 ELSE IF Rank(g) = 2 THEN 81 ELSE 9
Load(f) == StepsLeft(f) * Price(f.get)

LoadAt(s, i) == IF i \in 1..Len(s) THEN Load(s[i]) ELSE 0
LoadOf(s) == LoadAt(s, 1) + LoadAt(s, 2) + LoadAt(s, 3)

\* What is before a thread: its calls in progress, and the calls it has not begun.
Work(t) == 5833 * Len(todo[t]) + LoadOf(calls[t])

\* The only step of a thread that another one can delay: "with _singleton_lock".
Blocked(t) ==
  /\ Calling(t, "build") /\ Top(t).needs = <<>> /\ Top(t).get \in Locked
  /\ owner \notin {None, t}

\* Every step takes work from one thread and gives none to another.
WorkShrinks ==
  \E t \in Threads : Work(t)' < Work(t) /\ \A u \in Threads \ {t} : Work(u)' = Work(u)

\* Whoever waits for the lock waits for a thread that has work and does not wait.
OwnerIsAtWork ==
  \A t \in Threads :
    /\ Work(t) \in Nat /\ (Work(t) = 0 <=> calls[t] = <<>> /\ todo[t] = <<>>)
    /\ Blocked(t) => owner \in Threads /\ calls[owner] # <<>> /\ ~ Blocked(owner)

LEMMA Prices ==
  ASSUME NEW g \in Getters
  PROVE  /\ Price(g) \in {9, 81, 729}
         /\ \A h \in Getters : Rank(h) < Rank(g) => 8 * Price(h) < Price(g)
BY DEF Price, Rank

LEMMA Fewer ==
  ASSUME NEW a \in Nat, NEW b \in Nat, NEW p \in {9, 81, 729}
  PROVE  /\ a * p \in Nat /\ (a < b => a * p < b * p)
         /\ b # 0 => b * p - (b - 1) * p = p /\ b * p # 0
<1>1. CASE p = 9
  BY <1>1
<1>2. CASE p = 81
  BY <1>2
<1>3. CASE p = 729
  BY <1>3
<1>4. QED
  BY <1>1, <1>2, <1>3

LEMMA FrameLoad ==
  ASSUME NEW f \in Call
  PROVE  StepsLeft(f) \in Nat \ {0} /\ Load(f) \in Nat \ {0}
<1>1. StepsLeft(f) \in Nat \ {0}
  BY DEF StepsLeft, Call
<1>2. f.get \in Getters
  BY DEF Call
<1>3. QED
  BY <1>1, <1>2, Prices, Fewer DEF Load

\* Ranks descend from 3 to 1: a getter within a getter within a getter at most.
LEMMA StackIsShort ==
  ASSUME NEW s \in Seq(Call), Descending(s)
  PROVE  Len(s) \in 0..3 /\ \A i \in 1..Len(s) : s[i] \in Call
<1>1. \A i \in 1..Len(s) : s[i] \in Call /\ Rank(s[i].get) \in 1..3
  <2> SUFFICES ASSUME NEW i \in 1..Len(s) PROVE s[i] \in Call /\ Rank(s[i].get) \in 1..3
    OBVIOUS
  <2>1. s[i] \in Call
    OBVIOUS
  <2>2. QED
    BY <2>1 DEF Rank
<1>2. ASSUME Len(s) > 3 PROVE FALSE
  <2>1. {1, 2, 3, 4} \subseteq 1..Len(s)
    BY <1>2
  <2>2. /\ Rank(s[2].get) < Rank(s[1].get) /\ Rank(s[3].get) < Rank(s[2].get)
        /\ Rank(s[4].get) < Rank(s[3].get)
    BY <2>1 DEF Descending
  <2>3. QED
    BY <1>1, <2>1, <2>2
<1>3. Len(s) \in 0..3
  <2>1. \A k \in Nat : ~ (k > 3) => k \in 0..3
    OBVIOUS
  <2>2. Len(s) \in Nat
    OBVIOUS
  <2>3. QED
    BY <1>2, <2>1, <2>2
<1>4. QED
  BY <1>1, <1>3

LEMMA LoadIsSum ==
  ASSUME NEW s \in Seq(Call), Descending(s)
  PROVE  LoadOf(s) \in Nat /\ (LoadOf(s) = 0 <=> s = <<>>)
<1>1. \A i \in 1..3 : LoadAt(s, i) \in Nat /\ (i \in 1..Len(s) => LoadAt(s, i) # 0)
  BY StackIsShort, FrameLoad DEF LoadAt
<1>2. s = <<>> <=> 1 \notin 1..Len(s)
  OBVIOUS
<1>3. s = <<>> => \A i \in 1..3 : LoadAt(s, i) = 0
  BY DEF LoadAt
<1>4. QED
  BY <1>1, <1>2, <1>3 DEF LoadOf

\* Only the innermost frame changes.
LEMMA TopLoad ==
  ASSUME NEW s \in Seq(Call), Descending(s), NEW u \in Seq(Call), Descending(u),
         Len(u) = Len(s), s # <<>>, \A i \in 1..(Len(s) - 1) : u[i] = s[i]
  PROVE  LoadOf(u) = LoadOf(s) - Load(s[Len(s)]) + Load(u[Len(s)])
<1> DEFINE n == Len(s)
<1>1. n \in 1..3 /\ Load(s[n]) \in Nat /\ Load(u[n]) \in Nat
  <2>1. n \in 1..3
    BY StackIsShort
  <2>2. s[n] \in Call /\ u[n] \in Call
    BY <2>1, StackIsShort
  <2>3. QED
    BY <2>1, <2>2, FrameLoad
<1>2. \A i \in 1..3 : LoadAt(s, i) \in Nat
  BY StackIsShort, FrameLoad DEF LoadAt
<1>3. LoadAt(s, n) = Load(s[n]) /\ LoadAt(u, n) = Load(u[n])
  BY <1>1 DEF LoadAt
<1>4. \A i \in (1..3) \ {n} : LoadAt(u, i) = LoadAt(s, i)
  BY <1>1 DEF LoadAt
<1> HIDE DEF n
<1>5. CASE n = 1
  BY <1>1, <1>2, <1>3, <1>4, <1>5 DEF LoadOf, n
<1>6. CASE n = 2
  BY <1>1, <1>2, <1>3, <1>4, <1>6 DEF LoadOf, n
<1>7. CASE n = 3
  BY <1>1, <1>2, <1>3, <1>4, <1>7 DEF LoadOf, n
<1>8. QED
  BY <1>1, <1>5, <1>6, <1>7

\* A frame more.
LEMMA MoreLoad ==
  ASSUME NEW s \in Seq(Call), Descending(s), NEW u \in Seq(Call), Descending(u),
         Len(u) = Len(s) + 1, \A i \in 1..Len(s) : u[i] = s[i]
  PROVE  LoadOf(u) = LoadOf(s) + Load(u[Len(u)])
<1> DEFINE n == Len(u)
<1>1. n \in 1..3 /\ Load(u[n]) \in Nat
  <2>1. n \in 1..3
    BY StackIsShort
  <2>2. u[n] \in Call
    BY <2>1, StackIsShort
  <2>3. QED
    BY <2>1, <2>2, FrameLoad
<1>2. \A i \in 1..3 : LoadAt(s, i) \in Nat
  BY StackIsShort, FrameLoad DEF LoadAt
<1>3. LoadAt(s, n) = 0 /\ LoadAt(u, n) = Load(u[n])
  BY <1>1 DEF LoadAt
<1>4. \A i \in (1..3) \ {n} : LoadAt(u, i) = LoadAt(s, i)
  BY <1>1 DEF LoadAt
<1> HIDE DEF n
<1>5. CASE n = 1
  BY <1>1, <1>2, <1>3, <1>4, <1>5 DEF LoadOf, n
<1>6. CASE n = 2
  BY <1>1, <1>2, <1>3, <1>4, <1>6 DEF LoadOf, n
<1>7. CASE n = 3
  BY <1>1, <1>2, <1>3, <1>4, <1>7 DEF LoadOf, n
<1>8. QED
  BY <1>1, <1>5, <1>6, <1>7

\* A thread that takes a step has calls before and after it.
LEMMA Stacks ==
  ASSUME IInv, IInv', NEW t \in Threads
  PROVE  /\ calls[t] \in Seq(Call) /\ Descending(calls[t])
         /\ calls'[t] \in Seq(Call) /\ Descending(calls'[t])
         /\ Len(todo[t]) \in Nat /\ Len(todo'[t]) \in Nat
         /\ LoadOf(calls[t]) \in Nat /\ LoadOf(calls'[t]) \in Nat
<1>1. /\ calls[t] \in Seq(Call) /\ Descending(calls[t])
      /\ calls'[t] \in Seq(Call) /\ Descending(calls'[t])
      /\ todo[t] \in Wishes /\ todo'[t] \in Wishes
  BY DEF IInv, TypeOK, CallsDescend, Descending
<1>2. QED
  BY <1>1, LoadIsSum DEF Wishes

\* The innermost call ends.
LEMMA PopShrinks ==
  ASSUME IInv, IInv', NEW t \in Threads, calls[t] # <<>>, Pop(t)
  PROVE  LoadOf(calls'[t]) < LoadOf(calls[t])
<1> DEFINE c == calls[t]
           p == SubSeq(c, 1, Len(c) - 1)
<1>1. calls'[t] = p
  BY DEF Pop, IInv, TypeOK
<1>2. c \in Seq(Call) /\ Descending(c) /\ p \in Seq(Call) /\ Descending(p)
  BY <1>1, Stacks
<1>3. /\ Len(c) \in Nat \ {0} /\ Len(p) = Len(c) - 1
      /\ \A i \in 1..Len(p) : p[i] = c[i]
  BY <1>2, Popped
<1>4. LoadOf(p) \in Nat /\ LoadOf(c) \in Nat
  BY <1>2, LoadIsSum
<1>5. Load(c[Len(c)]) \in Nat \ {0}
  BY <1>2, <1>3, FrameLoad
<1> HIDE DEF p, c
<1>6. LoadOf(c) = LoadOf(p) + Load(c[Len(c)])
  BY <1>2, <1>3, MoreLoad
<1>7. QED
  BY <1>1, <1>4, <1>5, <1>6 DEF c

\* The innermost call goes on, with fewer steps left: Change() of a stack.
LEMMA ChangedLoad ==
  ASSUME NEW s \in Seq(Call), Descending(s), s # <<>>, NEW at, NEW needs,
         Frame(s[Len(s)].get, at, needs) \in Call, Descending(Change(s, at, needs))
  PROVE  LET u == Change(s, at, needs)
             f == Frame(s[Len(s)].get, at, needs)
         IN /\ u \in Seq(Call) /\ Len(u) = Len(s) /\ u[Len(s)] = f
            /\ LoadOf(u) = LoadOf(s) - Load(s[Len(s)]) + Load(f)
<1> DEFINE n == Len(s)
           f == Frame(s[n].get, at, needs)
           u == [s EXCEPT ![n] = f]
<1>1. n \in 1..Len(s) /\ \A i \in 1..(n - 1) : i \in 1..n /\ i # n
  OBVIOUS
<1>2. u = Change(s, at, needs)
  BY DEF Change
<1>3. /\ u \in Seq(Call) /\ Len(u) = Len(s)
      /\ \A i \in 1..Len(s) : u[i] = IF i = n THEN f ELSE s[i]
  BY <1>1, ExceptSeq
<1>4. u[n] = f /\ \A i \in 1..(Len(s) - 1) : u[i] = s[i]
  BY <1>1, <1>3
<1>5. Descending(u)
  BY <1>2
<1> HIDE DEF u
<1>6. LoadOf(u) = LoadOf(s) - Load(s[n]) + Load(u[n])
  BY <1>3, <1>4, <1>5, TopLoad
<1>7. QED
  BY <1>2, <1>3, <1>4, <1>6

LEMMA GoingOnShrinks ==
  ASSUME IInv, IInv', NEW t \in Threads, calls[t] # <<>>,
         NEW at \in {"build", "inside", "initialize", "return"}, NEW needs \in Seq(Getters),
         Goto(t, at, needs),
         StepsLeft(Frame(Top(t).get, at, needs)) < StepsLeft(Top(t))
  PROVE  LoadOf(calls'[t]) < LoadOf(calls[t])
<1> DEFINE c == calls[t]
           f == Frame(Top(t).get, at, needs)
<1>1. calls'[t] = Change(c, at, needs)
  BY DEF Goto, IInv, TypeOK
<1>2. /\ c \in Seq(Call) /\ Descending(c) /\ Descending(Change(c, at, needs))
      /\ LoadOf(c) \in Nat
  BY <1>1, Stacks
<1>3. Top(t) \in Call /\ f \in Call /\ f.get = Top(t).get /\ Top(t).get \in Getters
  BY TopIsCall DEF Frame, Call
<1>4. Top(t) = c[Len(c)]
  BY DEF Top
<1>5. Load(f) < Load(Top(t)) /\ Load(f) \in Nat /\ Load(Top(t)) \in Nat
  BY <1>3, FrameLoad, Prices, Fewer DEF Load
<1> HIDE DEF c
<1>6. LoadOf(calls'[t]) = LoadOf(c) - Load(Top(t)) + Load(f)
  BY <1>1, <1>2, <1>3, <1>4, ChangedLoad DEF c
<1>7. QED
  BY <1>2, <1>5, <1>6 DEF c

\* A whole call of a getter below is worth less than the step that calls it.
LEMMA CallingShrinks ==
  ASSUME IInv, IInv', NEW t \in Threads, CallNext(t)
  PROVE  LoadOf(calls'[t]) < LoadOf(calls[t])
<1> DEFINE c == calls[t]
           at == Top(t).at
           g == Top(t).get
           needs == Top(t).needs
           h == Head(needs)
           f == Frame(g, at, Tail(needs))
           u == Change(c, at, Tail(needs))
           new == Frame(h, "first", <<>>)
<1>1. /\ c # <<>> /\ at \in {"build", "inside"} /\ needs # <<>>
      /\ calls'[t] = Push(u, h)
  BY DEF CallNext, Calling, IInv, TypeOK
<1>2. /\ c \in Seq(Call) /\ Descending(c) /\ Top(t) \in Call /\ g \in Getters
      /\ needs \in Seq(Getters) /\ \A k \in 1..Len(needs) : Rank(needs[k]) < Rank(g)
      /\ at = "inside" => g \in Locked
  BY <1>1, TopIsCall
<1>3. Top(t) = c[Len(c)]
  BY DEF Top
<1> HIDE DEF needs
<1>4. /\ h \in Getters /\ Tail(needs) \in Seq(Getters) /\ Rank(h) < Rank(g)
      /\ Len(Tail(needs)) = Len(needs) - 1 /\ Len(needs) \in Nat \ {0}
      /\ \A k \in 1..Len(Tail(needs)) : Rank(Tail(needs)[k]) < Rank(g)
  BY <1>1, <1>2
<1> HIDE DEF h
<1>5. f \in Call /\ f.get = g /\ f.at = at /\ f.needs = Tail(needs)
  BY <1>2, <1>4 DEF Frame, Call
<1>6. new \in Call /\ new.get = h /\ StepsLeft(new) = 8
  BY <1>4 DEF Frame, Call, StepsLeft
<1>7. Load(Top(t)) - Load(f) = Price(g) /\ Load(f) \in Nat /\ Load(Top(t)) \in Nat
  <2> HIDE DEF f
  <2>1. StepsLeft(f) = StepsLeft(Top(t)) - 1
    <3>1. CASE at = "build"
      BY <1>4, <1>5, <3>1 DEF StepsLeft, needs
    <3>2. CASE at = "inside"
      BY <1>4, <1>5, <3>2 DEF StepsLeft, needs
    <3>3. QED
      BY <1>1, <3>1, <3>2
  <2>2. StepsLeft(Top(t)) \in Nat \ {0} /\ StepsLeft(f) \in Nat
    BY <1>2, <1>5, FrameLoad
  <2>3. Price(g) \in {9, 81, 729}
    BY <1>2, Prices
  <2>4. \A b \in Nat \ {0} : \A p \in {9, 81, 729} : b * p - (b - 1) * p = p
    BY Fewer
  <2>5. StepsLeft(Top(t)) * Price(g) - StepsLeft(f) * Price(g) = Price(g)
    BY <2>1, <2>2, <2>3, <2>4
  <2>6. Load(f) \in Nat /\ Load(Top(t)) \in Nat
    BY <1>2, <1>5, FrameLoad
  <2>7. QED
    BY <1>5, <2>5, <2>6 DEF Load
<1>8. Load(new) < Price(g) /\ Load(new) \in Nat
  BY <1>2, <1>4, <1>6, Prices DEF Load
<1> HIDE DEF f, new
<1>9. /\ u \in Seq(Call) /\ Descending(u) /\ u # <<>> /\ u[Len(u)].get = g
  <2>1. /\ at \in {"build", "inside", "initialize", "return"}
        /\ \A k \in 1..Len(Tail(needs)) : Rank(Tail(needs)[k]) < Rank(c[Len(c)].get)
        /\ at = "inside" => c[Len(c)].get \in Locked
    BY <1>1, <1>2, <1>3, <1>4
  <2> HIDE DEF c, at
  <2>2. /\ u \in Seq(Call) /\ Descending(u) /\ u # <<>>
        /\ u[Len(u)] = Frame(c[Len(c)].get, at, Tail(needs))
    BY <1>1, <1>2, <1>4, <2>1, TopDescends
  <2>3. QED
    BY <1>3, <2>2 DEF Frame
<1>10. LoadOf(u) = LoadOf(c) - Load(Top(t)) + Load(f)
  <2> HIDE DEF c, at
  <2>1. f = Frame(c[Len(c)].get, at, Tail(needs))
    BY <1>3 DEF f
  <2>2. QED
    BY <1>1, <1>2, <1>3, <1>5, <1>9, <2>1, ChangedLoad
<1> HIDE DEF u
<1>11. /\ Push(u, h) \in Seq(Call) /\ Descending(Push(u, h))
  BY <1>4, <1>9, PushDescends
<1>12. /\ Len(Push(u, h)) = Len(u) + 1 /\ Push(u, h)[Len(u) + 1] = new
       /\ \A i \in 1..Len(u) : Push(u, h)[i] = u[i]
  BY <1>6, <1>9 DEF Push, new
<1>13. LoadOf(Push(u, h)) = LoadOf(u) + Load(new)
  BY <1>9, <1>11, <1>12, MoreLoad
<1>14. LoadOf(c) \in Nat /\ LoadOf(u) \in Nat
  BY <1>2, <1>9, LoadIsSum
<1>15. Price(g) \in Nat
  BY <1>2, Prices
<1>16. QED
  BY <1>1, <1>7, <1>8, <1>10, <1>13, <1>14, <1>15

LEMMA NeedsAreFew ==
  ASSUME NEW g \in Getters
  PROVE  Len(Before(g)) \in 0..1 /\ Len(Inside(g)) \in 0..2
BY DEF Before, Inside

LEMMA StepShrinks ==
  ASSUME IInv, IInv', NEW t \in Threads,
         \/ Look(t) \/ CallNext(t) \/ Enter(t) \/ Assign(t) \/ Initialize(t) \/ Return(t)
  PROVE  LoadOf(calls'[t]) < LoadOf(calls[t]) /\ todo' = todo
<1> DEFINE g == Top(t).get
<1>1. calls[t] # <<>> /\ todo' = todo
  BY DEF Look, CallNext, Enter, Assign, Initialize, Return, Calling
<1>2. g \in Getters /\ Top(t) \in Call /\ <<>> \in Seq(Getters)
  BY <1>1, TopIsCall
<1>3. /\ Before(g) \in Seq(Getters) /\ Inside(g) \in Seq(Getters)
      /\ Len(Before(g)) \in 0..1 /\ Len(Inside(g)) \in 0..2
  BY <1>2, NeedsDescend, NeedsAreFew
<1> HIDE DEF g
<1>4. CASE Look(t)
  <2>1. CASE Pop(t)
    BY <1>1, <2>1, PopShrinks
  <2>2. CASE Goto(t, "build", Before(g))
    <3>1. StepsLeft(Top(t)) = 8
      BY <1>4 DEF Look, Calling, StepsLeft
    <3>2. StepsLeft(Frame(g, "build", Before(g))) = 6 + Len(Before(g))
      BY DEF StepsLeft, Frame
    <3>3. StepsLeft(Frame(g, "build", Before(g))) < StepsLeft(Top(t))
      <4>1. \A k \in 0..1 : 6 + k < 8
        OBVIOUS
      <4>2. QED
        BY <1>3, <3>1, <3>2, <4>1, Zenon
    <3>4. QED
      BY <1>1, <1>3, <2>2, <3>3, GoingOnShrinks DEF g
  <2>3. QED
    BY <1>4, <2>1, <2>2 DEF Look, g
<1>5. CASE CallNext(t)
  BY <1>1, <1>5, CallingShrinks
<1>6. CASE Enter(t)
  <2>1. StepsLeft(Top(t)) = 6
    BY <1>6 DEF Enter, Calling, StepsLeft
  <2>2. CASE Goto(t, "return", <<>>)
    <3>1. StepsLeft(Frame(g, "return", <<>>)) = 1
      BY DEF StepsLeft, Frame
    <3>2. StepsLeft(Frame(g, "return", <<>>)) < StepsLeft(Top(t))
      BY <2>1, <3>1
    <3>3. QED
      BY <1>1, <1>2, <2>2, <3>2, GoingOnShrinks DEF g
  <2>3. CASE Goto(t, "inside", Inside(g))
    <3>1. StepsLeft(Frame(g, "inside", Inside(g))) = 3 + Len(Inside(g))
      BY DEF StepsLeft, Frame
    <3>2. StepsLeft(Frame(g, "inside", Inside(g))) < StepsLeft(Top(t))
      <4>1. \A k \in 0..2 : 3 + k < 6
        OBVIOUS
      <4>2. QED
        BY <1>3, <2>1, <3>1, <4>1, Zenon
    <3>3. QED
      BY <1>1, <1>3, <2>3, <3>2, GoingOnShrinks DEF g
  <2>4. QED
    BY <1>6, <2>2, <2>3 DEF Enter, g
<1>7. CASE Assign(t)
  <2>1. StepsLeft(Top(t)) \in {3, 6}
    BY <1>7 DEF Assign, Calling, StepsLeft
  <2>2. PICK at \in {"initialize", "return"} : Goto(t, at, <<>>)
    BY <1>7 DEF Assign
  <2>3. StepsLeft(Frame(g, at, <<>>)) \in {1, 2}
    BY <2>2 DEF StepsLeft, Frame
  <2>4. StepsLeft(Frame(g, at, <<>>)) < StepsLeft(Top(t))
    BY <2>1, <2>3
  <2>5. QED
    BY <1>1, <1>2, <2>2, <2>4, GoingOnShrinks DEF g
<1>8. CASE Initialize(t)
  <2>1. StepsLeft(Top(t)) = 2 /\ Goto(t, "return", <<>>)
    BY <1>8 DEF Initialize, Calling, StepsLeft
  <2>2. StepsLeft(Frame(g, "return", <<>>)) = 1
    BY DEF StepsLeft, Frame
  <2>3. StepsLeft(Frame(g, "return", <<>>)) < StepsLeft(Top(t))
    BY <2>1, <2>2
  <2>4. QED
    BY <1>1, <1>2, <2>1, <2>3, GoingOnShrinks DEF g
<1>9. CASE Return(t)
  BY <1>1, <1>9, PopShrinks DEF Return
<1>10. QED
  BY <1>1, <1>4, <1>5, <1>6, <1>7, <1>8, <1>9

\* A call that is begun is worth less than the wish for it.
LEMMA WishShrinks ==
  ASSUME IInv, IInv', NEW t \in Threads, Begin(t) \/ Reset(t)
  PROVE  /\ Len(todo'[t]) = Len(todo[t]) - 1 /\ Len(todo[t]) \in Nat \ {0}
         /\ LoadOf(calls'[t]) <= 5832 /\ LoadOf(calls[t]) = 0
         /\ LoadOf(calls'[t]) \in Nat
<1>1. calls[t] = <<>> /\ todo[t] # <<>> /\ todo'[t] = Tail(todo[t]) /\ todo[t] \in Wishes
  BY DEF Begin, Reset, IInv, TypeOK
<1>2. Len(todo'[t]) = Len(todo[t]) - 1 /\ Len(todo[t]) \in Nat \ {0}
  BY <1>1 DEF Wishes
<1>3. LoadOf(calls[t]) = 0 /\ LoadOf(calls'[t]) \in Nat
  BY <1>1, Stacks, LoadIsSum
<1>4. LoadOf(calls'[t]) <= 5832
  <2>1. CASE Reset(t)
    BY <1>3, <2>1 DEF Reset
  <2>2. CASE Begin(t)
    <3> DEFINE g == Head(todo[t])
               f == Frame(g, "first", <<>>)
    <3>1. g \in Getters /\ calls'[t] = Push(calls[t], g)
      BY <1>1, <2>2 DEF Begin, Wishes, IInv, TypeOK
    <3> HIDE DEF g
    <3>2. f \in Call /\ f.get = g /\ StepsLeft(f) = 8
      BY <3>1 DEF Frame, Call, StepsLeft
    <3> HIDE DEF f
    <3>3. Len(calls'[t]) = 1 /\ calls'[t][1] = f
      BY <1>1, <3>1 DEF Push, f
    <3>4. LoadOf(calls'[t]) = Load(f)
      <4>1. LoadAt(calls'[t], 1) = Load(f) /\ LoadAt(calls'[t], 2) = 0 /\ LoadAt(calls'[t], 3) = 0
        BY <3>3 DEF LoadAt
      <4>2. Load(f) \in Nat
        BY <3>2, FrameLoad
      <4>3. QED
        BY <4>1, <4>2 DEF LoadOf
    <3>5. QED
      BY <3>1, <3>2, <3>4, Prices DEF Load
  <2>3. QED
    BY <2>1, <2>2
<1>5. QED
  BY <1>2, <1>3, <1>4

LEMMA NextShrinks == IInv /\ IInv' /\ Next => WorkShrinks
<1> SUFFICES ASSUME IInv, IInv', NEW t \in Threads, Step(t)
             PROVE  Work(t)' < Work(t) /\ \A u \in Threads \ {t} : Work(u)' = Work(u)
  BY DEF Next, WorkShrinks
<1>1. ASSUME NEW u \in Threads \ {t} PROVE Work(u)' = Work(u)
  <2>1. calls'[u] = calls[u] /\ todo'[u] = todo[u]
    BY <1>1 DEF Step, Begin, Reset, Look, CallNext, Enter, Assign, Initialize, Return, Goto, Pop,
       IInv, TypeOK
  <2>2. QED
    BY <2>1 DEF Work, LoadOf, LoadAt
<1>2. Work(t)' < Work(t)
  <2>1. /\ Len(todo[t]) \in Nat /\ Len(todo'[t]) \in Nat
        /\ LoadOf(calls[t]) \in Nat /\ LoadOf(calls'[t]) \in Nat
    BY Stacks
  <2>2. \/ Len(todo'[t]) = Len(todo[t]) /\ LoadOf(calls'[t]) < LoadOf(calls[t])
        \/ /\ Len(todo'[t]) = Len(todo[t]) - 1 /\ LoadOf(calls'[t]) <= 5832
           /\ LoadOf(calls[t]) = 0
    BY WishShrinks, StepShrinks DEF Step
  <2>3. Work(t)' = 5833 * Len(todo'[t]) + LoadOf(calls'[t])
    BY DEF Work, LoadOf, LoadAt
  <2>4. QED
    BY <2>1, <2>2, <2>3 DEF Work
<1>3. QED
  BY <1>1, <1>2

\* Only its owner's calls hold the lock.
LEMMA OwnerWorks == IInv => OwnerIsAtWork
<1> SUFFICES ASSUME IInv, NEW t \in Threads
             PROVE  /\ Work(t) \in Nat
                    /\ Work(t) = 0 <=> calls[t] = <<>> /\ todo[t] = <<>>
                    /\ Blocked(t) => owner \in Threads /\ calls[owner] # <<>> /\ ~ Blocked(owner)
  BY DEF OwnerIsAtWork
<1>1. /\ calls[t] \in Seq(Call) /\ Descending(calls[t]) /\ todo[t] \in Wishes
  BY DEF IInv, TypeOK, CallsDescend
<1>2. /\ Len(todo[t]) \in Nat /\ (Len(todo[t]) = 0 <=> todo[t] = <<>>)
      /\ LoadOf(calls[t]) \in Nat /\ (LoadOf(calls[t]) = 0 <=> calls[t] = <<>>)
  BY <1>1, LoadIsSum DEF Wishes
<1>3. Work(t) \in Nat /\ (Work(t) = 0 <=> calls[t] = <<>> /\ todo[t] = <<>>)
  BY <1>2 DEF Work
<1>4. ASSUME Blocked(t)
      PROVE  owner \in Threads /\ calls[owner] # <<>> /\ ~ Blocked(owner)
  <2>1. owner \in Threads /\ depth # 0
    BY <1>4 DEF Blocked, IInv, TypeOK
  <2>2. Cardinality(Holding(calls[owner])) # 0
    BY <2>1 DEF IInv, LockIsCounted
  <2>3. calls[owner] = <<>> => Holding(calls[owner]) = {}
    BY DEF Holding
  <2>4. QED
    BY <2>1, <2>2, <2>3, FS_EmptySet DEF Blocked
<1>5. QED
  BY <1>3, <1>4

\* Whichever getters are wanted, in whatever order and by however many threads, every
\* step takes away work that is a natural number, for getters call only getters of a
\* lower rank (http.py:283-424, 512-560): no call goes on for ever.
THEOREM CallsRunOut == Spec => [][WorkShrinks]_vars
<1>1. IInv /\ IInv' /\ [Next]_vars => [WorkShrinks]_vars
  BY NextShrinks
<1>2. QED
  BY Invariance, <1>1, PTL DEF Spec

\* A thread waits only for one that has a call to end and does not wait itself, so the
\* getters' nested uses of one lock never lock each other out; and work is left as long
\* as calls are.
THEOREM NobodyLockedOut == Spec => []OwnerIsAtWork
BY Invariance, OwnerWorks, PTL

=============================================================================
