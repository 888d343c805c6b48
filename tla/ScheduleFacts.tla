---------------------------- MODULE ScheduleFacts ----------------------------
(***************************************************************************)
(* What the proofs about the executors share: the facts validate()         *)
(* establishes about a program, turned into statements about the set D of  *)
(* tasks that have announced their completion.                             *)
(***************************************************************************)
EXTENDS Schedule, FiniteSetTheorems, TLAPS

LEMMA TaskIdsFinite ==
  ASSUME NEW p, IsProgram(p), NEW S \in SUBSET TaskIds(p)
  PROVE  IsFiniteSet(S) /\ Cardinality(S) \in Nat
<1>1. Len(p.tasks) \in Nat
  BY DEF IsProgram
<1>2. IsFiniteSet(TaskIds(p))
  BY <1>1, FS_Interval DEF TaskIds
<1> QED
  BY <1>2, FS_Subset, FS_CardinalityType

LEMMA WaitTypes ==
  ASSUME NEW p, IsProgram(p), NEW t \in TaskIds(p), NEW w \in Waits(p, t)
  PROVE  w.threshold \in Int
<1>1. p.tasks[t] \in TaskType
  BY DEF IsProgram, TaskIds
<1>2. PICK i \in DOMAIN p.tasks[t].waits : w = p.tasks[t].waits[i]
  BY DEF Waits
<1>3. p.tasks[t].waits \in Seq(WaitType)
  BY <1>1 DEF TaskType
<1>4. p.tasks[t].waits[i] \in WaitType
  BY <1>2, <1>3
<1> QED
  BY <1>2, <1>4 DEF WaitType

(* validate() lets a wait pass only if it is a join: its threshold is the  *)
(* number of producers of its counter, and there is one.                   *)
LEMMA WaitIsJoin ==
  ASSUME NEW p, IsProgram(p), Accepted(p), NEW t \in TaskIds(p), NEW w \in Waits(p, t)
  PROVE  /\ w.threshold = Cardinality(Producers(p, w.counter))
         /\ w.counter \in DOMAIN p.counters
<1>1. Producers(p, w.counter) \in SUBSET TaskIds(p)
  BY DEF Producers
<1>2. Cardinality(Producers(p, w.counter)) \in Nat
  BY <1>1, TaskIdsFinite
<1>3. /\ w.counter \in DOMAIN p.counters
      /\ w.threshold >= 1
  BY DEF Accepted, WellFormed
<1>4. w.threshold \in Int
  BY WaitTypes
<1>5. LET np == Cardinality(Producers(p, w.counter)) IN
        /\ np # 0
        /\ w.threshold <= np
        /\ np > 1 => w.threshold = np
  BY DEF Accepted, WaitsAreJoins
<1> QED
  BY <1>2, <1>3, <1>4, <1>5

(* The closure bound: a predecessor-closed set that holds the predecessors *)
(* of a task holds all its ancestors.                                      *)
LEMMA AncestorsInClosedSet ==
  ASSUME NEW p, NEW t, NEW S \in SUBSET TaskIds(p),
         PredClosed(p, S), Pred(p, t) \subseteq S
  PROVE  Ancestors(p, t) \subseteq S
BY DEF Ancestors

LEMMA CountInSubset ==
  ASSUME NEW p, IsProgram(p), NEW D \in SUBSET TaskIds(p), NEW E \in SUBSET TaskIds(p),
         D \subseteq E, NEW c
  PROVE  /\ Cardinality(D \cap Producers(p, c)) \in Nat
         /\ Cardinality(E \cap Producers(p, c)) \in Nat
         /\ Cardinality(D \cap Producers(p, c)) <= Cardinality(E \cap Producers(p, c))
<1>1. /\ D \cap Producers(p, c) \in SUBSET TaskIds(p)
      /\ E \cap Producers(p, c) \in SUBSET TaskIds(p)
      /\ D \cap Producers(p, c) \subseteq E \cap Producers(p, c)
  BY DEF Producers
<1>2. IsFiniteSet(E \cap Producers(p, c))
  BY <1>1, TaskIdsFinite
<1> QED
  BY <1>1, <1>2, TaskIdsFinite, FS_Subset

(* One more completion is one more increment, of the task's own counter.   *)
LEMMA CountOneMore ==
  ASSUME NEW p, IsProgram(p), NEW D \in SUBSET TaskIds(p), NEW t \in TaskIds(p) \ D, NEW c
  PROVE  LET before == Cardinality(D \cap Producers(p, c))
             after == Cardinality((D \cup {t}) \cap Producers(p, c))
         IN  /\ p.tasks[t].out_counter = c => after = before + 1
             /\ p.tasks[t].out_counter # c => after = before
<1> DEFINE R == D \cap Producers(p, c)
<1>1. R \in SUBSET TaskIds(p) /\ t \notin R
  OBVIOUS
<1>2. IsFiniteSet(R)
  BY <1>1, TaskIdsFinite
<1>3. CASE p.tasks[t].out_counter = c
  <2>1. (D \cup {t}) \cap Producers(p, c) = R \cup {t}
    BY <1>3 DEF Producers
  <2> QED
    BY <1>1, <1>2, <1>3, <2>1, FS_AddElement
<1>4. CASE p.tasks[t].out_counter # c
  <2>1. (D \cup {t}) \cap Producers(p, c) = R
    BY <1>4 DEF Producers
  <2> QED
    BY <1>4, <2>1
<1> QED
  BY <1>3, <1>4

(* Counters that reached the thresholds stand for all the predecessors.    *)
LEMMA JoinedMeansComplete ==
  ASSUME NEW p, IsProgram(p), Accepted(p), NEW t \in TaskIds(p), NEW D \in SUBSET TaskIds(p),
         \A w \in Waits(p, t) : Cardinality(D \cap Producers(p, w.counter)) >= w.threshold
  PROVE  Pred(p, t) \subseteq D
<1>1. SUFFICES ASSUME NEW w \in Waits(p, t) PROVE Producers(p, w.counter) \subseteq D
  BY DEF Pred
<1> DEFINE P == Producers(p, w.counter)
           R == D \cap P
<1>2. P \in SUBSET TaskIds(p) /\ R \in SUBSET P /\ R \in SUBSET TaskIds(p)
  BY DEF Producers
<1>3. IsFiniteSet(P) /\ Cardinality(P) \in Nat /\ Cardinality(R) \in Nat
  BY <1>2, TaskIdsFinite
<1>4. Cardinality(R) >= Cardinality(P)
  BY WaitIsJoin
<1>5. Cardinality(R) <= Cardinality(P) /\ (Cardinality(P) = Cardinality(R) => P = R)
  BY <1>2, <1>3, FS_Subset
<1> QED
  BY <1>3, <1>4, <1>5

(* And conversely.                                                         *)
LEMMA CompleteMeansJoined ==
  ASSUME NEW p, IsProgram(p), Accepted(p), NEW t \in TaskIds(p), NEW D \in SUBSET TaskIds(p),
         Pred(p, t) \subseteq D, NEW w \in Waits(p, t)
  PROVE  /\ Cardinality(D \cap Producers(p, w.counter)) \in Nat
         /\ Cardinality(D \cap Producers(p, w.counter)) = w.threshold
<1>1. Producers(p, w.counter) \subseteq Pred(p, t)
  BY DEF Pred, Producers
<1>2. D \cap Producers(p, w.counter) = Producers(p, w.counter)
  BY <1>1
<1> QED
  BY <1>2, WaitIsJoin, CountInSubset

(* An acyclic program that is not complete has a task that can go next.    *)
LEMMA SomeTaskIsNext ==
  ASSUME NEW p, Accepted(p), NEW D \in SUBSET TaskIds(p), D # TaskIds(p)
  PROVE  \E t \in TaskIds(p) \ D : Pred(p, t) \subseteq D
<1>1. TaskIds(p) \ D \in (SUBSET TaskIds(p)) \ {{}}
  OBVIOUS
<1>2. PICK t \in TaskIds(p) \ D : Pred(p, t) \cap (TaskIds(p) \ D) = {}
  BY <1>1 DEF Accepted, Acyclic
<1> QED
  BY <1>2 DEF Pred
=============================================================================
