---------------------------- MODULE ProgramProofs ----------------------------
(***************************************************************************)
(* Theorems about a program on its way to the device.  Lowering, for every *)
(* request: a ready edge stands for all of its tensor and the shards of a  *)
(* split attention partition its window.  Loader, for every program,       *)
(* cyclic or not, every grid and every cost: Kahn's loop decides           *)
(* acyclicity, and the tables of a loaded program keep the launch contract *)
(* MegakernelVM relies on.                                                 *)
(***************************************************************************)
EXTENDS Loader, Lowering, FiniteSetTheorems, WellFoundedInduction, FunctionTheorems, SequenceTheorems, TLAPS

(* Task u has been popped and its edge to t has been followed.             *)
Elements(s) == {s[i] : i \in DOMAIN s}
Popped == Elements(order)
Waiting == Elements(ready)
Followed(u, t) == u \in Popped /\ (phase = "release" /\ u = Newest(order) => t < next)
Remaining(t) == {u \in Pred(prog, t) : ~ Followed(u, t)}

Distinct ==
  /\ \A i, j \in DOMAIN order : order[i] = order[j] => i = j
  /\ \A i, j \in DOMAIN ready : ready[i] = ready[j] => i = j
  /\ Popped \cap Waiting = {}

DegreesCount ==
  phase \in {"validate", "seed", "pop", "release"} =>
    \A t \in TaskIds(prog) : indeg[t] = Cardinality(Remaining(t))

(* Exactly the tasks of degree zero are, or have been, in the deque.       *)
DequeHoldsFree ==
  /\ phase = "validate" => ready = <<>> /\ order = <<>> /\ next = 1
  /\ phase = "seed" =>
       order = <<>> /\ Waiting = {t \in TaskIds(prog) : t < next /\ indeg[t] = 0}
  /\ phase \in {"pop", "release"} =>
       Popped \cup Waiting = {t \in TaskIds(prog) : indeg[t] = 0}
  /\ phase = "release" => order # <<>>

PredecessorsFirst ==
  \A j \in DOMAIN order : \A u \in Pred(prog, order[j]) : \E i \in DOMAIN order : i < j /\ order[i] = u

(* The placed prefix of the order, and the tables filled from it.          *)
OrderComplete ==
  Topo => Len(order) = N /\ \A t \in TaskIds(prog) : \E i \in 1 .. N : order[i] = t

PlacedPrefix ==
  /\ phase = "place" => \A k \in 1 .. N : k < next => order[k] \in DOMAIN smOf
  /\ phase \in {"fill", "ready"} => \A k \in 1 .. N : order[k] \in DOMAIN smOf
  /\ ~ Topo => smOf = <<>>
  /\ phase = "place" => queues = [s \in SMs |-> <<>>]
  /\ phase = "ready" => next = N + 1

FilledPrefix ==
  phase \in {"fill", "ready"} =>
    /\ \A s \in SMs : \A i \in DOMAIN queues[s] :
         /\ \E k \in 1 .. N : k < next /\ order[k] = queues[s][i]
         /\ smOf[queues[s][i]] = s
    /\ \A k \in 1 .. N : k < next =>
         \E i \in DOMAIN queues[smOf[order[k]]] : queues[smOf[order[k]]][i] = order[k]
    /\ \A s \in SMs : \A i, j \in DOMAIN queues[s] : \A k, l \in 1 .. N :
         i < j /\ order[k] = queues[s][i] /\ order[l] = queues[s][j] => k < l

LInv ==
  /\ job \in Jobs
  /\ TypeOK
  /\ Distinct
  /\ DegreesCount
  /\ DequeHoldsFree
  /\ PredecessorsFirst
  /\ OrderComplete
  /\ PlacedPrefix
  /\ FilledPrefix

-----------------------------------------------------------------------------
LEMMA ProgramFacts ==
  ASSUME job \in Jobs
  PROVE  /\ N \in Nat /\ TaskIds(prog) = 1 .. N
         /\ IsFiniteSet(TaskIds(prog)) /\ Cardinality(TaskIds(prog)) = N
         /\ \A t : Pred(prog, t) \subseteq TaskIds(prog) /\ IsFiniteSet(Pred(prog, t))
         /\ job.wanted \in Nat \ {0} /\ job.coresident \in Nat
<1>1. IsProgram(prog) /\ job.wanted \in Nat \ {0} /\ job.coresident \in Nat
  BY JobsAssumption DEF prog
<1>2. N \in Nat /\ TaskIds(prog) = 1 .. N
  BY <1>1 DEF IsProgram, N, TaskIds
<1>3. IsFiniteSet(TaskIds(prog)) /\ Cardinality(TaskIds(prog)) = N
  BY <1>2, FS_Interval
<1>4. \A t : Pred(prog, t) \subseteq TaskIds(prog)
  BY DEF Pred
<1>5. \A t : IsFiniteSet(Pred(prog, t))
  BY <1>3, <1>4, FS_Subset
<1> QED
  BY <1>1, <1>2, <1>3, <1>4, <1>5

LEMMA IntervalSize ==
  ASSUME NEW n \in Nat
  PROVE  IsFiniteSet(1 .. n) /\ Cardinality(1 .. n) = n
BY FS_Interval

LEMMA AppendElements ==
  ASSUME NEW S, NEW s \in Seq(S), NEW e \in S
  PROVE  /\ Append(s, e) \in Seq(S)
         /\ DOMAIN Append(s, e) = 1 .. Len(s) + 1 /\ DOMAIN s = 1 .. Len(s) /\ Len(s) \in Nat
         /\ \A i \in DOMAIN s : Append(s, e)[i] = s[i]
         /\ Append(s, e)[Len(s) + 1] = e
         /\ Len(Append(s, e)) = Len(s) + 1
         /\ Elements(Append(s, e)) = Elements(s) \cup {e}
<1> DEFINE a == Append(s, e)
<1>1. /\ a \in Seq(S) /\ DOMAIN a = 1 .. Len(s) + 1 /\ DOMAIN s = 1 .. Len(s) /\ Len(s) \in Nat
      /\ \A i \in DOMAIN s : a[i] = s[i]
      /\ a[Len(s) + 1] = e /\ Len(a) = Len(s) + 1
  BY AppendProperties
<1> HIDE DEF a
<1>2. \A i \in DOMAIN a : i \in DOMAIN s \/ i = Len(s) + 1
  BY <1>1
<1>3. {a[i] : i \in DOMAIN a} \subseteq {s[i] : i \in DOMAIN s} \cup {e}
  BY <1>1, <1>2
<1>4. e \in {a[i] : i \in DOMAIN a}
  BY <1>1
<1>5. \A i \in DOMAIN s : i \in DOMAIN a /\ a[i] = s[i]
  BY <1>1
<1>6. {s[i] : i \in DOMAIN s} \subseteq {a[i] : i \in DOMAIN a}
  BY <1>5
<1> QED
  BY <1>1, <1>3, <1>4, <1>6 DEF Elements, a

LEMMA TailElements ==
  ASSUME NEW S, NEW s \in Seq(S), s # <<>>,
         \A i, j \in DOMAIN s : s[i] = s[j] => i = j
  PROVE  /\ Tail(s) \in Seq(S)
         /\ Head(s) = s[1] /\ 1 \in DOMAIN s /\ Head(s) \in S
         /\ \A i \in DOMAIN Tail(s) : i + 1 \in DOMAIN s /\ Tail(s)[i] = s[i + 1]
         /\ \A i, j \in DOMAIN Tail(s) : Tail(s)[i] = Tail(s)[j] => i = j
         /\ Elements(Tail(s)) = Elements(s) \ {Head(s)}
<1> DEFINE a == Tail(s)
<1>1. /\ a \in Seq(S) /\ Head(s) \in S /\ Head(s) = s[1]
      /\ Len(a) = Len(s) - 1 /\ Len(s) \in Nat /\ Len(a) \in Nat
      /\ DOMAIN a = 1 .. Len(a) /\ DOMAIN s = 1 .. Len(s)
      /\ \A i \in 1 .. Len(a) : a[i] = s[i + 1]
  BY HeadTailProperties
<1> HIDE DEF a
<1>2. \A i \in DOMAIN a : i + 1 \in DOMAIN s /\ a[i] = s[i + 1]
  BY <1>1
<1>3. 1 \in DOMAIN s
  BY <1>1
<1>4. \A i, j \in DOMAIN a : a[i] = a[j] => i = j
  BY <1>1, <1>2
<1>5. ASSUME NEW i \in DOMAIN a PROVE a[i] \in {s[j] : j \in DOMAIN s} \ {Head(s)}
  <2>1. i + 1 # 1 /\ i + 1 \in DOMAIN s
    BY <1>1, <1>2
  <2> QED
    BY <1>1, <1>2, <1>3, <2>1
<1>6. ASSUME NEW j \in DOMAIN s, s[j] # Head(s) PROVE s[j] \in {a[i] : i \in DOMAIN a}
  <2>1. j - 1 \in DOMAIN a /\ a[j - 1] = s[j]
    BY <1>1, <1>6
  <2> QED
    BY <2>1
<1> QED
  BY <1>1, <1>2, <1>3, <1>4, <1>5, <1>6 DEF Elements, a

(* The least element of a set of queue positions.                          *)
LEMMA Smallest ==
  ASSUME NEW n \in Nat, NEW K \in SUBSET (1 .. n), K # {}
  PROVE \E m \in K : \A k \in K : m <= k
<1> DEFINE R == StrictSubsetOrdering(1 .. n)
           T == {1 .. k : k \in K}
<1>1. IsWellFoundedOn(R, SUBSET (1 .. n))
  <2>1. IsFiniteSet(1 .. n)
    BY FS_Interval
  <2>2. FiniteSubsetsOf(1 .. n) = SUBSET (1 .. n)
    BY <2>1, FS_FiniteSubsetsOfFinite
  <2> QED
    BY <2>2, FS_StrictSubsetOrderingWellFounded
<1>2. \A x, y \in SUBSET (1 .. n) : x \subseteq y /\ x # y => <<x, y>> \in R
  BY DEF StrictSubsetOrdering
<1>3. T \subseteq SUBSET (1 .. n) /\ T # {}
  <2>1. \A k \in K : 1 .. k \subseteq 1 .. n
    OBVIOUS
  <2>2. PICK k \in K : TRUE
    OBVIOUS
  <2>3. (1 .. k) \in T
    OBVIOUS
  <2> QED
    BY <2>1, <2>3
<1> HIDE DEF R
<1>4. PICK x \in T : \A y \in T : ~ (<<y, x>> \in R)
  <2> HIDE DEF T
  <2> QED
  BY <1>1, <1>3, WFMin
<1>5. PICK m \in K : x = 1 .. m
  BY <1>4
<1>6. ASSUME NEW k \in K, k < m PROVE FALSE
  <2>1. (1 .. k) \in T /\ 1 .. k \subseteq 1 .. m /\ m \in 1 .. m /\ m \notin 1 .. k
    BY <1>6
  <2> QED
    BY <2>1, <1>2, <1>3, <1>4, <1>5
<1> QED
  BY <1>6

(* Popping is injective, so a short order leaves a task out and a full one *)
(* leaves none.                                                            *)
LEMMA CountPopped ==
  ASSUME job \in Jobs, order \in Seq(TaskIds(prog)), Distinct
  PROVE  Len(order) = N <=> Popped = TaskIds(prog)
<1>1. /\ N \in Nat /\ TaskIds(prog) = 1 .. N /\ IsFiniteSet(TaskIds(prog))
      /\ Cardinality(TaskIds(prog)) = N
  BY ProgramFacts
<1>2. /\ order \in [1 .. Len(order) -> TaskIds(prog)] /\ Len(order) \in Nat
      /\ DOMAIN order = 1 .. Len(order)
  OBVIOUS
<1>3. order \in Injection(1 .. Len(order), TaskIds(prog))
  BY <1>2 DEF Injection, IsInjective, Distinct
<1>4. IsFiniteSet(1 .. Len(order)) /\ Cardinality(1 .. Len(order)) = Len(order)
  BY <1>2, IntervalSize
<1>5. Len(order) = N <=> order \in Surjection(1 .. Len(order), TaskIds(prog))
  BY <1>1, <1>3, <1>4, FS_Injection
<1>6. order \in Surjection(1 .. Len(order), TaskIds(prog)) <=> Popped = TaskIds(prog)
  BY <1>2 DEF Surjection, Popped, Elements
<1> QED
  BY <1>5, <1>6

LEMMA InitLInv == Init => LInv
<1> SUFFICES ASSUME Init PROVE LInv
  OBVIOUS
<1> USE DEF Init
<1>1. job \in Jobs
  OBVIOUS
<1>2. Popped = {} /\ Waiting = {}
  BY DEF Popped, Waiting, Elements
<1>3. \A t \in TaskIds(prog) : Remaining(t) = Pred(prog, t)
  BY <1>2 DEF Remaining, Followed
<1>4. \A t \in TaskIds(prog) : Cardinality(Pred(prog, t)) \in Nat
  BY <1>1, ProgramFacts, FS_CardinalityType
<1>5. TypeOK
  <2>1. 1 \in 1 .. N + 1
    BY <1>1, ProgramFacts
  <2>2. smOf \in [DOMAIN smOf -> SMs] /\ DOMAIN smOf \subseteq TaskIds(prog)
    OBVIOUS
  <2> QED
    BY <1>4, <2>1, <2>2 DEF TypeOK
<1>6. Distinct /\ DegreesCount /\ DequeHoldsFree /\ PredecessorsFirst
  BY <1>2, <1>3 DEF Distinct, DegreesCount, DequeHoldsFree, PredecessorsFirst
<1>7. OrderComplete /\ PlacedPrefix /\ FilledPrefix
  BY DEF OrderComplete, PlacedPrefix, FilledPrefix, Topo
<1> QED
  BY <1>1, <1>5, <1>6, <1>7 DEF LInv

-----------------------------------------------------------------------------
(* The sort.                                                               *)

LEMMA ValidateLInv ==
  ASSUME LInv, Validate
  PROVE  LInv'
<1> USE DEF LInv
<1>1. /\ UNCHANGED <<job, indeg, ready, order, next, grid, load, smOf, queues>>
      /\ phase = "validate" /\ phase' \in {"seed", "refused"}
  BY DEF Validate
<1>2. ready = <<>> /\ order = <<>> /\ next = 1
  BY <1>1 DEF DequeHoldsFree
<1>3. TypeOK'
  BY <1>1 DEF TypeOK, prog, N, SMs
<1>4. Popped = {} /\ Waiting = {} /\ Popped' = Popped /\ Waiting' = Waiting
  BY <1>1, <1>2 DEF Popped, Waiting, Elements
<1>5. Distinct' /\ PredecessorsFirst'
  BY <1>1, <1>2, <1>4 DEF Distinct, PredecessorsFirst, prog
<1>6. DegreesCount'
  <2>1. \A t \in TaskIds(prog) : Remaining(t)' = Remaining(t)
    BY <1>1, <1>4 DEF Remaining, Followed, prog
  <2> QED
    BY <1>1, <2>1 DEF DegreesCount, prog
<1>7. DequeHoldsFree'
  <2>1. \A t \in TaskIds(prog) : ~ (t < 1)
    BY ProgramFacts
  <2> QED
    BY <1>1, <1>2, <1>4, <2>1 DEF DequeHoldsFree, prog
<1>8. OrderComplete' /\ PlacedPrefix' /\ FilledPrefix'
  BY <1>1 DEF OrderComplete, PlacedPrefix, FilledPrefix, Topo
<1> QED
  BY <1>1, <1>3, <1>5, <1>6, <1>7, <1>8

LEMMA SeedLInv ==
  ASSUME LInv, Seed
  PROVE  LInv'
<1> USE DEF LInv
<1>1. /\ UNCHANGED <<job, phase, indeg, order, grid, load, smOf, queues>>
      /\ phase = "seed" /\ next \in 1 .. N /\ next' = next + 1
      /\ ready' = IF indeg[next] = 0 THEN Append(ready, next) ELSE ready
      /\ prog' = prog /\ N' = N /\ TaskIds(prog)' = TaskIds(prog)
  BY ProgramFacts DEF Seed, TypeOK, prog, N
<1>2. next \in TaskIds(prog) /\ TaskIds(prog) = 1 .. N /\ N \in Nat
  BY <1>1, ProgramFacts
<1>3. /\ order = <<>>
      /\ Waiting = {t \in TaskIds(prog) : t < next /\ indeg[t] = 0}
      /\ ready \in Seq(TaskIds(prog))
  BY <1>1 DEF DequeHoldsFree, TypeOK
<1>4. Popped = {} /\ Popped' = {}
  BY <1>1, <1>3 DEF Popped, Elements
<1>5. next \notin Waiting
  BY <1>2, <1>3
<1>6. Waiting' = IF indeg[next] = 0 THEN Waiting \cup {next} ELSE Waiting
  <2>1. CASE indeg[next] = 0
    <3>1. ready' = Append(ready, next)
      BY <1>1, <2>1
    <3>2. Elements(ready') = Elements(ready) \cup {next}
      <4> HIDE DEF LInv
      <4>1. next \in TaskIds(prog) /\ ready \in Seq(TaskIds(prog))
        BY <1>2, <1>3
      <4>2. Elements(Append(ready, next)) = Elements(ready) \cup {next}
        BY <4>1, AppendElements
      <4> QED
        BY <3>1, <4>2
    <3> QED
      BY <2>1, <3>2 DEF Waiting, Elements
  <2>2. CASE indeg[next] # 0
    BY <1>1, <2>2 DEF Waiting, Elements
  <2> QED
    BY <2>1, <2>2
<1>7. ready' \in Seq(TaskIds(prog))
  BY <1>1, <1>2, <1>3, AppendProperties
<1>8. TypeOK'
  BY <1>1, <1>2, <1>7 DEF TypeOK, SMs
<1>9. Distinct'
  <2>1. \A i, j \in DOMAIN ready' : ready'[i] = ready'[j] => i = j
    BY <1>1, <1>2, <1>3, <1>5, AppendProperties DEF Distinct, Waiting, Elements
  <2> QED
    BY <1>1, <1>3, <1>4, <2>1 DEF Distinct
<1>10. DegreesCount'
  <2>1. \A t \in TaskIds(prog) : Remaining(t)' = Remaining(t)
    BY <1>1, <1>4 DEF Remaining, Followed
  <2> QED
    BY <1>1, <2>1 DEF DegreesCount
<1>11. DequeHoldsFree'
  <2>1. Waiting' = {t \in TaskIds(prog) : t < next + 1 /\ indeg[t] = 0}
    BY <1>2, <1>3, <1>6
  <2> QED
    BY <1>1, <1>3, <2>1 DEF DequeHoldsFree
<1>12. PredecessorsFirst' /\ OrderComplete' /\ PlacedPrefix' /\ FilledPrefix'
  BY <1>1, <1>3 DEF PredecessorsFirst, OrderComplete, PlacedPrefix, FilledPrefix, Topo
<1> QED
  BY <1>1, <1>8, <1>9, <1>10, <1>11, <1>12

LEMMA StartSortLInv ==
  ASSUME LInv, StartSort
  PROVE  LInv'
<1> USE DEF LInv
<1>1. /\ UNCHANGED <<job, indeg, ready, order, next, grid, load, smOf, queues>>
      /\ phase = "seed" /\ next > N /\ phase' = "pop"
      /\ prog' = prog /\ N' = N /\ TaskIds(prog)' = TaskIds(prog)
      /\ Popped' = Popped /\ Waiting' = Waiting
  BY DEF StartSort, prog, N, Popped, Waiting, Elements
<1>2. order = <<>> /\ Popped = {}
  BY <1>1 DEF DequeHoldsFree, Popped, Elements
<1>3. TypeOK'
  BY <1>1 DEF TypeOK, SMs
<1>4. Distinct'
  BY <1>1 DEF Distinct
<1>5. DegreesCount'
  <2>1. \A t \in TaskIds(prog) : Remaining(t)' = Remaining(t)
    BY <1>1, <1>2 DEF Remaining, Followed
  <2> QED
    BY <1>1, <2>1 DEF DegreesCount
<1>6. DequeHoldsFree'
  <2>1. \A t \in TaskIds(prog) : t < next
    BY <1>1, ProgramFacts DEF TypeOK
  <2>2. Waiting = {t \in TaskIds(prog) : indeg[t] = 0}
    BY <1>1, <2>1 DEF DequeHoldsFree
  <2> QED
    BY <1>1, <1>2, <2>2 DEF DequeHoldsFree
<1>7. PredecessorsFirst' /\ OrderComplete' /\ PlacedPrefix' /\ FilledPrefix'
  BY <1>1, <1>2 DEF PredecessorsFirst, OrderComplete, PlacedPrefix, FilledPrefix, Topo
<1> QED
  BY <1>1, <1>3, <1>4, <1>5, <1>6, <1>7

LEMMA PopLInv ==
  ASSUME LInv, Pop
  PROVE  LInv'
<1> USE DEF LInv
<1>0. PICK n : n = Head(ready)
  OBVIOUS
<1>1. /\ UNCHANGED <<job, indeg, grid, load, smOf, queues>>
      /\ phase = "pop" /\ phase' = "release" /\ ready # <<>>
      /\ order' = Append(order, n) /\ ready' = Tail(ready) /\ next' = 1
      /\ prog' = prog /\ N' = N /\ TaskIds(prog)' = TaskIds(prog)
  BY <1>0 DEF Pop, prog, N
<1>2. /\ ready \in Seq(TaskIds(prog)) /\ order \in Seq(TaskIds(prog))
      /\ \A i, j \in DOMAIN ready : ready[i] = ready[j] => i = j
      /\ \A i, j \in DOMAIN order : order[i] = order[j] => i = j
      /\ Popped \cap Waiting = {}
  BY DEF TypeOK, Distinct
<1>3. /\ ready' \in Seq(TaskIds(prog)) /\ n \in TaskIds(prog)
      /\ n = ready[1] /\ 1 \in DOMAIN ready
      /\ \A i, j \in DOMAIN ready' : ready'[i] = ready'[j] => i = j
      /\ Elements(ready') = Elements(ready) \ {n}
  BY <1>0, <1>1, <1>2, TailElements
<1>4. n \in Waiting /\ Waiting' = Waiting \ {n}
  BY <1>3 DEF Waiting, Elements
<1>5. /\ order' \in Seq(TaskIds(prog))
      /\ DOMAIN order' = 1 .. Len(order) + 1 /\ DOMAIN order = 1 .. Len(order) /\ Len(order) \in Nat
      /\ \A i \in DOMAIN order : order'[i] = order[i]
      /\ order'[Len(order) + 1] = n
      /\ Len(order') = Len(order) + 1
      /\ Elements(order') = Elements(order) \cup {n}
  BY <1>1, <1>2, <1>3, AppendElements
<1>6. Popped' = Popped \cup {n} /\ n \notin Popped
  BY <1>2, <1>4, <1>5 DEF Popped, Elements
<1>7. Newest(order)' = n
  BY <1>5 DEF Newest
<1>8. \A t \in TaskIds(prog) : Remaining(t)' = Remaining(t)
  <2> SUFFICES ASSUME NEW t \in TaskIds(prog), NEW u PROVE Followed(u, t)' <=> Followed(u, t)
    BY <1>1 DEF Remaining
  <2>1. ~ (t < 1)
    BY ProgramFacts
  <2> QED
    BY <1>1, <1>6, <1>7, <2>1 DEF Followed
<1>9. Pred(prog, n) \subseteq Popped
  <2>1. indeg[n] = 0
    BY <1>1, <1>3, <1>4 DEF DequeHoldsFree
  <2>2. Cardinality(Remaining(n)) = 0
    BY <1>1, <1>3, <2>1 DEF DegreesCount
  <2>3. IsFiniteSet(Remaining(n))
    BY ProgramFacts, FS_Subset DEF Remaining
  <2>4. Remaining(n) = {}
    BY <2>2, <2>3, FS_EmptySet
  <2> QED
    BY <2>4 DEF Remaining, Followed
<1>10. TypeOK'
  <2>1. 1 \in 1 .. N + 1
    BY ProgramFacts
  <2> QED
    BY <1>1, <1>3, <1>5, <2>1 DEF TypeOK, SMs
<1>11. Distinct'
  <2>1. \A i, j \in DOMAIN order' : order'[i] = order'[j] => i = j
    <3>1. \A i \in DOMAIN order' : i \in DOMAIN order \/ i = Len(order) + 1
      BY <1>5
    <3>2. \A i \in DOMAIN order : order'[i] # n
      BY <1>5, <1>6 DEF Popped, Elements
    <3> QED
      BY <1>2, <1>5, <3>1, <3>2
  <2>2. Popped' \cap Waiting' = {}
    BY <1>2, <1>4, <1>6
  <2> QED
    BY <1>3, <2>1, <2>2 DEF Distinct
<1>12. DegreesCount'
  BY <1>1, <1>8 DEF DegreesCount
<1>13. DequeHoldsFree'
  <2>1. Popped' \cup Waiting' = Popped \cup Waiting
    BY <1>4, <1>6
  <2>2. order' # <<>>
    BY <1>1, <1>2, <1>3, AppendProperties
  <2> QED
    BY <1>1, <2>1, <2>2 DEF DequeHoldsFree
<1>14. PredecessorsFirst'
  <2> SUFFICES ASSUME NEW j \in DOMAIN order', NEW u \in Pred(prog, order'[j])
               PROVE  \E i \in DOMAIN order' : i < j /\ order'[i] = u
    BY <1>1 DEF PredecessorsFirst
  <2>1. CASE j \in DOMAIN order
    BY <1>5, <2>1 DEF PredecessorsFirst
  <2>2. CASE j = Len(order) + 1
    <3>1. PICK i \in DOMAIN order : order[i] = u
      BY <1>5, <1>9, <2>2 DEF Popped, Elements
    <3> QED
      BY <1>5, <2>2, <3>1
  <2> QED
    BY <1>5, <2>1, <2>2
<1>15. OrderComplete' /\ PlacedPrefix' /\ FilledPrefix'
  BY <1>1 DEF OrderComplete, PlacedPrefix, FilledPrefix, Topo
<1> QED
  BY <1>1, <1>10, <1>11, <1>12, <1>13, <1>14, <1>15

LEMMA ReleasedLInv ==
  ASSUME LInv, Released
  PROVE  LInv'
<1> USE DEF LInv
<1>1. /\ UNCHANGED <<job, indeg, ready, order, next, grid, load, smOf, queues>>
      /\ phase = "release" /\ next > N /\ phase' = "pop"
      /\ prog' = prog /\ N' = N /\ TaskIds(prog)' = TaskIds(prog)
      /\ Popped' = Popped /\ Waiting' = Waiting
  BY DEF Released, prog, N, Popped, Waiting, Elements
<1>2. TypeOK' /\ Distinct'
  BY <1>1 DEF TypeOK, SMs, Distinct
<1>3. DegreesCount'
  <2>1. \A t \in TaskIds(prog) : t < next
    BY <1>1, ProgramFacts DEF TypeOK
  <2>2. \A t \in TaskIds(prog) : Remaining(t)' = Remaining(t)
    BY <1>1, <2>1 DEF Remaining, Followed
  <2> QED
    BY <1>1, <2>2 DEF DegreesCount
<1>4. DequeHoldsFree' /\ PredecessorsFirst'
  BY <1>1 DEF DequeHoldsFree, PredecessorsFirst
<1>5. OrderComplete' /\ PlacedPrefix' /\ FilledPrefix'
  BY <1>1 DEF OrderComplete, PlacedPrefix, FilledPrefix, Topo
<1> QED
  BY <1>1, <1>2, <1>3, <1>4, <1>5

LEMMA ReleaseLInv ==
  ASSUME LInv, Release
  PROVE  LInv'
<1> USE DEF LInv
<1>0. PICK m, l : m = next /\ l = Newest(order)
  OBVIOUS
<1>1. /\ UNCHANGED <<job, phase, order, grid, load, smOf, queues>>
      /\ phase = "release" /\ next' = next + 1
      /\ prog' = prog /\ N' = N /\ TaskIds(prog)' = TaskIds(prog) /\ Popped' = Popped
      /\ Newest(order)' = l
  BY <1>0 DEF Release, prog, N, Popped, Newest, Elements
<1>2. /\ m \in TaskIds(prog) /\ m \in Nat /\ N \in Nat /\ TaskIds(prog) = 1 .. N
      /\ next + 1 \in 1 .. N + 1
  <2>1. N \in Nat /\ TaskIds(prog) = 1 .. N
    BY ProgramFacts
  <2>2. next \in 1 .. N + 1 /\ next <= N
    BY DEF Release, TypeOK
  <2> QED
    BY <1>0, <2>1, <2>2
<1>3. l \in Popped /\ l \in TaskIds(prog)
  <2>1. order \in Seq(TaskIds(prog)) /\ order # <<>>
    BY <1>1 DEF TypeOK, DequeHoldsFree
  <2>2. Len(order) \in DOMAIN order
    BY <2>1
  <2> QED
    BY <1>0, <2>1, <2>2 DEF Popped, Newest, Elements
<1>4. \A t \in TaskIds(prog) : indeg[t] = Cardinality(Remaining(t)) /\ IsFiniteSet(Remaining(t))
  BY <1>1, ProgramFacts, FS_Subset DEF DegreesCount, Remaining
<1>5. \A t \in TaskIds(prog) : t # m => Remaining(t)' = Remaining(t)
  <2> SUFFICES ASSUME NEW t \in TaskIds(prog), t # m, NEW u PROVE Followed(u, t)' <=> Followed(u, t)
    BY <1>1 DEF Remaining
  <2>1. t < next + 1 <=> t < next
    BY <1>0, <1>2
  <2> QED
    BY <1>0, <1>1, <2>1 DEF Followed
<1>6. Remaining(m)' = Remaining(m) \ {l}
  <2>1. m < next + 1 /\ ~ (m < next)
    BY <1>0, <1>2
  <2>2. \A u : Followed(u, m)' <=> u \in Popped
    BY <1>0, <1>1, <2>1 DEF Followed
  <2>3. \A u : Followed(u, m) <=> u \in Popped /\ u # l
    BY <1>0, <1>1, <2>1 DEF Followed
  <2> QED
    BY <1>1, <1>3, <2>2, <2>3 DEF Remaining
<1>7. l \in Remaining(m) <=> l \in Pred(prog, m)
  BY <1>0, <1>1, <1>2, <1>3 DEF Remaining, Followed
<1>8. Popped \cup Waiting = {t \in TaskIds(prog) : indeg[t] = 0}
  BY <1>1 DEF DequeHoldsFree
<1>9. CASE l \in Pred(prog, m)
  <2>1. /\ indeg' = [indeg EXCEPT ![m] = @ - 1]
        /\ ready' = IF indeg[m] = 1 THEN Append(ready, m) ELSE ready
    BY <1>0, <1>9 DEF Release
  <2>2. /\ indeg[m] \in Nat /\ indeg[m] # 0
        /\ Cardinality(Remaining(m) \ {l}) = indeg[m] - 1
    <3>1. indeg[m] \in Nat
      BY <1>2 DEF TypeOK
    <3>2. Cardinality(Remaining(m) \ {l}) = Cardinality(Remaining(m)) - 1
      BY <1>2, <1>4, <1>7, <1>9, FS_RemoveElement
    <3>3. Remaining(m) # {}
      BY <1>7, <1>9
    <3>4. Cardinality(Remaining(m)) # 0
      BY <1>2, <1>4, <3>3, FS_EmptySet
    <3> QED
      BY <1>2, <1>4, <3>1, <3>2, <3>4
  <2>3. m \notin Popped /\ m \notin Waiting
    BY <1>2, <1>8, <2>2
  <2>4. /\ indeg'[m] = indeg[m] - 1 /\ indeg' \in [TaskIds(prog) -> Nat]
        /\ \A t \in TaskIds(prog) : t # m => indeg'[t] = indeg[t]
    BY <1>2, <2>1, <2>2 DEF TypeOK
  <2>5. /\ ready' \in Seq(TaskIds(prog))
        /\ \A i, j \in DOMAIN ready' : ready'[i] = ready'[j] => i = j
        /\ Waiting' = IF indeg[m] = 1 THEN Waiting \cup {m} ELSE Waiting
    <3>1. /\ ready \in Seq(TaskIds(prog))
          /\ \A i, j \in DOMAIN ready : ready[i] = ready[j] => i = j
      BY DEF TypeOK, Distinct
    <3>2. CASE indeg[m] = 1
      <4>1. ready' = Append(ready, m)
        BY <2>1, <3>2
      <4>2. /\ ready' \in Seq(TaskIds(prog))
            /\ DOMAIN ready' = 1 .. Len(ready) + 1 /\ DOMAIN ready = 1 .. Len(ready)
            /\ Len(ready) \in Nat
            /\ \A i \in DOMAIN ready : ready'[i] = ready[i]
            /\ ready'[Len(ready) + 1] = m
            /\ Elements(ready') = Elements(ready) \cup {m}
        <5>1. /\ Append(ready, m) \in Seq(TaskIds(prog))
              /\ DOMAIN Append(ready, m) = 1 .. Len(ready) + 1 /\ DOMAIN ready = 1 .. Len(ready)
              /\ Len(ready) \in Nat
              /\ \A i \in DOMAIN ready : Append(ready, m)[i] = ready[i]
              /\ Append(ready, m)[Len(ready) + 1] = m
              /\ Elements(Append(ready, m)) = Elements(ready) \cup {m}
          <6> HIDE DEF LInv
          <6>1. m \in TaskIds(prog) /\ ready \in Seq(TaskIds(prog))
            BY <1>2, <3>1
          <6> QED
            BY <6>1, AppendElements
        <5> QED
          BY <4>1, <5>1
      <4>3. \A i \in DOMAIN ready : ready'[i] # m
        BY <2>3, <4>2 DEF Waiting, Elements
      <4>4. \A i \in DOMAIN ready' : i \in DOMAIN ready \/ i = Len(ready) + 1
        BY <4>2
      <4>5. \A i, j \in DOMAIN ready' : ready'[i] = ready'[j] => i = j
        BY <3>1, <4>2, <4>3, <4>4
      <4> QED
        BY <3>2, <4>2, <4>5 DEF Waiting, Elements
    <3>3. CASE indeg[m] # 1
      BY <2>1, <3>1, <3>3 DEF Waiting, Elements
    <3> QED
      BY <3>2, <3>3
  <2>6. TypeOK'
    BY <1>1, <1>2, <2>4, <2>5 DEF TypeOK, SMs
  <2>7. Distinct'
    BY <1>1, <2>3, <2>5 DEF Distinct
  <2>8. DegreesCount'
    BY <1>1, <1>4, <1>5, <1>6, <2>2, <2>4 DEF DegreesCount
  <2>9. DequeHoldsFree'
    <3>1. Popped \cup Waiting' = {t \in TaskIds(prog) : indeg'[t] = 0}
      <4>1. \A t \in TaskIds(prog) : t # m => (indeg'[t] = 0 <=> t \in Popped \cup Waiting)
        BY <1>8, <2>4
      <4>2. indeg'[m] = 0 <=> indeg[m] = 1
        BY <2>2, <2>4
      <4>3. Popped \cup Waiting \subseteq TaskIds(prog)
        BY <1>8
      <4>4. \A t : t \in Waiting' <=> t \in Waiting \/ (t = m /\ indeg[m] = 1)
        BY <2>5
      <4> QED
        BY <1>2, <2>3, <4>1, <4>2, <4>3, <4>4
    <3> QED
      BY <1>1, <3>1 DEF DequeHoldsFree
  <2>10. PredecessorsFirst' /\ OrderComplete' /\ PlacedPrefix' /\ FilledPrefix'
    BY <1>1 DEF PredecessorsFirst, OrderComplete, PlacedPrefix, FilledPrefix, Topo
  <2> QED
    BY <1>1, <2>6, <2>7, <2>8, <2>9, <2>10
<1>10. CASE l \notin Pred(prog, m)
  <2>1. UNCHANGED <<indeg, ready>> /\ Waiting' = Waiting
    BY <1>0, <1>10 DEF Release, Waiting, Elements
  <2>2. Remaining(m)' = Remaining(m)
    BY <1>6, <1>7, <1>10
  <2>3. TypeOK' /\ Distinct'
    BY <1>1, <1>2, <2>1 DEF TypeOK, SMs, Distinct
  <2>4. DegreesCount'
    BY <1>1, <1>4, <1>5, <2>1, <2>2 DEF DegreesCount
  <2>5. DequeHoldsFree' /\ PredecessorsFirst'
    BY <1>1, <2>1 DEF DequeHoldsFree, PredecessorsFirst
  <2>6. OrderComplete' /\ PlacedPrefix' /\ FilledPrefix'
    BY <1>1 DEF OrderComplete, PlacedPrefix, FilledPrefix, Topo
  <2> QED
    BY <1>1, <2>3, <2>4, <2>5, <2>6
<1> QED
  BY <1>9, <1>10

LEMMA SortedLInv ==
  ASSUME LInv, Sorted
  PROVE  LInv'
<1> USE DEF LInv
<1>1. /\ UNCHANGED <<job, indeg, ready, order, smOf>>
      /\ phase = "pop" /\ ready = <<>> /\ next' = 1
      /\ prog' = prog /\ N' = N /\ TaskIds(prog)' = TaskIds(prog)
      /\ Popped' = Popped /\ Waiting' = Waiting
  BY DEF Sorted, prog, N, Popped, Waiting
<1>2. smOf = <<>>
  BY <1>1 DEF PlacedPrefix, Topo
<1>3. Distinct' /\ PredecessorsFirst'
  BY <1>1 DEF Distinct, PredecessorsFirst
<1>4. N \in Nat /\ 1 \in 1 .. N + 1 /\ job.wanted \in Nat \ {0} /\ job.coresident \in Nat
  BY ProgramFacts
<1>5. CASE Len(order) = N /\ job.coresident > 0
  <2> DEFINE g == IF job.wanted <= job.coresident THEN job.wanted ELSE job.coresident
  <2>1. /\ phase' = "place" /\ grid' = g
        /\ queues' = [s \in 0 .. g - 1 |-> <<>>]
    BY <1>5 DEF Sorted
  <2>2. g \in Nat /\ g > 0 /\ SMs' = 0 .. g - 1
    BY <1>4, <1>5, <2>1 DEF SMs
  <2>3. queues' = [s \in SMs' |-> <<>>] /\ queues' \in [SMs' -> Seq(TaskIds(prog))]
    BY <2>1, <2>2
  <2>4. smOf' \in [DOMAIN smOf' -> SMs'] /\ DOMAIN smOf' \subseteq TaskIds(prog)
    BY <1>1, <1>2
  <2>5. TypeOK'
    BY <1>1, <1>4, <2>1, <2>2, <2>3, <2>4 DEF TypeOK
  <2>6. OrderComplete'
    <3>1. Popped = TaskIds(prog)
      BY <1>5, CountPopped DEF TypeOK
    <3>2. \A t \in TaskIds(prog) : \E i \in 1 .. N : order[i] = t
      BY <1>5, <3>1 DEF Popped, Elements, TypeOK
    <3> QED
      BY <1>1, <1>5, <3>2 DEF OrderComplete
  <2>7. PlacedPrefix'
    <3>1. \A k \in 1 .. N : ~ (k < 1)
      BY <1>4
    <3> QED
      BY <1>1, <2>1, <2>3, <3>1 DEF PlacedPrefix, Topo
  <2>8. DegreesCount' /\ DequeHoldsFree' /\ FilledPrefix'
    BY <2>1 DEF DegreesCount, DequeHoldsFree, FilledPrefix
  <2> QED
    BY <1>1, <1>3, <2>5, <2>6, <2>7, <2>8
<1>6. CASE ~ (Len(order) = N /\ job.coresident > 0)
  <2>1. phase' = "refused" /\ UNCHANGED <<grid, load, queues>>
    BY <1>6 DEF Sorted
  <2>2. TypeOK'
    BY <1>1, <1>4, <2>1 DEF TypeOK, SMs
  <2>3. DegreesCount' /\ DequeHoldsFree' /\ FilledPrefix' /\ OrderComplete' /\ PlacedPrefix'
    BY <1>1, <1>2, <2>1 DEF DegreesCount, DequeHoldsFree, FilledPrefix, OrderComplete, PlacedPrefix, Topo
  <2> QED
    BY <1>1, <1>3, <2>2, <2>3
<1> QED
  BY <1>5, <1>6

-----------------------------------------------------------------------------
(* The assignment.                                                         *)

LEMMA OrderIndexes ==
  ASSUME LInv, Topo
  PROVE  /\ N \in Nat /\ DOMAIN order = 1 .. N
         /\ \A k \in 1 .. N : order[k] \in TaskIds(prog)
         /\ \A k, l \in 1 .. N : order[k] = order[l] => k = l
         /\ grid \in Nat /\ grid > 0
<1>1. N \in Nat /\ order \in Seq(TaskIds(prog)) /\ Len(order) = N
  BY ProgramFacts DEF LInv, OrderComplete, TypeOK
<1>2. DOMAIN order = 1 .. N /\ \A k \in 1 .. N : order[k] \in TaskIds(prog)
  BY <1>1
<1> QED
  BY <1>1, <1>2 DEF LInv, Distinct, TypeOK, Topo

LEMMA PlaceLInv ==
  ASSUME LInv, phase = "place", next <= N, NEW s \in SMs, NEW t, t = order[next], Place(t, s)
  PROVE  LInv'
<1> USE DEF LInv
<1>1. /\ UNCHANGED <<job, phase, indeg, ready, order, grid, queues>> /\ next' = next + 1
      /\ smOf' = [u \in DOMAIN smOf \cup {t} |-> IF u = t THEN s ELSE smOf[u]]
      /\ prog' = prog /\ N' = N /\ TaskIds(prog)' = TaskIds(prog) /\ SMs' = SMs
      /\ Popped' = Popped /\ Waiting' = Waiting
  BY DEF Place, prog, N, Popped, Waiting, SMs
<1>2. /\ N \in Nat /\ next \in 1 .. N /\ next + 1 \in 1 .. N + 1 /\ t \in TaskIds(prog)
  BY OrderIndexes DEF TypeOK, Topo
<1>3. smOf' \in [DOMAIN smOf' -> SMs] /\ DOMAIN smOf' = DOMAIN smOf \cup {t}
  BY <1>1 DEF TypeOK
<1>4. TypeOK'
  BY <1>1, <1>2, <1>3 DEF TypeOK
<1>5. Distinct' /\ PredecessorsFirst' /\ OrderComplete'
  BY <1>1 DEF Distinct, PredecessorsFirst, OrderComplete, Topo
<1>6. DegreesCount' /\ DequeHoldsFree' /\ FilledPrefix'
  BY <1>1 DEF DegreesCount, DequeHoldsFree, FilledPrefix
<1>7. PlacedPrefix'
  <2>1. \A k \in 1 .. N : k < next + 1 => k < next \/ k = next
    BY <1>2
  <2>2. \A k \in 1 .. N : k < next + 1 => order[k] \in DOMAIN smOf'
    BY <1>2, <1>3, <2>1 DEF PlacedPrefix
  <2> QED
    BY <1>1, <2>2 DEF PlacedPrefix, Topo
<1> QED
  BY <1>1, <1>4, <1>5, <1>6, <1>7

LEMMA PlacedLInv ==
  ASSUME LInv, Placed
  PROVE  LInv'
<1> USE DEF LInv
<1>1. /\ UNCHANGED <<job, indeg, ready, order, grid, load, smOf, queues>>
      /\ phase = "place" /\ next > N /\ phase' = "fill" /\ next' = 1
      /\ prog' = prog /\ N' = N /\ TaskIds(prog)' = TaskIds(prog) /\ SMs' = SMs
      /\ Popped' = Popped /\ Waiting' = Waiting
  BY DEF Placed, prog, N, Popped, Waiting, SMs
<1>2. N \in Nat /\ 1 \in 1 .. N + 1 /\ next \in Nat
  BY ProgramFacts DEF TypeOK
<1>3. queues = [s \in SMs |-> <<>>]
  BY <1>1 DEF PlacedPrefix
<1>4. TypeOK'
  BY <1>1, <1>2 DEF TypeOK
<1>5. Distinct' /\ PredecessorsFirst' /\ OrderComplete'
  BY <1>1 DEF Distinct, PredecessorsFirst, OrderComplete, Topo
<1>6. DegreesCount' /\ DequeHoldsFree'
  BY <1>1 DEF DegreesCount, DequeHoldsFree
<1>7. PlacedPrefix'
  <2>1. \A k \in 1 .. N : k < next
    BY <1>1, <1>2
  <2> QED
    BY <1>1, <2>1 DEF PlacedPrefix, Topo
<1>8. FilledPrefix'
  <2>1. \A s \in SMs : queues[s] = <<>> /\ DOMAIN queues[s] = {}
    BY <1>3
  <2>2. \A k \in 1 .. N : ~ (k < 1)
    BY <1>2
  <2> QED
    BY <1>1, <2>1, <2>2 DEF FilledPrefix
<1> QED
  BY <1>1, <1>4, <1>5, <1>6, <1>7, <1>8

LEMMA FillLInv ==
  ASSUME LInv, Fill
  PROVE  LInv'
<1> USE DEF LInv
<1>0. PICK t, s : t = order[next] /\ s = smOf[t]
  OBVIOUS
<1>1. /\ UNCHANGED <<job, phase, indeg, ready, order, grid, load, smOf>>
      /\ phase = "fill" /\ next <= N /\ next' = next + 1
      /\ queues' = [queues EXCEPT ![s] = Append(@, t)]
      /\ prog' = prog /\ N' = N /\ TaskIds(prog)' = TaskIds(prog) /\ SMs' = SMs
      /\ Popped' = Popped /\ Waiting' = Waiting
  BY <1>0 DEF Fill, prog, N, Popped, Waiting, SMs
<1>2. /\ N \in Nat /\ next \in 1 .. N /\ next + 1 \in 1 .. N + 1 /\ t \in TaskIds(prog)
      /\ \A k, l \in 1 .. N : order[k] = order[l] => k = l
  <2>1. Topo
    BY <1>1 DEF Topo
  <2>2. /\ N \in Nat /\ \A k \in 1 .. N : order[k] \in TaskIds(prog)
        /\ \A k, l \in 1 .. N : order[k] = order[l] => k = l
    BY <2>1, OrderIndexes
  <2>3. next \in 1 .. N + 1
    BY DEF TypeOK
  <2>4. next \in 1 .. N /\ next + 1 \in 1 .. N + 1
    BY <1>1, <2>2, <2>3
  <2> QED
    BY <1>0, <2>2, <2>4
<1>3. s \in SMs
  <2>1. t \in DOMAIN smOf
    BY <1>0, <1>1, <1>2 DEF PlacedPrefix
  <2> QED
    BY <1>0, <2>1 DEF TypeOK
<1>4. queues \in [SMs -> Seq(TaskIds(prog))]
  BY <1>1 DEF TypeOK
<1> DEFINE old == queues[s]
<1>5. /\ old \in Seq(TaskIds(prog)) /\ DOMAIN old = 1 .. Len(old) /\ Len(old) \in Nat
      /\ queues'[s] = Append(old, t)
      /\ \A r \in SMs : r # s => queues'[r] = queues[r]
      /\ queues' \in [SMs -> Seq(TaskIds(prog))]
  BY <1>1, <1>2, <1>3, <1>4, AppendElements
<1>6. /\ DOMAIN queues'[s] = 1 .. Len(old) + 1
      /\ \A i \in DOMAIN old : queues'[s][i] = old[i]
      /\ queues'[s][Len(old) + 1] = t
  <2>1. /\ DOMAIN Append(old, t) = 1 .. Len(old) + 1
        /\ \A i \in DOMAIN old : Append(old, t)[i] = old[i]
        /\ Append(old, t)[Len(old) + 1] = t
    BY <1>2, <1>5, AppendElements
  <2> QED
    BY <1>5, <2>1
<1>7. \A r \in SMs : \A i \in DOMAIN queues'[r] :
        \/ i \in DOMAIN queues[r] /\ queues'[r][i] = queues[r][i]
        \/ r = s /\ i = Len(old) + 1 /\ queues'[r][i] = t
  <2> SUFFICES ASSUME NEW r \in SMs, NEW i \in DOMAIN queues'[r]
               PROVE  \/ i \in DOMAIN queues[r] /\ queues'[r][i] = queues[r][i]
                      \/ r = s /\ i = Len(old) + 1 /\ queues'[r][i] = t
    OBVIOUS
  <2>1. CASE r # s
    BY <1>5, <2>1
  <2>2. CASE r = s
    <3>1. i \in DOMAIN old \/ i = Len(old) + 1
      BY <1>5, <1>6, <2>2
    <3> QED
      BY <1>6, <2>2, <3>1
  <2> QED
    BY <2>1, <2>2
<1>8. \A r \in SMs : \A i \in DOMAIN queues[r] :
        i \in DOMAIN queues'[r] /\ queues'[r][i] = queues[r][i]
  BY <1>5, <1>6
<1> HIDE DEF old
<1>9. /\ \A r \in SMs : \A i \in DOMAIN queues[r] :
           /\ \E k \in 1 .. N : k < next /\ order[k] = queues[r][i]
           /\ smOf[queues[r][i]] = r
      /\ \A k \in 1 .. N : k < next =>
           \E i \in DOMAIN queues[smOf[order[k]]] : queues[smOf[order[k]]][i] = order[k]
      /\ \A r \in SMs : \A i, j \in DOMAIN queues[r] : \A k, l \in 1 .. N :
           i < j /\ order[k] = queues[r][i] /\ order[l] = queues[r][j] => k < l
  BY <1>1 DEF FilledPrefix
<1>10. \A k \in 1 .. N : smOf[order[k]] \in SMs
  BY <1>1 DEF PlacedPrefix, TypeOK
<1>11. TypeOK'
  BY <1>1, <1>2, <1>5 DEF TypeOK
<1>12. Distinct' /\ PredecessorsFirst' /\ OrderComplete'
  BY <1>1 DEF Distinct, PredecessorsFirst, OrderComplete, Topo
<1>13. DegreesCount' /\ DequeHoldsFree' /\ PlacedPrefix'
  BY <1>1 DEF DegreesCount, DequeHoldsFree, PlacedPrefix, Topo
<1>14. ASSUME NEW r \in SMs, NEW i \in DOMAIN queues'[r]
       PROVE  /\ \E k \in 1 .. N : k < next + 1 /\ order[k] = queues'[r][i]
              /\ smOf[queues'[r][i]] = r
  <2>1. CASE i \in DOMAIN queues[r] /\ queues'[r][i] = queues[r][i]
    <3>1. PICK k \in 1 .. N : k < next /\ order[k] = queues[r][i]
      BY <1>9, <2>1
    <3>2. k < next + 1
      BY <1>2, <3>1
    <3> QED
      BY <1>9, <2>1, <3>1, <3>2
  <2>2. CASE r = s /\ i = Len(old) + 1 /\ queues'[r][i] = t
    <3>1. next < next + 1
      BY <1>2
    <3> QED
      BY <1>0, <1>2, <2>2, <3>1
  <2> QED
    BY <1>7, <2>1, <2>2
<1>15. ASSUME NEW k \in 1 .. N, k < next + 1
       PROVE  \E i \in DOMAIN queues'[smOf[order[k]]] : queues'[smOf[order[k]]][i] = order[k]
  <2>1. CASE k < next
    BY <1>8, <1>9, <1>10, <2>1
  <2>2. CASE k = next
    BY <1>0, <1>5, <1>6, <2>2
  <2> QED
    BY <1>2, <1>15, <2>1, <2>2
<1>16. ASSUME NEW r \in SMs, NEW i \in DOMAIN queues'[r], NEW j \in DOMAIN queues'[r], i < j,
              NEW k \in 1 .. N, NEW l \in 1 .. N, order[k] = queues'[r][i], order[l] = queues'[r][j]
       PROVE  k < l
  <2>1. CASE j \in DOMAIN queues[r] /\ i \in DOMAIN queues[r]
    BY <1>8, <1>9, <1>16, <2>1
  <2>2. CASE r = s /\ j = Len(old) + 1
    <3>1. l = next
      BY <1>0, <1>2, <1>6, <1>16, <2>2
    <3>2. i \in DOMAIN queues[r]
      BY <1>5, <1>7, <1>16, <2>2
    <3>3. PICK m \in 1 .. N : m < next /\ order[m] = queues[r][i]
      BY <1>9, <3>2
    <3>4. m = k
      BY <1>2, <1>8, <1>16, <3>2, <3>3
    <3> QED
      BY <3>1, <3>3, <3>4
  <2>3. CASE i \notin DOMAIN queues[r]
    <3>1. r = s /\ i = Len(old) + 1
      BY <1>7, <2>3
    <3>2. j \in 1 .. Len(old) + 1
      BY <1>6, <3>1
    <3> QED
      BY <1>5, <1>16, <3>1, <3>2
  <2> QED
    BY <1>7, <2>1, <2>2, <2>3
<1>17. FilledPrefix'
  <2> HIDE DEF LInv
  <2>1. /\ next' = next + 1 /\ order' = order /\ smOf' = smOf /\ SMs' = SMs /\ N' = N
    BY <1>1
  <2>2. \A r \in SMs : \A i \in DOMAIN queues'[r] :
          /\ \E k \in 1 .. N : k < next + 1 /\ order[k] = queues'[r][i]
          /\ smOf[queues'[r][i]] = r
    BY <1>14
  <2>3. \A k \in 1 .. N : k < next + 1 =>
          \E i \in DOMAIN queues'[smOf[order[k]]] : queues'[smOf[order[k]]][i] = order[k]
    BY <1>15
  <2>4. \A r \in SMs : \A i, j \in DOMAIN queues'[r] : \A k, l \in 1 .. N :
          i < j /\ order[k] = queues'[r][i] /\ order[l] = queues'[r][j] => k < l
    BY <1>16
  <2> QED
    BY <2>1, <2>2, <2>3, <2>4 DEF FilledPrefix
<1> QED
  BY <1>1, <1>11, <1>12, <1>13, <1>17

LEMMA FilledLInv ==
  ASSUME LInv, Filled
  PROVE  LInv'
<1> USE DEF LInv
<1>1. /\ UNCHANGED <<job, indeg, ready, order, next, grid, load, smOf, queues>>
      /\ phase = "fill" /\ next > N /\ phase' = "ready"
      /\ prog' = prog /\ N' = N /\ TaskIds(prog)' = TaskIds(prog) /\ SMs' = SMs
      /\ Popped' = Popped /\ Waiting' = Waiting
  BY DEF Filled, prog, N, Popped, Waiting, SMs
<1>2. next = N + 1
  <2>1. N \in Nat /\ next \in 1 .. N + 1
    BY ProgramFacts DEF TypeOK
  <2> QED
    BY <1>1, <2>1
<1>3. TypeOK' /\ Distinct' /\ PredecessorsFirst' /\ OrderComplete'
  BY <1>1 DEF TypeOK, Distinct, PredecessorsFirst, OrderComplete, Topo
<1>4. DegreesCount' /\ DequeHoldsFree'
  BY <1>1 DEF DegreesCount, DequeHoldsFree, Topo
<1>5. PlacedPrefix'
  BY <1>1, <1>2 DEF PlacedPrefix, Topo
<1>6. FilledPrefix'
  BY <1>1 DEF FilledPrefix
<1> QED
  BY <1>1, <1>3, <1>4, <1>5, <1>6

LEMMA NextLInv == LInv /\ [Next]_vars => LInv'
<1> SUFFICES ASSUME LInv, [Next]_vars PROVE LInv'
  OBVIOUS
<1>1. CASE Validate
  BY <1>1, ValidateLInv
<1>2. CASE Seed
  BY <1>2, SeedLInv
<1>3. CASE StartSort
  BY <1>3, StartSortLInv
<1>4. CASE Pop
  BY <1>4, PopLInv
<1>5. CASE Release
  BY <1>5, ReleaseLInv
<1>6. CASE Released
  BY <1>6, ReleasedLInv
<1>7. CASE Sorted
  BY <1>7, SortedLInv
<1>8. CASE PlacePinned
  <2> DEFINE t == order[next]
             s == IF Pinned(t) THEN prog.tasks[t].sm ELSE 0
  <2>1. phase = "place" /\ next <= N /\ KeepPins /\ Place(t, s)
    BY <1>8 DEF PlacePinned
  <2>2. t \in TaskIds(prog) /\ grid \in Nat /\ grid > 0
    <3>1. next \in 1 .. N
      BY <2>1, OrderIndexes DEF LInv, TypeOK, Topo
    <3> QED
      BY <2>1, <3>1, OrderIndexes DEF Topo
  <2>3. s \in SMs
    BY <2>1, <2>2 DEF KeepPins, SMs
  <2> QED
    BY <2>1, <2>3, PlaceLInv
<1>9. CASE PlaceRoundRobin
  <2>1. phase = "place" /\ next <= N /\ Place(order[next], (next - 1) % grid)
    BY <1>9 DEF PlaceRoundRobin
  <2>2. next - 1 \in Nat /\ grid \in Nat /\ grid > 0
    BY <2>1, OrderIndexes DEF LInv, TypeOK, Topo
  <2>3. (next - 1) % grid \in SMs
    BY <2>2 DEF SMs
  <2> QED
    BY <2>1, <2>3, PlaceLInv
<1>10. CASE PlaceLightest
  <2>1. PICK s \in SMs : Place(order[next], s)
    BY <1>10 DEF PlaceLightest
  <2> QED
    BY <1>10, <2>1, PlaceLInv DEF PlaceLightest
<1>11. CASE Placed
  BY <1>11, PlacedLInv
<1>12. CASE Fill
  BY <1>12, FillLInv
<1>13. CASE Filled
  BY <1>13, FilledLInv
<1>14. CASE UNCHANGED vars
  <2>1. /\ UNCHANGED <<job, phase, indeg, ready, order, next, grid, load, smOf, queues>>
        /\ prog' = prog /\ N' = N /\ TaskIds(prog)' = TaskIds(prog) /\ SMs' = SMs
        /\ Popped' = Popped /\ Waiting' = Waiting
    BY <1>14 DEF vars, prog, N, SMs, Popped, Waiting
  <2>2. TypeOK' /\ Distinct' /\ PredecessorsFirst' /\ OrderComplete'
    BY <2>1 DEF LInv, TypeOK, Distinct, PredecessorsFirst, OrderComplete, Topo
  <2>3. \A t \in TaskIds(prog) : Remaining(t)' = Remaining(t)
    BY <2>1 DEF Remaining, Followed, Newest
  <2>4. DegreesCount' /\ DequeHoldsFree'
    BY <2>1, <2>3 DEF LInv, DegreesCount, DequeHoldsFree
  <2>5. PlacedPrefix' /\ FilledPrefix'
    BY <2>1 DEF LInv, PlacedPrefix, FilledPrefix, Topo
  <2> QED
    BY <2>1, <2>2, <2>4, <2>5 DEF LInv
<1> QED
  BY <1>1, <1>2, <1>3, <1>4, <1>5, <1>6, <1>7, <1>8, <1>9, <1>10, <1>11, <1>12, <1>13, <1>14 DEF Next

(* The invariant of the constructor's loops holds at every iteration.      *)
THEOREM LoaderInvariance == Spec => []LInv
<1> QED
  BY InitLInv, NextLInv, PTL DEF Spec

(* The constructor's variables stay well typed whatever the job.           *)
THEOREM LoaderTypes == Spec => []TypeOK
<1>1. LInv => TypeOK
  BY DEF LInv
<1> QED
  BY <1>1, LoaderInvariance, PTL

-----------------------------------------------------------------------------
(* What a finished sort says about the program.                            *)

LEMMA SortedIsTopological ==
  ASSUME LInv, Topo
  PROVE  IsTopologicalOrder(prog, order)
<1>1. Len(order) = N /\ \A t \in TaskIds(prog) : \E i \in 1 .. N : order[i] = t
  BY DEF LInv, OrderComplete
<1>2. ASSUME NEW i \in 1 .. N, NEW j \in 1 .. N, order[i] \in Pred(prog, order[j]) PROVE i < j
  <2>1. PICK k \in DOMAIN order : k < j /\ order[k] = order[i]
    BY <1>2, OrderIndexes DEF LInv, PredecessorsFirst
  <2> QED
    BY <2>1, OrderIndexes
<1> QED
  BY <1>1, <1>2 DEF IsTopologicalOrder, N

(* Of any set of tasks, the first in the order.                            *)
LEMMA FirstOf ==
  ASSUME LInv, Topo, NEW S \in SUBSET TaskIds(prog), S # {}
  PROVE  \E m \in 1 .. N : order[m] \in S /\ \A k \in 1 .. N : order[k] \in S => m <= k
<1> DEFINE K == {k \in 1 .. N : order[k] \in S}
<1>1. N \in Nat
  BY OrderIndexes
<1>2. PICK t : t \in S
  OBVIOUS
<1>3. K # {}
  BY <1>2 DEF LInv, OrderComplete
<1>4. PICK m \in K : \A k \in K : m <= k
  BY <1>1, <1>3, Smallest
<1> QED
  BY <1>4

LEMMA SortedIsAcyclic ==
  ASSUME LInv, Topo
  PROVE  Acyclic(prog)
<1> SUFFICES ASSUME NEW S \in (SUBSET TaskIds(prog)) \ {{}}
             PROVE  \E t \in S : Pred(prog, t) \cap S = {}
  BY DEF Acyclic
<1>1. PICK m \in 1 .. N : order[m] \in S /\ \A k \in 1 .. N : order[k] \in S => m <= k
  BY FirstOf
<1>2. ASSUME NEW u \in Pred(prog, order[m]), u \in S PROVE FALSE
  <2>1. PICK i \in DOMAIN order : i < m /\ order[i] = u
    BY OrderIndexes DEF LInv, PredecessorsFirst
  <2> QED
    BY <1>1, <1>2, <2>1, OrderIndexes
<1> QED
  BY <1>1, <1>2

LEMMA StuckIsCyclic ==
  ASSUME LInv, phase = "pop", ready = <<>>, Len(order) # N
  PROVE  ~ Acyclic(prog)
<1> DEFINE S == TaskIds(prog) \ Popped
<1>1. Waiting = {}
  BY DEF Waiting, Elements
<1>2. Popped = {t \in TaskIds(prog) : indeg[t] = 0}
  BY <1>1 DEF LInv, DequeHoldsFree
<1>3. S # {}
  <2>1. Popped # TaskIds(prog)
    BY CountPopped DEF LInv, TypeOK
  <2> QED
    BY <1>2, <2>1
<1>4. ASSUME NEW t \in S PROVE Pred(prog, t) \cap S # {}
  <2>1. indeg[t] # 0 /\ indeg[t] = Cardinality(Remaining(t))
    BY <1>2 DEF LInv, DegreesCount
  <2>2. Remaining(t) # {}
    BY <2>1, FS_EmptySet
  <2>3. PICK u \in Remaining(t) : TRUE
    BY <2>2
  <2>4. u \in Pred(prog, t) /\ u \notin Popped
    BY <2>3 DEF Remaining, Followed
  <2> QED
    BY <2>4 DEF Pred
<1> QED
  BY <1>3, <1>4 DEF Acyclic

(* topological_order() returns an order exactly of the acyclic programs,   *)
(* and that order is a topological one.                                    *)
THEOREM KahnSoundness == Spec => []KahnIsSound
<1>1. LInv => KahnIsSound
  BY SortedIsTopological, SortedIsAcyclic, StuckIsCyclic DEF KahnIsSound
<1> QED
  BY <1>1, LoaderInvariance, PTL

-----------------------------------------------------------------------------
(* What a loaded program's tables look like.                               *)

LEMMA ReadyPartition ==
  ASSUME LInv, phase = "ready"
  PROVE  QueuesPartition(prog, queues)
<1> USE DEF LInv
<1>1. /\ next = N + 1 /\ Topo /\ queues \in [SMs -> Seq(TaskIds(prog))]
  BY DEF PlacedPrefix, Topo, TypeOK
<1>2. \A k \in 1 .. N : k < next
  BY <1>1, OrderIndexes
<1>3. DOMAIN queues = SMs
  BY <1>1
<1>4. ASSUME NEW t \in TaskIds(prog) PROVE \E s \in SMs : \E i \in DOMAIN queues[s] : queues[s][i] = t
  <2>1. PICK k \in 1 .. N : order[k] = t
    BY <1>1 DEF OrderComplete
  <2>2. smOf[t] \in SMs
    BY <2>1 DEF PlacedPrefix, TypeOK
  <2> QED
    BY <1>2, <2>1, <2>2 DEF FilledPrefix
<1>5. ASSUME NEW s \in SMs, NEW r \in SMs, NEW i \in DOMAIN queues[s], NEW j \in DOMAIN queues[r],
             queues[s][i] = queues[r][j]
      PROVE  s = r /\ i = j
  <2>1. s = r
    BY <1>5 DEF FilledPrefix
  <2>2. PICK k \in 1 .. N : order[k] = queues[s][i]
    BY DEF FilledPrefix
  <2>3. i \in Nat /\ j \in Nat
    BY <1>1
  <2>4. ~ (i < j) /\ ~ (j < i)
    BY <1>5, <2>1, <2>2, OrderIndexes DEF FilledPrefix, Topo
  <2> QED
    BY <2>1, <2>3, <2>4
<1> QED
  BY <1>3, <1>4, <1>5 DEF QueuesPartition

LEMMA ReadyGlobalOrder ==
  ASSUME LInv, phase = "ready"
  PROVE  QueuesFollowGlobalOrder(prog, queues)
<1> USE DEF LInv
<1>0. Topo /\ DOMAIN queues = SMs
  BY DEF Topo, TypeOK
<1> SUFFICES ASSUME NEW S \in (SUBSET TaskIds(prog)) \ {{}}
             PROVE  \E t \in S : Pred(prog, t) \cap S = {} /\ Ahead(prog, queues, t) \cap S = {}
  BY DEF QueuesFollowGlobalOrder
<1>1. PICK m \in 1 .. N : order[m] \in S /\ \A k \in 1 .. N : order[k] \in S => m <= k
  BY <1>0, FirstOf
<1>2. ASSUME NEW u \in Pred(prog, order[m]), u \in S PROVE FALSE
  <2>1. PICK i \in DOMAIN order : i < m /\ order[i] = u
    BY <1>0, OrderIndexes DEF PredecessorsFirst
  <2> QED
    BY <1>0, <1>1, <1>2, <2>1, OrderIndexes
<1>3. ASSUME NEW u \in Ahead(prog, queues, order[m]), u \in S PROVE FALSE
  <2>1. PICK s \in SMs : \E i, j \in DOMAIN queues[s] :
                           i < j /\ queues[s][i] = u /\ queues[s][j] = order[m]
    BY <1>0 DEF Ahead
  <2>2. PICK i \in DOMAIN queues[s], j \in DOMAIN queues[s] :
          i < j /\ queues[s][i] = u /\ queues[s][j] = order[m]
    BY <2>1
  <2>3. PICK k \in 1 .. N : order[k] = u
    BY <2>2 DEF FilledPrefix
  <2>4. k < m
    BY <2>2, <2>3 DEF FilledPrefix
  <2> QED
    BY <1>0, <1>1, <1>3, <2>3, <2>4, OrderIndexes
<1> QED
  BY <1>1, <1>2, <1>3

(* abi.h: the tables of every program that loads hold each task once, in   *)
(* queues that follow one topological sort.                                *)
THEOREM LoadedTablesContract == Spec => []LoadedTablesKeepContract
<1>1. LInv => LoadedTablesKeepContract
  BY ReadyPartition, ReadyGlobalOrder DEF LoadedTablesKeepContract, LaunchContract
<1> QED
  BY <1>1, LoaderInvariance, PTL

-----------------------------------------------------------------------------
(* The cost balancing.                                                     *)

Loads ==
  Topo =>
    /\ DOMAIN load = SMs /\ \A s \in SMs : load[s][1] \in Nat
    /\ phase = "place" => \A t \in DOMAIN smOf : \E k \in 1 .. N : k < next /\ order[k] = t

BInv == Loads /\ Balanced

(* What is given to the lightest SM lifts it above no other by more.       *)
LEMMA PlaceLightestBInv ==
  ASSUME LInv, BInv, PlaceLightest
  PROVE  BInv'
<1> USE DEF LInv
<1>1. PICK s \in SMs :
        /\ \A r \in SMs \ {s} : Lighter(s, r)
        /\ Place(order[next], s)
        /\ load' = [load EXCEPT ![s] = <<@[1] + job.cost[order[next]][1],
                                         @[2] + job.cost[order[next]][2], @[3] + 1>>]
  BY DEF PlaceLightest
<1> DEFINE t == order[next]
           c == job.cost[t][1]
<1>2. /\ UNCHANGED <<job, phase, order, grid>> /\ next' = next + 1 /\ phase = "place"
      /\ smOf' = [u \in DOMAIN smOf \cup {t} |-> IF u = t THEN s ELSE smOf[u]]
      /\ N' = N /\ SMs' = SMs /\ (KeepPins <=> KeepPins') /\ ~ KeepPins /\ ~ job.roundRobin /\ Topo /\ Topo'
  BY <1>1 DEF PlaceLightest, Place, prog, N, SMs, KeepPins, Pinned, Topo
<1>3. next \in 1 .. N /\ N \in Nat /\ t \in TaskIds(prog)
  BY <1>2, OrderIndexes DEF PlaceLightest, TypeOK
<1>4. t \notin DOMAIN smOf
  <2>1. SUFFICES ASSUME t \in DOMAIN smOf PROVE FALSE
    OBVIOUS
  <2>2. PICK k \in 1 .. N : k < next /\ order[k] = t
    BY <1>2, <2>1 DEF BInv, Loads
  <2>3. k = next
    BY <1>2, <1>3, <2>2, OrderIndexes
  <2> QED
    BY <1>3, <2>2, <2>3
<1>5. c \in Nat
  <2>1. job.cost \in [TaskIds(prog) -> Nat \X Nat]
    BY JobsAssumption DEF prog
  <2> QED
    BY <1>3, <2>1
<1>6. DOMAIN load = SMs /\ \A r \in SMs : load[r][1] \in Nat
  BY <1>2 DEF BInv, Loads
<1>7. /\ DOMAIN load' = SMs /\ load'[s][1] = load[s][1] + c
      /\ \A r \in SMs : r # s => load'[r] = load[r]
  BY <1>1, <1>6
<1>8. /\ \A u \in DOMAIN smOf : u # t /\ smOf'[u] = smOf[u] /\ u \in DOMAIN smOf'
      /\ t \in DOMAIN smOf' /\ smOf'[t] = s
  BY <1>2, <1>4
<1>9. \A r \in SMs : load[s][1] <= load[r][1]
  <2>1. ASSUME NEW r \in SMs, r # s PROVE load[s][1] <= load[r][1]
    <3>1. load[s][1] < load[r][1] \/ load[s][1] = load[r][1]
      BY <1>1, <2>1 DEF Lighter
    <3> QED
      BY <1>6, <3>1
  <2> QED
    BY <1>6, <2>1
<1> HIDE DEF c, t
<1>10. Loads'
  <2>1. \A r \in SMs : load'[r][1] \in Nat
    BY <1>5, <1>6, <1>7
  <2>2. ASSUME NEW u \in DOMAIN smOf'
        PROVE  \E k \in 1 .. N : k < next + 1 /\ order[k] = u
    <3>1. CASE u = t
      BY <1>3, <3>1 DEF t
    <3>2. CASE u # t
      <4>1. u \in DOMAIN smOf
        BY <1>2, <3>2
      <4>2. PICK k \in 1 .. N : k < next /\ order[k] = u
        BY <1>2, <4>1 DEF BInv, Loads
      <4> QED
        BY <1>3, <4>2
    <3> QED
      BY <3>1, <3>2
  <2> QED
    BY <1>2, <1>7, <2>1, <2>2 DEF Loads
<1>11. ASSUME NEW r \in SMs, NEW q \in SMs, load'[r][1] > load'[q][1]
       PROVE  \E u \in DOMAIN smOf' : smOf'[u] = r /\ load'[r][1] - load'[q][1] <= job.cost[u][1]
  <2>1. CASE r = s
    <3>1. q # s /\ load'[q][1] = load[q][1]
      BY <1>5, <1>6, <1>7, <1>11, <2>1
    <3>2. load'[r][1] - load'[q][1] <= c
      BY <1>5, <1>6, <1>7, <1>9, <2>1, <3>1
    <3> QED
      BY <1>8, <2>1, <3>2 DEF c
  <2>2. CASE r # s
    <3>1. load'[r][1] = load[r][1] /\ load'[q][1] >= load[q][1] /\ load[r][1] > load[q][1]
      BY <1>5, <1>6, <1>7, <1>11, <2>2
    <3>2. PICK u \in DOMAIN smOf : smOf[u] = r /\ load[r][1] - load[q][1] <= job.cost[u][1]
      BY <1>2, <3>1 DEF BInv, Balanced
    <3>3. job.cost[u][1] \in Nat
      <4>1. job.cost \in [TaskIds(prog) -> Nat \X Nat] /\ u \in TaskIds(prog)
        BY JobsAssumption DEF prog, TypeOK
      <4> QED
        BY <4>1
    <3>4. load'[r][1] - load'[q][1] <= job.cost[u][1]
      BY <1>5, <1>6, <1>7, <3>1, <3>2, <3>3
    <3> QED
      BY <1>8, <3>2, <3>4
  <2> QED
    BY <2>1, <2>2
<1>12. \A r, q \in SMs' : load'[r][1] > load'[q][1] =>
         \E u \in DOMAIN smOf' : smOf'[u] = r /\ load'[r][1] - load'[q][1] <= job'.cost[u][1]
  <2>1. job' = job /\ SMs' = SMs
    BY <1>2
  <2>2. \A r, q \in SMs : load'[r][1] > load'[q][1] =>
           \E u \in DOMAIN smOf' : smOf'[u] = r /\ load'[r][1] - load'[q][1] <= job.cost[u][1]
    BY <1>11
  <2> QED
    BY <2>1, <2>2
<1>13. Balanced'
  BY <1>12 DEF Balanced
<1> QED
  BY <1>10, <1>13 DEF BInv

LEMMA NextBInv == LInv /\ LInv' /\ BInv /\ [Next]_vars => BInv'
<1> SUFFICES ASSUME LInv, LInv', BInv, [Next]_vars
             PROVE  BInv'
  OBVIOUS
<1>1. CASE PlaceLightest
  BY <1>1, PlaceLightestBInv
<1>2. CASE Sorted
  <2>1. CASE phase' = "refused"
    BY <2>1 DEF BInv, Loads, Balanced, Topo
  <2>2. CASE phase' # "refused"
    <3>1. smOf' = <<>> /\ DOMAIN smOf' = {}
      BY <1>2 DEF Sorted, LInv, PlacedPrefix, Topo
    <3>2. load' = [s \in SMs' |-> <<0, 0, 0>>]
      BY <1>2, <2>2 DEF Sorted, SMs
    <3> QED
      BY <3>1, <3>2 DEF BInv, Loads, Balanced
  <2> QED
    BY <2>1, <2>2
<1>3. CASE PlacePinned \/ PlaceRoundRobin
  <2>1. /\ phase = "place" /\ next <= N /\ UNCHANGED <<load, job, phase, order, grid>> /\ next' = next + 1
        /\ DOMAIN smOf' = DOMAIN smOf \cup {order[next]} /\ (KeepPins \/ job.roundRobin)
        /\ N' = N /\ SMs' = SMs /\ (KeepPins' <=> KeepPins) /\ Topo
    BY <1>3 DEF PlacePinned, PlaceRoundRobin, Place, prog, N, SMs, KeepPins, Pinned, Topo
  <2>2. next \in 1 .. N /\ N \in Nat
    BY <2>1, OrderIndexes DEF LInv, TypeOK
  <2>3. ASSUME NEW u \in DOMAIN smOf'
        PROVE  \E k \in 1 .. N : k < next + 1 /\ order[k] = u
    <3>1. CASE u = order[next]
      BY <2>2, <3>1
    <3>2. CASE u # order[next]
      <4>1. PICK k \in 1 .. N : k < next /\ order[k] = u
        BY <2>1, <3>2 DEF BInv, Loads
      <4> QED
        BY <2>2, <4>1
    <3> QED
      BY <3>1, <3>2
  <2> QED
    BY <2>1, <2>3 DEF BInv, Loads, Balanced
<1>4. CASE Placed \/ Fill \/ Filled
  <2>1. /\ UNCHANGED <<load, job, smOf, grid>> /\ phase' # "place" /\ Topo
        /\ SMs' = SMs /\ (KeepPins' <=> KeepPins)
    BY <1>4 DEF Placed, Fill, Filled, SMs, KeepPins, Pinned, prog, Topo
  <2> QED
    BY <2>1 DEF BInv, Loads, Balanced
<1>5. CASE Validate \/ Seed \/ StartSort \/ Pop \/ Release \/ Released
  BY <1>5 DEF Validate, Seed, StartSort, Pop, Release, Released, BInv, Loads, Balanced, Topo
<1>6. CASE UNCHANGED vars
  BY <1>6 DEF vars, BInv, Loads, Balanced, Topo, prog, N, SMs, KeepPins, Pinned
<1> QED
  BY <1>1, <1>2, <1>3, <1>4, <1>5, <1>6 DEF Next

(***************************************************************************)
(* Cost balancing gives no SM more bytes than another by more than one of  *)
(* the tasks it was given, for every program, cost and grid.               *)
(***************************************************************************)
THEOREM LoadsBalanced == Spec => []Balanced
<1>1. Init => BInv
  BY DEF Init, BInv, Loads, Balanced, Topo
<1>2. BInv => Balanced
  BY DEF BInv
<1> QED
  BY <1>1, <1>2, NextBInv, LoaderInvariance, PTL DEF Spec

-----------------------------------------------------------------------------
(* Lowering: tiles and shards are steps of one width.                      *)

LEMMA Quotient ==
  ASSUME NEW a \in Nat, NEW d \in Nat \ {0}
  PROVE  /\ a \div d \in Nat /\ a % d \in 0 .. d - 1
         /\ a = (a \div d) * d + (a % d)
  OBVIOUS

LEMMA StepsApart ==
  ASSUME NEW i \in Int, NEW j \in Int, i < j, NEW d \in Nat
  PROVE  i * d + d <= j * d
<1>1. PICK e \in Nat : j = i + 1 + e
  <2> WITNESS j - i - 1 \in Nat
  <2> QED OBVIOUS
<1>2. j * d = i * d + d + e * d
  BY <1>1
<1>3. e * d >= 0
  OBVIOUS
<1> QED
  BY <1>2, <1>3

LEMMA LeastOfTwo ==
  ASSUME NEW a \in Int, NEW b \in Int
  PROVE  /\ Minimum({a, b}) = (IF a <= b THEN a ELSE b)
         /\ Maximum({a, b}) = (IF a <= b THEN b ELSE a)
<1>1. /\ \A m \in {a, b} : (\A y \in {a, b} : m <= y) => m = (IF a <= b THEN a ELSE b)
      /\ \E m \in {a, b} : \A y \in {a, b} : m <= y
  OBVIOUS
<1>2. /\ \A m \in {a, b} : (\A y \in {a, b} : y <= m) => m = (IF a <= b THEN b ELSE a)
      /\ \E m \in {a, b} : \A y \in {a, b} : y <= m
  OBVIOUS
<1> QED
  BY <1>1, <1>2 DEF Minimum, Maximum

LEMMA CeilDivBounds ==
  ASSUME NEW a \in Nat, NEW d \in Nat \ {0}
  PROVE  /\ CeilDiv(a, d) \in Nat
         /\ CeilDiv(a, d) * d \in Nat /\ a <= CeilDiv(a, d) * d /\ CeilDiv(a, d) * d < a + d
<1> DEFINE b == a + d - 1
           q == b \div d
<1>1. b \in Nat /\ b = a + d - 1
  OBVIOUS
<1> HIDE DEF b
<1>2. q \in Nat /\ b % d \in 0 .. d - 1 /\ b = q * d + (b % d)
  BY <1>1, Quotient
<1>3. CeilDiv(a, d) = q
  BY DEF CeilDiv, b
<1> HIDE DEF q
<1>4. q * d \in Nat
  BY <1>2
<1> QED
  BY <1>1, <1>2, <1>3, <1>4

(* Steps of width w from 0, the last one cut at size.                      *)
Span(size, w, i) == {k \in 0 .. size - 1 : (i - 1) * w <= k /\ k < (i - 1) * w + w}

LEMMA SpanIs ==
  ASSUME NEW size \in Nat, NEW w \in Nat \ {0}, NEW i \in Nat \ {0}, (i - 1) * w < size
  PROVE  /\ Minimum({w, size - (i - 1) * w}) \in 1 .. w
         /\ (i - 1) * w .. (i - 1) * w + Minimum({w, size - (i - 1) * w}) - 1 = Span(size, w, i)
         /\ Span(size, w, i) # {}
<1> DEFINE a == (i - 1) * w
<1>1. a \in Nat /\ a < size
  OBVIOUS
<1>2. Minimum({w, size - a}) = IF w <= size - a THEN w ELSE size - a
  BY <1>1, LeastOfTwo
<1>3. Span(size, w, i) = {k \in 0 .. size - 1 : a <= k /\ k < a + w}
  BY DEF Span
<1> HIDE DEF a
<1>4. a .. a + Minimum({w, size - a}) - 1 = Span(size, w, i)
  BY <1>1, <1>2, <1>3
<1>5. a \in Span(size, w, i)
  BY <1>1, <1>3
<1>6. Minimum({w, size - a}) \in 1 .. w
  BY <1>1, <1>2
<1>7. Span(size, w, i) # {}
  BY <1>5
<1> QED
  BY <1>4, <1>6, <1>7 DEF a

LEMMA SpansPartition ==
  ASSUME NEW size \in Nat, NEW w \in Nat \ {0}, NEW q \in Nat, size <= q * w
  PROVE  /\ UNION {Span(size, w, i) : i \in 1 .. q} = 0 .. size - 1
         /\ \A i, j \in 1 .. q : i # j => Span(size, w, i) \cap Span(size, w, j) = {}
<1>1. ASSUME NEW k \in 0 .. size - 1 PROVE \E i \in 1 .. q : k \in Span(size, w, i)
  <2>1. PICK c \in Nat, r \in 0 .. w - 1 : k = c * w + r
    <3>1. k \in Nat
      OBVIOUS
    <3> QED
      BY <3>1, Quotient
  <2>2. ~ (q <= c)
    <3> SUFFICES ASSUME q <= c PROVE FALSE
      OBVIOUS
    <3>1. q * w <= c * w
      <4>1. CASE q = c
        BY <4>1
      <4>2. CASE q < c
        BY <4>2, StepsApart
      <4> QED
        BY <4>1, <4>2
    <3> QED
      BY <2>1, <3>1
  <2>3. c + 1 \in 1 .. q /\ (c + 1) - 1 = c
    BY <2>2
  <2>4. k \in Span(size, w, c + 1)
    BY <2>1, <2>3 DEF Span
  <2> QED
    BY <2>3, <2>4
<1>2. ASSUME NEW i \in 1 .. q, NEW j \in 1 .. q, i < j PROVE Span(size, w, i) \cap Span(size, w, j) = {}
  <2>1. (i - 1) * w + w <= (j - 1) * w
    BY <1>2, StepsApart
  <2> QED
    BY <2>1 DEF Span
<1>3. \A i, j \in 1 .. q : i # j => i < j \/ j < i
  OBVIOUS
<1>4. UNION {Span(size, w, i) : i \in 1 .. q} = 0 .. size - 1
  BY <1>1 DEF Span
<1> QED
  BY <1>2, <1>3, <1>4

LEMMA TileWidths ==
  ASSUME args \in Requests, NEW size \in Nat \ {0}
  PROVE  /\ TileWidth(size) \in Nat \ {0}
         /\ CeilDiv(size, TileWidth(size)) \in 1 .. MAX_TILES
         /\ size <= CeilDiv(size, TileWidth(size)) * TileWidth(size)
         /\ CeilDiv(size, TileWidth(size)) * TileWidth(size) < size + TileWidth(size)
<1> DEFINE wanted == IF args.N_tile # None THEN args.N_tile ELSE Maximum({MIN_AUTO_TILE, args.base_width})
           clamped == Maximum({1, Minimum({wanted, size})})
<1>1. MAX_TILES \in Nat \ {0} /\ MIN_AUTO_TILE \in Nat
  BY LimitsAssumption
<1>2. wanted \in Int
  <2>1. args.N_tile \in Int \cup {None} /\ args.base_width \in Int
    BY RequestsAssumption DEF RequestType
  <2>2. Maximum({MIN_AUTO_TILE, args.base_width}) \in Int
    <3>1. PICK a \in Int, b \in Int : a = MIN_AUTO_TILE /\ b = args.base_width
      BY <1>1, <2>1
    <3>2. Maximum({a, b}) = IF a <= b THEN b ELSE a
      BY LeastOfTwo
    <3> QED
      BY <3>1, <3>2
  <2> QED
    BY <2>1, <2>2
<1> HIDE DEF wanted
<1>3. clamped \in Nat \ {0}
  <2>1. PICK m \in Int : m = Minimum({wanted, size})
    BY <1>2, LeastOfTwo
  <2>2. Maximum({1, m}) = IF 1 <= m THEN m ELSE 1
    BY LeastOfTwo
  <2> QED
    BY <2>1, <2>2
<1> HIDE DEF clamped
<1>4. TileWidth(size) = IF CeilDiv(size, clamped) > MAX_TILES THEN CeilDiv(size, MAX_TILES) ELSE clamped
  BY DEF TileWidth, clamped, wanted
<1>5. TileWidth(size) \in Nat \ {0}
  <2>1. CeilDiv(size, MAX_TILES) \in Nat /\ size <= CeilDiv(size, MAX_TILES) * MAX_TILES
    BY <1>1, CeilDivBounds
  <2>2. CeilDiv(size, MAX_TILES) # 0
    BY <1>1, <2>1
  <2> QED
    BY <1>3, <1>4, <2>1, <2>2
<1>6. PICK w \in Nat \ {0} : w = TileWidth(size)
  BY <1>5
<1>7. PICK q \in Nat : q = CeilDiv(size, w) /\ q * w \in Nat /\ size <= q * w /\ q * w < size + w
  BY <1>6, CeilDivBounds
<1>8. q # 0
  BY <1>7
<1>9. q <= MAX_TILES
  <2>1. CASE CeilDiv(size, clamped) <= MAX_TILES
    BY <1>1, <1>3, <1>4, <1>6, <1>7, <2>1, CeilDivBounds
  <2>2. CASE ~ (CeilDiv(size, clamped) <= MAX_TILES)
    <3>1. CeilDiv(size, clamped) > MAX_TILES
      BY <1>1, <1>3, <2>2, CeilDivBounds
    <3>2. w = CeilDiv(size, MAX_TILES)
      BY <1>4, <1>6, <3>1
    <3>3. size <= MAX_TILES * w
      <4>1. size <= w * MAX_TILES
        BY <1>1, <3>2, CeilDivBounds
      <4> QED
        BY <1>1, <4>1
    <3> SUFFICES ASSUME MAX_TILES < q PROVE FALSE
      BY <1>1
    <3>4. MAX_TILES * w + w <= q * w
      BY <1>1, StepsApart
    <3> QED
      BY <1>1, <1>7, <3>3, <3>4
  <2> QED
    BY <2>1, <2>2
<1> QED
  BY <1>6, <1>7, <1>8, <1>9

-----------------------------------------------------------------------------
(* The graph: every node writes a tensor of its own.                       *)

(* What a layer's nodes write, in their order.                             *)
OutNames == <<"an", "q", "k", "v", "qr", "kr", "kcache", "vcache", "attn", "o", "h_attn", "mn", "gate", "up",
              "act", "d", "h_mlp">>
Residual(L) == IF L = 1 THEN <<0, "h0">> ELSE <<L - 1, "h_mlp">>

LEMMA NamesApart ==
  \A j, k \in 1 .. 17 : OutNames[j] = OutNames[k] => j = k
BY DEF OutNames

LEMMA LayerNodeFacts ==
  ASSUME NEW L \in Nat \ {0}, NEW j \in 1 .. 17
  PROVE  LET n == LayerNodes(L)[j]
         IN  /\ n.output = <<L, OutNames[j]>>
             /\ n.op = "linear" => n.N \in Nat \ {0}
             /\ n.op = "attention" =>
                  j = 9 /\ n.inputs = <<<<L, "qr">>, <<L, "kcache">>, <<L, "vcache">>>>
<1> DEFINE T(name) == <<L, name>>
<1>1. /\ Dims["hidden"] \in Nat \ {0} /\ Dims["q"] \in Nat \ {0}
      /\ Dims["kv"] \in Nat \ {0} /\ Dims["inter"] \in Nat \ {0}
  BY LimitsAssumption
<1>2. CASE j = 1
  <2>1. LayerNodes(L)[j] = Node("rmsnorm", <<Residual(L)>>, T("an"), T("in_norm"), 0)
    BY <1>2 DEF LayerNodes, Residual
  <2> QED
    BY <1>1, <1>2, <2>1 DEF Node, OutNames
<1>3. CASE j = 2
  <2>1. LayerNodes(L)[j] = Node("linear", <<T("an")>>, T("q"), T("q_proj"), Dims["q"])
    BY <1>3 DEF LayerNodes, Residual
  <2> QED
    BY <1>1, <1>3, <2>1 DEF Node, OutNames
<1>4. CASE j = 3
  <2>1. LayerNodes(L)[j] = Node("linear", <<T("an")>>, T("k"), T("k_proj"), Dims["kv"])
    BY <1>4 DEF LayerNodes, Residual
  <2> QED
    BY <1>1, <1>4, <2>1 DEF Node, OutNames
<1>5. CASE j = 4
  <2>1. LayerNodes(L)[j] = Node("linear", <<T("an")>>, T("v"), T("v_proj"), Dims["kv"])
    BY <1>5 DEF LayerNodes, Residual
  <2> QED
    BY <1>1, <1>5, <2>1 DEF Node, OutNames
<1>6. CASE j = 5
  <2>1. LayerNodes(L)[j] = Node("rope", <<T("q")>>, T("qr"), None, 0)
    BY <1>6 DEF LayerNodes, Residual
  <2> QED
    BY <1>1, <1>6, <2>1 DEF Node, OutNames
<1>7. CASE j = 6
  <2>1. LayerNodes(L)[j] = Node("rope", <<T("k")>>, T("kr"), None, 0)
    BY <1>7 DEF LayerNodes, Residual
  <2> QED
    BY <1>1, <1>7, <2>1 DEF Node, OutNames
<1>8. CASE j = 7
  <2>1. LayerNodes(L)[j] = Node("kv_append", <<T("kr")>>, T("kcache"), None, 0)
    BY <1>8 DEF LayerNodes, Residual
  <2> QED
    BY <1>1, <1>8, <2>1 DEF Node, OutNames
<1>9. CASE j = 8
  <2>1. LayerNodes(L)[j] = Node("kv_append", <<T("v")>>, T("vcache"), None, 0)
    BY <1>9 DEF LayerNodes, Residual
  <2> QED
    BY <1>1, <1>9, <2>1 DEF Node, OutNames
<1>10. CASE j = 9
  <2>1. LayerNodes(L)[j] = Node("attention", <<T("qr"), T("kcache"), T("vcache")>>, T("attn"), None, 0)
    BY <1>10 DEF LayerNodes, Residual
  <2> QED
    BY <1>1, <1>10, <2>1 DEF Node, OutNames
<1>11. CASE j = 10
  <2>1. LayerNodes(L)[j] = Node("linear", <<T("attn")>>, T("o"), T("o_proj"), Dims["hidden"])
    BY <1>11 DEF LayerNodes, Residual
  <2> QED
    BY <1>1, <1>11, <2>1 DEF Node, OutNames
<1>12. CASE j = 11
  <2>1. LayerNodes(L)[j] = Node("add", <<Residual(L), T("o")>>, T("h_attn"), None, 0)
    BY <1>12 DEF LayerNodes, Residual
  <2> QED
    BY <1>1, <1>12, <2>1 DEF Node, OutNames
<1>13. CASE j = 12
  <2>1. LayerNodes(L)[j] = Node("rmsnorm", <<T("h_attn")>>, T("mn"), T("post_norm"), 0)
    BY <1>13 DEF LayerNodes, Residual
  <2> QED
    BY <1>1, <1>13, <2>1 DEF Node, OutNames
<1>14. CASE j = 13
  <2>1. LayerNodes(L)[j] = Node("linear", <<T("mn")>>, T("gate"), T("gate"), Dims["inter"])
    BY <1>14 DEF LayerNodes, Residual
  <2> QED
    BY <1>1, <1>14, <2>1 DEF Node, OutNames
<1>15. CASE j = 14
  <2>1. LayerNodes(L)[j] = Node("linear", <<T("mn")>>, T("up"), T("up"), Dims["inter"])
    BY <1>15 DEF LayerNodes, Residual
  <2> QED
    BY <1>1, <1>15, <2>1 DEF Node, OutNames
<1>16. CASE j = 15
  <2>1. LayerNodes(L)[j] = Node("swiglu", <<T("gate"), T("up")>>, T("act"), None, 0)
    BY <1>16 DEF LayerNodes, Residual
  <2> QED
    BY <1>1, <1>16, <2>1 DEF Node, OutNames
<1>17. CASE j = 16
  <2>1. LayerNodes(L)[j] = Node("linear", <<T("act")>>, T("d"), T("down"), Dims["hidden"])
    BY <1>17 DEF LayerNodes, Residual
  <2> QED
    BY <1>1, <1>17, <2>1 DEF Node, OutNames
<1>18. CASE j = 17
  <2>1. LayerNodes(L)[j] = Node("add", <<T("h_attn"), T("d")>>, T("h_mlp"), None, 0)
    BY <1>18 DEF LayerNodes, Residual
  <2> QED
    BY <1>1, <1>18, <2>1 DEF Node, OutNames
<1> QED
  BY <1>2, <1>3, <1>4, <1>5, <1>6, <1>7, <1>8, <1>9, <1>10, <1>11, <1>12, <1>13, <1>14, <1>15, <1>16, <1>17, <1>18

(* The elements of two sequences, one after the other.                     *)
LEMMA Joined ==
  ASSUME NEW S, NEW a \in Seq(S), NEW b \in Seq(S)
  PROVE  /\ a \o b \in Seq(S) /\ Len(a \o b) = Len(a) + Len(b)
         /\ DOMAIN (a \o b) = 1 .. Len(a) + Len(b)
         /\ \A i \in 1 .. Len(a) : (a \o b)[i] = a[i]
         /\ \A i \in 1 .. Len(b) : (a \o b)[Len(a) + i] = b[i]
         /\ \A i \in 1 .. Len(a) + Len(b) : i > Len(a) => (a \o b)[i] = b[i - Len(a)]
OBVIOUS

LEMMA Listed ==
  ASSUME NEW S, NEW k \in Nat, NEW f, f = [i \in 1 .. k |-> f[i]], \A i \in 1 .. k : f[i] \in S
  PROVE  f \in Seq(S) /\ Len(f) = k
OBVIOUS

Middle == [i \in 1 .. args.layers * LAYER_NODES |->
            LayerNodes((i - 1) \div LAYER_NODES + 1)[((i - 1) % LAYER_NODES) + 1]]
EmbedNode == Node("embed", <<<<0, "token_id">>>>, <<0, "h0">>, <<0, "embed">>, 0)
NormNode == Node("rmsnorm", <<IF args.layers = 0 THEN <<0, "h0">> ELSE <<args.layers, "h_mlp">>>>,
             <<0, "hf">>, <<0, "final_norm">>, 0)
LogitsNode == Node("linear", <<<<0, "hf">>>>, <<0, "logits">>,
             <<0, IF args.tied THEN "embed" ELSE "lm_head">>, Dims["vocab"])

(* The nodes of the graph by position.                                     *)
LEMMA GraphIs ==
  ASSUME args \in Requests
  PROVE  LET m == args.layers * 17
         IN  /\ m \in Nat
             /\ DOMAIN Graph = 1 .. m + 3 /\ Len(Graph) = m + 3
             /\ Graph[1] = EmbedNode /\ Graph[m + 2] = NormNode /\ Graph[m + 3] = LogitsNode
             /\ \A i \in 1 .. m : Graph[i + 1] = LayerNodes((i - 1) \div 17 + 1)[((i - 1) % 17) + 1]
<1> DEFINE m == args.layers * 17
           S == {EmbedNode, NormNode, LogitsNode} \cup {Middle[i] : i \in 1 .. m}
<1>1. m \in Nat
  BY RequestsAssumption DEF RequestType
<1>2. Graph = <<EmbedNode>> \o Middle \o <<NormNode, LogitsNode>>
  BY DEF Graph, EmbedNode, Middle, NormNode, LogitsNode
<1>3. Middle = [i \in 1 .. m |-> Middle[i]] /\ DOMAIN Middle = 1 .. m
  BY DEF Middle, LAYER_NODES
<1>4. \A i \in 1 .. m : Middle[i] = LayerNodes((i - 1) \div 17 + 1)[((i - 1) % 17) + 1]
  BY DEF Middle, LAYER_NODES
<1>5. EmbedNode \in S /\ NormNode \in S /\ LogitsNode \in S /\ \A i \in 1 .. m : Middle[i] \in S
  OBVIOUS
<1> HIDE DEF m, S
<1>6. Middle \in Seq(S) /\ Len(Middle) = m
  BY <1>1, <1>3, <1>5, Listed
<1>7. <<EmbedNode>> \in Seq(S) /\ Len(<<EmbedNode>>) = 1 /\ <<EmbedNode>>[1] = EmbedNode
  BY <1>5
<1>8. /\ <<NormNode, LogitsNode>> \in Seq(S) /\ Len(<<NormNode, LogitsNode>>) = 2
      /\ <<NormNode, LogitsNode>>[1] = NormNode /\ <<NormNode, LogitsNode>>[2] = LogitsNode
  BY <1>5
<1> DEFINE ab == <<EmbedNode>> \o Middle
<1>9. /\ ab \in Seq(S) /\ Len(ab) = 1 + m /\ ab[1] = EmbedNode
      /\ \A i \in 1 .. m : ab[1 + i] = Middle[i]
  <2>1. \A i \in 1 .. Len(<<EmbedNode>>) : ab[i] = <<EmbedNode>>[i]
    BY <1>6, <1>7, Joined
  <2>2. \A i \in 1 .. Len(Middle) : ab[Len(<<EmbedNode>>) + i] = Middle[i]
    BY <1>6, <1>7, Joined
  <2>3. ab \in Seq(S) /\ Len(ab) = Len(<<EmbedNode>>) + Len(Middle)
    BY <1>6, <1>7, Joined
  <2> QED
    BY <1>1, <1>6, <1>7, <2>1, <2>2, <2>3
<1> HIDE DEF ab
<1>10. Graph = ab \o <<NormNode, LogitsNode>>
  BY <1>2 DEF ab
<1>11. /\ Len(Graph) = m + 3 /\ DOMAIN Graph = 1 .. m + 3
       /\ \A i \in 1 .. m + 1 : Graph[i] = ab[i]
       /\ Graph[m + 2] = NormNode /\ Graph[m + 3] = LogitsNode
  <2>1. \A i \in 1 .. Len(ab) : Graph[i] = ab[i]
    BY <1>8, <1>9, <1>10, Joined
  <2>2. \A i \in 1 .. Len(<<NormNode, LogitsNode>>) : Graph[Len(ab) + i] = <<NormNode, LogitsNode>>[i]
    BY <1>8, <1>9, <1>10, Joined
  <2>3. /\ Len(Graph) = Len(ab) + Len(<<NormNode, LogitsNode>>)
        /\ DOMAIN Graph = 1 .. Len(ab) + Len(<<NormNode, LogitsNode>>)
    BY <1>8, <1>9, <1>10, Joined
  <2>4. Graph[(1 + m) + 1] = NormNode /\ Graph[(1 + m) + 2] = LogitsNode
    BY <1>8, <1>9, <2>2
  <2>5. (1 + m) + 1 = m + 2 /\ (1 + m) + 2 = m + 3 /\ 1 + m = m + 1
    BY <1>1
  <2> QED
    BY <1>1, <1>8, <1>9, <2>1, <2>3, <2>4, <2>5
<1>12. \A i \in 1 .. m : Graph[i + 1] = Middle[i]
  BY <1>1, <1>9, <1>11
<1>13. Graph[1] = EmbedNode
  BY <1>1, <1>9, <1>11
<1> QED
  BY <1>1, <1>4, <1>11, <1>12, <1>13 DEF m

IsPair(x) == \E l, name : x = <<l, name>>

LEMMA PairsApart ==
  ASSUME NEW x, IsPair(x), NEW a, NEW b, NEW i
  PROVE  x # <<a, b, "hs">> /\ x # <<a, b, "part", i>>
<1>1. PICK l, name : x = <<l, name>>
  BY DEF IsPair
<1>2. Len(x) = 2 /\ Len(<<a, b, "hs">>) = 3 /\ Len(<<a, b, "part", i>>) = 4
  BY <1>1
<1> QED
  BY <1>2

(* Position j of layer L.                                                  *)
LEMMA PlaceOf ==
  ASSUME NEW m \in Nat, NEW i \in 1 .. m * 17
  PROVE  \E L \in 1 .. m, j \in 1 .. 17 : /\ i = (L - 1) * 17 + j
                                          /\ (i - 1) \div 17 + 1 = L /\ ((i - 1) % 17) + 1 = j
<1> DEFINE L == (i - 1) \div 17 + 1
           j == ((i - 1) % 17) + 1
<1>1. i - 1 = ((i - 1) \div 17) * 17 + ((i - 1) % 17) /\ (i - 1) \div 17 \in Nat /\ (i - 1) % 17 \in 0 .. 16
  OBVIOUS
<1>2. L \in 1 .. m /\ j \in 1 .. 17 /\ i = (L - 1) * 17 + j
  BY <1>1
<1> QED
  BY <1>2

LEMMA InLayer ==
  ASSUME args \in Requests, NEW L \in 1 .. args.layers, NEW j \in 1 .. 17
  PROVE  /\ (L - 1) * 17 + j + 1 \in DOMAIN Graph
         /\ Graph[(L - 1) * 17 + j + 1] = LayerNodes(L)[j]
<1>1. args.layers \in Nat
  BY RequestsAssumption DEF RequestType
<1> DEFINE i == (L - 1) * 17 + j
<1>2. i \in 1 .. args.layers * 17
  BY <1>1
<1>3. (i - 1) \div 17 + 1 = L /\ ((i - 1) % 17) + 1 = j
  BY <1>1
<1>4. i + 1 \in DOMAIN Graph /\ Graph[i + 1] = LayerNodes((i - 1) \div 17 + 1)[((i - 1) % 17) + 1]
  BY <1>1, <1>2, GraphIs
<1> QED
  BY <1>3, <1>4

(* Where node i is, and what it writes.                                    *)
NodePlace(i) ==
  LET m == args.layers * 17
  IN  \/ i = 1 /\ Graph[i].output = <<0, "h0">> /\ Graph[i].op = "embed"
      \/ i = m + 2 /\ Graph[i].output = <<0, "hf">> /\ Graph[i].op = "rmsnorm"
      \/ i = m + 3 /\ Graph[i].output = <<0, "logits">> /\ Graph[i].op = "linear" /\ Graph[i].N = Dims["vocab"]
      \/ \E L \in 1 .. args.layers, j \in 1 .. 17 :
           /\ i = (L - 1) * 17 + j + 1
           /\ Graph[i] = LayerNodes(L)[j]
           /\ Graph[i].output = <<L, OutNames[j]>>

LEMMA PlaceIs ==
  ASSUME args \in Requests, NEW i \in DOMAIN Graph
  PROVE  NodePlace(i)
<1>1. args.layers \in Nat
  BY RequestsAssumption DEF RequestType
<1> DEFINE m == args.layers * 17
<1>2. m \in Nat /\ i \in 1 .. m + 3 /\ Graph[1] = EmbedNode /\ Graph[m + 2] = NormNode /\ Graph[m + 3] = LogitsNode
  BY GraphIs
<1>3. CASE i = 1
  BY <1>2, <1>3 DEF NodePlace, EmbedNode, Node
<1>4. CASE i = m + 2
  BY <1>2, <1>4 DEF NodePlace, NormNode, Node
<1>5. CASE i = m + 3
  BY <1>2, <1>5 DEF NodePlace, LogitsNode, Node
<1>6. CASE i - 1 \in 1 .. m
  <2>1. PICK L \in 1 .. args.layers, j \in 1 .. 17 : i - 1 = (L - 1) * 17 + j
    BY <1>1, <1>6, PlaceOf
  <2>2. Graph[i] = LayerNodes(L)[j]
    <3>1. i = (L - 1) * 17 + j + 1
      BY <1>1, <1>2, <2>1
    <3> QED
      BY <3>1, InLayer
  <2>3. LayerNodes(L)[j].output = <<L, OutNames[j]>>
    BY <1>1, LayerNodeFacts
  <2>4. i = (L - 1) * 17 + j + 1
    BY <1>1, <1>2, <2>1
  <2> QED
    BY <2>2, <2>3, <2>4 DEF NodePlace
<1>7. i = 1 \/ i = m + 2 \/ i = m + 3 \/ i - 1 \in 1 .. m
  BY <1>2
<1> QED
  BY <1>3, <1>4, <1>5, <1>6, <1>7

LEMMA OutputsApart ==
  ASSUME args \in Requests, NEW i \in DOMAIN Graph, NEW j \in DOMAIN Graph, Graph[i].output = Graph[j].output
  PROVE  i = j
<1>1. args.layers \in Nat
  BY RequestsAssumption DEF RequestType
<1>2. NodePlace(i) /\ NodePlace(j)
  BY PlaceIs
<1>3. \A L1, L2, a, b : <<L1, a>> = <<L2, b>> => L1 = L2 /\ a = b
  OBVIOUS
<1>4. \A L \in 1 .. args.layers : L # 0
  BY <1>1
<1> DEFINE InL(k) == \E L \in 1 .. args.layers, n \in 1 .. 17 :
                       k = (L - 1) * 17 + n + 1 /\ Graph[k].output = <<L, OutNames[n]>>
           Alone(k, out) == Graph[k].output = <<0, out>>
<1>5. \A k \in {i, j} : \/ k = 1 /\ Alone(k, "h0")
                        \/ k = args.layers * 17 + 2 /\ Alone(k, "hf")
                        \/ k = args.layers * 17 + 3 /\ Alone(k, "logits")
                        \/ InL(k)
  BY <1>2 DEF NodePlace
<1>6. CASE InL(i) /\ InL(j)
  <2>1. PICK L1 \in 1 .. args.layers, a \in 1 .. 17 :
          i = (L1 - 1) * 17 + a + 1 /\ Graph[i].output = <<L1, OutNames[a]>>
    BY <1>6
  <2>2. PICK L2 \in 1 .. args.layers, b \in 1 .. 17 :
          j = (L2 - 1) * 17 + b + 1 /\ Graph[j].output = <<L2, OutNames[b]>>
    BY <1>6
  <2>3. L1 = L2 /\ OutNames[a] = OutNames[b]
    BY <1>3, <2>1, <2>2
  <2>4. a = b
    BY <2>3, NamesApart
  <2> QED
    BY <2>1, <2>2, <2>3, <2>4
<1>7. ASSUME NEW k \in {i, j}, InL(k), NEW o, Alone(k, o) PROVE FALSE
  <2>1. PICK L \in 1 .. args.layers, a \in 1 .. 17 : Graph[k].output = <<L, OutNames[a]>>
    BY <1>7
  <2> QED
    BY <1>3, <1>4, <1>7, <2>1
<1>8. ASSUME NEW o, NEW q, Alone(i, o), Alone(j, q) PROVE o = q
  BY <1>3, <1>8
<1>9. \A k \in {i, j} : \A o : Alone(k, o) => Alone(i, o) /\ Alone(j, o)
  OBVIOUS
<1> HIDE DEF InL, Alone
<1> QED
  BY <1>5, <1>6, <1>7, <1>8, <1>9

LEMMA GraphFacts ==
  ASSUME args \in Requests, NEW i \in DOMAIN Graph
  PROVE  /\ IsPair(Graph[i].output)
         /\ Graph[i].op = "linear" => Graph[i].N \in Nat \ {0}
         /\ Graph[i].op = "attention" =>
              \E L : /\ Graph[i].output = <<L, "attn">>
                     /\ Graph[i].inputs = <<<<L, "qr">>, <<L, "kcache">>, <<L, "vcache">>>>
                     /\ \E a, b, c \in DOMAIN Graph :
                          /\ a < i /\ Graph[a].output = <<L, "qr">>
                          /\ b < i /\ Graph[b].output = <<L, "kcache">>
                          /\ c < i /\ Graph[c].output = <<L, "vcache">>
<1>1. args.layers \in Nat /\ Dims["vocab"] \in Nat \ {0}
  BY RequestsAssumption, LimitsAssumption DEF RequestType
<1>2. NodePlace(i)
  BY PlaceIs
<1>3. CASE \E L \in 1 .. args.layers, j \in 1 .. 17 :
             /\ i = (L - 1) * 17 + j + 1
             /\ Graph[i] = LayerNodes(L)[j]
             /\ Graph[i].output = <<L, OutNames[j]>>
  <2>1. PICK L \in 1 .. args.layers, j \in 1 .. 17 :
             /\ i = (L - 1) * 17 + j + 1
             /\ Graph[i] = LayerNodes(L)[j]
             /\ Graph[i].output = <<L, OutNames[j]>>
    BY <1>3
  <2>2. L \in Nat \ {0}
    BY <1>1
  <2>3. /\ Graph[i].op = "linear" => Graph[i].N \in Nat \ {0}
        /\ Graph[i].op = "attention" => j = 9 /\ Graph[i].inputs = <<<<L, "qr">>, <<L, "kcache">>, <<L, "vcache">>>>
    BY <2>1, <2>2, LayerNodeFacts
  <2>4. IsPair(Graph[i].output)
    BY <2>1 DEF IsPair
  <2>5. ASSUME Graph[i].op = "attention"
        PROVE  /\ Graph[i].output = <<L, "attn">>
               /\ \E a, b, c \in DOMAIN Graph :
                          /\ a < i /\ Graph[a].output = <<L, "qr">>
                          /\ b < i /\ Graph[b].output = <<L, "kcache">>
                          /\ c < i /\ Graph[c].output = <<L, "vcache">>
    <3>1. j = 9 /\ OutNames[9] = "attn" /\ OutNames[5] = "qr" /\ OutNames[7] = "kcache" /\ OutNames[8] = "vcache"
      BY <2>3, <2>5 DEF OutNames
    <3>2. \A k \in 1 .. 17 : /\ (L - 1) * 17 + k + 1 \in DOMAIN Graph
                             /\ Graph[(L - 1) * 17 + k + 1].output = <<L, OutNames[k]>>
      <4> TAKE k \in 1 .. 17
      <4>1. (L - 1) * 17 + k + 1 \in DOMAIN Graph /\ Graph[(L - 1) * 17 + k + 1] = LayerNodes(L)[k]
        BY InLayer
      <4>2. LayerNodes(L)[k].output = <<L, OutNames[k]>>
        BY <2>2, LayerNodeFacts
      <4> QED
        BY <4>1, <4>2
    <3>3. Graph[i].output = <<L, "attn">>
      BY <2>1, <3>1
    <3> DEFINE a == (L - 1) * 17 + 5 + 1
               b == (L - 1) * 17 + 7 + 1
               c == (L - 1) * 17 + 8 + 1
    <3>4. a < i /\ b < i /\ c < i
      BY <2>1, <2>2, <3>1
    <3>5. /\ a \in DOMAIN Graph /\ Graph[a].output = <<L, "qr">>
          /\ b \in DOMAIN Graph /\ Graph[b].output = <<L, "kcache">>
          /\ c \in DOMAIN Graph /\ Graph[c].output = <<L, "vcache">>
      BY <3>1, <3>2
    <3> HIDE DEF a, b, c
    <3> QED
      BY <3>3, <3>4, <3>5
  <2> QED
    BY <2>3, <2>4, <2>5
<1>4. CASE Graph[i].op = "embed" /\ Graph[i].output = <<0, "h0">>
  BY <1>4 DEF IsPair
<1>5. CASE Graph[i].op = "rmsnorm" /\ Graph[i].output = <<0, "hf">>
  BY <1>5 DEF IsPair
<1>6. CASE Graph[i].op = "linear" /\ Graph[i].output = <<0, "logits">> /\ Graph[i].N = Dims["vocab"]
  BY <1>1, <1>6 DEF IsPair
<1> QED
  BY <1>2, <1>3, <1>4, <1>5, <1>6 DEF NodePlace

-----------------------------------------------------------------------------
(* The builder's state: what every handler finds and leaves.               *)
IsList(q) == q \in Seq(Elements(q))

Shaped(s) ==
  {"p", "buf", "ready", "wbuf"} \subseteq DOMAIN s /\ {"buffers", "counters", "tasks"} \subseteq DOMAIN s.p

Built(s) ==
  /\ Shaped(s)
  /\ IsList(s.p.buffers) /\ IsList(s.p.counters) /\ IsList(s.p.tasks)
  /\ \A t \in TaskIds(s.p) : /\ s.p.tasks[t].out_counter \in 1 .. Len(s.p.counters)
                             /\ s.p.tasks[t].outputs \subseteq 1 .. Len(s.p.buffers)
  /\ \A x \in DOMAIN s.buf : s.buf[x] \in 1 .. Len(s.p.buffers)
  /\ \A x, y \in DOMAIN s.buf : s.buf[x] = s.buf[y] => x = y
  /\ DOMAIN s.ready \subseteq DOMAIN s.buf
  /\ \A x \in DOMAIN s.ready : s.ready[x].counter \in 1 .. Len(s.p.counters)

EdgesWhole(s, open) == \A x \in DOMAIN s.ready \ open : EdgeIsWhole(s, x)

LEMMA ListFacts ==
  ASSUME NEW q, IsList(q)
  PROVE  Len(q) \in Nat /\ DOMAIN q = 1 .. Len(q)
BY DEF IsList

LEMMA ListJoined ==
  ASSUME NEW q, IsList(q), NEW k \in Nat, NEW f, f = [i \in 1 .. k |-> f[i]]
  PROVE  /\ IsList(q \o f) /\ Len(q \o f) = Len(q) + k
         /\ \A i \in 1 .. Len(q) : (q \o f)[i] = q[i]
         /\ \A i \in 1 .. k : (q \o f)[Len(q) + i] = f[i]
         /\ \A i \in Len(q) + 1 .. Len(q) + k : (q \o f)[i] = f[i - Len(q)] /\ i - Len(q) \in 1 .. k
<1> DEFINE S == Elements(q) \cup Elements(f)
           r == q \o f
<1>1. q \in Seq(Elements(q)) /\ Len(q) \in Nat /\ DOMAIN q = 1 .. Len(q)
  BY DEF IsList
<1>2. q \in Seq(S)
  <2>1. \A i \in 1 .. Len(q) : q[i] \in S
    BY <1>1 DEF Elements
  <2>2. q = [i \in 1 .. Len(q) |-> q[i]]
    BY <1>1
  <2> HIDE DEF S
  <2> QED
    BY <1>1, <2>1, <2>2, Listed
<1>3. f \in Seq(S) /\ Len(f) = k
  <2>1. \A i \in 1 .. k : f[i] \in S
    BY DEF Elements
  <2> HIDE DEF S
  <2> QED
    BY <2>1, Listed
<1> HIDE DEF S
<1>4. /\ r \in Seq(S) /\ Len(r) = Len(q) + Len(f) /\ DOMAIN r = 1 .. Len(q) + Len(f)
      /\ \A i \in 1 .. Len(q) : r[i] = q[i]
      /\ \A i \in 1 .. Len(f) : r[Len(q) + i] = f[i]
      /\ \A i \in 1 .. Len(q) + Len(f) : i > Len(q) => r[i] = f[i - Len(q)]
  BY <1>2, <1>3, Joined
<1> HIDE DEF r
<1>5. IsList(r)
  <2>1. r = [i \in 1 .. Len(r) |-> r[i]] /\ Len(r) \in Nat
    BY <1>4
  <2>2. \A i \in 1 .. Len(r) : r[i] \in Elements(r)
    BY <1>4 DEF Elements
  <2> QED
    BY <2>1, <2>2, Listed DEF IsList
<1> QED
  BY <1>1, <1>3, <1>4, <1>5 DEF r

LEMMA ListAppended ==
  ASSUME NEW q, IsList(q), NEW v
  PROVE  /\ IsList(Append(q, v)) /\ Len(Append(q, v)) = Len(q) + 1
         /\ \A i \in 1 .. Len(q) : Append(q, v)[i] = q[i]
<1> DEFINE r == Append(q, v)
           S == Elements(q) \cup {v}
<1>1. q \in Seq(Elements(q)) /\ Len(q) \in Nat /\ DOMAIN q = 1 .. Len(q)
  BY DEF IsList
<1>2. q \in Seq(S)
  <2>1. \A i \in 1 .. Len(q) : q[i] \in S
    BY <1>1 DEF Elements
  <2>2. q = [i \in 1 .. Len(q) |-> q[i]]
    BY <1>1
  <2> HIDE DEF S
  <2> QED
    BY <1>1, <2>1, <2>2, Listed
<1>3. v \in S
  OBVIOUS
<1> HIDE DEF S
<1>4. r \in Seq(S) /\ Len(r) = Len(q) + 1 /\ \A i \in 1 .. Len(q) : r[i] = q[i]
  BY <1>2, <1>3
<1> HIDE DEF r
<1>5. IsList(r)
  <2>1. r = [i \in 1 .. Len(r) |-> r[i]] /\ Len(r) \in Nat
    BY <1>4
  <2>2. \A i \in 1 .. Len(r) : r[i] \in Elements(r)
    BY <1>4 DEF Elements
  <2> QED
    BY <2>1, <2>2, Listed DEF IsList
<1> QED
  BY <1>4, <1>5 DEF r

(* An edge stays whole when no new task writes its tensor or counts in it. *)
LEMMA EdgeKept ==
  ASSUME NEW s, NEW e, NEW x, EdgeIsWhole(s, x),
         e.buf[x] = s.buf[x], e.ready[x] = s.ready[x],
         TaskIds(s.p) \subseteq TaskIds(e.p),
         \A t \in TaskIds(s.p) : e.p.tasks[t] = s.p.tasks[t],
         \A t \in TaskIds(e.p) \ TaskIds(s.p) :
           /\ s.buf[x] \notin e.p.tasks[t].outputs
           /\ e.p.tasks[t].out_counter # s.ready[x].counter
  PROVE  EdgeIsWhole(e, x)
<1>1. Writers(e.p, e.buf[x]) = Writers(s.p, s.buf[x])
  BY DEF Writers
<1>2. Producers(e.p, e.ready[x].counter) = Producers(s.p, s.ready[x].counter)
  BY DEF Producers
<1>3. \A u \in Writers(s.p, s.buf[x]) : Columns(e, u) = Columns(s, u)
  BY DEF Writers, Columns
<1> QED
  BY <1>1, <1>2, <1>3 DEF EdgeIsWhole

(* e is s with a buffer for x that nothing writes yet.                     *)
BufferAdded(s, e, x) ==
  /\ Built(e)
  /\ e.p.tasks = s.p.tasks
  /\ DOMAIN e.buf = DOMAIN s.buf \cup {x}
  /\ \A y \in DOMAIN s.buf : y # x => e.buf[y] = s.buf[y]
  /\ Writers(e.p, e.buf[x]) = {}
  /\ EdgesWhole(s, {}) => EdgesWhole(e, {x})

LEMMA NewBufferIs ==
  ASSUME NEW s, Built(s), NEW x, NEW kind
  PROVE  BufferAdded(s, NewBuffer(s, x, kind), x)
<1> DEFINE e == NewBuffer(s, x, kind)
           n == Len(s.p.buffers)
<1>1. /\ e.p.tasks = s.p.tasks /\ e.p.counters = s.p.counters /\ e.ready = s.ready
      /\ e.p.buffers = Append(s.p.buffers, kind) /\ Shaped(e)
      /\ DOMAIN e.buf = DOMAIN s.buf \cup {x} /\ e.buf[x] = Len(s.p.buffers) + 1
      /\ \A y \in DOMAIN s.buf : y # x => e.buf[y] = s.buf[y]
  <2>1. /\ DOMAIN e.buf = DOMAIN s.buf \cup {x} /\ e.buf[x] = Len(s.p.buffers) + 1
        /\ \A y \in DOMAIN s.buf : y # x => e.buf[y] = s.buf[y]
    BY DEF NewBuffer, Built, Shaped, Updated
  <2>2. Shaped(s)
    BY DEF Built
  <2>3. /\ e.p.tasks = s.p.tasks /\ e.p.counters = s.p.counters /\ e.ready = s.ready
        /\ e.p.buffers = Append(s.p.buffers, kind) /\ Shaped(e)
    <3> DEFINE B == Append(s.p.buffers, kind)
               F == Updated(s.buf, [y \in {x} |-> Len(s.p.buffers) + 1])
    <3>1. e = [s EXCEPT !.p.buffers = B, !.buf = F]
      BY DEF NewBuffer
    <3> HIDE DEF e, F, B
    <3>2. /\ e.p.tasks = s.p.tasks /\ e.p.counters = s.p.counters /\ e.ready = s.ready
          /\ e.p.buffers = B /\ Shaped(e)
      BY <2>2, <3>1 DEF Shaped
    <3> QED
      BY <3>2 DEF B
  <2> HIDE DEF e
  <2> QED
    BY <2>1, <2>3
<1> HIDE DEF e
<1>2. n \in Nat /\ Len(e.p.buffers) = n + 1 /\ IsList(e.p.buffers)
  BY <1>1, ListFacts, ListAppended DEF Built
<1>3. /\ DOMAIN e.buf = DOMAIN s.buf \cup {x} /\ e.buf[x] = n + 1
      /\ \A y \in DOMAIN s.buf : y # x => e.buf[y] = s.buf[y]
  BY <1>1 DEF n
<1>4. TaskIds(e.p) = TaskIds(s.p)
  BY <1>1 DEF TaskIds
<1>5. \A y \in DOMAIN s.buf : s.buf[y] \in 1 .. n
  BY DEF Built
<1> HIDE DEF n
<1>6. Built(e)
  <2>1. IsList(e.p.buffers) /\ IsList(e.p.counters) /\ IsList(e.p.tasks)
    BY <1>1, <1>2 DEF Built
  <2>2. \A t \in TaskIds(e.p) : /\ e.p.tasks[t].out_counter \in 1 .. Len(e.p.counters)
                                /\ e.p.tasks[t].outputs \subseteq 1 .. Len(e.p.buffers)
    <3>1. \A t \in TaskIds(s.p) : /\ s.p.tasks[t].out_counter \in 1 .. Len(s.p.counters)
                                  /\ s.p.tasks[t].outputs \subseteq 1 .. n
      BY DEF Built, n
    <3>2. 1 .. n \subseteq 1 .. n + 1
      BY <1>2
    <3> QED
      BY <1>1, <1>2, <1>4, <3>1, <3>2
  <2>3. \A y \in DOMAIN e.buf : e.buf[y] \in 1 .. Len(e.p.buffers)
    BY <1>2, <1>3, <1>5
  <2>4. \A y, z \in DOMAIN e.buf : e.buf[y] = e.buf[z] => y = z
    <3>1. \A y, z \in DOMAIN s.buf : s.buf[y] = s.buf[z] => y = z
      BY DEF Built
    <3>2. n + 1 \notin 1 .. n
      BY <1>2
    <3> QED
      BY <1>3, <1>5, <3>1, <3>2
  <2>5. /\ DOMAIN e.ready \subseteq DOMAIN e.buf
        /\ \A y \in DOMAIN e.ready : e.ready[y].counter \in 1 .. Len(e.p.counters)
    BY <1>1, <1>3 DEF Built
  <2> QED
    BY <1>1, <2>1, <2>2, <2>3, <2>4, <2>5 DEF Built, Shaped
<1>7. Writers(e.p, e.buf[x]) = {}
  <2>1. \A t \in TaskIds(s.p) : s.p.tasks[t].outputs \subseteq 1 .. n
    BY DEF Built, n
  <2>2. n + 1 \notin 1 .. n
    BY <1>2
  <2> QED
    BY <1>1, <1>3, <1>4, <2>1, <2>2 DEF Writers
<1>8. ASSUME EdgesWhole(s, {}) PROVE EdgesWhole(e, {x})
  <2> SUFFICES ASSUME NEW y \in DOMAIN e.ready, y # x PROVE EdgeIsWhole(e, y)
    BY DEF EdgesWhole
  <2>1. y \in DOMAIN s.ready /\ y \in DOMAIN s.buf /\ EdgeIsWhole(s, y)
    BY <1>1, <1>8 DEF EdgesWhole, Built
  <2>2. e.buf[y] = s.buf[y] /\ e.ready[y] = s.ready[y]
    BY <1>1, <1>3, <2>1
  <2> QED
    BY <1>1, <1>4, <2>1, <2>2, EdgeKept
<1> QED
  BY <1>1, <1>3, <1>6, <1>7, <1>8 DEF e, BufferAdded

LEMMA WeightIs ==
  ASSUME NEW s, Built(s), NEW n
  PROVE  LET e == Weight(s, n)
         IN  /\ Built(e)
             /\ e.p.tasks = s.p.tasks /\ e.p.counters = s.p.counters /\ e.ready = s.ready /\ e.buf = s.buf
             /\ EdgesWhole(s, {}) => EdgesWhole(e, {})
<1> DEFINE e == Weight(s, n)
           count == IF ~ Quantised(n) THEN 1 ELSE IF args.zeros THEN 3 ELSE 2
           more == [j \in 1 .. count |-> "WEIGHT"]
<1>1. CASE n.weight = None \/ WeightKey(n) \in DOMAIN s.wbuf
  BY <1>1 DEF Weight
<1>2. CASE ~ (n.weight = None \/ WeightKey(n) \in DOMAIN s.wbuf)
  <2>1. /\ e.p.tasks = s.p.tasks /\ e.p.counters = s.p.counters /\ e.ready = s.ready /\ e.buf = s.buf
        /\ e.p.buffers = s.p.buffers \o more /\ Shaped(e)
    BY <1>2 DEF Weight, Built, Shaped
  <2>2. count \in Nat
    OBVIOUS
  <2> HIDE DEF e, count
  <2>3. IsList(e.p.buffers) /\ Len(e.p.buffers) = Len(s.p.buffers) + count /\ Len(s.p.buffers) \in Nat
    <3>1. IsList(s.p.buffers)
      BY DEF Built
    <3>2. more = [j \in 1 .. count |-> more[j]]
      OBVIOUS
    <3> HIDE DEF more
    <3> QED
      BY <2>1, <2>2, <3>1, <3>2, ListJoined, ListFacts
  <2>4. 1 .. Len(s.p.buffers) \subseteq 1 .. Len(e.p.buffers)
    BY <2>2, <2>3
  <2>5. TaskIds(e.p) = TaskIds(s.p)
    BY <2>1 DEF TaskIds
  <2>6. Built(e)
    BY <2>1, <2>3, <2>4, <2>5 DEF Built, Shaped
  <2>7. ASSUME EdgesWhole(s, {}) PROVE EdgesWhole(e, {})
    BY <2>1, <2>5, <2>7, EdgeKept DEF EdgesWhole
  <2> QED
    BY <2>1, <2>6, <2>7 DEF e
<1> QED
  BY <1>1, <1>2

TileColumns(tile) == tile.n_off .. tile.n_off + tile.N_tile - 1
ColumnTile(tile) == tile.n_off \in Nat /\ tile.N_tile \in Nat \ {0} /\ tile.m_off = -1

LEMMA TilesCover ==
  ASSUME args \in Requests, NEW size \in Nat \ {0}
  PROVE  \E q \in 1 .. MAX_TILES :
           /\ Tiles(size) = [i \in 1 .. q |-> Tiles(size)[i]]
           /\ UNION {TileColumns(Tiles(size)[i]) : i \in 1 .. q} = 0 .. size - 1
           /\ \A i, j \in 1 .. q : i # j => TileColumns(Tiles(size)[i]) \cap TileColumns(Tiles(size)[j]) = {}
           /\ \A i \in 1 .. q : ColumnTile(Tiles(size)[i])
<1>1. PICK w \in Nat \ {0} : w = TileWidth(size)
  BY TileWidths
<1>2. PICK q \in 1 .. MAX_TILES : q = CeilDiv(size, w)
  BY <1>1, TileWidths
<1>3. q \in Nat \ {0} /\ size <= q * w /\ q * w < size + w
  <2>1. MAX_TILES \in Nat
    BY LimitsAssumption
  <2> QED
    BY <1>1, <1>2, <2>1, TileWidths
<1>4. Tiles(size) = [i \in 1 .. q |-> [n_off |-> (i - 1) * w, N_tile |-> Minimum({w, size - (i - 1) * w}),
                                    m_off |-> -1, M_tile |-> args.B]]
  BY <1>1, <1>2 DEF Tiles
<1>5. ASSUME NEW i \in 1 .. q
      PROVE  TileColumns(Tiles(size)[i]) = Span(size, w, i) /\ ColumnTile(Tiles(size)[i])
  <2>1. (i - 1) * w < size
    <3>1. (i - 1) * w + w <= q * w
      <4>1. CASE i = q
        BY <4>1, <1>3
      <4>2. CASE i < q
        <5>1. (i - 1) * w + w <= (q - 1) * w
          BY <1>3, <4>2, StepsApart
        <5>2. (q - 1) * w + w <= q * w
          BY <1>3, StepsApart
        <5>3. (i - 1) * w \in Int /\ (q - 1) * w \in Int /\ q * w \in Int
          BY <1>3
        <5> QED
          BY <5>1, <5>2, <5>3
      <4> QED
        BY <1>3, <4>1, <4>2
    <3>2. (i - 1) * w \in Int /\ q * w \in Int
      BY <1>3
    <3> QED
      BY <1>3, <3>1, <3>2
  <2>2. i \in Nat \ {0} /\ size \in Nat
    BY <1>3
  <2>3. /\ (i - 1) * w .. (i - 1) * w + Minimum({w, size - (i - 1) * w}) - 1 = Span(size, w, i)
        /\ Minimum({w, size - (i - 1) * w}) \in 1 .. w
    BY <2>1, <2>2, SpanIs
  <2>4. /\ Tiles(size)[i].n_off = (i - 1) * w /\ Tiles(size)[i].N_tile = Minimum({w, size - (i - 1) * w})
        /\ Tiles(size)[i].m_off = -1
    BY <1>4
  <2>5. (i - 1) * w \in Nat
    BY <2>2
  <2>6. ColumnTile(Tiles(size)[i])
    BY <2>3, <2>4, <2>5 DEF ColumnTile
  <2> QED
    BY <2>3, <2>4, <2>6 DEF TileColumns
<1>6. /\ UNION {Span(size, w, i) : i \in 1 .. q} = 0 .. size - 1
      /\ \A i, j \in 1 .. q : i # j => Span(size, w, i) \cap Span(size, w, j) = {}
  <2>1. size \in Nat /\ q \in Nat /\ size <= q * w
    BY <1>3
  <2> QED
    BY <2>1, SpansPartition
<1>7. Tiles(size) = [i \in 1 .. q |-> Tiles(size)[i]]
  BY <1>4
<1>8. UNION {TileColumns(Tiles(size)[i]) : i \in 1 .. q} = UNION {Span(size, w, i) : i \in 1 .. q}
  BY <1>5
<1> QED
  BY <1>5, <1>6, <1>7, <1>8

(* The tiles a tensor is written in cover it if it is a projection.        *)
Covers(out, tiles) ==
  \A n \in ToSet(Graph) : n.op = "linear" /\ n.output = out => n.N \in Nat \ {0} /\ tiles = Tiles(n.N)

(* e is s with k more tasks, which write out.                              *)
Emitted(s, e, op, tensors, weights, out, k, window) ==
  LET m == Len(s.p.tasks)
  IN  /\ Built(e)
      /\ e.buf = s.buf
      /\ Len(e.p.tasks) = m + k
      /\ \A t \in 1 .. m : e.p.tasks[t] = s.p.tasks[t]
      /\ \A t \in m + 1 .. m + k :
           /\ e.p.tasks[t].op = op
           /\ e.p.tasks[t].inputs = {s.buf[x] : x \in ToSet(tensors)} \cup weights
           /\ e.p.tasks[t].window = window
      /\ EdgesWhole(s, {out}) => EdgesWhole(e, {})

LEMMA EmitIs ==
  ASSUME args \in Requests, NEW s, Built(s), NEW op, NEW tensors, NEW weights, NEW out \in DOMAIN s.buf,
         NEW tiles, NEW k \in Nat \ {0}, tiles = [i \in 1 .. k |-> tiles[i]], NEW window, NEW sm,
         Writers(s.p, s.buf[out]) = {}, Covers(out, tiles)
  PROVE  Emitted(s, Emit(s, op, tensors, weights, out, tiles, window, sm), op, tensors, weights, out, k, window)
<1> DEFINE e == Emit(s, op, tensors, weights, out, tiles, window, sm)
           m == Len(s.p.tasks)
           c == Len(s.p.counters) + 1
           Task(tile) ==
             [op |-> op, inputs |-> {s.buf[t] : t \in ToSet(tensors)} \cup weights, outputs |-> {s.buf[out]},
              out_counter |-> c, waits |-> WaitsFor(s, tensors), tile |-> tile, window |-> window, sm |-> sm]
           new == [i \in 1 .. k |-> Task(tiles[i])]
<1>1. DOMAIN tiles = 1 .. k /\ Len(tiles) = k
  BY Listed
<1>2. /\ e.buf = s.buf /\ e.p.buffers = s.p.buffers /\ e.p.counters = Append(s.p.counters, 0)
      /\ e.p.tasks = s.p.tasks \o new /\ Shaped(e)
      /\ DOMAIN e.ready = DOMAIN s.ready \cup {out}
      /\ e.ready[out].counter = c /\ e.ready[out].threshold = k
      /\ \A x \in DOMAIN s.ready : x # out => e.ready[x] = s.ready[x]
  <2>1. Shaped(s)
    BY DEF Built
  <2> DEFINE C == Append(s.p.counters, 0)
             T == s.p.tasks \o new
             R == Updated(s.ready, [x \in {out} |-> [counter |-> c, threshold |-> k]])
  <2>2. e = [s EXCEPT !.p.counters = C, !.p.tasks = T, !.ready = R]
    BY <1>1 DEF Emit
  <2>3. /\ DOMAIN R = DOMAIN s.ready \cup {out} /\ R[out].counter = c /\ R[out].threshold = k
        /\ \A x \in DOMAIN s.ready : x # out => R[x] = s.ready[x]
    BY DEF Updated
  <2> HIDE DEF e, C, T, R
  <2>4. /\ e.buf = s.buf /\ e.p.buffers = s.p.buffers /\ e.p.counters = C
        /\ e.p.tasks = T /\ e.ready = R /\ Shaped(e)
    BY <2>1, <2>2 DEF Shaped
  <2> QED
    BY <2>3, <2>4 DEF C, T
<1>3. new = [i \in 1 .. k |-> new[i]]
  OBVIOUS
<1>4. \A i \in 1 .. k : /\ new[i].op = op
                        /\ new[i].inputs = {s.buf[x] : x \in ToSet(tensors)} \cup weights
                        /\ new[i].outputs = {s.buf[out]} /\ new[i].out_counter = c
                        /\ new[i].tile = tiles[i] /\ new[i].window = window
  OBVIOUS
<1> HIDE DEF e, new
<1>5. /\ IsList(s.p.tasks) /\ IsList(s.p.counters) /\ IsList(s.p.buffers)
      /\ m \in Nat /\ Len(s.p.counters) \in Nat /\ Len(s.p.buffers) \in Nat
  BY ListFacts DEF Built
<1>6. /\ IsList(e.p.tasks) /\ Len(e.p.tasks) = m + k
      /\ \A t \in 1 .. m : e.p.tasks[t] = s.p.tasks[t]
      /\ \A i \in 1 .. k : e.p.tasks[m + i] = new[i]
      /\ \A t \in m + 1 .. m + k : e.p.tasks[t] = new[t - m] /\ t - m \in 1 .. k
  <2> DEFINE r == s.p.tasks \o new
  <2>1. /\ IsList(r) /\ Len(r) = Len(s.p.tasks) + k
        /\ \A t \in 1 .. Len(s.p.tasks) : r[t] = s.p.tasks[t]
        /\ \A i \in 1 .. k : r[Len(s.p.tasks) + i] = new[i]
        /\ \A t \in Len(s.p.tasks) + 1 .. Len(s.p.tasks) + k :
             r[t] = new[t - Len(s.p.tasks)] /\ t - Len(s.p.tasks) \in 1 .. k
    BY <1>3, <1>5, ListJoined
  <2>2. e.p.tasks = r
    BY <1>2
  <2> HIDE DEF r
  <2> QED
    BY <2>1, <2>2
<1>7. IsList(e.p.counters) /\ Len(e.p.counters) = c
  BY <1>2, <1>5, ListAppended
<1> HIDE DEF m
<1>8. TaskIds(s.p) = 1 .. m /\ TaskIds(e.p) = 1 .. m + k
  BY <1>6 DEF TaskIds, m
<1>9. \A t \in 1 .. m + k : t \in 1 .. m \/ t \in m + 1 .. m + k
  BY <1>5
<1>10. \A t \in m + 1 .. m + k :
         /\ e.p.tasks[t].op = op
         /\ e.p.tasks[t].inputs = {s.buf[x] : x \in ToSet(tensors)} \cup weights
         /\ e.p.tasks[t].outputs = {s.buf[out]} /\ e.p.tasks[t].out_counter = c
         /\ e.p.tasks[t].tile = tiles[t - m] /\ e.p.tasks[t].window = window
  BY <1>4, <1>6
<1>11. /\ \A t \in 1 .. m : /\ s.p.tasks[t].out_counter \in 1 .. Len(s.p.counters)
                            /\ s.p.tasks[t].outputs \subseteq 1 .. Len(s.p.buffers)
       /\ \A x \in DOMAIN s.buf : s.buf[x] \in 1 .. Len(s.p.buffers)
       /\ \A x, y \in DOMAIN s.buf : s.buf[x] = s.buf[y] => x = y
       /\ DOMAIN s.ready \subseteq DOMAIN s.buf
       /\ \A x \in DOMAIN s.ready : s.ready[x].counter \in 1 .. Len(s.p.counters)
  BY <1>8 DEF Built
<1>12. 1 .. Len(s.p.counters) \subseteq 1 .. c /\ c \in 1 .. c /\ c \notin 1 .. Len(s.p.counters)
  BY <1>5
<1> HIDE DEF c
<1>13. Built(e)
  <2>1. \A t \in TaskIds(e.p) : /\ e.p.tasks[t].out_counter \in 1 .. Len(e.p.counters)
                                /\ e.p.tasks[t].outputs \subseteq 1 .. Len(e.p.buffers)
    <3> SUFFICES ASSUME NEW t \in 1 .. m + k
                 PROVE  /\ e.p.tasks[t].out_counter \in 1 .. c
                        /\ e.p.tasks[t].outputs \subseteq 1 .. Len(s.p.buffers)
      BY <1>2, <1>7, <1>8
    <3>1. CASE t \in 1 .. m
      BY <1>6, <1>11, <1>12, <3>1
    <3>2. CASE t \in m + 1 .. m + k
      <4>1. e.p.tasks[t].outputs = {s.buf[out]} /\ e.p.tasks[t].out_counter = c
        BY <1>10, <3>2
      <4>2. s.buf[out] \in 1 .. Len(s.p.buffers)
        BY <1>11
      <4> QED
        BY <1>12, <4>1, <4>2
    <3> QED
      BY <1>9, <3>1, <3>2
  <2>2. \A x \in DOMAIN e.ready : e.ready[x].counter \in 1 .. Len(e.p.counters)
    BY <1>2, <1>7, <1>11, <1>12
  <2>3. DOMAIN e.ready \subseteq DOMAIN e.buf
    BY <1>2, <1>11
  <2> QED
    BY <1>2, <1>5, <1>6, <1>7, <1>11, <2>1, <2>2, <2>3 DEF Built
<1>14. ASSUME EdgesWhole(s, {out}) PROVE EdgesWhole(e, {})
  <2> SUFFICES ASSUME NEW x \in DOMAIN e.ready PROVE EdgeIsWhole(e, x)
    BY DEF EdgesWhole
  <2>1. CASE x # out
    <3>1. x \in DOMAIN s.ready /\ x \in DOMAIN s.buf /\ EdgeIsWhole(s, x)
      BY <1>2, <1>11, <1>14, <2>1 DEF EdgesWhole
    <3>2. s.buf[x] # s.buf[out] /\ s.ready[x].counter # c
      BY <1>11, <1>12, <2>1, <3>1
    <3>3. \A t \in TaskIds(e.p) \ TaskIds(s.p) : t \in m + 1 .. m + k
      BY <1>8, <1>9
    <3>4. \A t \in TaskIds(e.p) \ TaskIds(s.p) :
             s.buf[x] \notin e.p.tasks[t].outputs /\ e.p.tasks[t].out_counter # s.ready[x].counter
      BY <1>10, <3>2, <3>3
    <3>5. e.buf[x] = s.buf[x] /\ e.ready[x] = s.ready[x]
      BY <1>2, <2>1, <3>1
    <3>6. TaskIds(s.p) \subseteq TaskIds(e.p) /\ \A t \in TaskIds(s.p) : e.p.tasks[t] = s.p.tasks[t]
      BY <1>5, <1>6, <1>8
    <3> QED
      BY <3>1, <3>4, <3>5, <3>6, EdgeKept
  <2>2. CASE x = out
    <3>0. \A t \in m + 1 .. m + k : t \in 1 .. m + k
      <4>1. m \in Nat
        BY <1>5
      <4> QED
        BY <4>1
    <3>1. \A t \in 1 .. m : s.buf[out] \notin s.p.tasks[t].outputs
      BY <1>8 DEF Writers
    <3>2. Writers(e.p, e.buf[out]) = m + 1 .. m + k
      <4>1. \A t \in 1 .. m : s.buf[out] \notin e.p.tasks[t].outputs
        BY <1>6, <3>1
      <4>2. \A t \in m + 1 .. m + k : s.buf[out] \in e.p.tasks[t].outputs
        BY <1>10
      <4> QED
        BY <1>2, <1>8, <1>9, <3>0, <4>1, <4>2 DEF Writers
    <3>3. Producers(e.p, c) = m + 1 .. m + k
      <4>1. \A t \in 1 .. m : e.p.tasks[t].out_counter # c
        <5> SUFFICES ASSUME NEW t \in 1 .. m PROVE e.p.tasks[t].out_counter # c
          OBVIOUS
        <5>1. e.p.tasks[t] = s.p.tasks[t] /\ s.p.tasks[t].out_counter \in 1 .. Len(s.p.counters)
          BY <1>6, <1>11
        <5> QED
          BY <1>12, <5>1
      <4>2. \A t \in m + 1 .. m + k : e.p.tasks[t].out_counter = c
        BY <1>10
      <4> QED
        BY <1>8, <1>9, <3>0, <4>1, <4>2 DEF Producers
    <3>4. Cardinality(m + 1 .. m + k) = k
      <4>1. PICK a \in Nat : a = m
        BY <1>5
      <4>2. a + 1 \in Int /\ a + k \in Int /\ ~ (a + 1 > a + k) /\ (a + k) - (a + 1) + 1 = k
        OBVIOUS
      <4>3. Cardinality(a + 1 .. a + k) = IF a + 1 > a + k THEN 0 ELSE (a + k) - (a + 1) + 1
        BY <4>2, FS_Interval
      <4> QED
        BY <4>1, <4>2, <4>3
    <3>5. ASSUME NEW n \in ToSet(Graph), n.op = "linear", n.output = out
          PROVE  /\ k <= MAX_TILES
                 /\ UNION {Columns(e, u) : u \in m + 1 .. m + k} = 0 .. n.N - 1
                 /\ \A u, v \in m + 1 .. m + k : u # v => Columns(e, u) \cap Columns(e, v) = {}
      <4>1. n.N \in Nat \ {0} /\ tiles = Tiles(n.N)
        BY <3>5 DEF Covers
      <4>2. PICK q \in 1 .. MAX_TILES :
              /\ Tiles(n.N) = [i \in 1 .. q |-> Tiles(n.N)[i]]
              /\ UNION {TileColumns(Tiles(n.N)[i]) : i \in 1 .. q} = 0 .. n.N - 1
              /\ \A i, j \in 1 .. q : i # j => TileColumns(Tiles(n.N)[i]) \cap TileColumns(Tiles(n.N)[j]) = {}
        BY <4>1, TilesCover
      <4>3. q = k
        <5>1. MAX_TILES \in Nat
          BY LimitsAssumption
        <5>2. 1 .. q = 1 .. k
          BY <1>1, <4>1, <4>2
        <5> QED
          BY <5>1, <5>2
      <4>4. \A u \in m + 1 .. m + k : Columns(e, u) = TileColumns(Tiles(n.N)[u - m])
        BY <1>10, <4>1 DEF Columns, TileColumns
      <4>5. \A u \in m + 1 .. m + k : u - m \in 1 .. k
        BY <1>5
      <4>6. \A i \in 1 .. k : m + i \in m + 1 .. m + k /\ (m + i) - m = i
        BY <1>5
      <4>7. \A u, v \in m + 1 .. m + k : u # v => u - m # v - m
        BY <1>5
      <4>8. UNION {Columns(e, u) : u \in m + 1 .. m + k} = UNION {TileColumns(Tiles(n.N)[i]) : i \in 1 .. k}
        <5> DEFINE Tile(i) == TileColumns(Tiles(n.N)[i])
        <5>1. \A u \in m + 1 .. m + k : Columns(e, u) = Tile(u - m)
          BY <4>4
        <5> HIDE DEF Tile
        <5>2. \A i \in 1 .. k : Columns(e, m + i) = Tile(i)
          BY <4>6, <5>1
        <5>3. {Columns(e, u) : u \in m + 1 .. m + k} = {Tile(i) : i \in 1 .. k}
          <6>1. {Columns(e, u) : u \in m + 1 .. m + k} \subseteq {Tile(i) : i \in 1 .. k}
            BY <4>5, <5>1
          <6>2. {Tile(i) : i \in 1 .. k} \subseteq {Columns(e, u) : u \in m + 1 .. m + k}
            BY <4>6, <5>2
          <6> QED
            BY <6>1, <6>2
        <5> QED
          BY <5>3 DEF Tile
      <4>9. k <= MAX_TILES
        BY <4>3
      <4>10. \A u, v \in m + 1 .. m + k : u # v => Columns(e, u) \cap Columns(e, v) = {}
        BY <4>2, <4>3, <4>4, <4>5, <4>7
      <4> QED
        BY <4>2, <4>3, <4>8, <4>9, <4>10
    <3> QED
      BY <1>2, <2>2, <3>2, <3>3, <3>4, <3>5 DEF EdgeIsWhole
  <2> QED
    BY <2>1, <2>2
<1> QED
  BY <1>2, <1>6, <1>10, <1>13, <1>14 DEF e, m, Emitted

LEMMA PartsAre ==
  ASSUME args \in Requests
  PROVE  /\ kv_len \in Nat \ {0} /\ kv_len - 1 = args.pos
         /\ args.num_sms \in Nat \ {0}
         /\ Parts \in Nat \ {0}
         /\ Parts > 1 => Parts <= args.num_sms /\ Parts <= ATTN_PMAX /\ kv_len > 1
<1>1. /\ args.pos \in Nat /\ args.num_sms \in Nat \ {0} /\ args.B \in Nat /\ args.n_partitions \in Int
      /\ ATTN_PMAX \in Nat \ {0} /\ ATTN_MIN_KV_PER_SHARD \in Nat \ {0}
  BY RequestsAssumption, LimitsAssumption DEF RequestType
<1>2. kv_len \in Nat \ {0} /\ kv_len - 1 = args.pos
  BY <1>1 DEF kv_len
<1>3. CASE args.B > 1 \/ args.n_partitions <= 1
  BY <1>1, <1>2, <1>3 DEF Parts
<1>4. CASE ~ (args.B > 1 \/ args.n_partitions <= 1)
  <2> DEFINE S == {ATTN_PMAX, args.num_sms, args.n_partitions, CeilDiv(kv_len, ATTN_MIN_KV_PER_SHARD)}
             least == Minimum(S)
  <2>1. CeilDiv(kv_len, ATTN_MIN_KV_PER_SHARD) \in Int
    BY <1>1, <1>2, CeilDivBounds
  <2>2. \E x \in S : \A y \in S : x <= y
    <3>1. PICK a \in Int, b \in Int, c \in Int, d \in Int :
            a = ATTN_PMAX /\ b = args.num_sms /\ c = args.n_partitions /\ d = CeilDiv(kv_len, ATTN_MIN_KV_PER_SHARD)
      BY <1>1, <2>1
    <3>2. \E x \in {a, b, c, d} : x <= a /\ x <= b /\ x <= c /\ x <= d
      OBVIOUS
    <3> QED
      BY <3>1, <3>2
  <2>3. least \in S /\ \A y \in S : least <= y
    BY <2>2 DEF Minimum
  <2>4. /\ least \in Int /\ least <= args.num_sms /\ least <= ATTN_PMAX
        /\ least <= CeilDiv(kv_len, ATTN_MIN_KV_PER_SHARD)
    BY <1>1, <2>1, <2>3
  <2>5. Parts = Maximum({1, least})
    BY <1>4 DEF Parts
  <2> HIDE DEF least
  <2>6. Parts = IF 1 <= least THEN least ELSE 1
    BY <2>4, <2>5, LeastOfTwo
  <2>7. Parts > 1 => kv_len > 1
    <3>1. PICK size \in Nat, d \in Nat \ {0}, c \in Nat :
            /\ size = kv_len /\ d = ATTN_MIN_KV_PER_SHARD /\ c = CeilDiv(kv_len, ATTN_MIN_KV_PER_SHARD)
            /\ c * d \in Nat /\ c * d < size + d
      BY <1>1, <1>2, CeilDivBounds
    <3>2. 1 < c => 1 * d + d <= c * d
      BY StepsApart
    <3> QED
      BY <2>4, <2>6, <3>1, <3>2
  <2> QED
    BY <1>1, <1>2, <2>4, <2>6, <2>7
<1> QED
  BY <1>3, <1>4

(* The windows of the shards split 0 .. pos.                               *)
LEMMA ShardsSplit ==
  ASSUME args \in Requests
  PROVE  \E k \in 1 .. Parts :
           /\ Shards = [i \in 1 .. k |-> Shards[i]]
           /\ \A i \in 1 .. k : Shards[i].start .. Shards[i].start + Shards[i].len - 1 # {}
           /\ UNION {Shards[i].start .. Shards[i].start + Shards[i].len - 1 : i \in 1 .. k} = 0 .. args.pos
           /\ \A i, j \in 1 .. k : i # j =>
                (Shards[i].start .. Shards[i].start + Shards[i].len - 1)
                   \cap (Shards[j].start .. Shards[j].start + Shards[j].len - 1) = {}
<1>1. PICK size \in Nat \ {0}, P \in Nat \ {0} : size = kv_len /\ P = Parts /\ size - 1 = args.pos
  BY PartsAre
<1>2. PICK w \in Nat : w = CeilDiv(size, P) /\ w * P \in Nat /\ size <= w * P
  BY CeilDivBounds
<1>3. w # 0 /\ size <= P * w
  <2>1. w * P = P * w
    OBVIOUS
  <2> QED
    BY <1>2, <2>1
<1>4. PICK q \in Nat : q * w \in Nat /\ size <= q * w /\ q * w < size + w
  BY <1>3, CeilDivBounds
<1>5. q # 0
  BY <1>4
<1>6. ~ (P < q)
  <2> SUFFICES ASSUME P < q PROVE FALSE
    OBVIOUS
  <2>1. P * w + w <= q * w
    BY StepsApart
  <2>2. P * w \in Nat
    OBVIOUS
  <2> QED
    BY <1>3, <1>4, <2>1, <2>2
<1>7. \A j \in 1 .. P : ((j - 1) * w < size) <=> j <= q
  <2> TAKE j \in 1 .. P
  <2>1. PICK i \in Nat : i = j - 1
    OBVIOUS
  <2>2. i * w \in Nat
    OBVIOUS
  <2>3. CASE i < q
    <3>1. i * w + w <= q * w
      BY <2>3, StepsApart
    <3> QED
      BY <1>4, <2>1, <2>2, <2>3, <3>1
  <2>4. CASE q < i
    <3>1. q * w + w <= i * w
      BY <2>4, StepsApart
    <3> QED
      BY <1>4, <2>1, <2>2, <2>4, <3>1
  <2>5. CASE q = i
    BY <1>4, <2>1, <2>2, <2>5
  <2> QED
    BY <2>3, <2>4, <2>5
<1>8. {j \in 1 .. P : (j - 1) * w < size} = 1 .. q
  <2>1. \A j \in 1 .. q : j \in 1 .. P
    BY <1>6
  <2>2. \A j \in 1 .. P : j <= q => j \in 1 .. q
    OBVIOUS
  <2>3. \A j \in 1 .. q : j <= q
    OBVIOUS
  <2> QED
    BY <1>7, <2>1, <2>2, <2>3
<1>9. Shards = [i \in 1 .. q |-> [start |-> (i - 1) * w, len |-> Minimum({w, size - (i - 1) * w})]]
  BY <1>1, <1>2, <1>8 DEF Shards
<1>10. q \in 1 .. Parts
  BY <1>1, <1>5, <1>6
<1> DEFINE W(i) == Shards[i].start .. Shards[i].start + Shards[i].len - 1
<1>11. ASSUME NEW i \in 1 .. q PROVE W(i) = Span(size, w, i) /\ Span(size, w, i) # {}
  <2>1. i \in Nat \ {0} /\ i \in 1 .. P
    BY <1>6
  <2>2. (i - 1) * w < size
    BY <1>7, <2>1
  <2>3. /\ (i - 1) * w .. (i - 1) * w + Minimum({w, size - (i - 1) * w}) - 1 = Span(size, w, i)
        /\ Span(size, w, i) # {}
    BY <1>3, <2>1, <2>2, SpanIs
  <2>4. Shards[i].start = (i - 1) * w /\ Shards[i].len = Minimum({w, size - (i - 1) * w})
    BY <1>9
  <2> QED
    BY <2>3, <2>4
<1>12. /\ UNION {Span(size, w, i) : i \in 1 .. q} = 0 .. size - 1
       /\ \A i, j \in 1 .. q : i # j => Span(size, w, i) \cap Span(size, w, j) = {}
  BY <1>3, <1>4, SpansPartition
<1>13. Shards = [i \in 1 .. q |-> Shards[i]]
  BY <1>9
<1> HIDE DEF W
<1>14. UNION {W(i) : i \in 1 .. q} = UNION {Span(size, w, i) : i \in 1 .. q}
  BY <1>11
<1>15. /\ \A i \in 1 .. q : W(i) # {}
       /\ UNION {W(i) : i \in 1 .. q} = 0 .. args.pos
       /\ \A i, j \in 1 .. q : i # j => W(i) \cap W(j) = {}
  BY <1>1, <1>11, <1>12, <1>14
<1> QED
  BY <1>10, <1>13, <1>15 DEF W

(* e is s with a buffer for out and the one task that writes it.           *)
OneEmitted(s, e, op, tensors, weights, out) ==
  LET m == Len(s.p.tasks)
  IN  /\ Built(e)
      /\ DOMAIN e.buf = DOMAIN s.buf \cup {out}
      /\ \A y \in DOMAIN s.buf : y # out => e.buf[y] = s.buf[y]
      /\ Len(e.p.tasks) = m + 1
      /\ \A t \in 1 .. m : e.p.tasks[t] = s.p.tasks[t]
      /\ e.p.tasks[m + 1].op = op
      /\ e.p.tasks[m + 1].inputs = {e.buf[x] : x \in ToSet(tensors)} \cup weights
      /\ e.p.tasks[m + 1].window = WholeWindow
      /\ EdgesWhole(s, {}) => EdgesWhole(e, {})

LEMMA EmitOneIs ==
  ASSUME args \in Requests, NEW s, Built(s), NEW op, NEW tensors, NEW weights, NEW out,
         \A n \in ToSet(Graph) : n.op = "linear" => n.output # out
  PROVE  OneEmitted(s, EmitOne(s, op, tensors, weights, out), op, tensors, weights, out)
<1> DEFINE b == NewBuffer(s, out, "ACTIVATION")
           tiles == <<Whole>>
           e == Emit(b, op, tensors, weights, out, tiles, WholeWindow, NoSM)
           m == Len(s.p.tasks)
<1>1. BufferAdded(s, b, out)
  BY NewBufferIs
<1>2. EmitOne(s, op, tensors, weights, out) = e
  BY DEF EmitOne
<1>3. tiles = [i \in 1 .. 1 |-> tiles[i]] /\ 1 \in Nat \ {0} /\ Covers(out, tiles)
  BY DEF Covers
<1> HIDE DEF b, tiles
<1>4. /\ Built(b) /\ b.p.tasks = s.p.tasks
      /\ DOMAIN b.buf = DOMAIN s.buf \cup {out}
      /\ \A y \in DOMAIN s.buf : y # out => b.buf[y] = s.buf[y]
      /\ Writers(b.p, b.buf[out]) = {}
      /\ EdgesWhole(s, {}) => EdgesWhole(b, {out})
  BY <1>1 DEF BufferAdded
<1>5. out \in DOMAIN b.buf /\ Len(b.p.tasks) = m /\ m \in Nat
  BY <1>4, ListFacts DEF Built
<1>6. Emitted(b, e, op, tensors, weights, out, 1, WholeWindow)
  BY <1>3, <1>4, <1>5, EmitIs
<1> HIDE DEF e
<1>7. m + 1 \in m + 1 .. m + 1
  BY <1>5
<1> QED
  BY <1>2, <1>4, <1>5, <1>6, <1>7 DEF Emitted, OneEmitted

LEMMA PartsApart ==
  ASSUME NEW n, NEW i, NEW j, Part(n, i) = Part(n, j)
  PROVE  i = j
BY DEF Part

(* e is s with k more tasks, one per shard of the window.                  *)
ShardsEmitted(s, e, n, k) ==
  LET m == Len(s.p.tasks)
  IN  /\ Built(e)
      /\ DOMAIN e.buf = DOMAIN s.buf \cup {Part(n, i) : i \in 1 .. k}
      /\ \A y \in DOMAIN s.buf : IsPair(y) => e.buf[y] = s.buf[y]
      /\ Len(e.p.tasks) = m + k
      /\ \A t \in 1 .. m : e.p.tasks[t] = s.p.tasks[t]
      /\ \A i \in 1 .. k :
           /\ e.p.tasks[m + i].op = "ATTENTION_TILE"
           /\ e.p.tasks[m + i].inputs = {s.buf[x] : x \in ToSet(n.inputs)}
           /\ e.p.tasks[m + i].window = Shards[i]
           /\ e.p.tasks[m + i].sm = (i - 1) % args.num_sms
      /\ EdgesWhole(s, {}) => EdgesWhole(e, {})

LEMMA EmitShardsIs ==
  ASSUME args \in Requests, NEW s, Built(s), NEW n, NEW k \in Nat \ {0}, Shards = [i \in 1 .. k |-> Shards[i]],
         \A x \in ToSet(Graph) : IsPair(x.output)
  PROVE  ShardsEmitted(s, EmitShards(s, n), n, k)
<1> DEFINE e == EmitShards(s, n)
           m == Len(s.p.tasks)
           b == Len(s.p.buffers)
           c == Len(s.p.counters)
           parts == {Part(n, i) : i \in 1 .. k}
           Task(i) ==
             [op |-> "ATTENTION_TILE", inputs |-> {s.buf[t] : t \in ToSet(n.inputs)}, outputs |-> {b + i},
              out_counter |-> c + i, waits |-> WaitsFor(s, n.inputs), tile |-> Whole, window |-> Shards[i],
              sm |-> (i - 1) % args.num_sms]
           new == [i \in 1 .. k |-> Task(i)]
           kinds == [i \in 1 .. k |-> "ACTIVATION"]
           zeros == [i \in 1 .. k |-> 0]
<1>1. DOMAIN Shards = 1 .. k
  OBVIOUS
<1>2. \A i \in 1 .. k : Part(n, i)[4] = i /\ ~ IsPair(Part(n, i))
  BY PairsApart DEF Part
<1>3. /\ e.p.buffers = s.p.buffers \o kinds /\ e.p.counters = s.p.counters \o zeros
      /\ e.p.tasks = s.p.tasks \o new /\ Shaped(e)
      /\ DOMAIN e.buf = DOMAIN s.buf \cup parts /\ DOMAIN e.ready = DOMAIN s.ready \cup parts
      /\ \A x \in parts : e.buf[x] = b + x[4] /\ e.ready[x] = [counter |-> c + x[4], threshold |-> 1]
      /\ \A x \in DOMAIN s.buf \ parts : e.buf[x] = s.buf[x]
      /\ \A x \in DOMAIN s.ready \ parts : e.ready[x] = s.ready[x]
  <2>1. Shaped(s)
    BY DEF Built
  <2> DEFINE B == s.p.buffers \o kinds
             C == s.p.counters \o zeros
             T == s.p.tasks \o new
             F == Updated(s.buf, [x \in parts |-> b + x[4]])
             R == Updated(s.ready, [x \in parts |-> [counter |-> c + x[4], threshold |-> 1]])
  <2>2. e = [s EXCEPT !.p.buffers = B, !.p.counters = C, !.p.tasks = T, !.buf = F, !.ready = R]
    BY <1>1 DEF EmitShards
  <2>3. /\ DOMAIN F = DOMAIN s.buf \cup parts /\ DOMAIN R = DOMAIN s.ready \cup parts
        /\ \A x \in parts : F[x] = b + x[4] /\ R[x] = [counter |-> c + x[4], threshold |-> 1]
        /\ \A x \in DOMAIN s.buf \ parts : F[x] = s.buf[x]
        /\ \A x \in DOMAIN s.ready \ parts : R[x] = s.ready[x]
    BY DEF Updated
  <2> HIDE DEF e, B, C, T, F, R
  <2>4. e.p.buffers = B /\ e.p.counters = C /\ e.p.tasks = T /\ e.buf = F /\ e.ready = R /\ Shaped(e)
    BY <2>1, <2>2 DEF Shaped
  <2> HIDE DEF parts
  <2> QED
    BY <2>3, <2>4 DEF B, C, T
<1>4. \A i \in 1 .. k : /\ new[i].op = "ATTENTION_TILE"
                        /\ new[i].inputs = {s.buf[x] : x \in ToSet(n.inputs)}
                        /\ new[i].outputs = {b + i} /\ new[i].out_counter = c + i
                        /\ new[i].window = Shards[i] /\ new[i].sm = (i - 1) % args.num_sms
  OBVIOUS
<1>5. /\ new = [i \in 1 .. k |-> new[i]] /\ kinds = [i \in 1 .. k |-> kinds[i]]
      /\ zeros = [i \in 1 .. k |-> zeros[i]]
  OBVIOUS
<1> HIDE DEF e, new, kinds, zeros, parts
<1>6. /\ IsList(s.p.tasks) /\ IsList(s.p.counters) /\ IsList(s.p.buffers)
      /\ m \in Nat /\ b \in Nat /\ c \in Nat
  BY ListFacts DEF Built
<1>7. /\ IsList(e.p.tasks) /\ Len(e.p.tasks) = m + k
      /\ \A t \in 1 .. m : e.p.tasks[t] = s.p.tasks[t]
      /\ \A i \in 1 .. k : e.p.tasks[m + i] = new[i]
  <2> DEFINE r == s.p.tasks \o new
  <2>1. /\ IsList(r) /\ Len(r) = Len(s.p.tasks) + k
        /\ \A t \in 1 .. Len(s.p.tasks) : r[t] = s.p.tasks[t]
        /\ \A i \in 1 .. k : r[Len(s.p.tasks) + i] = new[i]
        /\ \A i \in Len(s.p.tasks) + 1 .. Len(s.p.tasks) + k :
             r[i] = new[i - Len(s.p.tasks)] /\ i - Len(s.p.tasks) \in 1 .. k
    <3>1. IsList(s.p.tasks) /\ new = [i \in 1 .. k |-> new[i]] /\ k \in Nat
      BY <1>5, <1>6
    <3> QED
      BY <3>1, ListJoined
  <2>2. e.p.tasks = r
    BY <1>3
  <2> HIDE DEF r
  <2> QED
    BY <2>1, <2>2
<1>8. IsList(e.p.counters) /\ Len(e.p.counters) = c + k
  BY <1>3, <1>5, <1>6, ListJoined
<1>9. IsList(e.p.buffers) /\ Len(e.p.buffers) = b + k
  BY <1>3, <1>5, <1>6, ListJoined
<1>10. TaskIds(s.p) = 1 .. m /\ TaskIds(e.p) = 1 .. m + k
  BY <1>7 DEF TaskIds
<1>11. /\ \A t \in 1 .. m : /\ s.p.tasks[t].out_counter \in 1 .. c
                            /\ s.p.tasks[t].outputs \subseteq 1 .. b
       /\ \A x \in DOMAIN s.buf : s.buf[x] \in 1 .. b
       /\ \A x, y \in DOMAIN s.buf : s.buf[x] = s.buf[y] => x = y
       /\ DOMAIN s.ready \subseteq DOMAIN s.buf
       /\ \A x \in DOMAIN s.ready : s.ready[x].counter \in 1 .. c
  BY <1>10 DEF Built
<1> HIDE DEF m, b, c
<1>12. \A i \in 1 .. k : /\ b + i \in 1 .. b + k /\ b + i \notin 1 .. b
                         /\ c + i \in 1 .. c + k /\ c + i \notin 1 .. c
                         /\ m + i \in 1 .. m + k /\ m + i \notin 1 .. m
  BY <1>6
<1>13. 1 .. b \subseteq 1 .. b + k /\ 1 .. c \subseteq 1 .. c + k /\ 1 .. m \subseteq 1 .. m + k
  BY <1>6
<1>14. \A t \in 1 .. m + k : t \in 1 .. m \/ \E i \in 1 .. k : t = m + i
  <2> TAKE t \in 1 .. m + k
  <2>1. t \notin 1 .. m => t - m \in 1 .. k /\ t = m + (t - m)
    BY <1>6
  <2> QED
    BY <2>1
<1>15. \A x \in parts : \E i \in 1 .. k : x = Part(n, i) /\ x[4] = i /\ ~ IsPair(x)
  BY <1>2 DEF parts
<1>21. \A i \in 1 .. k : /\ Part(n, i) \in parts
                         /\ e.buf[Part(n, i)] = b + i
                         /\ e.ready[Part(n, i)].counter = c + i /\ e.ready[Part(n, i)].threshold = 1
  <2> TAKE i \in 1 .. k
  <2>1. Part(n, i) \in parts /\ Part(n, i)[4] = i
    BY <1>2 DEF parts
  <2>2. e.buf[Part(n, i)] = b + i /\ e.ready[Part(n, i)] = [counter |-> c + i, threshold |-> 1]
    BY <1>3, <2>1
  <2> QED
    BY <2>1, <2>2
<1>16. \A i, j \in 1 .. k : (b + i = b + j => i = j) /\ (c + i = c + j => i = j) /\ (m + i = m + j => i = j)
  BY <1>6
<1>17. Built(e)
  <2>1. \A t \in TaskIds(e.p) : /\ e.p.tasks[t].out_counter \in 1 .. Len(e.p.counters)
                                /\ e.p.tasks[t].outputs \subseteq 1 .. Len(e.p.buffers)
    <3> SUFFICES ASSUME NEW t \in 1 .. m + k
                 PROVE  /\ e.p.tasks[t].out_counter \in 1 .. c + k
                        /\ e.p.tasks[t].outputs \subseteq 1 .. b + k
      BY <1>8, <1>9, <1>10
    <3>1. CASE t \in 1 .. m
      BY <1>7, <1>11, <1>13, <3>1
    <3>2. ASSUME NEW i \in 1 .. k, t = m + i
          PROVE  /\ e.p.tasks[t].out_counter \in 1 .. c + k
                 /\ e.p.tasks[t].outputs \subseteq 1 .. b + k
      BY <1>4, <1>7, <1>12, <3>2
    <3> QED
      BY <1>14, <3>1, <3>2
  <2>2. \A x \in DOMAIN e.buf : e.buf[x] \in 1 .. Len(e.p.buffers)
    <3> SUFFICES ASSUME NEW x \in DOMAIN e.buf PROVE e.buf[x] \in 1 .. b + k
      BY <1>9
    <3>1. CASE x \in parts
      BY <1>12, <1>15, <1>21, <3>1
    <3>2. CASE x \notin parts
      BY <1>3, <1>11, <1>13, <3>2
    <3> QED
      BY <3>1, <3>2
  <2>3. \A x, y \in DOMAIN e.buf : e.buf[x] = e.buf[y] => x = y
    <3> SUFFICES ASSUME NEW x \in DOMAIN e.buf, NEW y \in DOMAIN e.buf, e.buf[x] = e.buf[y] PROVE x = y
      OBVIOUS
    <3>1. ASSUME NEW z \in DOMAIN e.buf
          PROVE  \/ z \notin parts /\ z \in DOMAIN s.buf /\ e.buf[z] = s.buf[z] /\ e.buf[z] \in 1 .. b
                 \/ \E i \in 1 .. k : z = Part(n, i) /\ e.buf[z] = b + i /\ e.buf[z] \notin 1 .. b
      <4>1. CASE z \in parts
        BY <1>12, <1>15, <1>21, <4>1
      <4>2. CASE z \notin parts
        BY <1>3, <1>11, <4>2
      <4> QED
        BY <4>1, <4>2
    <3> QED
      BY <1>11, <1>16, <3>1
  <2>4. DOMAIN e.ready \subseteq DOMAIN e.buf
    BY <1>3, <1>11
  <2>5. \A x \in DOMAIN e.ready : e.ready[x].counter \in 1 .. Len(e.p.counters)
    <3> SUFFICES ASSUME NEW x \in DOMAIN e.ready PROVE e.ready[x].counter \in 1 .. c + k
      BY <1>8
    <3>1. CASE x \in parts
      BY <1>12, <1>15, <1>21, <3>1
    <3>2. CASE x \notin parts
      BY <1>3, <1>11, <1>13, <3>2
    <3> QED
      BY <3>1, <3>2
  <2> QED
    BY <1>3, <1>7, <1>8, <1>9, <2>1, <2>2, <2>3, <2>4, <2>5 DEF Built
<1>18. ASSUME EdgesWhole(s, {}) PROVE EdgesWhole(e, {})
  <2> SUFFICES ASSUME NEW x \in DOMAIN e.ready PROVE EdgeIsWhole(e, x)
    BY DEF EdgesWhole
  <2>1. CASE x \notin parts
    <3>1. x \in DOMAIN s.ready /\ x \in DOMAIN s.buf /\ EdgeIsWhole(s, x)
      BY <1>3, <1>11, <1>18, <2>1 DEF EdgesWhole
    <3>2. e.buf[x] = s.buf[x] /\ e.ready[x] = s.ready[x] /\ s.buf[x] \in 1 .. b /\ s.ready[x].counter \in 1 .. c
      BY <1>3, <1>11, <2>1, <3>1
    <3>3. \A i \in 1 .. k : e.p.tasks[m + i].outputs = {b + i} /\ e.p.tasks[m + i].out_counter = c + i
      BY <1>4, <1>7
    <3>4. \A t \in TaskIds(e.p) \ TaskIds(s.p) :
             s.buf[x] \notin e.p.tasks[t].outputs /\ e.p.tasks[t].out_counter # s.ready[x].counter
      BY <1>10, <1>12, <1>14, <3>2, <3>3
    <3>5. TaskIds(s.p) \subseteq TaskIds(e.p) /\ \A t \in TaskIds(s.p) : e.p.tasks[t] = s.p.tasks[t]
      BY <1>7, <1>10, <1>13
    <3> QED
      BY <3>1, <3>2, <3>4, <3>5, EdgeKept
  <2>2. CASE x \in parts
    <3>1. PICK i \in 1 .. k : x = Part(n, i) /\ x[4] = i /\ ~ IsPair(x)
      BY <1>15, <2>2
    <3>2. e.buf[x] = b + i /\ e.ready[x].counter = c + i /\ e.ready[x].threshold = 1
      BY <1>21, <3>1
    <3>3. Writers(e.p, b + i) = {m + i}
      <4>1. \A t \in 1 .. m : b + i \notin e.p.tasks[t].outputs
        BY <1>7, <1>11, <1>12
      <4>2. \A j \in 1 .. k : b + i \in e.p.tasks[m + j].outputs <=> j = i
        BY <1>4, <1>7, <1>16
      <4> QED
        BY <1>10, <1>12, <1>14, <4>1, <4>2 DEF Writers
    <3>4. Producers(e.p, c + i) = {m + i}
      <4>1. \A t \in 1 .. m : e.p.tasks[t].out_counter # c + i
        <5> TAKE t \in 1 .. m
        <5>1. e.p.tasks[t].out_counter \in 1 .. c /\ c + i \notin 1 .. c
          BY <1>7, <1>11, <1>12
        <5> QED
          BY <5>1
      <4>2. \A j \in 1 .. k : e.p.tasks[m + j].out_counter = c + i <=> j = i
        BY <1>4, <1>7, <1>16
      <4> QED
        BY <1>10, <1>12, <1>14, <4>1, <4>2 DEF Producers
    <3>5. Cardinality({m + i}) = 1
      BY FS_Singleton
    <3>6. \A y \in ToSet(Graph) : y.output # x
      BY <3>1
    <3> QED
      BY <3>2, <3>3, <3>4, <3>5, <3>6 DEF EdgeIsWhole
  <2> QED
    BY <2>1, <2>2
<1>19. \A y \in DOMAIN s.buf : IsPair(y) => e.buf[y] = s.buf[y]
  BY <1>3, <1>15
<1>20. \A i \in 1 .. k :
         /\ e.p.tasks[m + i].op = "ATTENTION_TILE"
         /\ e.p.tasks[m + i].inputs = {s.buf[x] : x \in ToSet(n.inputs)}
         /\ e.p.tasks[m + i].window = Shards[i]
         /\ e.p.tasks[m + i].sm = (i - 1) % args.num_sms
  BY <1>4, <1>7
<1> QED
  BY <1>3, <1>7, <1>17, <1>18, <1>19, <1>20 DEF e, m, parts, ShardsEmitted

Operands(s, n) == {s.buf[x] : x \in ToSet(n.inputs)}
AttentionTiles(s) == {t \in TaskIds(s.p) : s.p.tasks[t].op = "ATTENTION_TILE"}

-----------------------------------------------------------------------------
(* The first i - 1 nodes are lowered: what they write has a buffer, every  *)
(* attention tile reads what one of them reads, and each is attended.      *)
LoweredTo(s, i) ==
  /\ Built(s)
  /\ EdgesWhole(s, {})
  /\ \A k \in DOMAIN Graph : k < i => Graph[k].output \in DOMAIN s.buf
  /\ \A t \in AttentionTiles(s) :
       \E k \in DOMAIN Graph : /\ k < i /\ Graph[k].op = "attention"
                               /\ s.p.tasks[t].inputs = Operands(s, Graph[k])
  /\ \A k \in DOMAIN Graph : k < i /\ Graph[k].op = "attention" => Attended(s, Graph[k])

LowerInv == args \in Requests /\ node \in Nat /\ LoweredTo(self, node)

(* What an attention node reads was written by earlier nodes.              *)
LEMMA AttentionReads ==
  ASSUME args \in Requests, NEW k \in DOMAIN Graph, Graph[k].op = "attention"
  PROVE  /\ \A x \in ToSet(Graph[k].inputs) : \E a \in DOMAIN Graph : a < k /\ Graph[a].output = x
         /\ Graph[k].inputs[1] \in ToSet(Graph[k].inputs)
<1>1. PICK L : /\ Graph[k].inputs = <<<<L, "qr">>, <<L, "kcache">>, <<L, "vcache">>>>
               /\ \E a, b, c \in DOMAIN Graph :
                          /\ a < k /\ Graph[a].output = <<L, "qr">>
                          /\ b < k /\ Graph[b].output = <<L, "kcache">>
                          /\ c < k /\ Graph[c].output = <<L, "vcache">>
  BY GraphFacts
<1>2. PICK x, y, z : x = <<L, "qr">> /\ y = <<L, "kcache">> /\ z = <<L, "vcache">>
  OBVIOUS
<1>3. Graph[k].inputs = <<x, y, z>>
  BY <1>1, <1>2
<1>4. ToSet(Graph[k].inputs) = {x, y, z} /\ Graph[k].inputs[1] = x
  BY <1>3 DEF ToSet
<1> QED
  BY <1>1, <1>2, <1>4

(* The query of one attention node is an operand of no other.              *)
LEMMA QueriesApart ==
  ASSUME args \in Requests, NEW s, NEW i \in Nat,
         \A x, y \in DOMAIN s.buf : s.buf[x] = s.buf[y] => x = y,
         \A k \in DOMAIN Graph : k < i => Graph[k].output \in DOMAIN s.buf,
         NEW j \in DOMAIN Graph, j <= i, Graph[j].op = "attention",
         NEW k \in DOMAIN Graph, k <= i, Graph[k].op = "attention",
         s.buf[Graph[k].inputs[1]] \in Operands(s, Graph[j])
  PROVE  k = j
<1>1. PICK L : Graph[k].output = <<L, "attn">> /\ Graph[k].inputs = <<<<L, "qr">>, <<L, "kcache">>, <<L, "vcache">>>>
  BY GraphFacts
<1>2. PICK M : Graph[j].output = <<M, "attn">> /\ Graph[j].inputs = <<<<M, "qr">>, <<M, "kcache">>, <<M, "vcache">>>>
  BY GraphFacts
<1>3. PICK x \in ToSet(Graph[j].inputs) : s.buf[x] = s.buf[Graph[k].inputs[1]]
  BY DEF Operands
<1>4. DOMAIN Graph \subseteq Nat
  BY GraphIs
<1>5. x \in DOMAIN s.buf
  <2>1. PICK a \in DOMAIN Graph : a < j /\ Graph[a].output = x
    BY AttentionReads
  <2>2. a < i
    BY <1>4, <2>1
  <2> QED
    BY <2>1, <2>2
<1>6. Graph[k].inputs[1] \in DOMAIN s.buf
  <2>1. PICK a \in DOMAIN Graph : a < k /\ Graph[a].output = Graph[k].inputs[1]
    BY AttentionReads
  <2>2. a < i
    BY <1>4, <2>1
  <2> QED
    BY <2>1, <2>2
<1>7. x = <<L, "qr">>
  BY <1>1, <1>3, <1>5, <1>6
<1>8. x = <<M, "qr">> \/ x = <<M, "kcache">> \/ x = <<M, "vcache">>
  <2>1. PICK a, b, c : a = <<M, "qr">> /\ b = <<M, "kcache">> /\ c = <<M, "vcache">>
    OBVIOUS
  <2>2. Graph[j].inputs = <<a, b, c>>
    BY <1>2, <2>1
  <2>3. ToSet(Graph[j].inputs) = {a, b, c}
    BY <2>2 DEF ToSet
  <2> QED
    BY <2>1, <2>3
<1>9. L = M
  BY <1>7, <1>8
<1>10. Graph[k].output = Graph[j].output
  BY <1>1, <1>2, <1>9
<1> QED
  BY <1>10, OutputsApart

(* Lowering node i to the state e.                                         *)
Grown(s, e, i) ==
  /\ DOMAIN s.buf \subseteq DOMAIN e.buf /\ Graph[i].output \in DOMAIN e.buf
  /\ \A k \in DOMAIN Graph : k < i => e.buf[Graph[k].output] = s.buf[Graph[k].output]
  /\ TaskIds(s.p) \subseteq TaskIds(e.p)
  /\ \A t \in TaskIds(s.p) : e.p.tasks[t] = s.p.tasks[t]

NewTiles(s, e) == AttentionTiles(e) \ TaskIds(s.p)

LEMMA StepLowers ==
  ASSUME args \in Requests, NEW s, NEW i \in DOMAIN Graph, LoweredTo(s, i),
         NEW e, Built(e), EdgesWhole(e, {}), Grown(s, e, i),
         \A t \in NewTiles(s, e) : /\ Graph[i].op = "attention"
                                   /\ e.p.tasks[t].inputs = Operands(s, Graph[i]),
         Graph[i].op = "attention" =>
           /\ UNION {Window(e, t) : t \in NewTiles(s, e)} = 0 .. args.pos
           /\ \A t \in NewTiles(s, e) : Window(e, t) # {}
           /\ \A t, u \in NewTiles(s, e) : t # u =>
                Window(e, t) \cap Window(e, u) = {} /\ e.p.tasks[t].sm # e.p.tasks[u].sm
  PROVE  LoweredTo(e, i + 1)
<1>1. DOMAIN Graph \subseteq Nat /\ i \in Nat
  BY GraphIs
<1>2. \A k \in DOMAIN Graph : k < i + 1 => k < i \/ k = i
  BY <1>1
<1>3. ASSUME NEW k \in DOMAIN Graph, k <= i, Graph[k].op = "attention"
      PROVE  /\ \A x \in ToSet(Graph[k].inputs) : x \in DOMAIN s.buf /\ e.buf[x] = s.buf[x]
             /\ Operands(e, Graph[k]) = Operands(s, Graph[k])
             /\ e.buf[Graph[k].inputs[1]] = s.buf[Graph[k].inputs[1]]
             /\ s.buf[Graph[k].inputs[1]] \in Operands(s, Graph[k])
  <2>1. \A x \in ToSet(Graph[k].inputs) : x \in DOMAIN s.buf /\ e.buf[x] = s.buf[x]
    <3> TAKE x \in ToSet(Graph[k].inputs)
    <3>1. PICK a \in DOMAIN Graph : a < k /\ Graph[a].output = x
      BY <1>3, AttentionReads
    <3>2. a < i
      BY <1>1, <1>3, <3>1
    <3> QED
      BY <3>1, <3>2 DEF Grown, LoweredTo
  <2>2. Graph[k].inputs[1] \in ToSet(Graph[k].inputs)
    BY <1>3, AttentionReads
  <2> QED
    BY <2>1, <2>2 DEF Operands
<1>4. ASSUME NEW j \in DOMAIN Graph, j <= i, Graph[j].op = "attention",
             NEW k \in DOMAIN Graph, k <= i, Graph[k].op = "attention",
             s.buf[Graph[k].inputs[1]] \in Operands(s, Graph[j])
      PROVE  k = j
  <2>1. /\ \A x, y \in DOMAIN s.buf : s.buf[x] = s.buf[y] => x = y
        /\ \A a \in DOMAIN Graph : a < i => Graph[a].output \in DOMAIN s.buf
    BY DEF LoweredTo, Built
  <2> QED
    BY <1>1, <1>4, <2>1, QueriesApart
<1>5. \A t \in AttentionTiles(e) :
       \/ t \in AttentionTiles(s) /\ e.p.tasks[t] = s.p.tasks[t]
       \/ t \in NewTiles(s, e)
  BY DEF Grown, AttentionTiles, NewTiles
<1>6. AttentionTiles(s) \subseteq AttentionTiles(e) /\ NewTiles(s, e) \subseteq AttentionTiles(e)
  BY DEF Grown, AttentionTiles, NewTiles
<1>7. \A k \in DOMAIN Graph : k < i + 1 => Graph[k].output \in DOMAIN e.buf
  BY <1>2 DEF Grown, LoweredTo
<1>8. ASSUME NEW t \in AttentionTiles(e)
      PROVE  \E k \in DOMAIN Graph : /\ k < i + 1 /\ Graph[k].op = "attention"
                                     /\ e.p.tasks[t].inputs = Operands(e, Graph[k])
  <2>1. CASE t \in AttentionTiles(s) /\ e.p.tasks[t] = s.p.tasks[t]
    <3>1. PICK k \in DOMAIN Graph : k < i /\ Graph[k].op = "attention" /\ s.p.tasks[t].inputs = Operands(s, Graph[k])
      BY <2>1 DEF LoweredTo
    <3>2. k <= i /\ k < i + 1
      BY <1>1, <3>1
    <3> QED
      BY <1>3, <2>1, <3>1, <3>2
  <2>2. CASE t \in NewTiles(s, e)
    <3>1. i <= i /\ i < i + 1
      BY <1>1
    <3> QED
      BY <1>3, <2>2, <3>1
  <2> QED
    BY <1>5, <2>1, <2>2
<1> DEFINE Reading(g, n) == {t \in TaskIds(g.p) : /\ g.p.tasks[t].op = "ATTENTION_TILE"
                                                 /\ g.buf[n.inputs[1]] \in g.p.tasks[t].inputs}
<1>9. ASSUME NEW k \in DOMAIN Graph, k < i, Graph[k].op = "attention"
      PROVE  Attended(e, Graph[k])
  <2>1. k <= i /\ i <= i /\ k # i
    BY <1>1, <1>9
  <2>2. \A t \in NewTiles(s, e) : s.buf[Graph[k].inputs[1]] \notin e.p.tasks[t].inputs
    BY <1>4, <1>9, <2>1
  <2>3. e.buf[Graph[k].inputs[1]] = s.buf[Graph[k].inputs[1]]
    BY <1>3, <1>9, <2>1
  <2>4. Reading(e, Graph[k]) = Reading(s, Graph[k])
    BY <1>5, <1>6, <2>2, <2>3 DEF AttentionTiles, Grown
  <2>5. \A t \in Reading(s, Graph[k]) : e.p.tasks[t] = s.p.tasks[t] /\ Window(e, t) = Window(s, t)
    BY DEF Grown, Window
  <2>6. Attended(s, Graph[k])
    BY <1>9 DEF LoweredTo
  <2>7. /\ UNION {Window(s, t) : t \in Reading(s, Graph[k])} = 0 .. args.pos
        /\ \A t \in Reading(s, Graph[k]) : Window(s, t) # {}
        /\ \A t, u \in Reading(s, Graph[k]) : t # u =>
             Window(s, t) \cap Window(s, u) = {} /\ s.p.tasks[t].sm # s.p.tasks[u].sm
    BY <2>6 DEF Attended
  <2> HIDE DEF Reading
  <2>8. /\ UNION {Window(e, t) : t \in Reading(e, Graph[k])} = 0 .. args.pos
        /\ \A t \in Reading(e, Graph[k]) : Window(e, t) # {}
        /\ \A t, u \in Reading(e, Graph[k]) : t # u =>
             Window(e, t) \cap Window(e, u) = {} /\ e.p.tasks[t].sm # e.p.tasks[u].sm
    BY <2>4, <2>5, <2>7
  <2> QED
    BY <2>8 DEF Attended, Reading
<1>10. ASSUME Graph[i].op = "attention" PROVE Attended(e, Graph[i])
  <2>0. i <= i
    BY <1>1
  <2>1. /\ e.buf[Graph[i].inputs[1]] = s.buf[Graph[i].inputs[1]]
        /\ s.buf[Graph[i].inputs[1]] \in Operands(s, Graph[i])
    BY <1>3, <1>10, <2>0
  <2>2. ASSUME NEW t \in AttentionTiles(s) PROVE s.buf[Graph[i].inputs[1]] \notin s.p.tasks[t].inputs
    <3>1. PICK k \in DOMAIN Graph : k < i /\ Graph[k].op = "attention" /\ s.p.tasks[t].inputs = Operands(s, Graph[k])
      BY DEF LoweredTo
    <3>2. k <= i /\ k # i
      BY <1>1, <3>1
    <3> QED
      BY <1>4, <1>10, <2>0, <3>1, <3>2
  <2>3. Reading(e, Graph[i]) = NewTiles(s, e)
    <3>1. Reading(e, Graph[i]) \subseteq NewTiles(s, e)
      BY <1>5, <2>1, <2>2 DEF AttentionTiles
    <3>2. NewTiles(s, e) \subseteq Reading(e, Graph[i])
      BY <1>6, <2>1 DEF AttentionTiles
    <3> QED
      BY <3>1, <3>2
  <2> HIDE DEF Reading
  <2>4. /\ UNION {Window(e, t) : t \in Reading(e, Graph[i])} = 0 .. args.pos
        /\ \A t \in Reading(e, Graph[i]) : Window(e, t) # {}
        /\ \A t, u \in Reading(e, Graph[i]) : t # u =>
             Window(e, t) \cap Window(e, u) = {} /\ e.p.tasks[t].sm # e.p.tasks[u].sm
    BY <1>10, <2>3
  <2> QED
    BY <2>4 DEF Attended, Reading
<1>11. \A k \in DOMAIN Graph : k < i + 1 /\ Graph[k].op = "attention" => Attended(e, Graph[k])
  BY <1>2, <1>9, <1>10
<1> QED
  BY <1>7, <1>8, <1>11 DEF LoweredTo

LEMMA OutputsOfProjections ==
  ASSUME args \in Requests, NEW i \in DOMAIN Graph
  PROVE  /\ Graph[i].op # "linear" => \A x \in ToSet(Graph) : x.op = "linear" => x.output # Graph[i].output
         /\ Graph[i].op = "linear" => Covers(Graph[i].output, Tiles(Graph[i].N))
         /\ \A x \in ToSet(Graph) : IsPair(x.output)
         /\ Graph[i] \in ToSet(Graph)
<1>1. \A x \in ToSet(Graph) : \E j \in DOMAIN Graph : x = Graph[j]
  BY DEF ToSet
<1>2. \A x \in ToSet(Graph) : x.output = Graph[i].output => x = Graph[i]
  BY <1>1, OutputsApart
<1>3. Graph[i].op = "linear" => Graph[i].N \in Nat \ {0}
  BY GraphFacts
<1>4. \A x \in ToSet(Graph) : IsPair(x.output)
  BY <1>1, GraphFacts
<1> QED
  BY <1>2, <1>3, <1>4 DEF Covers, ToSet

(* A node that is not attention.                                           *)
LEMMA PlainStep ==
  ASSUME args \in Requests, NEW s, NEW i \in DOMAIN Graph, LoweredTo(s, i), Graph[i].op # "attention",
         NEW e, Built(e), EdgesWhole(e, {}),
         DOMAIN s.buf \subseteq DOMAIN e.buf, Graph[i].output \in DOMAIN e.buf,
         \A y \in DOMAIN s.buf : IsPair(y) /\ y # Graph[i].output => e.buf[y] = s.buf[y],
         NEW k \in Nat, Len(e.p.tasks) = Len(s.p.tasks) + k,
         \A t \in 1 .. Len(s.p.tasks) : e.p.tasks[t] = s.p.tasks[t],
         \A t \in Len(s.p.tasks) + 1 .. Len(s.p.tasks) + k : e.p.tasks[t].op # "ATTENTION_TILE"
  PROVE  LoweredTo(e, i + 1)
<1>1. PICK m \in Nat : m = Len(s.p.tasks)
  BY ListFacts DEF LoweredTo, Built
<1>2. TaskIds(s.p) = 1 .. m /\ TaskIds(e.p) = 1 .. m + k
  BY <1>1 DEF TaskIds
<1>3. TaskIds(s.p) \subseteq TaskIds(e.p)
  BY <1>2
<1>4. \A t \in 1 .. m + k : t \in 1 .. m \/ t \in m + 1 .. m + k
  OBVIOUS
<1>5. NewTiles(s, e) = {}
  BY <1>1, <1>2, <1>4 DEF NewTiles, AttentionTiles
<1>6. ASSUME NEW a \in DOMAIN Graph, a < i PROVE e.buf[Graph[a].output] = s.buf[Graph[a].output]
  <2>1. a # i
    BY <1>6, GraphIs
  <2>2. Graph[a].output # Graph[i].output
    BY <2>1, OutputsApart
  <2>3. IsPair(Graph[a].output) /\ Graph[a].output \in DOMAIN s.buf
    BY <1>6, GraphFacts DEF LoweredTo
  <2> QED
    BY <2>2, <2>3
<1>7. Grown(s, e, i)
  BY <1>1, <1>2, <1>3, <1>6 DEF Grown
<1> QED
  BY <1>5, <1>7, StepLowers

LEMMA SingleStep ==
  ASSUME LowerInv, NEW op, NEW opcode,
         op \notin {"linear", "attention"}, opcode # "ATTENTION_TILE", OpSingle(op, opcode)
  PROVE  LoweredTo(self', node + 1)
<1> DEFINE n == Graph[node]
           s == Weight(self, n)
           weights == IF n.weight = None THEN {} ELSE s.wbuf[WeightKey(n)]
           e == EmitOne(s, opcode, n.inputs, weights, n.output)
           m == Len(self.p.tasks)
<1>1. node \in DOMAIN Graph /\ n.op = op /\ self' = e
  BY DEF OpSingle, At
<1>2. args \in Requests /\ LoweredTo(self, node) /\ Built(self) /\ EdgesWhole(self, {})
  BY DEF LowerInv, LoweredTo
<1>3. /\ Built(s) /\ EdgesWhole(s, {}) /\ s.p.tasks = self.p.tasks /\ s.buf = self.buf
  BY <1>2, WeightIs
<1>4. \A x \in ToSet(Graph) : x.op = "linear" => x.output # n.output
  BY <1>1, <1>2, OutputsOfProjections
<1> HIDE DEF s, weights, n
<1>9. OneEmitted(s, e, opcode, n.inputs, weights, n.output)
  BY <1>2, <1>3, <1>4, EmitOneIs
<1> HIDE DEF e
<1>5. /\ Built(e)
      /\ DOMAIN e.buf = DOMAIN s.buf \cup {n.output}
      /\ \A y \in DOMAIN s.buf : y # n.output => e.buf[y] = s.buf[y]
      /\ Len(e.p.tasks) = Len(s.p.tasks) + 1
      /\ \A t \in 1 .. Len(s.p.tasks) : e.p.tasks[t] = s.p.tasks[t]
      /\ e.p.tasks[Len(s.p.tasks) + 1].op = opcode
      /\ EdgesWhole(e, {})
  BY <1>3, <1>9 DEF OneEmitted
<1>6. m \in Nat
  BY <1>2, ListFacts DEF Built
<1>7. \A t \in m + 1 .. m + 1 : e.p.tasks[t].op # "ATTENTION_TILE"
  <2>1. \A t \in m + 1 .. m + 1 : t = m + 1
    BY <1>6
  <2> QED
    BY <1>3, <1>5, <2>1
<1>8. LoweredTo(e, node + 1)
  <2>1. /\ Graph[node].op # "attention" /\ Graph[node].output \in DOMAIN e.buf
        /\ DOMAIN self.buf \subseteq DOMAIN e.buf
        /\ \A y \in DOMAIN self.buf : IsPair(y) /\ y # Graph[node].output => e.buf[y] = self.buf[y]
        /\ Len(e.p.tasks) = Len(self.p.tasks) + 1
        /\ \A t \in 1 .. Len(self.p.tasks) : e.p.tasks[t] = self.p.tasks[t]
    BY <1>1, <1>3, <1>5 DEF n
  <2>2. 1 \in Nat
    OBVIOUS
  <2> QED
    BY <1>1, <1>2, <1>5, <1>7, <2>1, <2>2, PlainStep
<1> QED
  BY <1>1, <1>8

LEMMA LinearStep ==
  ASSUME LowerInv, OpLinear
  PROVE  LoweredTo(self', node + 1)
<1> DEFINE n == Graph[node]
           w == Weight(self, n)
           kind == IF n.output = <<0, "logits">> THEN "IO_OUTPUT" ELSE "ACTIVATION"
           s == NewBuffer(w, n.output, kind)
           opcode == IF args.B > 1 THEN "GEMM_TILE" ELSE "GEMV_TILE"
           weights == s.wbuf[WeightKey(n)]
           tiles == Tiles(n.N)
           e == Emit(s, opcode, n.inputs, weights, n.output, tiles, WholeWindow, NoSM)
           m == Len(self.p.tasks)
<1>1. node \in DOMAIN Graph /\ n.op = "linear" /\ self' = e
  BY DEF OpLinear, At
<1>2. args \in Requests /\ LoweredTo(self, node) /\ Built(self) /\ EdgesWhole(self, {})
  BY DEF LowerInv, LoweredTo
<1>3. /\ Built(w) /\ EdgesWhole(w, {}) /\ w.p.tasks = self.p.tasks /\ w.buf = self.buf
  BY <1>2, WeightIs
<1>4. Covers(n.output, tiles)
  BY <1>1, <1>2, OutputsOfProjections
<1>5. PICK k \in Nat \ {0} : tiles = [i \in 1 .. k |-> tiles[i]]
  <2>1. n.N \in Nat \ {0}
    BY <1>1, <1>2, GraphFacts
  <2>2. PICK q \in 1 .. MAX_TILES : tiles = [i \in 1 .. q |-> tiles[i]]
    BY <1>2, <2>1, TilesCover
  <2>3. MAX_TILES \in Nat
    BY LimitsAssumption
  <2> QED
    BY <2>2, <2>3
<1>6. opcode # "ATTENTION_TILE"
  OBVIOUS
<1> HIDE DEF w, kind, tiles, weights, n, opcode
<1>7. /\ Built(s) /\ s.p.tasks = w.p.tasks
      /\ DOMAIN s.buf = DOMAIN w.buf \cup {n.output}
      /\ \A y \in DOMAIN w.buf : y # n.output => s.buf[y] = w.buf[y]
      /\ Writers(s.p, s.buf[n.output]) = {}
      /\ EdgesWhole(s, {n.output})
  <2>1. BufferAdded(w, s, n.output)
    BY <1>3, NewBufferIs
  <2> HIDE DEF s
  <2> QED
    BY <1>3, <2>1 DEF BufferAdded
<1> HIDE DEF s
<1>8. n.output \in DOMAIN s.buf
  BY <1>7
<1>9. /\ Built(e)
      /\ e.buf = s.buf
      /\ Len(e.p.tasks) = Len(s.p.tasks) + k
      /\ \A t \in 1 .. Len(s.p.tasks) : e.p.tasks[t] = s.p.tasks[t]
      /\ \A t \in Len(s.p.tasks) + 1 .. Len(s.p.tasks) + k : e.p.tasks[t].op = opcode
      /\ EdgesWhole(e, {})
  <2>1. Emitted(s, e, opcode, n.inputs, weights, n.output, k, WholeWindow)
    BY <1>2, <1>4, <1>5, <1>7, <1>8, EmitIs
  <2> HIDE DEF e
  <2> QED
    BY <1>7, <2>1 DEF Emitted
<1> HIDE DEF e
<1>10. LoweredTo(e, node + 1)
  <2>1. /\ Graph[node].op # "attention" /\ Graph[node].output \in DOMAIN e.buf
        /\ DOMAIN self.buf \subseteq DOMAIN e.buf
        /\ \A y \in DOMAIN self.buf : IsPair(y) /\ y # Graph[node].output => e.buf[y] = self.buf[y]
        /\ Len(e.p.tasks) = Len(self.p.tasks) + k
        /\ \A t \in 1 .. Len(self.p.tasks) : e.p.tasks[t] = self.p.tasks[t]
        /\ \A t \in Len(self.p.tasks) + 1 .. Len(self.p.tasks) + k : e.p.tasks[t].op # "ATTENTION_TILE"
    BY <1>1, <1>3, <1>6, <1>7, <1>9 DEF n
  <2>2. k \in Nat
    OBVIOUS
  <2> QED
    BY <1>1, <1>2, <1>9, <2>1, <2>2, PlainStep
<1> QED
  BY <1>1, <1>10

LEMMA KvAppendStep ==
  ASSUME LowerInv, OpKvAppend
  PROVE  LoweredTo(self', node + 1)
<1> DEFINE n == Graph[node]
           kind == "KV_CACHE"
           s == NewBuffer(self, n.output, kind)
           opcode == "KV_APPEND"
           tiles == <<Whole>>
           tensors == n.inputs \o <<n.output>>
           weights == {}
           e == Emit(s, opcode, tensors, weights, n.output, tiles, WholeWindow, NoSM)
           m == Len(self.p.tasks)
<1>1. node \in DOMAIN Graph /\ n.op = "kv_append" /\ self' = e
  BY DEF OpKvAppend, At
<1>2. args \in Requests /\ LoweredTo(self, node) /\ Built(self) /\ EdgesWhole(self, {})
  BY DEF LowerInv, LoweredTo
<1>3. Covers(n.output, tiles)
  BY <1>1, <1>2, OutputsOfProjections DEF Covers
<1>4. PICK k \in Nat \ {0} : tiles = [i \in 1 .. k |-> tiles[i]] /\ k = 1
  OBVIOUS
<1>5. opcode # "ATTENTION_TILE"
  OBVIOUS
<1> HIDE DEF kind, tiles, tensors, weights, n, opcode
<1>7. /\ Built(s) /\ s.p.tasks = self.p.tasks
      /\ DOMAIN s.buf = DOMAIN self.buf \cup {n.output}
      /\ \A y \in DOMAIN self.buf : y # n.output => s.buf[y] = self.buf[y]
      /\ Writers(s.p, s.buf[n.output]) = {}
      /\ EdgesWhole(s, {n.output})
  <2>1. BufferAdded(self, s, n.output)
    BY <1>2, NewBufferIs
  <2> HIDE DEF s
  <2> QED
    BY <1>2, <2>1 DEF BufferAdded
<1> HIDE DEF s
<1>8. n.output \in DOMAIN s.buf
  BY <1>7
<1>9. /\ Built(e)
      /\ e.buf = s.buf
      /\ Len(e.p.tasks) = Len(s.p.tasks) + k
      /\ \A t \in 1 .. Len(s.p.tasks) : e.p.tasks[t] = s.p.tasks[t]
      /\ \A t \in Len(s.p.tasks) + 1 .. Len(s.p.tasks) + k : e.p.tasks[t].op = opcode
      /\ EdgesWhole(e, {})
  <2>1. Emitted(s, e, opcode, tensors, weights, n.output, k, WholeWindow)
    BY <1>2, <1>3, <1>4, <1>7, <1>8, EmitIs
  <2> HIDE DEF e
  <2> QED
    BY <1>7, <2>1 DEF Emitted
<1> HIDE DEF e
<1>10. LoweredTo(e, node + 1)
  <2>1. /\ Graph[node].op # "attention" /\ Graph[node].output \in DOMAIN e.buf
        /\ DOMAIN self.buf \subseteq DOMAIN e.buf
        /\ \A y \in DOMAIN self.buf : IsPair(y) /\ y # Graph[node].output => e.buf[y] = self.buf[y]
        /\ Len(e.p.tasks) = Len(self.p.tasks) + k
        /\ \A t \in 1 .. Len(self.p.tasks) : e.p.tasks[t] = self.p.tasks[t]
        /\ \A t \in Len(self.p.tasks) + 1 .. Len(self.p.tasks) + k : e.p.tasks[t].op # "ATTENTION_TILE"
    BY <1>1, <1>5, <1>7, <1>9 DEF n
  <2>2. k \in Nat
    OBVIOUS
  <2> QED
    BY <1>1, <1>2, <1>9, <2>1, <2>2, PlainStep
<1> QED
  BY <1>1, <1>10

LEMMA RopeStep ==
  ASSUME LowerInv, OpRope
  PROVE  LoweredTo(self', node + 1)
<1> DEFINE n == Graph[node]
           hs == <<n.output[1], n.output[2], "hs">>
           gathered == n.inputs \o <<<<0, "reshape_id">>>>
           rotated == <<hs, <<0, "pos">>>>
           weights == {}
           op1 == "EMBED"
           op2 == "ROPE"
           s == EmitOne(self, op1, gathered, weights, hs)
           e == EmitOne(s, op2, rotated, weights, n.output)
           m == Len(self.p.tasks)
<1>1. node \in DOMAIN Graph /\ n.op = "rope" /\ self' = e
  BY DEF OpRope, At
<1>2. args \in Requests /\ LoweredTo(self, node) /\ Built(self) /\ EdgesWhole(self, {})
  BY DEF LowerInv, LoweredTo
<1>3. \A x \in ToSet(Graph) : x.op = "linear" => x.output # n.output
  BY <1>1, <1>2, OutputsOfProjections
<1>4. ~ IsPair(hs) /\ \A x \in ToSet(Graph) : x.op = "linear" => x.output # hs
  <2>1. ~ IsPair(hs)
    BY PairsApart
  <2> QED
    BY <1>1, <1>2, <2>1, OutputsOfProjections
<1>5. op1 # "ATTENTION_TILE" /\ op2 # "ATTENTION_TILE"
  OBVIOUS
<1> HIDE DEF hs, gathered, rotated, weights, n, op1, op2
<1>6. /\ Built(s)
      /\ DOMAIN s.buf = DOMAIN self.buf \cup {hs}
      /\ \A y \in DOMAIN self.buf : y # hs => s.buf[y] = self.buf[y]
      /\ Len(s.p.tasks) = Len(self.p.tasks) + 1
      /\ \A t \in 1 .. Len(self.p.tasks) : s.p.tasks[t] = self.p.tasks[t]
      /\ s.p.tasks[Len(self.p.tasks) + 1].op = op1
      /\ EdgesWhole(s, {})
  <2>1. OneEmitted(self, s, op1, gathered, weights, hs)
    BY <1>2, <1>4, EmitOneIs
  <2> HIDE DEF s
  <2> QED
    BY <1>2, <2>1 DEF OneEmitted
<1> HIDE DEF s
<1>7. /\ Built(e)
      /\ DOMAIN e.buf = DOMAIN s.buf \cup {n.output}
      /\ \A y \in DOMAIN s.buf : y # n.output => e.buf[y] = s.buf[y]
      /\ Len(e.p.tasks) = Len(s.p.tasks) + 1
      /\ \A t \in 1 .. Len(s.p.tasks) : e.p.tasks[t] = s.p.tasks[t]
      /\ e.p.tasks[Len(s.p.tasks) + 1].op = op2
      /\ EdgesWhole(e, {})
  <2>1. OneEmitted(s, e, op2, rotated, weights, n.output)
    BY <1>2, <1>3, <1>6, EmitOneIs
  <2> HIDE DEF e
  <2> QED
    BY <1>6, <2>1 DEF OneEmitted
<1> HIDE DEF e
<1>8. m \in Nat
  BY <1>2, ListFacts DEF Built
<1> HIDE DEF m
<1>9. Len(s.p.tasks) = m + 1 /\ Len(e.p.tasks) = m + 2
  BY <1>6, <1>7, <1>8 DEF m
<1>10. \A t \in 1 .. m : e.p.tasks[t] = self.p.tasks[t]
  <2>1. \A t \in 1 .. m : t \in 1 .. m + 1
    BY <1>8
  <2> QED
    BY <1>6, <1>7, <1>9, <2>1 DEF m
<1>11. \A t \in m + 1 .. m + 2 : e.p.tasks[t].op # "ATTENTION_TILE"
  <2>1. \A t \in m + 1 .. m + 2 : t = m + 1 \/ t = m + 2
    BY <1>8
  <2>2. m + 1 \in 1 .. m + 1 /\ (m + 1) + 1 = m + 2
    BY <1>8
  <2>3. e.p.tasks[m + 1].op = op1 /\ e.p.tasks[m + 2].op = op2
    BY <1>6, <1>7, <1>9, <2>2 DEF m
  <2> QED
    BY <1>5, <2>1, <2>3
<1>12. LoweredTo(e, node + 1)
  <2>1. /\ Graph[node].op # "attention" /\ Graph[node].output \in DOMAIN e.buf
        /\ DOMAIN self.buf \subseteq DOMAIN e.buf
        /\ \A y \in DOMAIN self.buf : IsPair(y) /\ y # Graph[node].output => e.buf[y] = self.buf[y]
    BY <1>1, <1>4, <1>6, <1>7 DEF n
  <2>2. 2 \in Nat
    OBVIOUS
  <2>3. /\ Len(e.p.tasks) = Len(self.p.tasks) + 2
        /\ \A t \in 1 .. Len(self.p.tasks) : e.p.tasks[t] = self.p.tasks[t]
        /\ \A t \in Len(self.p.tasks) + 1 .. Len(self.p.tasks) + 2 : e.p.tasks[t].op # "ATTENTION_TILE"
    BY <1>9, <1>10, <1>11 DEF m
  <2> QED
    BY <1>1, <1>2, <1>7, <2>1, <2>2, <2>3, PlainStep
<1> QED
  BY <1>1, <1>12

LEMMA AttentionStep ==
  ASSUME LowerInv, OpAttention
  PROVE  LoweredTo(self', node + 1)
<1> DEFINE n == Graph[node]
           op == "ATTENTION_TILE"
           weights == {}
           e == EmitOne(self, op, n.inputs, weights, n.output)
           m == Len(self.p.tasks)
<1>1. node \in DOMAIN Graph /\ n.op = "attention" /\ self' = e
  BY DEF OpAttention, At
<1>2. args \in Requests /\ LoweredTo(self, node) /\ Built(self) /\ EdgesWhole(self, {})
  BY DEF LowerInv, LoweredTo
<1>3. \A x \in ToSet(Graph) : x.op = "linear" => x.output # n.output
  BY <1>1, <1>2, OutputsOfProjections
<1> HIDE DEF op, weights
<1>4. OneEmitted(self, e, op, n.inputs, weights, n.output)
  BY <1>2, <1>3, EmitOneIs
<1> HIDE DEF e
<1>5. /\ Built(e)
      /\ DOMAIN e.buf = DOMAIN self.buf \cup {n.output}
      /\ \A y \in DOMAIN self.buf : y # n.output => e.buf[y] = self.buf[y]
      /\ Len(e.p.tasks) = m + 1
      /\ \A t \in 1 .. m : e.p.tasks[t] = self.p.tasks[t]
      /\ e.p.tasks[m + 1].op = op
      /\ e.p.tasks[m + 1].inputs = {e.buf[x] : x \in ToSet(n.inputs)}
      /\ e.p.tasks[m + 1].window = WholeWindow
      /\ EdgesWhole(e, {})
  BY <1>2, <1>4 DEF OneEmitted, weights
<1>6. m \in Nat
  BY <1>2, ListFacts DEF Built
<1> HIDE DEF m
<1>7. TaskIds(self.p) = 1 .. m /\ TaskIds(e.p) = 1 .. m + 1
  BY <1>5 DEF TaskIds, m
<1>8. ASSUME NEW a \in DOMAIN Graph, a < node
      PROVE  /\ Graph[a].output \in DOMAIN self.buf
             /\ e.buf[Graph[a].output] = self.buf[Graph[a].output]
  <2>1. a # node
    BY <1>1, <1>2, <1>8, GraphIs
  <2>2. Graph[a].output # n.output
    BY <1>1, <1>2, <2>1, OutputsApart
  <2>3. Graph[a].output \in DOMAIN self.buf
    BY <1>2, <1>8 DEF LoweredTo
  <2> QED
    BY <1>5, <2>2, <2>3
<1>9. Grown(self, e, node)
  <2>1. 1 .. m \subseteq 1 .. m + 1
    BY <1>6
  <2> QED
    BY <1>5, <1>7, <1>8, <2>1 DEF Grown, n
<1>10. NewTiles(self, e) = {m + 1}
  <2>1. m + 1 \in 1 .. m + 1 /\ m + 1 \notin 1 .. m /\ \A t \in 1 .. m + 1 : t \in 1 .. m \/ t = m + 1
    BY <1>6
  <2> QED
    BY <1>5, <1>7, <2>1 DEF NewTiles, AttentionTiles, op
<1>11. e.p.tasks[m + 1].inputs = Operands(self, n)
  <2>1. \A x \in ToSet(n.inputs) : \E a \in DOMAIN Graph : a < node /\ Graph[a].output = x
    BY <1>1, <1>2, AttentionReads
  <2>2. \A x \in ToSet(n.inputs) : e.buf[x] = self.buf[x]
    BY <1>8, <2>1
  <2> QED
    BY <1>5, <2>2 DEF Operands
<1>12. Window(e, m + 1) = 0 .. args.pos /\ 0 .. args.pos # {}
  <2>1. kv_len \in Nat \ {0} /\ kv_len - 1 = args.pos
    BY <1>2, PartsAre
  <2>2. e.p.tasks[m + 1].window.start = 0 /\ e.p.tasks[m + 1].window.len = kv_len
    BY <1>5 DEF WholeWindow
  <2>3. 0 + kv_len - 1 = kv_len - 1
    BY <2>1
  <2>4. 0 \in 0 .. args.pos
    BY <2>1
  <2> QED
    BY <2>1, <2>2, <2>3, <2>4 DEF Window
<1>13. LoweredTo(e, node + 1)
  <2>1. \A t \in NewTiles(self, e) : Graph[node].op = "attention" /\ e.p.tasks[t].inputs = Operands(self, Graph[node])
    BY <1>1, <1>10, <1>11 DEF n
  <2>2. /\ UNION {Window(e, t) : t \in NewTiles(self, e)} = 0 .. args.pos
        /\ \A t \in NewTiles(self, e) : Window(e, t) # {}
        /\ \A t, u \in NewTiles(self, e) : t # u =>
             Window(e, t) \cap Window(e, u) = {} /\ e.p.tasks[t].sm # e.p.tasks[u].sm
    BY <1>10, <1>12
  <2> QED
    BY <1>1, <1>2, <1>5, <1>9, <2>1, <2>2, StepLowers
<1> QED
  BY <1>1, <1>13

LEMMA AttentionSplitStep ==
  ASSUME LowerInv, OpAttentionSplit
  PROVE  LoweredTo(self', node + 1)
<1> DEFINE n == Graph[node]
           s == EmitShards(self, n)
           op == "ATTENTION_COMBINE"
           tensors == [i \in DOMAIN Shards |-> Part(n, i)]
           weights == {}
           e == EmitOne(s, op, tensors, weights, n.output)
           m == Len(self.p.tasks)
<1>1. node \in DOMAIN Graph /\ n.op = "attention" /\ Parts > 1 /\ self' = e
  BY DEF OpAttentionSplit, At
<1>2. args \in Requests /\ LoweredTo(self, node) /\ Built(self) /\ EdgesWhole(self, {})
  BY DEF LowerInv, LoweredTo
<1>3. /\ \A x \in ToSet(Graph) : x.op = "linear" => x.output # n.output
      /\ \A x \in ToSet(Graph) : IsPair(x.output)
  BY <1>1, <1>2, OutputsOfProjections
<1> DEFINE W(i) == Shards[i].start .. Shards[i].start + Shards[i].len - 1
<1>4. PICK k \in 1 .. Parts : /\ Shards = [i \in 1 .. k |-> Shards[i]]
                              /\ \A i \in 1 .. k : W(i) # {}
                              /\ UNION {W(i) : i \in 1 .. k} = 0 .. args.pos
                              /\ \A i, j \in 1 .. k : i # j => W(i) \cap W(j) = {}
  BY <1>2, ShardsSplit
<1>5. k \in Nat \ {0} /\ k <= args.num_sms /\ args.num_sms \in Nat \ {0}
  <2>1. Parts \in Nat /\ Parts <= args.num_sms /\ args.num_sms \in Nat \ {0}
    BY <1>1, <1>2, PartsAre
  <2> QED
    BY <2>1
<1> HIDE DEF op, weights, tensors
<1>6. ShardsEmitted(self, s, n, k)
  BY <1>2, <1>3, <1>4, <1>5, EmitShardsIs
<1> HIDE DEF s
<1>7. Built(s) /\ EdgesWhole(s, {})
  BY <1>2, <1>6 DEF ShardsEmitted
<1>8. OneEmitted(s, e, op, tensors, weights, n.output)
  BY <1>2, <1>3, <1>7, EmitOneIs
<1> HIDE DEF e
<1>9. m \in Nat
  BY <1>2, ListFacts DEF Built
<1>10. /\ DOMAIN self.buf \subseteq DOMAIN s.buf
       /\ \A y \in DOMAIN self.buf : IsPair(y) => s.buf[y] = self.buf[y]
       /\ Len(s.p.tasks) = m + k
       /\ \A t \in 1 .. m : s.p.tasks[t] = self.p.tasks[t]
       /\ \A i \in 1 .. k :
            /\ s.p.tasks[m + i].op = "ATTENTION_TILE"
            /\ s.p.tasks[m + i].inputs = Operands(self, n)
            /\ s.p.tasks[m + i].window = Shards[i]
            /\ s.p.tasks[m + i].sm = (i - 1) % args.num_sms
  BY <1>6 DEF ShardsEmitted, Operands
<1>11. /\ Built(e) /\ EdgesWhole(e, {})
       /\ DOMAIN e.buf = DOMAIN s.buf \cup {n.output}
       /\ \A y \in DOMAIN s.buf : y # n.output => e.buf[y] = s.buf[y]
       /\ Len(e.p.tasks) = m + k + 1
       /\ \A t \in 1 .. m + k : e.p.tasks[t] = s.p.tasks[t]
       /\ e.p.tasks[m + k + 1].op = op
  BY <1>7, <1>8, <1>10 DEF OneEmitted
<1> HIDE DEF m
<1>12. TaskIds(self.p) = 1 .. m /\ TaskIds(e.p) = 1 .. m + k + 1
  BY <1>11 DEF TaskIds, m
<1>13. /\ 1 .. m \subseteq 1 .. m + k /\ 1 .. m + k \subseteq 1 .. m + k + 1
       /\ \A i \in 1 .. k : m + i \in 1 .. m + k /\ m + i \notin 1 .. m
       /\ m + k + 1 \notin 1 .. m
  BY <1>5, <1>9
<1>14. \A t \in 1 .. m + k + 1 : t \in 1 .. m \/ (\E i \in 1 .. k : t = m + i) \/ t = m + k + 1
  <2> TAKE t \in 1 .. m + k + 1
  <2>1. t \notin 1 .. m /\ t # m + k + 1 => t - m \in 1 .. k /\ t = m + (t - m)
    BY <1>5, <1>9
  <2> QED
    BY <2>1
<1>15. \A i \in 1 .. k :
         /\ e.p.tasks[m + i].op = "ATTENTION_TILE"
         /\ e.p.tasks[m + i].inputs = Operands(self, n)
         /\ e.p.tasks[m + i].window = Shards[i]
         /\ e.p.tasks[m + i].sm = (i - 1) % args.num_sms
  BY <1>10, <1>11, <1>13
<1>16. \A t \in 1 .. m : e.p.tasks[t] = self.p.tasks[t]
  BY <1>10, <1>11, <1>13
<1>17. ASSUME NEW a \in DOMAIN Graph, a < node
       PROVE  e.buf[Graph[a].output] = self.buf[Graph[a].output]
  <2>1. a # node
    BY <1>1, <1>2, <1>17, GraphIs
  <2>2. Graph[a].output # n.output
    BY <1>1, <1>2, <2>1, OutputsApart
  <2>3. Graph[a].output \in DOMAIN self.buf /\ IsPair(Graph[a].output)
    BY <1>2, <1>17, GraphFacts DEF LoweredTo
  <2> QED
    BY <1>10, <1>11, <2>2, <2>3
<1>18. Grown(self, e, node)
  <2>1. DOMAIN self.buf \subseteq DOMAIN e.buf /\ n.output \in DOMAIN e.buf
    BY <1>10, <1>11
  <2>2. 1 .. m \subseteq 1 .. m + k + 1
    BY <1>13
  <2> QED
    BY <1>12, <1>16, <1>17, <2>1, <2>2 DEF Grown, n
<1>19. NewTiles(self, e) = {m + i : i \in 1 .. k}
  <2>1. \A i \in 1 .. k : m + i \in 1 .. m + k + 1 /\ m + i \notin 1 .. m
    BY <1>13
  <2>2. \A t \in 1 .. m + k + 1 : t \notin 1 .. m /\ e.p.tasks[t].op = "ATTENTION_TILE" => \E i \in 1 .. k : t = m + i
    BY <1>11, <1>14 DEF op
  <2> QED
    BY <1>12, <1>15, <2>1, <2>2 DEF NewTiles, AttentionTiles
<1>20. \A i \in 1 .. k : Window(e, m + i) = W(i)
  BY <1>15 DEF Window
<1>21. \A i, j \in 1 .. k : i # j => e.p.tasks[m + i].sm # e.p.tasks[m + j].sm
  <2>1. \A i \in 1 .. k : (i - 1) % args.num_sms = i - 1
    <3> TAKE i \in 1 .. k
    <3>0. i - 1 \in Nat /\ i - 1 < args.num_sms
      BY <1>5
    <3>1. PICK a \in Nat, d \in Nat \ {0} : a = i - 1 /\ d = args.num_sms /\ a < d
      BY <1>5, <3>0
    <3>2. a % d = a
      BY <3>1
    <3> QED
      BY <3>1, <3>2
  <2> QED
    BY <1>15, <2>1
<1> HIDE DEF W
<1>22. {Window(e, t) : t \in NewTiles(self, e)} = {W(i) : i \in 1 .. k}
  BY <1>19, <1>20
<1>23. LoweredTo(e, node + 1)
  <2>1. \A t \in NewTiles(self, e) : Graph[node].op = "attention" /\ e.p.tasks[t].inputs = Operands(self, Graph[node])
    BY <1>1, <1>15, <1>19 DEF n
  <2>2. /\ UNION {Window(e, t) : t \in NewTiles(self, e)} = 0 .. args.pos
        /\ \A t \in NewTiles(self, e) : Window(e, t) # {}
    BY <1>4, <1>19, <1>20, <1>22
  <2>3. \A t, u \in NewTiles(self, e) : t # u =>
             Window(e, t) \cap Window(e, u) = {} /\ e.p.tasks[t].sm # e.p.tasks[u].sm
    <3> SUFFICES ASSUME NEW t \in NewTiles(self, e), NEW u \in NewTiles(self, e), t # u
                 PROVE  Window(e, t) \cap Window(e, u) = {} /\ e.p.tasks[t].sm # e.p.tasks[u].sm
      OBVIOUS
    <3>1. PICK i \in 1 .. k, j \in 1 .. k : t = m + i /\ u = m + j
      BY <1>19
    <3>2. i # j
      BY <3>1
    <3> QED
      BY <1>4, <1>20, <1>21, <3>1, <3>2
  <2> QED
    BY <1>1, <1>2, <1>11, <1>18, <2>1, <2>2, <2>3, StepLowers
<1> QED
  BY <1>1, <1>23

LEMMA LowerInvInit == LowerInit => LowerInv
<1> SUFFICES ASSUME LowerInit PROVE LowerInv
  OBVIOUS
<1>1. args \in Requests /\ node \in {0, 1}
  BY DEF LowerInit
<1>2. /\ self.p.tasks = <<>> /\ self.p.counters = <<>> /\ self.p.buffers = <<"IO_INPUT", "IO_INPUT", "IO_INPUT">>
      /\ self.ready = <<>> /\ Shaped(self)
      /\ DOMAIN self.buf = IoInputs
      /\ \A x \in IoInputs : self.buf[x] = IF x[2] = "token_id" THEN 1 ELSE IF x[2] = "pos" THEN 2 ELSE 3
  BY DEF LowerInit, Shaped
<1>3. /\ Len(self.p.tasks) = 0 /\ Len(self.p.buffers) = 3
      /\ IsList(self.p.tasks) /\ IsList(self.p.counters) /\ IsList(self.p.buffers)
  BY <1>2 DEF IsList, Elements
<1>4. TaskIds(self.p) = {} /\ DOMAIN self.ready = {}
  BY <1>2, <1>3 DEF TaskIds
<1>5. \A x, y \in DOMAIN self.buf : self.buf[x] = self.buf[y] => x = y
  BY <1>2 DEF IoInputs
<1>6. \A x \in DOMAIN self.buf : self.buf[x] \in 1 .. Len(self.p.buffers)
  BY <1>2, <1>3
<1>7. Built(self)
  BY <1>2, <1>3, <1>4, <1>5, <1>6 DEF Built
<1>8. \A k \in DOMAIN Graph : ~ (k < node)
  BY <1>1, GraphIs
<1> QED
  BY <1>1, <1>4, <1>7, <1>8 DEF LowerInv, LoweredTo, EdgesWhole, AttentionTiles

LEMMA LowerInvStep == LowerInv /\ [LowerNext]_lowervars => LowerInv'
<1> SUFFICES ASSUME LowerInv, [LowerNext]_lowervars PROVE LowerInv'
  OBVIOUS
<1>1. args' = args /\ node' \in Nat /\ LoweredTo(self', node')
  <2>1. CASE UNCHANGED lowervars
    BY <2>1 DEF LowerInv, lowervars
  <2>2. ASSUME NEW op, NEW opcode, op \notin {"linear", "attention"}, opcode # "ATTENTION_TILE", OpSingle(op, opcode)
        PROVE  args' = args /\ node' \in Nat /\ LoweredTo(self', node')
    BY <2>2, SingleStep DEF LowerInv, OpSingle, Done
  <2>3. CASE OpLinear
    BY <2>3, LinearStep DEF LowerInv, OpLinear, Done
  <2>4. CASE OpRope
    BY <2>4, RopeStep DEF LowerInv, OpRope, Done
  <2>5. CASE OpKvAppend
    BY <2>5, KvAppendStep DEF LowerInv, OpKvAppend, Done
  <2>6. CASE OpAttention
    BY <2>6, AttentionStep DEF LowerInv, OpAttention, Done
  <2>7. CASE OpAttentionSplit
    BY <2>7, AttentionSplitStep DEF LowerInv, OpAttentionSplit, Done
  <2> QED
    BY <2>1, <2>2, <2>3, <2>4, <2>5, <2>6, <2>7 DEF LowerNext
<1>2. Graph' = Graph
  BY <1>1 DEF Graph, LayerNodes, Node
<1>3. Built(self)'
  BY <1>1 DEF LoweredTo, Built, Shaped, IsList, Elements, TaskIds
<1>4. EdgesWhole(self, {})'
  BY <1>1, <1>2 DEF LoweredTo, EdgesWhole, EdgeIsWhole, Columns, Writers, Producers, TaskIds
<1>5. (\A k \in DOMAIN Graph : k < node => Graph[k].output \in DOMAIN self.buf)'
  BY <1>1, <1>2 DEF LoweredTo
<1>6. (\A t \in AttentionTiles(self) :
         \E k \in DOMAIN Graph : /\ k < node /\ Graph[k].op = "attention"
                                 /\ self.p.tasks[t].inputs = Operands(self, Graph[k]))'
  BY <1>1, <1>2 DEF LoweredTo, AttentionTiles, Operands, TaskIds
<1>7. (\A k \in DOMAIN Graph : k < node /\ Graph[k].op = "attention" => Attended(self, Graph[k]))'
  BY <1>1, <1>2 DEF LoweredTo, Attended, Window, TaskIds
<1>8. (args \in Requests)'
  BY <1>1 DEF LowerInv
<1> QED
  BY <1>1, <1>3, <1>4, <1>5, <1>6, <1>7, <1>8 DEF LowerInv, LoweredTo

(***************************************************************************)
(* _tiled_linear publishes, for every request, ready edges that mean what  *)
(* their readers take them to mean: the tasks that count in an edge are    *)
(* those that write its tensor, its threshold is their number, and the     *)
(* tiles of a projection cover its columns once, at most MAX_TILES of them.*)
(***************************************************************************)
THEOREM LowerReady == LowerSpec => []ReadyMeansWritten
<1>1. LowerInv => ReadyMeansWritten
  BY DEF LowerInv, LoweredTo, EdgesWhole, ReadyMeansWritten
<1> QED
  BY LowerInvInit, LowerInvStep, <1>1, PTL DEF LowerSpec

(***************************************************************************)
(* _op_attention leaves, for every request, each attention node with       *)
(* tasks whose windows are disjoint, non-empty and make up the positions   *)
(* 0 .. pos, no two of them on one SM.                                     *)
(***************************************************************************)
THEOREM LowerAttends == LowerSpec => []ShardsCoverWindow
<1>1. LowerInv => ShardsCoverWindow
  BY DEF LowerInv, LoweredTo, ShardsCoverWindow
<1> QED
  BY LowerInvInit, LowerInvStep, <1>1, PTL DEF LowerSpec

-----------------------------------------------------------------------------
(* Induction over 0 .. n.                                                  *)
LEMMA Counted ==
  ASSUME NEW n \in Nat, NEW S, 0 \in S, \A k \in 1 .. n : k - 1 \in S => k \in S
  PROVE  \A k \in 0 .. n : k \in S
<1> SUFFICES ASSUME \E k \in 0 .. n : k \notin S PROVE FALSE
  OBVIOUS
<1> DEFINE R == {k \in 1 .. n : k \notin S}
<1>1. R \in SUBSET (1 .. n) /\ R # {}
  OBVIOUS
<1> HIDE DEF R
<1>2. PICK k \in R : \A j \in R : k <= j
  BY <1>1, Smallest
<1>3. k \in 1 .. n /\ k \notin S
  BY <1>2 DEF R
<1>4. k - 1 = 0 \/ k - 1 \in 1 .. n
  BY <1>3
<1>5. k - 1 \notin R
  BY <1>1, <1>2, <1>3
<1> QED
  BY <1>3, <1>4, <1>5 DEF R

LEMMA AppendedElements ==
  ASSUME NEW q, IsList(q), NEW v
  PROVE  Elements(Append(q, v)) = Elements(q) \cup {v}
<1> DEFINE S == Elements(q) \cup {v}
<1>1. q \in Seq(S)
  <2>1. q \in Seq(Elements(q)) /\ Len(q) \in Nat /\ DOMAIN q = 1 .. Len(q)
    BY DEF IsList
  <2>2. \A i \in 1 .. Len(q) : q[i] \in S
    BY <2>1 DEF Elements
  <2>3. q = [i \in 1 .. Len(q) |-> q[i]]
    BY <2>1
  <2> HIDE DEF S
  <2> QED
    BY <2>1, <2>2, <2>3, Listed
<1>2. v \in S
  OBVIOUS
<1> HIDE DEF S
<1> QED
  BY <1>1, <1>2, AppendElements

Awaits(s, tensors, k, waits) ==
  /\ IsList(waits) /\ Len(waits) <= k
  /\ Elements(waits) = {s.ready[x] : x \in ToSet(tensors) \cap DOMAIN s.ready}

(* The loop of _waits_for.                                                 *)
LEMMA WaitsForIs ==
  ASSUME NEW s, NEW tensors, NEW k \in Nat, tensors = [i \in 1 .. k |-> tensors[i]]
  PROVE  Awaits(s, tensors, k, WaitsFor(s, tensors))
<1> DEFINE Step(before, i) == IF tensors[i] \in DOMAIN s.ready THEN Append(before, s.ready[tensors[i]]) ELSE before
           Upto(j) == {s.ready[tensors[i]] : i \in {a \in 1 .. j : tensors[a] \in DOMAIN s.ready}}
<1>1. Len(tensors) = k /\ DOMAIN tensors = 1 .. k
  BY Listed
<1> DEFINE w == CHOOSE f : f = [i \in 0 .. k |-> IF i = 0 THEN <<>> ELSE Step(f[i - 1], i)]
<1>2. WaitsFor(s, tensors) = w[k]
  BY <1>1 DEF WaitsFor
<1>3. \A before, i : Step(before, i) = IF tensors[i] \in DOMAIN s.ready THEN Append(before, s.ready[tensors[i]])
                                       ELSE before
  OBVIOUS
<1> HIDE DEF Step
<1>4. w = [i \in 0 .. k |-> IF i = 0 THEN <<>> ELSE Step(w[i - 1], i)]
  <2> DEFINE S == {j \in 0 .. k : \E f : f = [i \in 0 .. j |-> IF i = 0 THEN <<>> ELSE Step(f[i - 1], i)]}
  <2>1. 0 \in S
    <3> DEFINE g == [i \in 0 .. 0 |-> <<>>]
    <3>1. g = [i \in 0 .. 0 |-> IF i = 0 THEN <<>> ELSE Step(g[i - 1], i)]
      OBVIOUS
    <3> HIDE DEF g
    <3>2. \E f : f = [i \in 0 .. 0 |-> IF i = 0 THEN <<>> ELSE Step(f[i - 1], i)]
      BY <3>1
    <3> QED
      BY <3>2
  <2>2. ASSUME NEW j \in 1 .. k, j - 1 \in S PROVE j \in S
    <3>1. PICK f : f = [i \in 0 .. j - 1 |-> IF i = 0 THEN <<>> ELSE Step(f[i - 1], i)]
      BY <2>2
    <3> DEFINE g == [i \in 0 .. j |-> IF i < j THEN f[i] ELSE Step(f[j - 1], j)]
    <3>2. \A i \in 0 .. j : g[i] = IF i = 0 THEN <<>> ELSE Step(g[i - 1], i)
      <4> SUFFICES ASSUME NEW i \in 0 .. j PROVE g[i] = IF i = 0 THEN <<>> ELSE Step(g[i - 1], i)
        OBVIOUS
      <4>1. i # 0 => i - 1 \in 0 .. j /\ i - 1 < j /\ g[i - 1] = f[i - 1]
        OBVIOUS
      <4>2. CASE i < j
        <5>1. i \in 0 .. j - 1 /\ g[i] = f[i]
          BY <4>2
        <5>2. f[i] = IF i = 0 THEN <<>> ELSE Step(f[i - 1], i)
          BY <3>1, <5>1
        <5> QED
          BY <4>1, <5>1, <5>2
      <4>3. CASE i = j
        BY <4>1, <4>3
      <4> QED
        BY <4>2, <4>3
    <3>3. g = [i \in 0 .. j |-> g[i]]
      OBVIOUS
    <3> HIDE DEF g
    <3>4. g = [i \in 0 .. j |-> IF i = 0 THEN <<>> ELSE Step(g[i - 1], i)]
      BY <3>2, <3>3
    <3>5. \E f1 : f1 = [i \in 0 .. j |-> IF i = 0 THEN <<>> ELSE Step(f1[i - 1], i)]
      BY <3>4
    <3> QED
      BY <3>5
  <2> HIDE DEF S
  <2>3. k \in S
    BY <2>1, <2>2, Counted
  <2>4. \E f : f = [i \in 0 .. k |-> IF i = 0 THEN <<>> ELSE Step(f[i - 1], i)]
    BY <2>3 DEF S
  <2> QED
    BY <2>4
<1> HIDE DEF w
<1>5. w[0] = <<>> /\ \A i \in 1 .. k : w[i] = Step(w[i - 1], i)
  BY <1>4
<1> DEFINE Good(j) == IsList(w[j]) /\ Len(w[j]) <= j /\ Elements(w[j]) = Upto(j)
           S == {j \in 0 .. k : Good(j)}
<1>6. 0 \in S
  <2>1. IsList(<<>>) /\ Len(<<>>) = 0 /\ Elements(<<>>) = {}
    BY DEF IsList, Elements
  <2>2. Upto(0) = {}
    OBVIOUS
  <2> QED
    BY <1>5, <2>1, <2>2
<1>7. ASSUME NEW j \in 1 .. k, j - 1 \in S PROVE j \in S
  <2>1. Good(j - 1)
    BY <1>7
  <2>2. \A a \in 1 .. j : a \in 1 .. j - 1 \/ a = j
    OBVIOUS
  <2>0. 1 .. j - 1 \subseteq 1 .. j /\ j \in 1 .. j
    OBVIOUS
  <2>3. Good(j)
    <3>1. CASE tensors[j] \in DOMAIN s.ready
      <4> DEFINE v == s.ready[tensors[j]]
      <4>1. w[j] = Append(w[j - 1], v)
        BY <1>3, <1>5, <3>1
      <4>4. Upto(j) = Upto(j - 1) \cup {v}
        BY <2>0, <2>2, <3>1
      <4> HIDE DEF v, Upto
      <4>2. /\ IsList(w[j]) /\ Len(w[j]) = Len(w[j - 1]) + 1 /\ Len(w[j - 1]) \in Nat
        BY <2>1, <4>1, ListAppended, ListFacts
      <4>3. Elements(w[j]) = Elements(w[j - 1]) \cup {v}
        BY <2>1, <4>1, AppendedElements
      <4> QED
        BY <2>1, <4>2, <4>3, <4>4
    <3>2. CASE tensors[j] \notin DOMAIN s.ready
      <4>1. w[j] = w[j - 1]
        BY <1>3, <1>5, <3>2
      <4>2. Upto(j) = Upto(j - 1)
        BY <2>0, <2>2, <3>2
      <4> HIDE DEF Upto
      <4>3. Len(w[j - 1]) \in Nat
        BY <2>1, ListFacts
      <4> QED
        BY <2>1, <4>1, <4>2, <4>3
    <3> QED
      BY <3>1, <3>2
  <2> HIDE DEF Good
  <2> QED
    BY <2>3
<1> HIDE DEF S, Good
<1>8. k \in S
  BY <1>6, <1>7, Counted
<1>9. Good(k)
  BY <1>8 DEF S
<1>10. Upto(k) = {s.ready[x] : x \in ToSet(tensors) \cap DOMAIN s.ready}
  BY <1>1 DEF ToSet
<1> QED
  BY <1>2, <1>9, <1>10 DEF Good, Awaits

Exempt == args.zeros /\ \E n \in ToSet(Graph) : Quantised(n)

WaitsSound(q, t) ==
  /\ Len(q.tasks[t].waits) <= ABI_MAX_WAITS
  /\ \A w \in Waits(q, t) :
       /\ w.counter \in DOMAIN q.counters /\ w.counter # q.tasks[t].out_counter
       /\ Producers(q, w.counter) # {}
       /\ w.threshold = Cardinality(Producers(q, w.counter))
       /\ \A u \in Producers(q, w.counter) : u < t

OperandsSound(q, t) ==
  /\ \E b \in DOMAIN q.buffers : q.tasks[t].outputs = {b} /\ Transient(q, b)
  /\ q.tasks[t].inputs \subseteq DOMAIN q.buffers
  /\ \A b \in q.tasks[t].inputs : Transient(q, b) => Writers(q, b) \ {t} \subseteq Pred(q, t)

PlacedSound(q, t) ==
  /\ q.tasks[t].out_counter \in DOMAIN q.counters
  /\ q.tasks[t].tile.m_off < 0
  /\ q.tasks[t].sm # NoSM => q.tasks[t].sm < args.num_sms
  /\ Exempt \/ Cardinality(q.tasks[t].inputs) \in OP_REGISTRY[q.tasks[t].op][1] .. OP_REGISTRY[q.tasks[t].op][2]

WrittenOnce(q, b) == Transient(q, b) => Writers(q, b) # {} /\ DisjointTiles(q, Writers(q, b))

Sound(q) ==
  /\ q.num_sms = args.num_sms
  /\ \A c \in DOMAIN q.counters : q.counters[c] = 0
  /\ \A b \in DOMAIN q.buffers : WrittenOnce(q, b)
  /\ \A t \in TaskIds(q) : WaitsSound(q, t) /\ OperandsSound(q, t) /\ PlacedSound(q, t)

HasWeights(q, key, S) ==
  /\ S \subseteq DOMAIN q.buffers /\ \A b \in S : q.buffers[b] = "WEIGHT"
  /\ ~ key[2] => Cardinality(S) = 1
  /\ key[2] /\ ~ args.zeros => Cardinality(S) = 2

NamedAfter(x, o) == x[1] = o[1] /\ x[2] = o[2]

Known(s, i) ==
  /\ "num_sms" \in DOMAIN s.p
  /\ IoInputs \subseteq DOMAIN s.buf
  /\ \A x \in IoInputs : s.p.buffers[s.buf[x]] = "IO_INPUT"
  /\ DOMAIN s.ready \cap IoInputs = {}
  /\ \A x \in DOMAIN s.buf \ IoInputs :
       /\ x \in DOMAIN s.ready
       /\ Transient(s.p, s.buf[x])
       /\ \E k \in DOMAIN Graph : k < i /\ NamedAfter(x, Graph[k].output)
  /\ \A key \in DOMAIN s.wbuf : HasWeights(s.p, key, s.wbuf[key])

(* r is q with more buffers, counters and tasks, which write none of the   *)
(* buffers and count in none of the counters of q.                         *)
Extended(q, r) ==
  /\ r.num_sms = q.num_sms
  /\ DOMAIN q.buffers \subseteq DOMAIN r.buffers
  /\ \A b \in DOMAIN q.buffers : r.buffers[b] = q.buffers[b]
  /\ DOMAIN q.counters \subseteq DOMAIN r.counters
  /\ \A c \in DOMAIN q.counters : r.counters[c] = q.counters[c]
  /\ TaskIds(q) \subseteq TaskIds(r)
  /\ \A t \in TaskIds(q) : r.tasks[t] = q.tasks[t]
  /\ \A t \in TaskIds(r) \ TaskIds(q) : /\ r.tasks[t].out_counter \notin DOMAIN q.counters
                                         /\ r.tasks[t].outputs \cap DOMAIN q.buffers = {}

TaskSound(q, t) == WaitsSound(q, t) /\ OperandsSound(q, t) /\ PlacedSound(q, t)

LEMMA RelationsKept ==
  ASSUME NEW q, NEW r, Extended(q, r)
  PROVE  /\ \A b \in DOMAIN q.buffers : Writers(r, b) = Writers(q, b) /\ (Transient(r, b) <=> Transient(q, b))
         /\ \A c \in DOMAIN q.counters : Producers(r, c) = Producers(q, c)
         /\ \A t \in TaskIds(q) : /\ Waits(r, t) = Waits(q, t)
                                  /\ WaitsSound(q, t) => Pred(r, t) = Pred(q, t)
<1>1. \A b \in DOMAIN q.buffers : Writers(r, b) = Writers(q, b) /\ (Transient(r, b) <=> Transient(q, b))
  BY DEF Extended, Writers, Transient
<1>2. \A c \in DOMAIN q.counters : Producers(r, c) = Producers(q, c)
  BY DEF Extended, Producers
<1>3. \A t \in TaskIds(q) : Waits(r, t) = Waits(q, t)
  BY DEF Extended, Waits
<1>4. ASSUME NEW t \in TaskIds(q), WaitsSound(q, t) PROVE Pred(r, t) = Pred(q, t)
  <2>1. \A w \in Waits(q, t) : Producers(r, w.counter) = Producers(q, w.counter)
    BY <1>2, <1>4 DEF WaitsSound
  <2>2. \A w : Producers(q, w.counter) \subseteq TaskIds(q) /\ Producers(r, w.counter) \subseteq TaskIds(r)
    BY DEF Producers
  <2> QED
    BY <1>3, <2>1, <2>2 DEF Pred, Extended
<1> QED
  BY <1>1, <1>2, <1>3, <1>4

LEMMA SoundGrown ==
  ASSUME NEW q, NEW r, Extended(q, r), Sound(q),
         \A c \in DOMAIN r.counters \ DOMAIN q.counters : r.counters[c] = 0,
         \A b \in DOMAIN r.buffers \ DOMAIN q.buffers : WrittenOnce(r, b),
         \A t \in TaskIds(r) \ TaskIds(q) : TaskSound(r, t)
  PROVE  Sound(r)
<1>1. /\ \A b \in DOMAIN q.buffers : Writers(r, b) = Writers(q, b) /\ (Transient(r, b) <=> Transient(q, b))
      /\ \A c \in DOMAIN q.counters : Producers(r, c) = Producers(q, c)
      /\ \A t \in TaskIds(q) : /\ Waits(r, t) = Waits(q, t)
                               /\ WaitsSound(q, t) => Pred(r, t) = Pred(q, t)
  BY RelationsKept
<1>2. \A t \in TaskIds(q) : r.tasks[t] = q.tasks[t] /\ WaitsSound(q, t) /\ OperandsSound(q, t) /\ PlacedSound(q, t)
  BY DEF Sound, Extended
<1>3. ASSUME NEW b \in DOMAIN q.buffers PROVE WrittenOnce(r, b)
  <2>1. WrittenOnce(q, b)
    BY DEF Sound
  <2>2. Writers(q, b) \subseteq TaskIds(q)
    BY DEF Writers
  <2>3. \A u \in Writers(q, b) : r.tasks[u] = q.tasks[u]
    BY <2>2 DEF Extended
  <2> QED
    BY <1>1, <2>1, <2>3 DEF WrittenOnce, DisjointTiles
<1>4. ASSUME NEW t \in TaskIds(q) PROVE TaskSound(r, t)
  <2>1. WaitsSound(r, t)
    BY <1>1, <1>2 DEF WaitsSound, Extended
  <2>2. OperandsSound(r, t)
    BY <1>1, <1>2 DEF OperandsSound, Extended
  <2>3. PlacedSound(r, t)
    BY <1>2 DEF PlacedSound, Extended
  <2> QED
    BY <2>1, <2>2, <2>3 DEF TaskSound
<1>5. \A c \in DOMAIN r.counters : r.counters[c] = 0
  BY DEF Sound, Extended
<1> QED
  BY <1>3, <1>4, <1>5 DEF Sound, Extended, TaskSound
-----------------------------------------------------------------------------
(* e is s with a buffer for out, and k tasks under a counter of their own  *)
(* that write it and wait for what they read.                              *)
Published(s, e, kind, op, tensors, width, weights, out, tiles, k, window) ==
  LET m == Len(s.p.tasks)
      n == Len(s.p.buffers)
      c == Len(s.p.counters)
  IN  /\ e.wbuf = s.wbuf /\ e.p.num_sms = s.p.num_sms /\ DOMAIN e.p = DOMAIN s.p
      /\ DOMAIN e.buf = DOMAIN s.buf \cup {out} /\ e.buf[out] = n + 1
      /\ \A y \in DOMAIN s.buf : y # out => e.buf[y] = s.buf[y]
      /\ IsList(e.p.buffers) /\ Len(e.p.buffers) = n + 1 /\ e.p.buffers[n + 1] = kind
      /\ \A b \in 1 .. n : e.p.buffers[b] = s.p.buffers[b]
      /\ IsList(e.p.counters) /\ Len(e.p.counters) = c + 1 /\ e.p.counters[c + 1] = 0
      /\ \A d \in 1 .. c : e.p.counters[d] = s.p.counters[d]
      /\ DOMAIN e.ready = DOMAIN s.ready \cup {out}
      /\ e.ready[out].counter = c + 1
      /\ \A x \in DOMAIN s.ready : x # out => e.ready[x] = s.ready[x]
      /\ Len(e.p.tasks) = m + k
      /\ \A t \in 1 .. m : e.p.tasks[t] = s.p.tasks[t]
      /\ \A t \in m + 1 .. m + k :
           /\ e.p.tasks[t].op = op /\ e.p.tasks[t].window = window /\ e.p.tasks[t].sm = NoSM
           /\ e.p.tasks[t].inputs = {e.buf[x] : x \in ToSet(tensors)} \cup weights
           /\ e.p.tasks[t].outputs = {n + 1} /\ e.p.tasks[t].out_counter = c + 1
           /\ e.p.tasks[t].tile = tiles[t - m] /\ t - m \in 1 .. k
           /\ Len(e.p.tasks[t].waits) \in 0 .. width
           /\ Waits(e.p, t) = {s.ready[x] : x \in ToSet(tensors) \cap DOMAIN s.ready}

LEMMA AppendedLast ==
  ASSUME NEW q, IsList(q), NEW v
  PROVE  Append(q, v)[Len(q) + 1] = v
<1> DEFINE S == Elements(q) \cup {v}
<1>1. q \in Seq(Elements(q)) /\ Len(q) \in Nat /\ DOMAIN q = 1 .. Len(q)
  BY DEF IsList
<1>2. q \in Seq(S)
  <2>1. \A i \in 1 .. Len(q) : q[i] \in S
    BY <1>1 DEF Elements
  <2>2. q = [i \in 1 .. Len(q) |-> q[i]]
    BY <1>1
  <2> HIDE DEF S
  <2> QED
    BY <1>1, <2>1, <2>2, Listed
<1>3. v \in S
  OBVIOUS
<1> HIDE DEF S
<1> QED
  BY <1>2, <1>3

LEMMA PublishedIs ==
  ASSUME NEW s, Built(s), "num_sms" \in DOMAIN s.p, "wbuf" \in DOMAIN s, NEW kind, NEW op,
         NEW tensors, NEW width \in Nat, tensors = [i \in 1 .. width |-> tensors[i]],
         NEW weights, NEW out, out \notin DOMAIN s.ready, NEW tiles, NEW k \in Nat \ {0},
         tiles = [i \in 1 .. k |-> tiles[i]], NEW window
  PROVE  Published(s, Emit(NewBuffer(s, out, kind), op, tensors, weights, out, tiles, window, NoSM),
                   kind, op, tensors, width, weights, out, tiles, k, window)
<1> DEFINE b == NewBuffer(s, out, kind)
           e == Emit(b, op, tensors, weights, out, tiles, window, NoSM)
           m == Len(s.p.tasks)
           n == Len(s.p.buffers)
           c == Len(s.p.counters)
           waits == WaitsFor(b, tensors)
<1>0. /\ {"p", "buf", "ready", "wbuf"} \subseteq DOMAIN s
      /\ {"buffers", "counters", "tasks", "num_sms"} \subseteq DOMAIN s.p
  BY DEF Built, Shaped
<1>1. /\ b.p.buffers = Append(s.p.buffers, kind) /\ b.p.counters = s.p.counters /\ b.p.tasks = s.p.tasks
      /\ b.p.num_sms = s.p.num_sms /\ DOMAIN b.p = DOMAIN s.p /\ DOMAIN b = DOMAIN s
      /\ b.ready = s.ready /\ b.wbuf = s.wbuf
      /\ DOMAIN b.buf = DOMAIN s.buf \cup {out} /\ b.buf[out] = n + 1
      /\ \A y \in DOMAIN s.buf : y # out => b.buf[y] = s.buf[y]
  <2> DEFINE B == Append(s.p.buffers, kind)
             F == Updated(s.buf, [y \in {out} |-> n + 1])
  <2>1. b = [s EXCEPT !.p.buffers = B, !.buf = F]
    BY DEF NewBuffer
  <2>2. DOMAIN F = DOMAIN s.buf \cup {out} /\ F[out] = n + 1 /\ \A y \in DOMAIN s.buf : y # out => F[y] = s.buf[y]
    BY DEF Updated
  <2> HIDE DEF b, B, F
  <2>3. /\ b.p.buffers = B /\ b.p.counters = s.p.counters /\ b.p.tasks = s.p.tasks
        /\ b.p.num_sms = s.p.num_sms /\ DOMAIN b.p = DOMAIN s.p /\ DOMAIN b = DOMAIN s
        /\ b.ready = s.ready /\ b.wbuf = s.wbuf /\ b.buf = F
    BY <1>0, <2>1
  <2> QED
    BY <2>2, <2>3 DEF B
<1> HIDE DEF b
<1> DEFINE Task(tile) ==
             [op |-> op, inputs |-> {b.buf[t] : t \in ToSet(tensors)} \cup weights, outputs |-> {b.buf[out]},
              out_counter |-> c + 1, waits |-> waits, tile |-> tile, window |-> window, sm |-> NoSM]
           new == [i \in 1 .. k |-> Task(tiles[i])]
<1>2. DOMAIN tiles = 1 .. k /\ Len(tiles) = k
  BY Listed
<1>3. /\ e.buf = b.buf /\ e.p.buffers = b.p.buffers /\ e.p.counters = Append(s.p.counters, 0)
      /\ e.p.tasks = s.p.tasks \o new /\ e.wbuf = s.wbuf /\ e.p.num_sms = s.p.num_sms /\ DOMAIN e.p = DOMAIN s.p
      /\ DOMAIN e.ready = DOMAIN s.ready \cup {out} /\ e.ready[out].counter = c + 1
      /\ \A x \in DOMAIN s.ready : x # out => e.ready[x] = s.ready[x]
  <2> DEFINE C == Append(b.p.counters, 0)
             T == b.p.tasks \o new
             R == Updated(b.ready, [x \in {out} |-> [counter |-> c + 1, threshold |-> k]])
  <2>1. e = [b EXCEPT !.p.counters = C, !.p.tasks = T, !.ready = R]
    BY <1>1, <1>2 DEF Emit
  <2>2. /\ DOMAIN R = DOMAIN b.ready \cup {out} /\ R[out].counter = c + 1
        /\ \A x \in DOMAIN b.ready : x # out => R[x] = b.ready[x]
    BY DEF Updated
  <2> HIDE DEF e, C, T, R
  <2>3. /\ e.buf = b.buf /\ e.p.buffers = b.p.buffers /\ e.p.counters = C /\ e.p.tasks = T /\ e.ready = R
        /\ e.wbuf = b.wbuf /\ e.p.num_sms = b.p.num_sms /\ DOMAIN e.p = DOMAIN b.p
    BY <1>0, <1>1, <2>1
  <2> QED
    BY <1>1, <2>2, <2>3 DEF C, T
<1>4. new = [i \in 1 .. k |-> new[i]]
  OBVIOUS
<1>5. \A i \in 1 .. k : /\ new[i].op = op /\ new[i].window = window /\ new[i].sm = NoSM
                        /\ new[i].inputs = {b.buf[x] : x \in ToSet(tensors)} \cup weights
                        /\ new[i].outputs = {b.buf[out]} /\ new[i].out_counter = c + 1
                        /\ new[i].tile = tiles[i] /\ new[i].waits = waits
  OBVIOUS
<1> HIDE DEF e, new, waits
<1>6. /\ IsList(s.p.tasks) /\ IsList(s.p.counters) /\ IsList(s.p.buffers)
      /\ m \in Nat /\ c \in Nat /\ n \in Nat
  BY ListFacts DEF Built
<1>7. /\ Len(e.p.tasks) = m + k
      /\ \A t \in 1 .. m : e.p.tasks[t] = s.p.tasks[t]
      /\ \A t \in m + 1 .. m + k : e.p.tasks[t] = new[t - m] /\ t - m \in 1 .. k
  <2> DEFINE r == s.p.tasks \o new
  <2>1. /\ Len(r) = Len(s.p.tasks) + k
        /\ \A t \in 1 .. Len(s.p.tasks) : r[t] = s.p.tasks[t]
        /\ \A t \in Len(s.p.tasks) + 1 .. Len(s.p.tasks) + k :
             r[t] = new[t - Len(s.p.tasks)] /\ t - Len(s.p.tasks) \in 1 .. k
    BY <1>4, <1>6, ListJoined
  <2>2. e.p.tasks = r
    BY <1>3
  <2> HIDE DEF r
  <2> QED
    BY <2>1, <2>2
<1>8. /\ IsList(e.p.counters) /\ Len(e.p.counters) = c + 1 /\ e.p.counters[c + 1] = 0
      /\ \A d \in 1 .. c : e.p.counters[d] = s.p.counters[d]
  BY <1>3, <1>6, ListAppended, AppendedLast
<1>9. /\ IsList(e.p.buffers) /\ Len(e.p.buffers) = n + 1 /\ e.p.buffers[n + 1] = kind
      /\ \A d \in 1 .. n : e.p.buffers[d] = s.p.buffers[d]
  BY <1>1, <1>3, <1>6, ListAppended, AppendedLast
<1>10. /\ IsList(waits) /\ Len(waits) <= width
       /\ Elements(waits) = {s.ready[x] : x \in ToSet(tensors) \cap DOMAIN s.ready}
  <2>1. Awaits(b, tensors, width, waits)
    BY WaitsForIs DEF waits
  <2>2. b.ready = s.ready
    BY <1>1
  <2> QED
    BY <2>1, <2>2 DEF Awaits
<1>11. \A t \in m + 1 .. m + k :
         /\ e.p.tasks[t].op = op /\ e.p.tasks[t].window = window /\ e.p.tasks[t].sm = NoSM
         /\ e.p.tasks[t].inputs = {b.buf[x] : x \in ToSet(tensors)} \cup weights
         /\ e.p.tasks[t].outputs = {n + 1} /\ e.p.tasks[t].out_counter = c + 1
         /\ e.p.tasks[t].tile = tiles[t - m] /\ t - m \in 1 .. k /\ e.p.tasks[t].waits = waits
  <2> TAKE t \in m + 1 .. m + k
  <2>1. t - m \in 1 .. k /\ e.p.tasks[t] = new[t - m]
    BY <1>7
  <2>2. PICK i \in 1 .. k : i = t - m
    BY <2>1
  <2> QED
    BY <1>1, <1>5, <2>1, <2>2
<1>12. \A t \in m + 1 .. m + k : Waits(e.p, t) = Elements(waits)
  <2> TAKE t \in m + 1 .. m + k
  <2>1. e.p.tasks[t].waits = waits
    BY <1>11
  <2> QED
    BY <2>1 DEF Waits, Elements
<1>13. /\ e.buf = b.buf /\ Len(waits) \in 0 .. width
       /\ \A t \in m + 1 .. m + k :
            /\ e.p.tasks[t].inputs = {e.buf[x] : x \in ToSet(tensors)} \cup weights
            /\ Len(e.p.tasks[t].waits) \in 0 .. width
            /\ Waits(e.p, t) = {s.ready[x] : x \in ToSet(tensors) \cap DOMAIN s.ready}
  <2>1. e.buf = b.buf /\ Len(waits) \in 0 .. width
    BY <1>3, <1>10, ListFacts
  <2>2. ASSUME NEW t \in m + 1 .. m + k
        PROVE  /\ e.p.tasks[t].inputs = {e.buf[x] : x \in ToSet(tensors)} \cup weights
               /\ Len(e.p.tasks[t].waits) \in 0 .. width
    <3>1. /\ e.p.tasks[t].inputs = {b.buf[x] : x \in ToSet(tensors)} \cup weights
          /\ e.p.tasks[t].waits = waits
      BY <1>11
    <3>2. {b.buf[x] : x \in ToSet(tensors)} = {e.buf[x] : x \in ToSet(tensors)}
      BY <2>1
    <3> QED
      BY <2>1, <3>1, <3>2
  <2>3. ASSUME NEW t \in m + 1 .. m + k
        PROVE  Waits(e.p, t) = {s.ready[x] : x \in ToSet(tensors) \cap DOMAIN s.ready}
    BY <1>10, <1>12
  <2> QED
    BY <2>1, <2>2, <2>3
<1>14. Published(s, e, kind, op, tensors, width, weights, out, tiles, k, window)
  BY <1>1, <1>3, <1>7, <1>8, <1>9, <1>11, <1>13 DEF Published
<1> QED
  BY <1>14 DEF e, b

(* What a handler publishes is sound when the operands are there.          *)
Readable(s, tensors, weights, out, k) ==
  /\ \A x \in ToSet(tensors) : x \in DOMAIN s.buf \/ (x = out /\ k = 1)
  /\ weights \subseteq DOMAIN s.p.buffers /\ \A b \in weights : s.p.buffers[b] = "WEIGHT"

LEMMA PublishSound ==
  ASSUME NEW s, Built(s), EdgesWhole(s, {}), Sound(s.p), NEW i \in DOMAIN Graph, NEW j, Known(s, j),
         \A a \in DOMAIN Graph : a < j => a < i + 1, i < i + 1,
         NEW e, NEW kind \in {"ACTIVATION", "KV_CACHE", "IO_OUTPUT"}, NEW op, NEW tensors,
         NEW width \in Nat, width <= ABI_MAX_WAITS, NEW weights, NEW out, NEW tiles, NEW k \in Nat \ {0}, NEW window,
         Published(s, e, kind, op, tensors, width, weights, out, tiles, k, window),
         out \notin DOMAIN s.buf, NamedAfter(out, Graph[i].output), Readable(s, tensors, weights, out, k),
         \A a \in 1 .. k : tiles[a].m_off < 0,
         k = 1 \/ \A t, u \in TaskIds(e.p) \ TaskIds(s.p) : t # u =>
                    RegionsDisjoint(WriteRegion(e.p.tasks[t]), WriteRegion(e.p.tasks[u])),
         \/ Exempt
         \/ Cardinality({e.buf[x] : x \in ToSet(tensors)} \cup weights) \in OP_REGISTRY[op][1] .. OP_REGISTRY[op][2]
  PROVE  Sound(e.p) /\ Known(e, i + 1)
<1> DEFINE m == Len(s.p.tasks)
           n == Len(s.p.buffers)
           c == Len(s.p.counters)
           q == s.p
           r == e.p
<1>1. /\ m \in Nat /\ n \in Nat /\ c \in Nat /\ ABI_MAX_WAITS \in Nat
      /\ DOMAIN q.buffers = 1 .. n /\ DOMAIN q.counters = 1 .. c /\ TaskIds(q) = 1 .. m
  BY AbiAssumption, ListFacts DEF Built, TaskIds
<1>2. /\ e.wbuf = s.wbuf /\ r.num_sms = q.num_sms /\ DOMAIN r = DOMAIN q
      /\ DOMAIN e.buf = DOMAIN s.buf \cup {out} /\ e.buf[out] = n + 1
      /\ \A y \in DOMAIN s.buf : y # out => e.buf[y] = s.buf[y]
      /\ IsList(r.buffers) /\ Len(r.buffers) = n + 1 /\ r.buffers[n + 1] = kind
      /\ \A b \in 1 .. n : r.buffers[b] = q.buffers[b]
      /\ IsList(r.counters) /\ Len(r.counters) = c + 1 /\ r.counters[c + 1] = 0
      /\ \A d \in 1 .. c : r.counters[d] = q.counters[d]
      /\ DOMAIN e.ready = DOMAIN s.ready \cup {out}
      /\ e.ready[out].counter = c + 1
      /\ \A x \in DOMAIN s.ready : x # out => e.ready[x] = s.ready[x]
      /\ Len(r.tasks) = m + k
      /\ \A t \in 1 .. m : r.tasks[t] = q.tasks[t]
  BY DEF Published
<1>3. \A t \in m + 1 .. m + k :
           /\ r.tasks[t].op = op /\ r.tasks[t].sm = NoSM
           /\ r.tasks[t].inputs = {e.buf[x] : x \in ToSet(tensors)} \cup weights
           /\ r.tasks[t].outputs = {n + 1} /\ r.tasks[t].out_counter = c + 1
           /\ r.tasks[t].tile = tiles[t - m] /\ t - m \in 1 .. k
           /\ Len(r.tasks[t].waits) \in 0 .. width
           /\ Waits(r, t) = {s.ready[x] : x \in ToSet(tensors) \cap DOMAIN s.ready}
  BY DEF Published
<1>4. /\ DOMAIN r.buffers = 1 .. n + 1 /\ DOMAIN r.counters = 1 .. c + 1 /\ TaskIds(r) = 1 .. m + k
      /\ Len(r.tasks) = m + k
  BY <1>2, ListFacts DEF TaskIds
<1> HIDE DEF m, n, c, q, r
<1>5. /\ 1 .. m \subseteq 1 .. m + k /\ (1 .. m + k) \ (1 .. m) = m + 1 .. m + k
      /\ (1 .. n + 1) \ (1 .. n) = {n + 1} /\ (1 .. c + 1) \ (1 .. c) = {c + 1}
      /\ n + 1 \notin 1 .. n /\ c + 1 \notin 1 .. c /\ m + 1 \in m + 1 .. m + k
      /\ 1 .. n \subseteq 1 .. n + 1 /\ 1 .. c \subseteq 1 .. c + 1 /\ n + 1 \in 1 .. n + 1 /\ c + 1 \in 1 .. c + 1
  BY <1>1
<1>6. Extended(q, r)
  <2>1. \A t \in TaskIds(r) \ TaskIds(q) : /\ r.tasks[t].out_counter \notin DOMAIN q.counters
                                           /\ r.tasks[t].outputs \cap DOMAIN q.buffers = {}
    BY <1>1, <1>3, <1>4, <1>5
  <2> QED
    BY <1>1, <1>2, <1>4, <1>5, <2>1 DEF Extended
<1>7. /\ \A b \in 1 .. n : Writers(r, b) = Writers(q, b) /\ (Transient(r, b) <=> Transient(q, b))
      /\ \A d \in 1 .. c : Producers(r, d) = Producers(q, d)
  BY <1>1, <1>6, RelationsKept
<1>8. ASSUME NEW x \in DOMAIN s.ready
      PROVE  /\ x \in DOMAIN s.buf /\ x # out /\ s.buf[x] \in 1 .. n /\ s.ready[x].counter \in 1 .. c
             /\ Producers(r, s.ready[x].counter) = Writers(q, s.buf[x])
             /\ Writers(r, s.buf[x]) = Writers(q, s.buf[x])
             /\ s.ready[x].threshold = Cardinality(Writers(q, s.buf[x]))
             /\ Writers(q, s.buf[x]) # {} /\ Writers(q, s.buf[x]) \subseteq 1 .. m
  <2>1. x \in DOMAIN s.buf /\ s.buf[x] \in 1 .. n /\ s.ready[x].counter \in 1 .. c
    BY DEF Built, n, c
  <2>2. EdgeIsWhole(s, x)
    BY DEF EdgesWhole
  <2>3. Producers(q, s.ready[x].counter) = Writers(q, s.buf[x])
        /\ s.ready[x].threshold = Cardinality(Writers(q, s.buf[x]))
    BY <2>2 DEF EdgeIsWhole, q
  <2>4. Transient(q, s.buf[x])
    BY <2>1 DEF Known, q
  <2>5. Writers(q, s.buf[x]) # {}
    BY <1>1, <2>1, <2>4 DEF Sound, WrittenOnce, q
  <2>6. Writers(q, s.buf[x]) \subseteq 1 .. m
    BY <1>1 DEF Writers
  <2> QED
    BY <1>7, <2>1, <2>3, <2>5, <2>6
<1>9. Writers(r, n + 1) = m + 1 .. m + k
  <2>1. \A t \in 1 .. m : n + 1 \notin r.tasks[t].outputs
    <3> TAKE t \in 1 .. m
    <3>1. q.tasks[t].outputs \subseteq 1 .. n
      BY <1>1 DEF Built, q, n
    <3> QED
      BY <1>2, <1>5, <3>1
  <2> QED
    BY <1>3, <1>4, <1>5, <2>1 DEF Writers
<1>10. Transient(r, n + 1)
  BY <1>2 DEF Transient, ReadOnlyKinds
<1>11. ASSUME NEW t \in m + 1 .. m + k PROVE WaitsSound(r, t)
  <2>1. \A u \in 1 .. m : u < t
    BY <1>1
  <2>2. Len(r.tasks[t].waits) <= ABI_MAX_WAITS
    BY <1>1, <1>3
  <2>3. ASSUME NEW w \in Waits(r, t)
        PROVE  /\ w.counter \in DOMAIN r.counters /\ w.counter # r.tasks[t].out_counter
               /\ Producers(r, w.counter) # {}
               /\ w.threshold = Cardinality(Producers(r, w.counter))
               /\ \A u \in Producers(r, w.counter) : u < t
    <3>1. PICK x \in DOMAIN s.ready : w = s.ready[x]
      BY <1>3
    <3>2. r.tasks[t].out_counter = c + 1
      BY <1>3
    <3> QED
      BY <1>4, <1>5, <1>8, <2>1, <3>1, <3>2
  <2> QED
    BY <2>2, <2>3 DEF WaitsSound
<1>12. ASSUME NEW t \in m + 1 .. m + k PROVE OperandsSound(r, t)
  <2>1. n + 1 \in DOMAIN r.buffers /\ r.tasks[t].outputs = {n + 1}
    BY <1>3, <1>4, <1>5
  <2>2. ASSUME NEW x \in ToSet(tensors)
        PROVE  /\ e.buf[x] \in 1 .. n + 1
               /\ Transient(r, e.buf[x]) => Writers(r, e.buf[x]) \ {t} \subseteq Pred(r, t)
    <3>1. CASE x \in DOMAIN s.buf
      <4>1. e.buf[x] = s.buf[x] /\ s.buf[x] \in 1 .. n
        BY <1>2, <3>1 DEF Built, n
      <4>2. ASSUME Transient(r, e.buf[x]) PROVE Writers(r, e.buf[x]) \ {t} \subseteq Pred(r, t)
        <5>1. x \notin IoInputs
          BY <1>7, <4>1, <4>2 DEF Known, Transient, ReadOnlyKinds, q
        <5>2. x \in DOMAIN s.ready
          BY <3>1, <5>1 DEF Known
        <5>3. s.ready[x] \in Waits(r, t)
          BY <1>3, <5>2
        <5>4. Writers(r, e.buf[x]) = Producers(r, s.ready[x].counter)
          BY <1>8, <4>1, <5>2
        <5>5. Producers(r, s.ready[x].counter) \subseteq TaskIds(r)
          BY DEF Producers
        <5> QED
          BY <5>3, <5>4, <5>5 DEF Pred
      <4> QED
        BY <1>5, <4>1, <4>2
    <3>2. CASE x = out /\ k = 1
      <4>1. m + 1 .. m + k = {t}
        BY <1>1, <3>2
      <4> QED
        BY <1>2, <1>5, <1>9, <3>2, <4>1
    <3> QED
      BY <3>1, <3>2 DEF Readable
  <2>3. ASSUME NEW b \in weights PROVE b \in 1 .. n /\ ~ Transient(r, b)
    BY <1>1, <1>7 DEF Readable, Transient, ReadOnlyKinds, q
  <2>4. \A b \in r.tasks[t].inputs : b \in weights \/ \E x \in ToSet(tensors) : b = e.buf[x]
    BY <1>3
  <2>5. r.tasks[t].inputs \subseteq DOMAIN r.buffers
    BY <1>4, <1>5, <2>2, <2>3, <2>4
  <2>6. \A b \in r.tasks[t].inputs : Transient(r, b) => Writers(r, b) \ {t} \subseteq Pred(r, t)
    BY <2>2, <2>3, <2>4
  <2> QED
    BY <1>10, <2>1, <2>5, <2>6 DEF OperandsSound
<1>13. ASSUME NEW t \in m + 1 .. m + k PROVE PlacedSound(r, t)
  BY <1>3, <1>4, <1>5 DEF PlacedSound
<1>14. WrittenOnce(r, n + 1)
  <2>1. \A t, u \in m + 1 .. m + k : t # u =>
          /\ r.tasks[t].out_counter = r.tasks[u].out_counter
          /\ RegionsDisjoint(WriteRegion(r.tasks[t]), WriteRegion(r.tasks[u]))
    <3>1. CASE k = 1
      <4>1. \A t, u \in m + 1 .. m + k : t = u
        BY <1>1, <3>1
      <4> QED
        BY <4>1
    <3>2. CASE \A t, u \in TaskIds(r) \ TaskIds(q) : t # u =>
                    RegionsDisjoint(WriteRegion(r.tasks[t]), WriteRegion(r.tasks[u]))
      BY <1>1, <1>3, <1>4, <1>5, <3>2
    <3> QED
      BY <3>1, <3>2 DEF q, r
  <2> QED
    BY <1>5, <1>9, <2>1 DEF WrittenOnce, DisjointTiles
<1>15. Sound(r)
  <2>1. \A d \in DOMAIN r.counters \ DOMAIN q.counters : r.counters[d] = 0
    BY <1>1, <1>2, <1>4, <1>5
  <2>2. \A b \in DOMAIN r.buffers \ DOMAIN q.buffers : WrittenOnce(r, b)
    BY <1>1, <1>4, <1>5, <1>14
  <2>3. \A t \in TaskIds(r) \ TaskIds(q) : TaskSound(r, t)
    BY <1>1, <1>4, <1>5, <1>11, <1>12, <1>13 DEF TaskSound
  <2>4. Sound(q)
    BY DEF q
  <2> QED
    BY <1>6, <2>1, <2>2, <2>3, <2>4, SoundGrown
<1>16. Known(e, i + 1)
  <2>1. out \notin IoInputs
    BY DEF Known
  <2>2. "num_sms" \in DOMAIN e.p /\ IoInputs \subseteq DOMAIN e.buf /\ DOMAIN e.ready \cap IoInputs = {}
    BY <1>2, <2>1 DEF Known, q, r
  <2>3. ASSUME NEW x \in IoInputs PROVE e.p.buffers[e.buf[x]] = "IO_INPUT"
    <3>1. x \in DOMAIN s.buf /\ x # out /\ s.buf[x] \in 1 .. n /\ s.p.buffers[s.buf[x]] = "IO_INPUT"
      BY DEF Known, Built, n
    <3> QED
      BY <1>2, <3>1 DEF q, r
  <2>4. ASSUME NEW x \in DOMAIN e.buf \ IoInputs
        PROVE  /\ x \in DOMAIN e.ready /\ Transient(e.p, e.buf[x])
               /\ \E a \in DOMAIN Graph : a < i + 1 /\ NamedAfter(x, Graph[a].output)
    <3>1. CASE x = out
      BY <1>2, <1>10, <3>1 DEF r
    <3>2. CASE x # out
      <4>1. x \in DOMAIN s.buf \ IoInputs /\ e.buf[x] = s.buf[x] /\ s.buf[x] \in 1 .. n
        BY <1>2, <3>2 DEF Built, n
      <4>2. x \in DOMAIN s.ready /\ Transient(q, s.buf[x])
        BY <4>1 DEF Known, q
      <4>3. PICK a \in DOMAIN Graph : a < j /\ NamedAfter(x, Graph[a].output)
        BY <4>1 DEF Known
      <4> QED
        BY <1>2, <1>7, <4>1, <4>2, <4>3 DEF r
    <3> QED
      BY <3>1, <3>2
  <2>5. ASSUME NEW key \in DOMAIN e.wbuf PROVE HasWeights(e.p, key, e.wbuf[key])
    <3>1. HasWeights(q, key, s.wbuf[key]) /\ e.wbuf = s.wbuf
      BY <1>2 DEF Known, q
    <3> QED
      BY <1>1, <1>2, <1>4, <1>5, <3>1 DEF HasWeights, r
  <2> QED
    BY <2>2, <2>3, <2>4, <2>5 DEF Known
<1> QED
  BY <1>15, <1>16 DEF r

(* r is the list q followed by the k elements of f.                        *)
JoinedTo(q, f, k, r) ==
  /\ IsList(r) /\ Len(r) = Len(q) + k
  /\ \A i \in 1 .. Len(q) : r[i] = q[i]
  /\ \A i \in Len(q) + 1 .. Len(q) + k : r[i] = f[i - Len(q)] /\ i - Len(q) \in 1 .. k

LEMMA JoinedIs ==
  ASSUME NEW q, IsList(q), NEW k \in Nat, NEW f, f = [i \in 1 .. k |-> f[i]]
  PROVE  JoinedTo(q, f, k, q \o f)
BY ListJoined DEF JoinedTo

LEMMA WeightSound ==
  ASSUME NEW s, Built(s), Sound(s.p), NEW j, Known(s, j), NEW n
  PROVE  LET e == Weight(s, n)
         IN  /\ Sound(e.p) /\ Known(e, j)
             /\ n.weight # None => WeightKey(n) \in DOMAIN e.wbuf
<1> DEFINE e == Weight(s, n)
           count == IF ~ Quantised(n) THEN 1 ELSE IF args.zeros THEN 3 ELSE 2
           more == [x \in 1 .. count |-> "WEIGHT"]
           at == Len(s.p.buffers)
           key == WeightKey(n)
           ids == (at + 1) .. (at + count)
<1>1. CASE n.weight = None \/ key \in DOMAIN s.wbuf
  BY <1>1 DEF Weight
<1>2. CASE ~ (n.weight = None \/ key \in DOMAIN s.wbuf)
  <2>0. /\ {"p", "buf", "ready", "wbuf"} \subseteq DOMAIN s
        /\ {"buffers", "counters", "tasks", "num_sms"} \subseteq DOMAIN s.p
    BY DEF Built, Shaped, Known
  <2>1. /\ e.p.tasks = s.p.tasks /\ e.p.counters = s.p.counters /\ e.ready = s.ready /\ e.buf = s.buf
        /\ e.p.buffers = s.p.buffers \o more /\ e.p.num_sms = s.p.num_sms /\ DOMAIN e.p = DOMAIN s.p
        /\ DOMAIN e.wbuf = DOMAIN s.wbuf \cup {key} /\ e.wbuf[key] = ids
        /\ \A x \in DOMAIN s.wbuf : x # key => e.wbuf[x] = s.wbuf[x]
    <3> DEFINE B == s.p.buffers \o more
               W == Updated(s.wbuf, [x \in {key} |-> ids])
    <3>1. e = [s EXCEPT !.p.buffers = B, !.wbuf = W]
      BY <1>2 DEF Weight
    <3>2. DOMAIN W = DOMAIN s.wbuf \cup {key} /\ W[key] = ids /\ \A x \in DOMAIN s.wbuf : x # key => W[x] = s.wbuf[x]
      BY DEF Updated
    <3> HIDE DEF e, B, W
    <3>3. /\ e.p.tasks = s.p.tasks /\ e.p.counters = s.p.counters /\ e.ready = s.ready /\ e.buf = s.buf
          /\ e.p.buffers = B /\ e.p.num_sms = s.p.num_sms /\ DOMAIN e.p = DOMAIN s.p /\ e.wbuf = W
      BY <2>0, <3>1
    <3> QED
      BY <3>2, <3>3 DEF B
  <2>2. count \in Nat \ {0} /\ (~ Quantised(n) => count = 1) /\ (Quantised(n) /\ ~ args.zeros => count = 2)
    OBVIOUS
  <2>3. key[2] <=> Quantised(n)
    BY DEF WeightKey
  <2> HIDE DEF e, count, key
  <2>4. /\ IsList(s.p.buffers) /\ at \in Nat /\ DOMAIN s.p.buffers = 1 .. at
    BY ListFacts DEF Built
  <2>5. /\ IsList(e.p.buffers) /\ Len(e.p.buffers) = at + count
        /\ \A b \in 1 .. at : e.p.buffers[b] = s.p.buffers[b]
        /\ \A b \in at + 1 .. at + count : e.p.buffers[b] = "WEIGHT"
    <3>1. more = [x \in 1 .. count |-> more[x]] /\ \A x \in 1 .. count : more[x] = "WEIGHT"
      OBVIOUS
    <3> HIDE DEF more
    <3>2. JoinedTo(s.p.buffers, more, count, s.p.buffers \o more)
      BY <2>2, <2>4, <3>1, JoinedIs
    <3> QED
      BY <2>1, <3>1, <3>2 DEF JoinedTo
  <2>6. DOMAIN e.p.buffers = 1 .. at + count
    BY <2>5, ListFacts
  <2> HIDE DEF at
  <2>7. 1 .. at \subseteq 1 .. at + count /\ (1 .. at + count) \ (1 .. at) = at + 1 .. at + count
        /\ at + 1 .. at + count \subseteq 1 .. at + count
    BY <2>2, <2>4
  <2>8. TaskIds(e.p) = TaskIds(s.p)
    BY <2>1 DEF TaskIds
  <2>9. Extended(s.p, e.p)
    BY <2>1, <2>4, <2>5, <2>6, <2>7, <2>8 DEF Extended
  <2>10. \A b \in DOMAIN e.p.buffers \ DOMAIN s.p.buffers : WrittenOnce(e.p, b)
    BY <2>4, <2>5, <2>6, <2>7 DEF WrittenOnce, Transient, ReadOnlyKinds
  <2>11. Sound(e.p)
    BY <2>1, <2>8, <2>9, <2>10, SoundGrown
  <2>12. HasWeights(e.p, key, ids)
    <3>1. Cardinality(ids) = count
      <4>1. PICK a \in Nat, d \in Nat \ {0} : a = at /\ d = count
        BY <2>2, <2>4
      <4>2. a + 1 \in Int /\ a + d \in Int /\ ~ (a + 1 > a + d) /\ (a + d) - (a + 1) + 1 = d
        OBVIOUS
      <4>3. Cardinality(a + 1 .. a + d) = IF a + 1 > a + d THEN 0 ELSE (a + d) - (a + 1) + 1
        BY <4>2, FS_Interval
      <4> QED
        BY <4>1, <4>2, <4>3
    <3> QED
      BY <2>2, <2>3, <2>5, <2>6, <2>7, <3>1 DEF HasWeights
  <2>13. Known(e, j)
    <3>1. ASSUME NEW x \in DOMAIN e.wbuf PROVE HasWeights(e.p, x, e.wbuf[x])
      <4>1. CASE x = key
        BY <2>1, <2>12, <4>1
      <4>2. CASE x # key
        <5>1. HasWeights(s.p, x, s.wbuf[x]) /\ e.wbuf[x] = s.wbuf[x]
          BY <2>1, <4>2 DEF Known
        <5> QED
          BY <2>4, <2>5, <2>6, <2>7, <5>1 DEF HasWeights
      <4> QED
        BY <4>1, <4>2
    <3>2. \A x \in DOMAIN s.buf : s.buf[x] \in 1 .. at
      BY DEF Built, at
    <3>3. \A x \in DOMAIN s.buf : e.p.buffers[e.buf[x]] = s.p.buffers[s.buf[x]]
      BY <2>1, <2>5, <3>2
    <3> QED
      BY <2>1, <3>1, <3>3 DEF Known, Transient
  <2> QED
    BY <2>1, <2>11, <2>13 DEF e, key
<1> QED
  BY <1>1, <1>2

-----------------------------------------------------------------------------
(* e is s with, for each of the k shards, a buffer, a counter and a task   *)
(* that reads what node n reads.                                           *)
ShardsPublished(s, e, n, k, width) ==
  LET m == Len(s.p.tasks)
      b == Len(s.p.buffers)
      c == Len(s.p.counters)
      parts == {Part(n, i) : i \in 1 .. k}
  IN  /\ e.wbuf = s.wbuf /\ e.p.num_sms = s.p.num_sms /\ DOMAIN e.p = DOMAIN s.p
      /\ DOMAIN e.buf = DOMAIN s.buf \cup parts /\ DOMAIN e.ready = DOMAIN s.ready \cup parts
      /\ \A i \in 1 .. k : e.buf[Part(n, i)] = b + i /\ e.ready[Part(n, i)].counter = c + i
      /\ \A x \in DOMAIN s.buf \ parts : e.buf[x] = s.buf[x]
      /\ \A x \in DOMAIN s.ready \ parts : e.ready[x] = s.ready[x]
      /\ IsList(e.p.buffers) /\ Len(e.p.buffers) = b + k
      /\ \A d \in 1 .. b : e.p.buffers[d] = s.p.buffers[d]
      /\ \A d \in b + 1 .. b + k : e.p.buffers[d] = "ACTIVATION"
      /\ IsList(e.p.counters) /\ Len(e.p.counters) = c + k
      /\ \A d \in 1 .. c : e.p.counters[d] = s.p.counters[d]
      /\ \A d \in c + 1 .. c + k : e.p.counters[d] = 0
      /\ Len(e.p.tasks) = m + k
      /\ \A t \in 1 .. m : e.p.tasks[t] = s.p.tasks[t]
      /\ \A t \in m + 1 .. m + k :
           /\ e.p.tasks[t].op = "ATTENTION_TILE" /\ e.p.tasks[t].tile = Whole /\ t - m \in 1 .. k
           /\ e.p.tasks[t].inputs = {s.buf[x] : x \in ToSet(n.inputs)}
           /\ e.p.tasks[t].outputs = {b + (t - m)} /\ e.p.tasks[t].out_counter = c + (t - m)
           /\ e.p.tasks[t].sm = (t - m - 1) % args.num_sms
           /\ Len(e.p.tasks[t].waits) \in 0 .. width
           /\ Waits(e.p, t) = {s.ready[x] : x \in ToSet(n.inputs) \cap DOMAIN s.ready}

LEMMA ShardsPublishedIs ==
  ASSUME NEW s, Built(s), "num_sms" \in DOMAIN s.p, NEW n, NEW width \in Nat,
         n.inputs = [i \in 1 .. width |-> n.inputs[i]],
         NEW k \in Nat \ {0}, Shards = [i \in 1 .. k |-> Shards[i]]
  PROVE  ShardsPublished(s, EmitShards(s, n), n, k, width)
<1> DEFINE e == EmitShards(s, n)
           m == Len(s.p.tasks)
           b == Len(s.p.buffers)
           c == Len(s.p.counters)
           parts == {Part(n, i) : i \in 1 .. k}
           waits == WaitsFor(s, n.inputs)
           Task(i) ==
             [op |-> "ATTENTION_TILE", inputs |-> {s.buf[t] : t \in ToSet(n.inputs)}, outputs |-> {b + i},
              out_counter |-> c + i, waits |-> waits, tile |-> Whole, window |-> Shards[i],
              sm |-> (i - 1) % args.num_sms]
           new == [i \in 1 .. k |-> Task(i)]
           kinds == [i \in 1 .. k |-> "ACTIVATION"]
           zeros == [i \in 1 .. k |-> 0]
<1>1. DOMAIN Shards = 1 .. k
  OBVIOUS
<1>2. \A i \in 1 .. k : Part(n, i)[4] = i
  BY DEF Part
<1>3. /\ e.p.buffers = s.p.buffers \o kinds /\ e.p.counters = s.p.counters \o zeros
      /\ e.p.tasks = s.p.tasks \o new /\ e.wbuf = s.wbuf /\ e.p.num_sms = s.p.num_sms /\ DOMAIN e.p = DOMAIN s.p
      /\ DOMAIN e.buf = DOMAIN s.buf \cup parts /\ DOMAIN e.ready = DOMAIN s.ready \cup parts
      /\ \A x \in parts : e.buf[x] = b + x[4] /\ e.ready[x] = [counter |-> c + x[4], threshold |-> 1]
      /\ \A x \in DOMAIN s.buf \ parts : e.buf[x] = s.buf[x]
      /\ \A x \in DOMAIN s.ready \ parts : e.ready[x] = s.ready[x]
  <2>1. /\ {"p", "buf", "ready", "wbuf"} \subseteq DOMAIN s
        /\ {"buffers", "counters", "tasks", "num_sms"} \subseteq DOMAIN s.p
    BY DEF Built, Shaped
  <2> DEFINE B == s.p.buffers \o kinds
             C == s.p.counters \o zeros
             T == s.p.tasks \o new
             F == Updated(s.buf, [x \in parts |-> b + x[4]])
             R == Updated(s.ready, [x \in parts |-> [counter |-> c + x[4], threshold |-> 1]])
  <2>2. e = [s EXCEPT !.p.buffers = B, !.p.counters = C, !.p.tasks = T, !.buf = F, !.ready = R]
    BY <1>1 DEF EmitShards
  <2>3. /\ DOMAIN F = DOMAIN s.buf \cup parts /\ DOMAIN R = DOMAIN s.ready \cup parts
        /\ \A x \in parts : F[x] = b + x[4] /\ R[x] = [counter |-> c + x[4], threshold |-> 1]
        /\ \A x \in DOMAIN s.buf \ parts : F[x] = s.buf[x]
        /\ \A x \in DOMAIN s.ready \ parts : R[x] = s.ready[x]
    BY DEF Updated
  <2> HIDE DEF e, B, C, T, F, R
  <2>4. /\ e.p.buffers = B /\ e.p.counters = C /\ e.p.tasks = T /\ e.buf = F /\ e.ready = R
        /\ e.wbuf = s.wbuf /\ e.p.num_sms = s.p.num_sms /\ DOMAIN e.p = DOMAIN s.p
    BY <2>1, <2>2
  <2> QED
    BY <2>3, <2>4 DEF B, C, T
<1>4. /\ new = [i \in 1 .. k |-> new[i]] /\ kinds = [i \in 1 .. k |-> kinds[i]] /\ zeros = [i \in 1 .. k |-> zeros[i]]
      /\ \A i \in 1 .. k : kinds[i] = "ACTIVATION" /\ zeros[i] = 0
  OBVIOUS
<1>5. \A i \in 1 .. k : /\ new[i].op = "ATTENTION_TILE" /\ new[i].tile = Whole
                        /\ new[i].inputs = {s.buf[x] : x \in ToSet(n.inputs)}
                        /\ new[i].outputs = {b + i} /\ new[i].out_counter = c + i
                        /\ new[i].sm = (i - 1) % args.num_sms /\ new[i].waits = waits
  OBVIOUS
<1> HIDE DEF e, new, waits, kinds, zeros
<1>6. /\ IsList(s.p.tasks) /\ IsList(s.p.counters) /\ IsList(s.p.buffers)
      /\ m \in Nat /\ c \in Nat /\ b \in Nat
  BY ListFacts DEF Built
<1>7. /\ Len(e.p.tasks) = m + k
      /\ \A t \in 1 .. m : e.p.tasks[t] = s.p.tasks[t]
      /\ \A t \in m + 1 .. m + k : e.p.tasks[t] = new[t - m] /\ t - m \in 1 .. k
  <2>1. JoinedTo(s.p.tasks, new, k, s.p.tasks \o new)
    BY <1>4, <1>6, JoinedIs
  <2> QED
    BY <1>3, <2>1 DEF JoinedTo
<1>8. /\ IsList(e.p.counters) /\ Len(e.p.counters) = c + k
      /\ \A d \in 1 .. c : e.p.counters[d] = s.p.counters[d]
      /\ \A d \in c + 1 .. c + k : e.p.counters[d] = 0
  <2>1. JoinedTo(s.p.counters, zeros, k, s.p.counters \o zeros)
    BY <1>4, <1>6, JoinedIs
  <2> QED
    BY <1>3, <1>4, <2>1 DEF JoinedTo
<1>9. /\ IsList(e.p.buffers) /\ Len(e.p.buffers) = b + k
      /\ \A d \in 1 .. b : e.p.buffers[d] = s.p.buffers[d]
      /\ \A d \in b + 1 .. b + k : e.p.buffers[d] = "ACTIVATION"
  <2>1. JoinedTo(s.p.buffers, kinds, k, s.p.buffers \o kinds)
    BY <1>4, <1>6, JoinedIs
  <2> QED
    BY <1>3, <1>4, <2>1 DEF JoinedTo
<1>10. /\ Len(waits) \in 0 .. width
       /\ Elements(waits) = {s.ready[x] : x \in ToSet(n.inputs) \cap DOMAIN s.ready}
  <2>1. Awaits(s, n.inputs, width, waits)
    BY WaitsForIs DEF waits
  <2> QED
    BY <2>1, ListFacts DEF Awaits
<1>11. \A t \in m + 1 .. m + k :
         /\ e.p.tasks[t].op = "ATTENTION_TILE" /\ e.p.tasks[t].tile = Whole /\ t - m \in 1 .. k
         /\ e.p.tasks[t].inputs = {s.buf[x] : x \in ToSet(n.inputs)}
         /\ e.p.tasks[t].outputs = {b + (t - m)} /\ e.p.tasks[t].out_counter = c + (t - m)
         /\ e.p.tasks[t].sm = (t - m - 1) % args.num_sms /\ e.p.tasks[t].waits = waits
  <2> TAKE t \in m + 1 .. m + k
  <2>1. t - m \in 1 .. k /\ e.p.tasks[t] = new[t - m]
    BY <1>7
  <2>2. PICK i \in 1 .. k : i = t - m
    BY <2>1
  <2> QED
    BY <1>5, <2>1, <2>2
<1>12. ASSUME NEW t \in m + 1 .. m + k
       PROVE  /\ Len(e.p.tasks[t].waits) \in 0 .. width
              /\ Waits(e.p, t) = {s.ready[x] : x \in ToSet(n.inputs) \cap DOMAIN s.ready}
  <2>1. e.p.tasks[t].waits = waits
    BY <1>11
  <2>2. Waits(e.p, t) = Elements(waits)
    BY <2>1 DEF Waits, Elements
  <2> QED
    BY <1>10, <2>1, <2>2
<1>13. \A i \in 1 .. k : e.buf[Part(n, i)] = b + i /\ e.ready[Part(n, i)].counter = c + i
  <2> TAKE i \in 1 .. k
  <2>1. PICK x \in parts : x = Part(n, i)
    OBVIOUS
  <2> HIDE DEF parts
  <2>2. e.buf[x] = b + x[4] /\ e.ready[x] = [counter |-> c + x[4], threshold |-> 1] /\ x[4] = i
    BY <1>2, <1>3, <2>1
  <2>3. e.buf[x] = b + i /\ e.ready[x].counter = c + i
    BY <2>2
  <2> QED
    BY <2>1, <2>3
<1>14. ShardsPublished(s, e, n, k, width)
  BY <1>3, <1>7, <1>8, <1>9, <1>11, <1>12, <1>13 DEF ShardsPublished
<1> QED
  BY <1>14 DEF e

LEMMA ShardsSound ==
  ASSUME args \in Requests, NEW s, Built(s), EdgesWhole(s, {}), Sound(s.p), NEW i \in DOMAIN Graph, NEW j, Known(s, j),
         \A a \in DOMAIN Graph : a < j => a < i + 1, i < i + 1,
         NEW e, NEW width \in Nat, width <= ABI_MAX_WAITS, NEW k \in Nat \ {0},
         ShardsPublished(s, e, Graph[i], k, width),
         \A a \in 1 .. k : Part(Graph[i], a) \notin DOMAIN s.buf,
         \A x \in ToSet(Graph[i].inputs) : x \in DOMAIN s.buf,
         Cardinality({s.buf[x] : x \in ToSet(Graph[i].inputs)}) \in 3 .. 4
  PROVE  Sound(e.p) /\ Known(e, i + 1)
<1> DEFINE m == Len(s.p.tasks)
           n == Len(s.p.buffers)
           c == Len(s.p.counters)
           q == s.p
           r == e.p
           parts == {Part(Graph[i], a) : a \in 1 .. k}
           node_i == Graph[i]
<1>1. /\ m \in Nat /\ n \in Nat /\ c \in Nat /\ ABI_MAX_WAITS \in Nat
      /\ DOMAIN q.buffers = 1 .. n /\ DOMAIN q.counters = 1 .. c /\ TaskIds(q) = 1 .. m
  BY AbiAssumption, ListFacts DEF Built, TaskIds
<1>2. /\ e.wbuf = s.wbuf /\ r.num_sms = q.num_sms /\ DOMAIN r = DOMAIN q
      /\ DOMAIN e.buf = DOMAIN s.buf \cup parts /\ DOMAIN e.ready = DOMAIN s.ready \cup parts
      /\ \A a \in 1 .. k : e.buf[Part(node_i, a)] = n + a /\ e.ready[Part(node_i, a)].counter = c + a
      /\ \A x \in DOMAIN s.buf \ parts : e.buf[x] = s.buf[x]
      /\ \A x \in DOMAIN s.ready \ parts : e.ready[x] = s.ready[x]
      /\ IsList(r.buffers) /\ Len(r.buffers) = n + k
      /\ \A d \in 1 .. n : r.buffers[d] = q.buffers[d]
      /\ \A d \in n + 1 .. n + k : r.buffers[d] = "ACTIVATION"
      /\ IsList(r.counters) /\ Len(r.counters) = c + k
      /\ \A d \in 1 .. c : r.counters[d] = q.counters[d]
      /\ \A d \in c + 1 .. c + k : r.counters[d] = 0
      /\ Len(r.tasks) = m + k
      /\ \A t \in 1 .. m : r.tasks[t] = q.tasks[t]
  BY DEF ShardsPublished
<1>3. \A t \in m + 1 .. m + k :
           /\ r.tasks[t].op = "ATTENTION_TILE" /\ r.tasks[t].tile = Whole /\ t - m \in 1 .. k
           /\ r.tasks[t].inputs = {s.buf[x] : x \in ToSet(node_i.inputs)}
           /\ r.tasks[t].outputs = {n + (t - m)} /\ r.tasks[t].out_counter = c + (t - m)
           /\ r.tasks[t].sm = (t - m - 1) % args.num_sms
           /\ Len(r.tasks[t].waits) \in 0 .. width
           /\ Waits(r, t) = {s.ready[x] : x \in ToSet(node_i.inputs) \cap DOMAIN s.ready}
  BY DEF ShardsPublished
<1>4. /\ DOMAIN r.buffers = 1 .. n + k /\ DOMAIN r.counters = 1 .. c + k /\ TaskIds(r) = 1 .. m + k
      /\ Len(r.tasks) = m + k
  BY <1>2, ListFacts DEF TaskIds
<1> HIDE DEF m, n, c, q, r
<1>5. /\ 1 .. m \subseteq 1 .. m + k /\ (1 .. m + k) \ (1 .. m) = m + 1 .. m + k
      /\ 1 .. n \subseteq 1 .. n + k /\ (1 .. n + k) \ (1 .. n) = n + 1 .. n + k
      /\ 1 .. c \subseteq 1 .. c + k /\ (1 .. c + k) \ (1 .. c) = c + 1 .. c + k
      /\ \A a \in 1 .. k : /\ n + a \in n + 1 .. n + k /\ n + a \notin 1 .. n /\ n + a \in 1 .. n + k
                           /\ c + a \in c + 1 .. c + k /\ c + a \notin 1 .. c /\ c + a \in 1 .. c + k
                           /\ m + a \in m + 1 .. m + k /\ (m + a) - m = a
  BY <1>1
<1>6. \A x \in DOMAIN s.buf : x \notin parts /\ e.buf[x] = s.buf[x] /\ s.buf[x] \in 1 .. n
  BY <1>2 DEF Built, n
<1>7. Extended(q, r)
  <2>1. \A t \in TaskIds(r) \ TaskIds(q) : /\ r.tasks[t].out_counter \notin DOMAIN q.counters
                                           /\ r.tasks[t].outputs \cap DOMAIN q.buffers = {}
    <3> SUFFICES ASSUME NEW t \in m + 1 .. m + k
                 PROVE  r.tasks[t].out_counter \notin 1 .. c /\ r.tasks[t].outputs \cap 1 .. n = {}
      BY <1>1, <1>4, <1>5
    <3>1. PICK a \in 1 .. k : r.tasks[t].outputs = {n + a} /\ r.tasks[t].out_counter = c + a
      BY <1>3
    <3> QED
      BY <1>5, <3>1
  <2> QED
    BY <1>1, <1>2, <1>4, <1>5, <2>1 DEF Extended
<1>8. /\ \A b \in 1 .. n : Writers(r, b) = Writers(q, b) /\ (Transient(r, b) <=> Transient(q, b))
      /\ \A d \in 1 .. c : Producers(r, d) = Producers(q, d)
  BY <1>1, <1>7, RelationsKept
<1>9. ASSUME NEW x \in DOMAIN s.ready
      PROVE  /\ x \in DOMAIN s.buf /\ s.buf[x] \in 1 .. n /\ s.ready[x].counter \in 1 .. c
             /\ Producers(r, s.ready[x].counter) = Writers(q, s.buf[x])
             /\ Writers(r, s.buf[x]) = Writers(q, s.buf[x])
             /\ s.ready[x].threshold = Cardinality(Writers(q, s.buf[x]))
             /\ Writers(q, s.buf[x]) # {} /\ Writers(q, s.buf[x]) \subseteq 1 .. m
  <2>1. x \in DOMAIN s.buf /\ s.buf[x] \in 1 .. n /\ s.ready[x].counter \in 1 .. c
    BY DEF Built, n, c
  <2>2. EdgeIsWhole(s, x)
    BY DEF EdgesWhole
  <2>3. Producers(q, s.ready[x].counter) = Writers(q, s.buf[x])
        /\ s.ready[x].threshold = Cardinality(Writers(q, s.buf[x]))
    BY <2>2 DEF EdgeIsWhole, q
  <2>4. Transient(q, s.buf[x])
    BY <2>1 DEF Known, q
  <2>5. Writers(q, s.buf[x]) # {}
    BY <1>1, <2>1, <2>4 DEF Sound, WrittenOnce, q
  <2>6. Writers(q, s.buf[x]) \subseteq 1 .. m
    BY <1>1 DEF Writers
  <2> QED
    BY <1>8, <2>1, <2>3, <2>5, <2>6
<1>10. ASSUME NEW a \in 1 .. k PROVE Writers(r, n + a) = {m + a}
  <2>1. \A t \in 1 .. m : n + a \notin r.tasks[t].outputs
    <3> TAKE t \in 1 .. m
    <3>1. q.tasks[t].outputs \subseteq 1 .. n
      BY <1>1 DEF Built, q, n
    <3> QED
      BY <1>2, <1>5, <3>1
  <2>2. \A t \in m + 1 .. m + k : n + a \in r.tasks[t].outputs <=> t = m + a
    <3> TAKE t \in m + 1 .. m + k
    <3>1. PICK d \in 1 .. k : d = t - m /\ r.tasks[t].outputs = {n + d}
      BY <1>3
    <3>2. t = m + d
      BY <1>1, <3>1
    <3>3. (n + a = n + d <=> a = d) /\ (m + a = m + d <=> a = d)
      BY <1>1
    <3> QED
      BY <3>1, <3>2, <3>3
  <2>3. m + a \in TaskIds(r) /\ m + a \in m + 1 .. m + k
    BY <1>1, <1>4
  <2>4. \A t \in TaskIds(r) : n + a \in r.tasks[t].outputs <=> t = m + a
    <3>1. \A t \in 1 .. m : t # m + a
      BY <1>1
    <3> QED
      BY <1>4, <1>5, <2>1, <2>2, <3>1
  <2> QED
    BY <2>3, <2>4 DEF Writers
<1>11. \A a \in 1 .. k : Transient(r, n + a)
  BY <1>2, <1>5 DEF Transient, ReadOnlyKinds
<1>12. ASSUME NEW t \in m + 1 .. m + k PROVE WaitsSound(r, t)
  <2>1. \A u \in 1 .. m : u < t
    BY <1>1
  <2>2. Len(r.tasks[t].waits) <= ABI_MAX_WAITS
    BY <1>1, <1>3
  <2>3. ASSUME NEW w \in Waits(r, t)
        PROVE  /\ w.counter \in DOMAIN r.counters /\ w.counter # r.tasks[t].out_counter
               /\ Producers(r, w.counter) # {}
               /\ w.threshold = Cardinality(Producers(r, w.counter))
               /\ \A u \in Producers(r, w.counter) : u < t
    <3>1. PICK x \in DOMAIN s.ready : w = s.ready[x]
      BY <1>3
    <3>2. r.tasks[t].out_counter \notin 1 .. c
      <4>1. PICK a \in 1 .. k : r.tasks[t].out_counter = c + a
        BY <1>3
      <4> QED
        BY <1>5, <4>1
    <3>3. w.counter \in 1 .. c + k /\ w.counter # r.tasks[t].out_counter
      BY <1>5, <1>9, <3>1, <3>2
    <3> QED
      BY <1>4, <1>9, <2>1, <3>1, <3>3
  <2> QED
    BY <2>2, <2>3 DEF WaitsSound
<1>13. ASSUME NEW t \in m + 1 .. m + k PROVE OperandsSound(r, t)
  <2>1. PICK a \in 1 .. k : a = t - m /\ r.tasks[t].outputs = {n + a}
    BY <1>3
  <2>2. ASSUME NEW x \in ToSet(node_i.inputs)
        PROVE  /\ s.buf[x] \in 1 .. n
               /\ Transient(r, s.buf[x]) => Writers(r, s.buf[x]) \ {t} \subseteq Pred(r, t)
    <3>1. x \in DOMAIN s.buf /\ s.buf[x] \in 1 .. n
      BY <1>6
    <3>2. ASSUME Transient(r, s.buf[x]) PROVE Writers(r, s.buf[x]) \ {t} \subseteq Pred(r, t)
      <4>1. x \notin IoInputs
        BY <1>8, <3>1, <3>2 DEF Known, Transient, ReadOnlyKinds, q
      <4>2. x \in DOMAIN s.ready
        BY <3>1, <4>1 DEF Known
      <4>3. s.ready[x] \in Waits(r, t)
        BY <1>3, <4>2
      <4>4. Writers(r, s.buf[x]) = Producers(r, s.ready[x].counter)
        BY <1>9, <4>2
      <4>5. Producers(r, s.ready[x].counter) \subseteq TaskIds(r)
        BY DEF Producers
      <4> QED
        BY <4>3, <4>4, <4>5 DEF Pred
    <3> QED
      BY <3>1, <3>2
  <2>3. \A b \in r.tasks[t].inputs : \E x \in ToSet(node_i.inputs) : b = s.buf[x]
    BY <1>3
  <2>4. r.tasks[t].inputs \subseteq DOMAIN r.buffers
    BY <1>4, <1>5, <2>2, <2>3
  <2>5. \A b \in r.tasks[t].inputs : Transient(r, b) => Writers(r, b) \ {t} \subseteq Pred(r, t)
    BY <2>2, <2>3
  <2>6. n + a \in DOMAIN r.buffers /\ Transient(r, n + a)
    BY <1>4, <1>5, <1>11
  <2> QED
    BY <2>1, <2>4, <2>5, <2>6 DEF OperandsSound
<1>14. ASSUME NEW t \in m + 1 .. m + k PROVE PlacedSound(r, t)
  <2>1. PICK a \in 1 .. k : a = t - m /\ r.tasks[t].out_counter = c + a
    BY <1>3
  <2>2. r.tasks[t].sm < args.num_sms
    <3>1. args.num_sms \in Nat \ {0}
      BY PartsAre
    <3>2. r.tasks[t].sm = (a - 1) % args.num_sms
      BY <1>3, <2>1
    <3>3. PICK x \in Nat, d \in Nat \ {0} : x = a - 1 /\ d = args.num_sms
      BY <3>1
    <3>4. x % d < d
      OBVIOUS
    <3> QED
      BY <3>2, <3>3, <3>4
  <2>3. r.tasks[t].tile.m_off < 0
    <3>1. Whole.m_off = -1
      BY DEF Whole
    <3> QED
      BY <1>3, <3>1
  <2>4. Cardinality(r.tasks[t].inputs) \in OP_REGISTRY[r.tasks[t].op][1] .. OP_REGISTRY[r.tasks[t].op][2]
    <3>1. OP_REGISTRY["ATTENTION_TILE"][1] = 3 /\ OP_REGISTRY["ATTENTION_TILE"][2] = 4
      BY DEF OP_REGISTRY
    <3> QED
      BY <1>3, <3>1
  <2> QED
    BY <1>4, <1>5, <2>1, <2>2, <2>3, <2>4 DEF PlacedSound
<1>15. ASSUME NEW b \in n + 1 .. n + k PROVE WrittenOnce(r, b)
  <2>1. PICK a \in 1 .. k : b = n + a
    <3>1. b - n \in 1 .. k /\ b = n + (b - n)
      BY <1>1
    <3> QED
      BY <3>1
  <2> QED
    BY <1>10, <2>1 DEF WrittenOnce, DisjointTiles
<1>16. Sound(r)
  <2>1. \A d \in DOMAIN r.counters \ DOMAIN q.counters : r.counters[d] = 0
    BY <1>1, <1>2, <1>4, <1>5
  <2>2. \A b \in DOMAIN r.buffers \ DOMAIN q.buffers : WrittenOnce(r, b)
    BY <1>1, <1>4, <1>5, <1>15
  <2>3. \A t \in TaskIds(r) \ TaskIds(q) : TaskSound(r, t)
    BY <1>1, <1>4, <1>5, <1>12, <1>13, <1>14 DEF TaskSound
  <2>4. Sound(q)
    BY DEF q
  <2> QED
    BY <1>7, <2>1, <2>2, <2>3, <2>4, SoundGrown
<1>17. Known(e, i + 1)
  <2>1. \A x \in IoInputs : x \in DOMAIN s.buf /\ x \notin parts
    BY <1>6 DEF Known
  <2>2. "num_sms" \in DOMAIN e.p /\ IoInputs \subseteq DOMAIN e.buf /\ DOMAIN e.ready \cap IoInputs = {}
    <3> HIDE DEF parts
    <3> QED
      BY <1>2, <2>1 DEF Known, q, r
  <2>3. ASSUME NEW x \in IoInputs PROVE e.p.buffers[e.buf[x]] = "IO_INPUT"
    <3>1. x \in DOMAIN s.buf /\ s.p.buffers[s.buf[x]] = "IO_INPUT"
      BY DEF Known
    <3> QED
      BY <1>2, <1>6, <3>1 DEF q, r
  <2>4. ASSUME NEW x \in DOMAIN e.buf \ IoInputs
        PROVE  /\ x \in DOMAIN e.ready /\ Transient(e.p, e.buf[x])
               /\ \E a \in DOMAIN Graph : a < i + 1 /\ NamedAfter(x, Graph[a].output)
    <3>1. CASE x \in parts
      <4>1. PICK a \in 1 .. k : x = Part(node_i, a)
        BY <3>1
      <4>2. NamedAfter(x, Graph[i].output)
        BY <4>1 DEF NamedAfter, Part
      <4>3. e.buf[x] = n + a
        BY <1>2, <4>1
      <4> QED
        BY <1>2, <1>11, <3>1, <4>2, <4>3 DEF r
    <3>2. CASE x \notin parts
      <4>1. x \in DOMAIN s.buf \ IoInputs /\ e.buf[x] = s.buf[x] /\ s.buf[x] \in 1 .. n
        BY <1>2, <1>6, <3>2
      <4>2. x \in DOMAIN s.ready /\ Transient(q, s.buf[x])
        BY <4>1 DEF Known, q
      <4>3. PICK a \in DOMAIN Graph : a < j /\ NamedAfter(x, Graph[a].output)
        BY <4>1 DEF Known
      <4> QED
        BY <1>2, <1>8, <4>1, <4>2, <4>3 DEF r
    <3> QED
      BY <3>1, <3>2
  <2>5. ASSUME NEW key \in DOMAIN e.wbuf PROVE HasWeights(e.p, key, e.wbuf[key])
    <3>1. HasWeights(q, key, s.wbuf[key]) /\ e.wbuf = s.wbuf
      BY <1>2 DEF Known, q
    <3> QED
      BY <1>1, <1>2, <1>4, <1>5, <3>1 DEF HasWeights, r
  <2> QED
    BY <2>2, <2>3, <2>4, <2>5 DEF Known
<1> QED
  BY <1>16, <1>17 DEF r

-----------------------------------------------------------------------------
(* The operands of a node: how many, and that earlier nodes write them.    *)
NodeShape(n) ==
  \/ n.op \in {"embed", "rmsnorm", "linear"} /\ n.weight # None /\ \E x : n.inputs = <<x>>
  \/ n.op \in {"rope", "kv_append"} /\ n.weight = None /\ \E x : n.inputs = <<x>>
  \/ n.op \in {"swiglu", "add"} /\ n.weight = None /\ \E x, y : x # y /\ n.inputs = <<x, y>>
  \/ n.op = "attention" /\ n.weight = None /\ \E x, y, z : x # y /\ x # z /\ y # z /\ n.inputs = <<x, y, z>>

LayerReads(n, L, j) ==
  \A x \in ToSet(n.inputs) : x = Residual(L) \/ \E a \in 1 .. 17 : a < j /\ x = <<L, OutNames[a]>>

LEMMA Tuples ==
  ASSUME NEW x, NEW y, NEW z
  PROVE  ToSet(<<x>>) = {x} /\ ToSet(<<x, y>>) = {x, y} /\ ToSet(<<x, y, z>>) = {x, y, z}
BY DEF ToSet

LEMMA Shapes ==
  ASSUME NEW op, NEW x, NEW y, NEW z, NEW out, NEW w, NEW width
  PROVE  /\ op \in {"embed", "rmsnorm", "linear"} /\ w # None => NodeShape(Node(op, <<x>>, out, w, width))
         /\ op \in {"rope", "kv_append"} => NodeShape(Node(op, <<x>>, out, None, width))
         /\ op \in {"swiglu", "add"} /\ x # y => NodeShape(Node(op, <<x, y>>, out, None, width))
         /\ op = "attention" /\ x # y /\ x # z /\ y # z => NodeShape(Node(op, <<x, y, z>>, out, None, width))
BY DEF NodeShape, Node

LEMMA LayerOperands ==
  ASSUME NEW L \in Nat \ {0}, NEW j \in 1 .. 17
  PROVE  NodeShape(LayerNodes(L)[j]) /\ LayerReads(LayerNodes(L)[j], L, j)
<1> DEFINE T(name) == <<L, name>>
<1>1. \A name \in WeightNames : T(name) # None
  BY NoneAssumption
<1>2. \A a, b : T(a) = T(b) => a = b
  OBVIOUS
<1>3. \A name : T(name) # Residual(L)
  BY DEF Residual
<1>4. \A a \in 1 .. 17 : T(OutNames[a]) = <<L, OutNames[a]>>
  OBVIOUS
<1> DEFINE R == Residual(L)
<1>5. CASE j = 1
  <2>1. LayerNodes(L)[j] = Node("rmsnorm", <<R>>, T("an"), T("in_norm"), 0)
    BY <1>5 DEF LayerNodes, Residual
  <2>2. LayerNodes(L)[j].inputs = <<R>>
    BY <2>1 DEF Node
  <2>3. ToSet(LayerNodes(L)[j].inputs) = {R}
    BY <2>2, Tuples
  <2>5. LayerReads(LayerNodes(L)[j], L, j)
    BY <2>3 DEF LayerReads
  <2>6. T("in_norm") # None
    BY <1>1 DEF WeightNames
  <2> HIDE DEF T, R
  <2>7. NodeShape(LayerNodes(L)[j])
    BY <2>1, <2>6, Shapes
  <2> QED
    BY <2>5, <2>7
<1>6. CASE j = 2
  <2>1. LayerNodes(L)[j] = Node("linear", <<T("an")>>, T("q"), T("q_proj"), Dims["q"])
    BY <1>6 DEF LayerNodes, Residual
  <2>2. LayerNodes(L)[j].inputs = <<T("an")>>
    BY <2>1 DEF Node
  <2>3. ToSet(LayerNodes(L)[j].inputs) = {T("an")}
    BY <2>2, Tuples
  <2>4. OutNames[1] = "an"
    BY DEF OutNames
  <2>5. LayerReads(LayerNodes(L)[j], L, j)
    BY <1>6, <2>3, <2>4 DEF LayerReads
  <2>6. T("q_proj") # None
    BY <1>1 DEF WeightNames
  <2> HIDE DEF T, R
  <2>7. NodeShape(LayerNodes(L)[j])
    BY <2>1, <2>6, Shapes
  <2> QED
    BY <2>5, <2>7
<1>7. CASE j = 3
  <2>1. LayerNodes(L)[j] = Node("linear", <<T("an")>>, T("k"), T("k_proj"), Dims["kv"])
    BY <1>7 DEF LayerNodes, Residual
  <2>2. LayerNodes(L)[j].inputs = <<T("an")>>
    BY <2>1 DEF Node
  <2>3. ToSet(LayerNodes(L)[j].inputs) = {T("an")}
    BY <2>2, Tuples
  <2>4. OutNames[1] = "an"
    BY DEF OutNames
  <2>5. LayerReads(LayerNodes(L)[j], L, j)
    BY <1>7, <2>3, <2>4 DEF LayerReads
  <2>6. T("k_proj") # None
    BY <1>1 DEF WeightNames
  <2> HIDE DEF T, R
  <2>7. NodeShape(LayerNodes(L)[j])
    BY <2>1, <2>6, Shapes
  <2> QED
    BY <2>5, <2>7
<1>8. CASE j = 4
  <2>1. LayerNodes(L)[j] = Node("linear", <<T("an")>>, T("v"), T("v_proj"), Dims["kv"])
    BY <1>8 DEF LayerNodes, Residual
  <2>2. LayerNodes(L)[j].inputs = <<T("an")>>
    BY <2>1 DEF Node
  <2>3. ToSet(LayerNodes(L)[j].inputs) = {T("an")}
    BY <2>2, Tuples
  <2>4. OutNames[1] = "an"
    BY DEF OutNames
  <2>5. LayerReads(LayerNodes(L)[j], L, j)
    BY <1>8, <2>3, <2>4 DEF LayerReads
  <2>6. T("v_proj") # None
    BY <1>1 DEF WeightNames
  <2> HIDE DEF T, R
  <2>7. NodeShape(LayerNodes(L)[j])
    BY <2>1, <2>6, Shapes
  <2> QED
    BY <2>5, <2>7
<1>9. CASE j = 5
  <2>1. LayerNodes(L)[j] = Node("rope", <<T("q")>>, T("qr"), None, 0)
    BY <1>9 DEF LayerNodes, Residual
  <2>2. LayerNodes(L)[j].inputs = <<T("q")>>
    BY <2>1 DEF Node
  <2>3. ToSet(LayerNodes(L)[j].inputs) = {T("q")}
    BY <2>2, Tuples
  <2>4. OutNames[2] = "q"
    BY DEF OutNames
  <2>5. LayerReads(LayerNodes(L)[j], L, j)
    BY <1>9, <2>3, <2>4 DEF LayerReads
  <2> HIDE DEF T, R
  <2>7. NodeShape(LayerNodes(L)[j])
    BY <2>1, Shapes
  <2> QED
    BY <2>5, <2>7
<1>10. CASE j = 6
  <2>1. LayerNodes(L)[j] = Node("rope", <<T("k")>>, T("kr"), None, 0)
    BY <1>10 DEF LayerNodes, Residual
  <2>2. LayerNodes(L)[j].inputs = <<T("k")>>
    BY <2>1 DEF Node
  <2>3. ToSet(LayerNodes(L)[j].inputs) = {T("k")}
    BY <2>2, Tuples
  <2>4. OutNames[3] = "k"
    BY DEF OutNames
  <2>5. LayerReads(LayerNodes(L)[j], L, j)
    BY <1>10, <2>3, <2>4 DEF LayerReads
  <2> HIDE DEF T, R
  <2>7. NodeShape(LayerNodes(L)[j])
    BY <2>1, Shapes
  <2> QED
    BY <2>5, <2>7
<1>11. CASE j = 7
  <2>1. LayerNodes(L)[j] = Node("kv_append", <<T("kr")>>, T("kcache"), None, 0)
    BY <1>11 DEF LayerNodes, Residual
  <2>2. LayerNodes(L)[j].inputs = <<T("kr")>>
    BY <2>1 DEF Node
  <2>3. ToSet(LayerNodes(L)[j].inputs) = {T("kr")}
    BY <2>2, Tuples
  <2>4. OutNames[6] = "kr"
    BY DEF OutNames
  <2>5. LayerReads(LayerNodes(L)[j], L, j)
    BY <1>11, <2>3, <2>4 DEF LayerReads
  <2> HIDE DEF T, R
  <2>7. NodeShape(LayerNodes(L)[j])
    BY <2>1, Shapes
  <2> QED
    BY <2>5, <2>7
<1>12. CASE j = 8
  <2>1. LayerNodes(L)[j] = Node("kv_append", <<T("v")>>, T("vcache"), None, 0)
    BY <1>12 DEF LayerNodes, Residual
  <2>2. LayerNodes(L)[j].inputs = <<T("v")>>
    BY <2>1 DEF Node
  <2>3. ToSet(LayerNodes(L)[j].inputs) = {T("v")}
    BY <2>2, Tuples
  <2>4. OutNames[4] = "v"
    BY DEF OutNames
  <2>5. LayerReads(LayerNodes(L)[j], L, j)
    BY <1>12, <2>3, <2>4 DEF LayerReads
  <2> HIDE DEF T, R
  <2>7. NodeShape(LayerNodes(L)[j])
    BY <2>1, Shapes
  <2> QED
    BY <2>5, <2>7
<1>13. CASE j = 9
  <2>1. LayerNodes(L)[j] = Node("attention", <<T("qr"), T("kcache"), T("vcache")>>, T("attn"), None, 0)
    BY <1>13 DEF LayerNodes, Residual
  <2>2. LayerNodes(L)[j].inputs = <<T("qr"), T("kcache"), T("vcache")>>
    BY <2>1 DEF Node
  <2>3. ToSet(LayerNodes(L)[j].inputs) = {T("qr"), T("kcache"), T("vcache")}
    <3>1. PICK x, y, z : x = T("qr") /\ y = T("kcache") /\ z = T("vcache")
      OBVIOUS
    <3>2. LayerNodes(L)[j].inputs = <<x, y, z>>
      BY <2>2, <3>1
    <3>3. ToSet(LayerNodes(L)[j].inputs) = {x, y, z}
      BY <3>2 DEF ToSet
    <3> QED
      BY <3>1, <3>3
  <2>4. OutNames[5] = "qr" /\ OutNames[7] = "kcache" /\ OutNames[8] = "vcache"
    BY DEF OutNames
  <2>5. LayerReads(LayerNodes(L)[j], L, j)
    BY <1>13, <2>3, <2>4 DEF LayerReads
  <2>6. T("qr") # T("kcache") /\ T("qr") # T("vcache") /\ T("kcache") # T("vcache")
    BY <1>2, <1>3
  <2> HIDE DEF T, R
  <2>7. NodeShape(LayerNodes(L)[j])
    BY <2>1, <2>6, Shapes
  <2> QED
    BY <2>5, <2>7
<1>14. CASE j = 10
  <2>1. LayerNodes(L)[j] = Node("linear", <<T("attn")>>, T("o"), T("o_proj"), Dims["hidden"])
    BY <1>14 DEF LayerNodes, Residual
  <2>2. LayerNodes(L)[j].inputs = <<T("attn")>>
    BY <2>1 DEF Node
  <2>3. ToSet(LayerNodes(L)[j].inputs) = {T("attn")}
    BY <2>2, Tuples
  <2>4. OutNames[9] = "attn"
    BY DEF OutNames
  <2>5. LayerReads(LayerNodes(L)[j], L, j)
    BY <1>14, <2>3, <2>4 DEF LayerReads
  <2>6. T("o_proj") # None
    BY <1>1 DEF WeightNames
  <2> HIDE DEF T, R
  <2>7. NodeShape(LayerNodes(L)[j])
    BY <2>1, <2>6, Shapes
  <2> QED
    BY <2>5, <2>7
<1>15. CASE j = 11
  <2>1. LayerNodes(L)[j] = Node("add", <<R, T("o")>>, T("h_attn"), None, 0)
    BY <1>15 DEF LayerNodes, Residual
  <2>2. LayerNodes(L)[j].inputs = <<R, T("o")>>
    BY <2>1 DEF Node
  <2>3. ToSet(LayerNodes(L)[j].inputs) = {R, T("o")}
    BY <2>2, Tuples
  <2>4. OutNames[10] = "o"
    BY DEF OutNames
  <2>5. LayerReads(LayerNodes(L)[j], L, j)
    BY <1>15, <2>3, <2>4 DEF LayerReads
  <2>6. R # T("o")
    BY <1>2, <1>3
  <2> HIDE DEF T, R
  <2>7. NodeShape(LayerNodes(L)[j])
    BY <2>1, <2>6, Shapes
  <2> QED
    BY <2>5, <2>7
<1>16. CASE j = 12
  <2>1. LayerNodes(L)[j] = Node("rmsnorm", <<T("h_attn")>>, T("mn"), T("post_norm"), 0)
    BY <1>16 DEF LayerNodes, Residual
  <2>2. LayerNodes(L)[j].inputs = <<T("h_attn")>>
    BY <2>1 DEF Node
  <2>3. ToSet(LayerNodes(L)[j].inputs) = {T("h_attn")}
    BY <2>2, Tuples
  <2>4. OutNames[11] = "h_attn"
    BY DEF OutNames
  <2>5. LayerReads(LayerNodes(L)[j], L, j)
    BY <1>16, <2>3, <2>4 DEF LayerReads
  <2>6. T("post_norm") # None
    BY <1>1 DEF WeightNames
  <2> HIDE DEF T, R
  <2>7. NodeShape(LayerNodes(L)[j])
    BY <2>1, <2>6, Shapes
  <2> QED
    BY <2>5, <2>7
<1>17. CASE j = 13
  <2>1. LayerNodes(L)[j] = Node("linear", <<T("mn")>>, T("gate"), T("gate"), Dims["inter"])
    BY <1>17 DEF LayerNodes, Residual
  <2>2. LayerNodes(L)[j].inputs = <<T("mn")>>
    BY <2>1 DEF Node
  <2>3. ToSet(LayerNodes(L)[j].inputs) = {T("mn")}
    BY <2>2, Tuples
  <2>4. OutNames[12] = "mn"
    BY DEF OutNames
  <2>5. LayerReads(LayerNodes(L)[j], L, j)
    BY <1>17, <2>3, <2>4 DEF LayerReads
  <2>6. T("gate") # None
    BY <1>1 DEF WeightNames
  <2> HIDE DEF T, R
  <2>7. NodeShape(LayerNodes(L)[j])
    BY <2>1, <2>6, Shapes
  <2> QED
    BY <2>5, <2>7
<1>18. CASE j = 14
  <2>1. LayerNodes(L)[j] = Node("linear", <<T("mn")>>, T("up"), T("up"), Dims["inter"])
    BY <1>18 DEF LayerNodes, Residual
  <2>2. LayerNodes(L)[j].inputs = <<T("mn")>>
    BY <2>1 DEF Node
  <2>3. ToSet(LayerNodes(L)[j].inputs) = {T("mn")}
    BY <2>2, Tuples
  <2>4. OutNames[12] = "mn"
    BY DEF OutNames
  <2>5. LayerReads(LayerNodes(L)[j], L, j)
    BY <1>18, <2>3, <2>4 DEF LayerReads
  <2>6. T("up") # None
    BY <1>1 DEF WeightNames
  <2> HIDE DEF T, R
  <2>7. NodeShape(LayerNodes(L)[j])
    BY <2>1, <2>6, Shapes
  <2> QED
    BY <2>5, <2>7
<1>19. CASE j = 15
  <2>1. LayerNodes(L)[j] = Node("swiglu", <<T("gate"), T("up")>>, T("act"), None, 0)
    BY <1>19 DEF LayerNodes, Residual
  <2>2. LayerNodes(L)[j].inputs = <<T("gate"), T("up")>>
    BY <2>1 DEF Node
  <2>3. ToSet(LayerNodes(L)[j].inputs) = {T("gate"), T("up")}
    BY <2>2, Tuples
  <2>4. OutNames[13] = "gate" /\ OutNames[14] = "up"
    BY DEF OutNames
  <2>5. LayerReads(LayerNodes(L)[j], L, j)
    BY <1>19, <2>3, <2>4 DEF LayerReads
  <2>6. T("gate") # T("up")
    BY <1>2, <1>3
  <2> HIDE DEF T, R
  <2>7. NodeShape(LayerNodes(L)[j])
    BY <2>1, <2>6, Shapes
  <2> QED
    BY <2>5, <2>7
<1>20. CASE j = 16
  <2>1. LayerNodes(L)[j] = Node("linear", <<T("act")>>, T("d"), T("down"), Dims["hidden"])
    BY <1>20 DEF LayerNodes, Residual
  <2>2. LayerNodes(L)[j].inputs = <<T("act")>>
    BY <2>1 DEF Node
  <2>3. ToSet(LayerNodes(L)[j].inputs) = {T("act")}
    BY <2>2, Tuples
  <2>4. OutNames[15] = "act"
    BY DEF OutNames
  <2>5. LayerReads(LayerNodes(L)[j], L, j)
    BY <1>20, <2>3, <2>4 DEF LayerReads
  <2>6. T("down") # None
    BY <1>1 DEF WeightNames
  <2> HIDE DEF T, R
  <2>7. NodeShape(LayerNodes(L)[j])
    BY <2>1, <2>6, Shapes
  <2> QED
    BY <2>5, <2>7
<1>21. CASE j = 17
  <2>1. LayerNodes(L)[j] = Node("add", <<T("h_attn"), T("d")>>, T("h_mlp"), None, 0)
    BY <1>21 DEF LayerNodes, Residual
  <2>2. LayerNodes(L)[j].inputs = <<T("h_attn"), T("d")>>
    BY <2>1 DEF Node
  <2>3. ToSet(LayerNodes(L)[j].inputs) = {T("h_attn"), T("d")}
    BY <2>2, Tuples
  <2>4. OutNames[11] = "h_attn" /\ OutNames[16] = "d"
    BY DEF OutNames
  <2>5. LayerReads(LayerNodes(L)[j], L, j)
    BY <1>21, <2>3, <2>4 DEF LayerReads
  <2>6. T("h_attn") # T("d")
    BY <1>2, <1>3
  <2> HIDE DEF T, R
  <2>7. NodeShape(LayerNodes(L)[j])
    BY <2>1, <2>6, Shapes
  <2> QED
    BY <2>5, <2>7
<1> QED
  BY <1>5, <1>6, <1>7, <1>8, <1>9, <1>10, <1>11, <1>12, <1>13, <1>14, <1>15, <1>16, <1>17, <1>18, <1>19, <1>20, <1>21

(* Every operand but the token is the output of an earlier node.           *)
LEMMA NodeOperands ==
  ASSUME args \in Requests, NEW i \in DOMAIN Graph
  PROVE  /\ NodeShape(Graph[i])
         /\ Graph[i].output \notin IoInputs
         /\ \/ Graph[i].op = "embed" /\ Graph[i].inputs = <<<<0, "token_id">>>>
            \/ \A x \in ToSet(Graph[i].inputs) : \E a \in DOMAIN Graph : a < i /\ Graph[a].output = x
<1>1. args.layers \in Nat
  BY RequestsAssumption DEF RequestType
<1> DEFINE m == args.layers * 17
<1>2. /\ m \in Nat /\ DOMAIN Graph = 1 .. m + 3
      /\ Graph[1] = EmbedNode /\ Graph[m + 2] = NormNode /\ Graph[m + 3] = LogitsNode
  BY GraphIs
<1>3. Graph[1].output = <<0, "h0">> /\ Graph[m + 2].output = <<0, "hf">> /\ Graph[m + 3].output = <<0, "logits">>
  BY <1>2 DEF EmbedNode, NormNode, LogitsNode, Node
<1>4. 1 \in DOMAIN Graph /\ m + 2 \in DOMAIN Graph
  BY <1>2
<1>5. \A name : <<0, name>> \in IoInputs => name \in {"token_id", "pos", "reshape_id"}
  BY DEF IoInputs
<1>6. /\ <<0, "embed">> # None /\ <<0, "final_norm">> # None /\ <<0, "lm_head">> # None
  BY NoneAssumption DEF WeightNames
<1>7. \A L \in 1 .. args.layers, a \in 1 .. 17 :
        /\ (L - 1) * 17 + a + 1 \in DOMAIN Graph
        /\ Graph[(L - 1) * 17 + a + 1].output = <<L, OutNames[a]>>
  <2> TAKE L \in 1 .. args.layers, a \in 1 .. 17
  <2>1. L \in Nat \ {0}
    BY <1>1
  <2>2. (L - 1) * 17 + a + 1 \in DOMAIN Graph /\ Graph[(L - 1) * 17 + a + 1] = LayerNodes(L)[a]
    BY InLayer
  <2> QED
    BY <2>1, <2>2, LayerNodeFacts
<1>8. CASE i = 1
  <2>1. Graph[i] = Node("embed", <<<<0, "token_id">>>>, <<0, "h0">>, <<0, "embed">>, 0)
    BY <1>2, <1>8 DEF EmbedNode
  <2>2. NodeShape(Graph[i])
    BY <1>6, <2>1, Shapes
  <2>3. Graph[i].op = "embed" /\ Graph[i].inputs = <<<<0, "token_id">>>>
    BY <2>1 DEF Node
  <2> QED
    BY <1>3, <1>5, <1>8, <2>2, <2>3
<1>9. CASE i = m + 2
  <2>1. PICK x : x = IF args.layers = 0 THEN <<0, "h0">> ELSE <<args.layers, "h_mlp">>
    OBVIOUS
  <2>2. Graph[i] = Node("rmsnorm", <<x>>, <<0, "hf">>, <<0, "final_norm">>, 0)
    BY <1>2, <1>9, <2>1 DEF NormNode
  <2>3. NodeShape(Graph[i])
    BY <1>6, <2>2, Shapes
  <2>4. ToSet(Graph[i].inputs) = {x}
    <3>1. Graph[i].inputs = <<x>>
      BY <2>2 DEF Node
    <3> QED
      BY <3>1 DEF ToSet
  <2>5. \E a \in DOMAIN Graph : a < i /\ Graph[a].output = x
    <3>1. CASE args.layers = 0
      <4>1. 1 < i
        BY <1>2, <1>9
      <4> QED
        BY <1>3, <1>4, <2>1, <3>1, <4>1
    <3>2. CASE args.layers # 0
      <4>1. args.layers \in 1 .. args.layers /\ 17 \in 1 .. 17 /\ (args.layers - 1) * 17 + 17 + 1 < i
        BY <1>1, <1>9, <3>2
      <4>2. OutNames[17] = "h_mlp"
        BY DEF OutNames
      <4> QED
        BY <1>7, <2>1, <3>2, <4>1, <4>2
    <3> QED
      BY <3>1, <3>2
  <2> QED
    BY <1>3, <1>5, <1>9, <2>3, <2>4, <2>5
<1>10. CASE i = m + 3
  <2>1. PICK w : w = <<0, IF args.tied THEN "embed" ELSE "lm_head">> /\ w # None
    BY <1>6
  <2>2. PICK x : x = <<0, "hf">>
    OBVIOUS
  <2>3. Graph[i] = Node("linear", <<x>>, <<0, "logits">>, w, Dims["vocab"])
    BY <1>2, <1>10, <2>1, <2>2 DEF LogitsNode
  <2>4. NodeShape(Graph[i])
    BY <2>1, <2>3, Shapes
  <2>5. ToSet(Graph[i].inputs) = {x}
    <3>1. Graph[i].inputs = <<x>>
      BY <2>3 DEF Node
    <3> QED
      BY <3>1 DEF ToSet
  <2>6. m + 2 < i
    BY <1>2, <1>10
  <2>7. \A y \in ToSet(Graph[i].inputs) : \E a \in DOMAIN Graph : a < i /\ Graph[a].output = y
    BY <1>3, <1>4, <2>2, <2>5, <2>6
  <2>8. Graph[i].output = <<0, "logits">>
    BY <1>3, <1>10
  <2>9. Graph[i].output \notin IoInputs
    BY <2>8 DEF IoInputs
  <2> QED
    BY <2>4, <2>7, <2>9
<1>11. CASE \E L \in 1 .. args.layers, j \in 1 .. 17 : i = (L - 1) * 17 + j + 1 /\ Graph[i] = LayerNodes(L)[j]
  <2>1. PICK L \in 1 .. args.layers, j \in 1 .. 17 : i = (L - 1) * 17 + j + 1 /\ Graph[i] = LayerNodes(L)[j]
    BY <1>11
  <2>2. L \in Nat \ {0}
    BY <1>1
  <2>3. NodeShape(Graph[i]) /\ LayerReads(Graph[i], L, j)
    BY <2>1, <2>2, LayerOperands
  <2>4. Graph[i].output \notin IoInputs
    <3>1. Graph[i].output = <<L, OutNames[j]>>
      BY <1>7, <2>1
    <3> QED
      BY <2>2, <3>1 DEF IoInputs
  <2>5. ASSUME NEW x \in ToSet(Graph[i].inputs) PROVE \E a \in DOMAIN Graph : a < i /\ Graph[a].output = x
    <3>1. CASE x = Residual(L) /\ L = 1
      <4>1. 1 < i
        BY <2>1, <3>1
      <4> QED
        BY <1>3, <1>4, <3>1, <4>1 DEF Residual
    <3>2. CASE x = Residual(L) /\ L # 1
      <4>1. L - 1 \in 1 .. args.layers /\ 17 \in 1 .. 17 /\ (L - 1 - 1) * 17 + 17 + 1 < i
        BY <1>1, <2>1, <3>2
      <4>2. OutNames[17] = "h_mlp"
        BY DEF OutNames
      <4> QED
        BY <1>7, <3>2, <4>1, <4>2 DEF Residual
    <3>3. CASE \E a \in 1 .. 17 : a < j /\ x = <<L, OutNames[a]>>
      <4>1. PICK a \in 1 .. 17 : a < j /\ x = <<L, OutNames[a]>>
        BY <3>3
      <4>2. (L - 1) * 17 + a + 1 < i
        BY <2>1, <2>2, <4>1
      <4> QED
        BY <1>7, <4>1, <4>2
    <3> QED
      BY <2>3, <3>1, <3>2, <3>3 DEF LayerReads
  <2> QED
    BY <2>3, <2>4, <2>5
<1> QED
  BY <1>8, <1>9, <1>10, <1>11, PlaceIs DEF NodePlace

LEMMA OperandsThere ==
  ASSUME args \in Requests, NEW s, NEW i \in DOMAIN Graph, LoweredTo(s, i), Known(s, i)
  PROVE  \A x \in ToSet(Graph[i].inputs) : x \in DOMAIN s.buf /\ x # Graph[i].output
<1> SUFFICES ASSUME NEW x \in ToSet(Graph[i].inputs) PROVE x \in DOMAIN s.buf /\ x # Graph[i].output
  OBVIOUS
<1>1. CASE Graph[i].op = "embed" /\ Graph[i].inputs = <<<<0, "token_id">>>>
  <2>1. PICK y : y = <<0, "token_id">>
    OBVIOUS
  <2>2. x = y
    <3>1. Graph[i].inputs = <<y>>
      BY <1>1, <2>1
    <3> QED
      BY <3>1 DEF ToSet
  <2>3. x \in IoInputs
    BY <2>1, <2>2 DEF IoInputs
  <2> QED
    BY <2>3, NodeOperands DEF Known
<1>2. CASE \E a \in DOMAIN Graph : a < i /\ Graph[a].output = x
  <2>1. PICK a \in DOMAIN Graph : a < i /\ Graph[a].output = x
    BY <1>2
  <2>2. a # i
    BY <2>1, GraphIs
  <2> QED
    BY <2>1, <2>2, OutputsApart DEF LoweredTo
<1> QED
  BY <1>1, <1>2, NodeOperands

LEMMA Fresh ==
  ASSUME args \in Requests, NEW s, NEW i \in DOMAIN Graph, Known(s, i),
         NEW x, NamedAfter(x, Graph[i].output), x \notin IoInputs
  PROVE  x \notin DOMAIN s.buf
<1> SUFFICES ASSUME x \in DOMAIN s.buf PROVE FALSE
  OBVIOUS
<1>1. PICK a \in DOMAIN Graph : a < i /\ NamedAfter(x, Graph[a].output)
  BY DEF Known
<1>2. IsPair(Graph[a].output) /\ IsPair(Graph[i].output)
  BY GraphFacts
<1>3. Graph[a].output = Graph[i].output
  <2>1. PICK l1, n1 : Graph[a].output = <<l1, n1>>
    BY <1>2 DEF IsPair
  <2>2. PICK l2, n2 : Graph[i].output = <<l2, n2>>
    BY <1>2 DEF IsPair
  <2>3. x[1] = l1 /\ x[2] = n1
    BY <1>1, <2>1 DEF NamedAfter
  <2>4. x[1] = l2 /\ x[2] = n2
    BY <2>2 DEF NamedAfter
  <2> QED
    BY <2>1, <2>2, <2>3, <2>4
<1>4. a = i
  BY <1>3, OutputsApart
<1> QED
  BY <1>1, <1>4, GraphIs

LEMMA Sizes ==
  ASSUME NEW a, NEW b, NEW c
  PROVE  /\ a # b => Cardinality({a, b}) = 2
         /\ a # b /\ a # c /\ b # c => Cardinality({a, b, c}) = 3
<1>1. Cardinality({a}) = 1 /\ IsFiniteSet({a})
  BY FS_Singleton
<1>2. a # b => Cardinality({a} \cup {b}) = 2 /\ IsFiniteSet({a} \cup {b})
  BY <1>1, FS_AddElement
<1>3. a # b /\ a # c /\ b # c => Cardinality(({a} \cup {b}) \cup {c}) = 3
  BY <1>2, FS_AddElement
<1>4. {a, b} = {a} \cup {b} /\ {a, b, c} = ({a} \cup {b}) \cup {c}
  OBVIOUS
<1> QED
  BY <1>2, <1>3, <1>4

(* An operand beside the buffers of its weight.                            *)
LEMMA WithWeights ==
  ASSUME NEW s, Built(s), NEW j, Known(s, j), NEW x \in DOMAIN s.buf, NEW key \in DOMAIN s.wbuf
  PROVE  /\ Cardinality({s.buf[x]} \cup s.wbuf[key]) = Cardinality(s.wbuf[key]) + 1
         /\ HasWeights(s.p, key, s.wbuf[key])
<1>1. HasWeights(s.p, key, s.wbuf[key])
  BY DEF Known
<1>2. IsFiniteSet(s.wbuf[key])
  <2>1. s.wbuf[key] \subseteq 1 .. Len(s.p.buffers) /\ Len(s.p.buffers) \in Nat
    BY <1>1, ListFacts DEF HasWeights, Built
  <2>2. IsFiniteSet(1 .. Len(s.p.buffers))
    BY <2>1, FS_Interval
  <2> QED
    BY <2>1, <2>2, FS_Subset
<1>3. s.p.buffers[s.buf[x]] # "WEIGHT"
  BY DEF Known, Transient, ReadOnlyKinds
<1>4. s.buf[x] \notin s.wbuf[key]
  BY <1>1, <1>3 DEF HasWeights
<1>5. Cardinality(s.wbuf[key] \cup {s.buf[x]}) = Cardinality(s.wbuf[key]) + 1
  BY <1>2, <1>4, FS_AddElement
<1>6. s.wbuf[key] \cup {s.buf[x]} = {s.buf[x]} \cup s.wbuf[key]
  OBVIOUS
<1> QED
  BY <1>1, <1>5, <1>6

-----------------------------------------------------------------------------
(* A node whose weight is emitted: what its handler finds.                 *)
Prepared(s, i) ==
  /\ Built(s) /\ EdgesWhole(s, {}) /\ Sound(s.p) /\ Known(s, i)
  /\ "num_sms" \in DOMAIN s.p /\ "wbuf" \in DOMAIN s
  /\ \A x \in ToSet(Graph[i].inputs) : x \in DOMAIN s.buf /\ x # Graph[i].output
  /\ Graph[i].output \notin DOMAIN s.buf /\ Graph[i].output \notin DOMAIN s.ready
  /\ NamedAfter(Graph[i].output, Graph[i].output)
  /\ i \in Nat /\ i < i + 1 /\ \A a \in DOMAIN Graph : a < i => a < i + 1

LEMMA PreparedIs ==
  ASSUME LowerInv, Sound(self.p), Known(self, node), node \in DOMAIN Graph
  PROVE  LET s == Weight(self, Graph[node])
         IN  /\ Prepared(self, node) /\ Prepared(s, node) /\ s.buf = self.buf
             /\ Graph[node].weight # None => WeightKey(Graph[node]) \in DOMAIN s.wbuf
<1> DEFINE s == Weight(self, Graph[node])
<1>1. args \in Requests /\ LoweredTo(self, node) /\ Built(self) /\ EdgesWhole(self, {})
  BY DEF LowerInv, LoweredTo
<1>2. /\ Built(s) /\ EdgesWhole(s, {}) /\ s.buf = self.buf
  BY <1>1, WeightIs
<1>3. /\ Sound(s.p) /\ Known(s, node)
      /\ Graph[node].weight # None => WeightKey(Graph[node]) \in DOMAIN s.wbuf
  BY <1>1, WeightSound
<1>4. \A x \in ToSet(Graph[node].inputs) : x \in DOMAIN self.buf /\ x # Graph[node].output
  BY <1>1, OperandsThere
<1>5. Graph[node].output \notin DOMAIN self.buf /\ NamedAfter(Graph[node].output, Graph[node].output)
  BY <1>1, Fresh, NodeOperands DEF NamedAfter
<1>6. node \in Nat /\ node < node + 1 /\ \A a \in DOMAIN Graph : a < node => a < node + 1
  BY <1>1, GraphIs
<1> HIDE DEF s
<1>7. Prepared(s, node)
  BY <1>2, <1>3, <1>4, <1>5, <1>6 DEF Prepared, Built, Shaped, Known
<1>8. Prepared(self, node)
  BY <1>1, <1>4, <1>5, <1>6 DEF Prepared, Built, Shaped, Known
<1> QED
  BY <1>2, <1>3, <1>7, <1>8 DEF s

LEMMA SingleSound ==
  ASSUME LowerInv, Sound(self.p), Known(self, node), NEW op, NEW opcode,
         <<op, opcode>> \in {<<"embed", "EMBED">>, <<"rmsnorm", "RMSNORM">>, <<"swiglu", "SILU_MUL">>, <<"add", "ADD">>},
         OpSingle(op, opcode)
  PROVE  Sound(self'.p) /\ Known(self', node + 1)
<1> DEFINE n == Graph[node]
           s == Weight(self, n)
           weights == IF n.weight = None THEN {} ELSE s.wbuf[WeightKey(n)]
           tiles == <<Whole>>
           out == n.output
           tensors == n.inputs
           e == Emit(NewBuffer(s, out, "ACTIVATION"), opcode, tensors, weights, out, tiles, WholeWindow, NoSM)
<1>1. node \in DOMAIN Graph /\ n.op = op /\ self' = e
  BY DEF OpSingle, At, EmitOne
<1>2. args \in Requests
  BY DEF LowerInv
<1>3. Prepared(s, node) /\ (n.weight # None => WeightKey(n) \in DOMAIN s.wbuf)
  BY <1>1, PreparedIs
<1>4. NodeShape(n)
  BY <1>1, <1>2, NodeOperands
<1>5. OP_REGISTRY[opcode] = <<2, 2>>
  BY DEF OP_REGISTRY
<1>6. tiles = [i \in 1 .. 1 |-> tiles[i]] /\ \A i \in 1 .. 1 : tiles[i].m_off < 0
  BY DEF Whole
<1>7. \E width \in 1 .. 2 : tensors = [i \in 1 .. width |-> tensors[i]]
  BY <1>1, <1>4 DEF NodeShape
<1>8. PICK width \in 1 .. 2 : tensors = [i \in 1 .. width |-> tensors[i]]
  BY <1>7
<1>9. width \in Nat /\ width <= ABI_MAX_WAITS /\ ABI_MAX_WAITS \in Nat
  BY AbiAssumption, LimitsAssumption
<1>10. n.weight # None => Cardinality(s.wbuf[WeightKey(n)]) = 1
  <2>1. n.op # "linear"
    BY <1>1
  <2>2. WeightKey(n)[2] = FALSE
    BY <2>1 DEF WeightKey, Quantised
  <2> QED
    BY <1>3, <2>2 DEF Prepared, Known, HasWeights
<1>11. /\ \/ op \in {"embed", "rmsnorm"} /\ n.weight # None /\ \E x : tensors = <<x>>
          \/ n.weight = None /\ \E x, y : x # y /\ tensors = <<x, y>>
  BY <1>1, <1>4 DEF NodeShape
<1> HIDE DEF s, weights, tiles, e, n, out, tensors
<1>12. Published(s, e, "ACTIVATION", opcode, tensors, width, weights, out, tiles, 1, WholeWindow)
  <2>1. out \notin DOMAIN s.ready /\ Built(s) /\ "num_sms" \in DOMAIN s.p /\ "wbuf" \in DOMAIN s
    BY <1>3 DEF Prepared, out, n
  <2>2. 1 \in Nat \ {0}
    OBVIOUS
  <2> QED
    BY <1>6, <1>8, <1>9, <2>1, <2>2, PublishedIs DEF e
<1>13. /\ \A x \in ToSet(tensors) : x \in DOMAIN s.buf /\ x # out /\ e.buf[x] = s.buf[x]
  BY <1>3, <1>12 DEF Prepared, Published, out, tensors, n
<1>14. Cardinality({e.buf[x] : x \in ToSet(tensors)} \cup weights) = 2
  <2>1. CASE n.weight # None /\ \E x : tensors = <<x>>
    <3>1. PICK x : tensors = <<x>>
      BY <2>1
    <3>2. ToSet(tensors) = {x}
      BY <3>1 DEF ToSet
    <3>3. x \in DOMAIN s.buf /\ {e.buf[y] : y \in ToSet(tensors)} = {s.buf[x]}
      BY <1>13, <3>2
    <3>4. weights = s.wbuf[WeightKey(n)]
      BY <2>1 DEF weights
    <3>5. Cardinality({s.buf[x]} \cup s.wbuf[WeightKey(n)]) = Cardinality(s.wbuf[WeightKey(n)]) + 1
      BY <1>3, <2>1, <3>3, WithWeights DEF Prepared
    <3>6. {e.buf[y] : y \in ToSet(tensors)} \cup weights = {s.buf[x]} \cup s.wbuf[WeightKey(n)]
      BY <3>3, <3>4
    <3>7. Cardinality({s.buf[x]} \cup s.wbuf[WeightKey(n)]) = 2
      BY <1>10, <2>1, <3>5
    <3> QED
      BY <3>6, <3>7
  <2>2. CASE n.weight = None /\ \E x, y : x # y /\ tensors = <<x, y>>
    <3>1. PICK x, y : x # y /\ tensors = <<x, y>>
      BY <2>2
    <3>2. ToSet(tensors) = {x, y}
      BY <3>1 DEF ToSet
    <3>3. x \in DOMAIN s.buf /\ y \in DOMAIN s.buf /\ {e.buf[z] : z \in ToSet(tensors)} = {s.buf[x], s.buf[y]}
      BY <1>13, <3>2
    <3>4. s.buf[x] # s.buf[y]
      BY <1>3, <3>1, <3>3 DEF Prepared, Built
    <3>5. Cardinality({s.buf[x], s.buf[y]}) = 2
      BY <3>4, Sizes
    <3>6. {e.buf[z] : z \in ToSet(tensors)} \cup weights = {s.buf[x], s.buf[y]}
      BY <2>2, <3>3 DEF weights
    <3> QED
      BY <3>5, <3>6
  <2> QED
    BY <1>11, <2>1, <2>2
<1>15. Readable(s, tensors, weights, out, 1)
  <2>1. n.weight # None => HasWeights(s.p, WeightKey(n), s.wbuf[WeightKey(n)])
    BY <1>3 DEF Prepared, Known
  <2> QED
    BY <1>13, <2>1 DEF Readable, weights, HasWeights
<1>16. Sound(e.p) /\ Known(e, node + 1)
  <2>1. \/ Exempt
        \/ Cardinality({e.buf[x] : x \in ToSet(tensors)} \cup weights) \in OP_REGISTRY[opcode][1] .. OP_REGISTRY[opcode][2]
    BY <1>5, <1>14
  <2>2. 1 \in Nat \ {0} /\ "ACTIVATION" \in {"ACTIVATION", "KV_CACHE", "IO_OUTPUT"}
    OBVIOUS
  <2>3. /\ Built(s) /\ EdgesWhole(s, {}) /\ Sound(s.p) /\ Known(s, node)
        /\ \A a \in DOMAIN Graph : a < node => a < node + 1
        /\ node < node + 1 /\ out \notin DOMAIN s.buf /\ NamedAfter(out, Graph[node].output)
    BY <1>3 DEF Prepared, out, n
  <2> QED
    BY <1>1, <1>6, <1>9, <1>12, <1>15, <2>1, <2>2, <2>3, PublishSound
<1> QED
  BY <1>1, <1>16

(* Tiles of disjoint columns do not overlap as validate() sees them.       *)
LEMMA ColumnsApart ==
  ASSUME NEW a, NEW b, a.op \in TiledOps, b.op \in TiledOps, ColumnTile(a.tile), ColumnTile(b.tile),
         TileColumns(a.tile) \cap TileColumns(b.tile) = {}
  PROVE  RegionsDisjoint(WriteRegion(a), WriteRegion(b))
<1> DEFINE a1 == a.tile.n_off
           a2 == a.tile.n_off + a.tile.N_tile
           b1 == b.tile.n_off
           b2 == b.tile.n_off + b.tile.N_tile
<1>1. /\ a1 \in Nat /\ a2 \in Nat /\ a1 < a2 /\ b1 \in Nat /\ b2 \in Nat /\ b1 < b2
      /\ a1 .. a2 - 1 \cap b1 .. b2 - 1 = {}
  BY DEF ColumnTile, TileColumns
<1>2. /\ WriteRegion(a) = [rows |-> AllRows, cols |-> <<a1, a2>>]
      /\ WriteRegion(b) = [rows |-> AllRows, cols |-> <<b1, b2>>]
  <2>1. /\ a.tile.n_off \in Nat /\ a.tile.N_tile \in Nat \ {0} /\ a.tile.m_off = -1
        /\ b.tile.n_off \in Nat /\ b.tile.N_tile \in Nat \ {0} /\ b.tile.m_off = -1
    BY DEF ColumnTile
  <2> QED
    BY <2>1 DEF WriteRegion
<1> HIDE DEF a1, a2, b1, b2
<1>3. a2 <= b1 \/ b2 <= a1
  <2> SUFFICES ASSUME b1 < a2, a1 < b2 PROVE FALSE
    BY <1>1
  <2>1. CASE a1 <= b1
    <3>1. b1 \in a1 .. a2 - 1 /\ b1 \in b1 .. b2 - 1
      BY <1>1, <2>1
    <3> QED
      BY <1>1, <3>1
  <2>2. CASE b1 < a1
    <3>1. a1 \in a1 .. a2 - 1 /\ a1 \in b1 .. b2 - 1
      BY <1>1, <2>2
    <3> QED
      BY <1>1, <3>1
  <2> QED
    BY <1>1, <2>1, <2>2
<1>4. <<a1, a2>>[1] = a1 /\ <<a1, a2>>[2] = a2 /\ <<b1, b2>>[1] = b1 /\ <<b1, b2>>[2] = b2
  OBVIOUS
<1>5. ~ RangesOverlap(<<a1, a2>>, <<b1, b2>>)
  BY <1>1, <1>3, <1>4 DEF RangesOverlap
<1>6. <<a1, a2>> # <<0, -1>> /\ <<b1, b2>> # <<0, -1>>
  BY <1>1
<1> QED
  BY <1>2, <1>5, <1>6 DEF RegionsDisjoint, WholeBuffer

LEMMA LinearSound ==
  ASSUME LowerInv, Sound(self.p), Known(self, node), OpLinear
  PROVE  Sound(self'.p) /\ Known(self', node + 1)
<1> DEFINE n == Graph[node]
           s == Weight(self, n)
           kind == IF n.output = <<0, "logits">> THEN "IO_OUTPUT" ELSE "ACTIVATION"
           opcode == IF args.B > 1 THEN "GEMM_TILE" ELSE "GEMV_TILE"
           weights == s.wbuf[WeightKey(n)]
           tiles == Tiles(n.N)
           out == n.output
           tensors == n.inputs
           b == NewBuffer(s, out, kind)
           e == Emit(b, opcode, tensors, weights, out, tiles, WholeWindow, NoSM)
<1>1. node \in DOMAIN Graph /\ n.op = "linear" /\ args \in Requests
  BY DEF OpLinear, At, LowerInv
<1>2. self' = e
  <2>1. b.wbuf = s.wbuf
    BY DEF NewBuffer
  <2>2. self' = Emit(b, opcode, tensors, b.wbuf[WeightKey(n)], out, tiles, WholeWindow, NoSM)
    BY DEF OpLinear
  <2> HIDE DEF b
  <2> QED
    BY <2>1, <2>2
<1>3. Prepared(s, node) /\ (n.weight # None => WeightKey(n) \in DOMAIN s.wbuf)
  BY <1>1, PreparedIs
<1>4. NodeShape(n)
  BY <1>1, NodeOperands
<1>5. n.weight # None /\ \E x : tensors = <<x>>
  BY <1>1, <1>4 DEF NodeShape
<1>6. PICK x : tensors = <<x>>
  BY <1>5
<1>7. tensors = [i \in 1 .. 1 |-> tensors[i]] /\ ToSet(tensors) = {x}
  BY <1>6 DEF ToSet
<1>8. PICK k \in 1 .. MAX_TILES :
        /\ tiles = [i \in 1 .. k |-> tiles[i]]
        /\ \A i, j \in 1 .. k : i # j => TileColumns(tiles[i]) \cap TileColumns(tiles[j]) = {}
        /\ \A i \in 1 .. k : ColumnTile(tiles[i])
  <2>1. n.N \in Nat \ {0}
    BY <1>1, GraphFacts
  <2> QED
    BY <1>1, <2>1, TilesCover
<1>9. k \in Nat \ {0} /\ 1 <= ABI_MAX_WAITS /\ 1 \in Nat
  BY AbiAssumption, LimitsAssumption
<1>10. /\ opcode \in TiledOps /\ OP_REGISTRY[opcode] = <<2, 3>>
       /\ kind \in {"ACTIVATION", "KV_CACHE", "IO_OUTPUT"}
  BY DEF OP_REGISTRY, TiledOps
<1>11. Exempt \/ Cardinality(weights) \in 1 .. 2
  <2>1. HasWeights(s.p, WeightKey(n), weights)
    BY <1>3, <1>5 DEF Prepared, Known
  <2>2. WeightKey(n)[2] = Quantised(n)
    BY DEF WeightKey
  <2>3. n \in ToSet(Graph)
    BY <1>1, OutputsOfProjections
  <2> HIDE DEF n, weights
  <2>4. ~ Exempt => ~ (args.zeros /\ Quantised(n))
    BY <2>3 DEF Exempt
  <2> QED
    BY <2>1, <2>2, <2>4 DEF HasWeights
<1>12. weights = s.wbuf[WeightKey(n)] /\ out = Graph[node].output /\ tensors = Graph[node].inputs /\ n = Graph[node]
  OBVIOUS
<1> HIDE DEF s, weights, tiles, e, n, out, tensors, kind, opcode, b
<1>13. Published(s, e, kind, opcode, tensors, 1, weights, out, tiles, k, WholeWindow)
  <2>1. out \notin DOMAIN s.ready /\ Built(s) /\ "num_sms" \in DOMAIN s.p /\ "wbuf" \in DOMAIN s
    BY <1>3, <1>12 DEF Prepared
  <2> QED
    BY <1>7, <1>8, <1>9, <2>1, PublishedIs DEF e, b
<1>14. /\ x \in DOMAIN s.buf /\ x # out /\ e.buf[x] = s.buf[x]
       /\ {e.buf[y] : y \in ToSet(tensors)} = {s.buf[x]}
  <2>1. x \in DOMAIN s.buf /\ x # out
    BY <1>3, <1>7, <1>12 DEF Prepared
  <2>2. e.buf[x] = s.buf[x]
    BY <1>13, <2>1 DEF Published
  <2> QED
    BY <1>7, <2>1, <2>2
<1>15. Exempt \/ Cardinality({e.buf[y] : y \in ToSet(tensors)} \cup weights)
                    \in OP_REGISTRY[opcode][1] .. OP_REGISTRY[opcode][2]
  <2>1. {e.buf[y] : y \in ToSet(tensors)} \cup weights = {s.buf[x]} \cup weights
    BY <1>14
  <2>2. Cardinality({s.buf[x]} \cup weights) = Cardinality(weights) + 1
    BY <1>3, <1>5, <1>12, <1>14, WithWeights DEF Prepared
  <2>3. OP_REGISTRY[opcode][1] = 2 /\ OP_REGISTRY[opcode][2] = 3
    BY <1>10
  <2>4. Exempt \/ Cardinality({s.buf[x]} \cup weights) \in 2 .. 3
    BY <1>11, <2>2
  <2> QED
    BY <2>1, <2>3, <2>4
<1>16. Readable(s, tensors, weights, out, k)
  <2>1. HasWeights(s.p, WeightKey(n), weights)
    BY <1>3, <1>5, <1>12 DEF Prepared, Known
  <2>2. weights \subseteq DOMAIN s.p.buffers /\ \A d \in weights : s.p.buffers[d] = "WEIGHT"
    BY <2>1 DEF HasWeights
  <2>3. \A y \in ToSet(tensors) : y \in DOMAIN s.buf
    BY <1>7, <1>14
  <2> QED
    BY <2>2, <2>3 DEF Readable
<1>17. \A t, u \in TaskIds(e.p) \ TaskIds(s.p) : t # u =>
         RegionsDisjoint(WriteRegion(e.p.tasks[t]), WriteRegion(e.p.tasks[u]))
  <2>1. PICK m \in Nat : m = Len(s.p.tasks)
    BY <1>3, ListFacts DEF Prepared, Built
  <2>2. TaskIds(e.p) \ TaskIds(s.p) = m + 1 .. m + k
    <3>1. TaskIds(s.p) = 1 .. m /\ TaskIds(e.p) = 1 .. m + k
      BY <1>13, <2>1 DEF Published, TaskIds
    <3> QED
      BY <1>9, <3>1
  <2>3. \A t \in m + 1 .. m + k :
           e.p.tasks[t].op = opcode /\ e.p.tasks[t].tile = tiles[t - m] /\ t - m \in 1 .. k
    BY <1>13, <2>1 DEF Published
  <2> SUFFICES ASSUME NEW t \in m + 1 .. m + k, NEW u \in m + 1 .. m + k, t # u
               PROVE  RegionsDisjoint(WriteRegion(e.p.tasks[t]), WriteRegion(e.p.tasks[u]))
    BY <2>2
  <2>4. PICK i \in 1 .. k, j \in 1 .. k : i = t - m /\ j = u - m /\ i # j
    <3>1. t - m # u - m
      BY <1>9, <2>1
    <3> QED
      BY <2>3, <3>1
  <2>5. /\ ColumnTile(e.p.tasks[t].tile) /\ ColumnTile(e.p.tasks[u].tile)
        /\ TileColumns(e.p.tasks[t].tile) \cap TileColumns(e.p.tasks[u].tile) = {}
    BY <1>8, <2>3, <2>4
  <2> QED
    BY <1>10, <2>3, <2>5, ColumnsApart
<1>18. \A i \in 1 .. k : tiles[i].m_off < 0
  BY <1>8 DEF ColumnTile
<1>19. Sound(e.p) /\ Known(e, node + 1)
  <2>1. /\ Built(s) /\ EdgesWhole(s, {}) /\ Sound(s.p) /\ Known(s, node)
        /\ \A a \in DOMAIN Graph : a < node => a < node + 1
        /\ node < node + 1 /\ out \notin DOMAIN s.buf /\ NamedAfter(out, Graph[node].output)
    BY <1>3, <1>12 DEF Prepared
  <2> QED
    BY <1>1, <1>9, <1>10, <1>13, <1>15, <1>16, <1>17, <1>18, <2>1, PublishSound
<1> QED
  BY <1>2, <1>19

(* One task without a weight.                                              *)
Steady(s, i, j) ==
  /\ Built(s) /\ EdgesWhole(s, {}) /\ Sound(s.p) /\ Known(s, j)
  /\ i \in DOMAIN Graph /\ i < i + 1 /\ \A a \in DOMAIN Graph : a < j => a < i + 1

OneTask(s, e, i, op, tensors, out) ==
  /\ DOMAIN e.buf = DOMAIN s.buf \cup {out} /\ e.buf[out] = Len(s.p.buffers) + 1
  /\ \A x \in DOMAIN s.buf : e.buf[x] = s.buf[x]
  /\ Cardinality({e.buf[x] : x \in ToSet(tensors)}) \in OP_REGISTRY[op][1] .. OP_REGISTRY[op][2] =>
       Sound(e.p) /\ Known(e, i + 1)

LEMMA TwoJoined ==
  ASSUME NEW x, NEW y
  PROVE  /\ <<x>> \o <<y>> = <<x, y>> /\ ToSet(<<x, y>>) = {x, y}
         /\ <<x, y>> = [a \in 1 .. 2 |-> <<x, y>>[a]]
<1>1. <<x>> \o <<y>> = <<x, y>>
  <2>1. PICK a, b : a = <<x>> /\ b = <<y>>
    OBVIOUS
  <2>2. PICK S : S = {x, y}
    OBVIOUS
  <2>3. a \in Seq(S) /\ b \in Seq(S) /\ Len(a) = 1 /\ Len(b) = 1 /\ a[1] = x /\ b[1] = y
    BY <2>1, <2>2
  <2>4. /\ a \o b \in Seq(S) /\ Len(a \o b) = 2
        /\ (a \o b)[1] = a[1] /\ (a \o b)[2] = b[1]
    BY <2>3, Joined
  <2>5. \A r \in Seq(S) : Len(r) = 2 /\ r[1] = x /\ r[2] = y => r = <<x, y>>
    OBVIOUS
  <2>6. a \o b = <<x, y>>
    BY <2>3, <2>4, <2>5
  <2> QED
    BY <2>1, <2>6
<1>2. ToSet(<<x, y>>) = {x, y}
  BY DEF ToSet
<1>3. <<x, y>> = [a \in 1 .. 2 |-> <<x, y>>[a]]
  OBVIOUS
<1> QED
  BY <1>1, <1>2, <1>3

LEMMA OneSound ==
  ASSUME NEW s, NEW i, NEW j, Steady(s, i, j), NEW kind \in {"ACTIVATION", "KV_CACHE", "IO_OUTPUT"}, NEW op,
         NEW tensors, NEW width \in Nat, tensors = [a \in 1 .. width |-> tensors[a]], width <= ABI_MAX_WAITS,
         NEW out, out \notin DOMAIN s.buf, NamedAfter(out, Graph[i].output),
         \A x \in ToSet(tensors) : x \in DOMAIN s.buf \/ x = out
  PROVE  OneTask(s, Emit(NewBuffer(s, out, kind), op, tensors, {}, out, <<Whole>>, WholeWindow, NoSM),
                 i, op, tensors, out)
<1> DEFINE tiles == <<Whole>>
           e == Emit(NewBuffer(s, out, kind), op, tensors, {}, out, tiles, WholeWindow, NoSM)
<1>1. tiles = [a \in 1 .. 1 |-> tiles[a]] /\ \A a \in 1 .. 1 : tiles[a].m_off < 0
  BY DEF Whole
<1>2. /\ Built(s) /\ EdgesWhole(s, {}) /\ Sound(s.p) /\ Known(s, j)
      /\ i \in DOMAIN Graph /\ i < i + 1 /\ \A a \in DOMAIN Graph : a < j => a < i + 1
  BY DEF Steady
<1>3. out \notin DOMAIN s.ready /\ "num_sms" \in DOMAIN s.p /\ "wbuf" \in DOMAIN s
  BY <1>2 DEF Built, Shaped, Known
<1>4. 1 \in Nat \ {0}
  OBVIOUS
<1> HIDE DEF tiles, e
<1>5. Published(s, e, kind, op, tensors, width, {}, out, tiles, 1, WholeWindow)
  BY <1>1, <1>2, <1>3, <1>4, PublishedIs DEF e
<1>6. /\ DOMAIN e.buf = DOMAIN s.buf \cup {out} /\ e.buf[out] = Len(s.p.buffers) + 1
      /\ \A x \in DOMAIN s.buf : e.buf[x] = s.buf[x]
  BY <1>5 DEF Published
<1>7. Readable(s, tensors, {}, out, 1)
  BY DEF Readable
<1>8. ASSUME Cardinality({e.buf[x] : x \in ToSet(tensors)}) \in OP_REGISTRY[op][1] .. OP_REGISTRY[op][2]
      PROVE  Sound(e.p) /\ Known(e, i + 1)
  <2>1. {e.buf[x] : x \in ToSet(tensors)} \cup {} = {e.buf[x] : x \in ToSet(tensors)}
    OBVIOUS
  <2>2. Cardinality({e.buf[x] : x \in ToSet(tensors)} \cup {}) \in OP_REGISTRY[op][1] .. OP_REGISTRY[op][2]
    BY <1>8, <2>1
  <2> QED
    BY <1>1, <1>2, <1>4, <1>5, <1>7, <2>2, PublishSound
<1>9. OneTask(s, e, i, op, tensors, out)
  BY <1>6, <1>8 DEF OneTask
<1> QED
  BY <1>9 DEF e, tiles

LEMMA KvAppendSound ==
  ASSUME LowerInv, Sound(self.p), Known(self, node), OpKvAppend
  PROVE  Sound(self'.p) /\ Known(self', node + 1)
<1> DEFINE n == Graph[node]
           out == n.output
           tensors == n.inputs \o <<out>>
           e == Emit(NewBuffer(self, out, "KV_CACHE"), "KV_APPEND", tensors, {}, out, <<Whole>>, WholeWindow, NoSM)
           ids == {e.buf[x] : x \in ToSet(tensors)}
<1>1. node \in DOMAIN Graph /\ n.op = "kv_append" /\ args \in Requests /\ self' = e
  BY DEF OpKvAppend, At, LowerInv
<1>2. Prepared(self, node)
  BY <1>1, PreparedIs
<1>3. NodeShape(n)
  BY <1>1, NodeOperands
<1>4. \E x : n.inputs = <<x>>
  BY <1>1, <1>3 DEF NodeShape
<1>5. PICK x : n.inputs = <<x>>
  BY <1>4
<1>6. tensors = <<x, out>>
  BY <1>5, TwoJoined
<1>7. tensors = [a \in 1 .. 2 |-> tensors[a]] /\ ToSet(tensors) = {x, out}
  BY <1>6, TwoJoined
<1>8. x \in DOMAIN self.buf /\ x # out /\ out \notin DOMAIN self.buf
  <2>1. x \in ToSet(n.inputs)
    BY <1>5 DEF ToSet
  <2> QED
    BY <1>2, <2>1 DEF Prepared
<1>9. 2 \in Nat /\ 2 <= ABI_MAX_WAITS
  BY AbiAssumption, LimitsAssumption
<1>10. Steady(self, node, node) /\ NamedAfter(out, Graph[node].output)
  BY <1>1, <1>2 DEF Prepared, Steady
<1> HIDE DEF out, tensors, n, ids
<1>11. \A y \in ToSet(tensors) : y \in DOMAIN self.buf \/ y = out
  BY <1>7, <1>8
<1>0. OneTask(self, e, node, "KV_APPEND", tensors, out)
  BY <1>7, <1>8, <1>9, <1>10, <1>11, OneSound
<1> HIDE DEF e
<1>12. /\ e.buf[out] = Len(self.p.buffers) + 1 /\ e.buf[x] = self.buf[x]
       /\ Cardinality(ids) \in OP_REGISTRY["KV_APPEND"][1] .. OP_REGISTRY["KV_APPEND"][2]
            => Sound(e.p) /\ Known(e, node + 1)
  BY <1>0, <1>8 DEF OneTask, ids
<1>13. Cardinality(ids) = 2
  <2>1. self.buf[x] \in 1 .. Len(self.p.buffers) /\ Len(self.p.buffers) \in Nat
    BY <1>2, <1>8, ListFacts DEF Prepared, Built
  <2>2. e.buf[x] # e.buf[out]
    BY <1>12, <2>1
  <2>3. ids = {e.buf[x], e.buf[out]}
    BY <1>7 DEF ids
  <2> QED
    BY <2>2, <2>3, Sizes
<1>14. OP_REGISTRY["KV_APPEND"] = <<2, 2>>
  BY DEF OP_REGISTRY
<1> QED
  BY <1>1, <1>12, <1>13, <1>14

LEMMA AttentionSound ==
  ASSUME LowerInv, Sound(self.p), Known(self, node), OpAttention
  PROVE  Sound(self'.p) /\ Known(self', node + 1)
<1> DEFINE n == Graph[node]
           out == n.output
           tensors == n.inputs
           e == Emit(NewBuffer(self, out, "ACTIVATION"), "ATTENTION_TILE", tensors, {}, out, <<Whole>>, WholeWindow, NoSM)
           ids == {e.buf[x] : x \in ToSet(tensors)}
<1>1. node \in DOMAIN Graph /\ n.op = "attention" /\ args \in Requests /\ self' = e
  BY DEF OpAttention, At, LowerInv, EmitOne
<1>2. Prepared(self, node)
  BY <1>1, PreparedIs
<1>3. NodeShape(n)
  BY <1>1, NodeOperands
<1>4. \E x, y, z : x # y /\ x # z /\ y # z /\ tensors = <<x, y, z>>
  BY <1>1, <1>3 DEF NodeShape
<1>5. PICK x, y, z : x # y /\ x # z /\ y # z /\ tensors = <<x, y, z>>
  BY <1>4
<1>6. tensors = [a \in 1 .. 3 |-> tensors[a]] /\ ToSet(tensors) = {x, y, z}
  BY <1>5 DEF ToSet
<1>7. \A v \in ToSet(tensors) : v \in DOMAIN self.buf /\ v # out
  BY <1>2 DEF Prepared
<1>8. 3 \in Nat /\ 3 <= ABI_MAX_WAITS
  BY AbiAssumption, LimitsAssumption
<1>9. Steady(self, node, node) /\ NamedAfter(out, Graph[node].output) /\ out \notin DOMAIN self.buf
  BY <1>1, <1>2 DEF Prepared, Steady
<1> HIDE DEF out, tensors, n, ids
<1>0. OneTask(self, e, node, "ATTENTION_TILE", tensors, out)
  BY <1>6, <1>7, <1>8, <1>9, OneSound
<1> HIDE DEF e
<1>10. /\ \A v \in DOMAIN self.buf : e.buf[v] = self.buf[v]
       /\ Cardinality(ids) \in OP_REGISTRY["ATTENTION_TILE"][1] .. OP_REGISTRY["ATTENTION_TILE"][2]
            => Sound(e.p) /\ Known(e, node + 1)
  BY <1>0 DEF OneTask, ids
<1>11. Cardinality(ids) = 3
  <2>1. x \in DOMAIN self.buf /\ y \in DOMAIN self.buf /\ z \in DOMAIN self.buf
    BY <1>6, <1>7
  <2>2. self.buf[x] # self.buf[y] /\ self.buf[x] # self.buf[z] /\ self.buf[y] # self.buf[z]
    BY <1>2, <1>5, <2>1 DEF Prepared, Built
  <2>3. ids = {self.buf[x], self.buf[y], self.buf[z]}
    BY <1>6, <1>10, <2>1 DEF ids
  <2>4. PICK a, b, c : a = self.buf[x] /\ b = self.buf[y] /\ c = self.buf[z]
    OBVIOUS
  <2>5. a # b /\ a # c /\ b # c
    BY <2>2, <2>4
  <2>6. Cardinality({a, b, c}) = 3
    BY <2>5, Sizes
  <2> QED
    BY <2>3, <2>4, <2>6
<1>12. OP_REGISTRY["ATTENTION_TILE"] = <<3, 4>>
  BY DEF OP_REGISTRY
<1> QED
  BY <1>1, <1>10, <1>11, <1>12

LEMMA RopeSound ==
  ASSUME LowerInv, Sound(self.p), Known(self, node), OpRope
  PROVE  Sound(self'.p) /\ Known(self', node + 1)
<1> DEFINE n == Graph[node]
           out == n.output
           hs == <<out[1], out[2], "hs">>
           reshape == <<0, "reshape_id">>
           pos == <<0, "pos">>
           gathered == n.inputs \o <<reshape>>
           rotated == <<hs, pos>>
           s == Emit(NewBuffer(self, hs, "ACTIVATION"), "EMBED", gathered, {}, hs, <<Whole>>, WholeWindow, NoSM)
           e == Emit(NewBuffer(s, out, "ACTIVATION"), "ROPE", rotated, {}, out, <<Whole>>, WholeWindow, NoSM)
           ids == {s.buf[v] : v \in ToSet(gathered)}
           turned == {e.buf[v] : v \in ToSet(rotated)}
<1>1. /\ node \in DOMAIN Graph /\ n.op = "rope" /\ args \in Requests /\ self' = e
      /\ s = EmitOne(self, "EMBED", gathered, {}, hs)
  BY DEF OpRope, At, LowerInv, EmitOne
<1>2. Prepared(self, node)
  BY <1>1, PreparedIs
<1>3. NodeShape(n) /\ \A x \in ToSet(n.inputs) : \E a \in DOMAIN Graph : Graph[a].output = x
  BY <1>1, NodeOperands
<1>4. \E x : n.inputs = <<x>>
  BY <1>1, <1>3 DEF NodeShape
<1>5. PICK x : n.inputs = <<x>>
  BY <1>4
<1>6. /\ gathered = [a \in 1 .. 2 |-> gathered[a]] /\ ToSet(gathered) = {x, reshape}
      /\ rotated = [a \in 1 .. 2 |-> rotated[a]] /\ ToSet(rotated) = {hs, pos}
  <2> HIDE DEF hs, reshape, pos
  <2>1. gathered = <<x, reshape>>
    BY <1>5, TwoJoined
  <2>2. gathered = [a \in 1 .. 2 |-> gathered[a]] /\ ToSet(gathered) = {x, reshape}
    BY <2>1, TwoJoined
  <2> QED
    BY <2>2, TwoJoined
<1>7. reshape \in IoInputs /\ pos \in IoInputs /\ \A y \in IoInputs : IsPair(y)
  BY DEF IoInputs, IsPair
<1>8. IsPair(out) /\ \A y \in ToSet(Graph) : y.op = "linear" => y.output # out /\ y.output # hs
  <2>1. \A y \in ToSet(Graph) : IsPair(y.output) /\ (y.op = "linear" => y.output # out)
    BY <1>1, OutputsOfProjections
  <2>2. out = Graph[node].output /\ Graph[node] \in ToSet(Graph)
    BY <1>1 DEF ToSet
  <2> HIDE DEF out, hs, n
  <2>3. \A y : IsPair(y) => y # hs
    BY PairsApart DEF hs
  <2> QED
    BY <2>1, <2>2, <2>3
<1>9. hs # out /\ hs # pos /\ hs \notin IoInputs /\ NamedAfter(hs, out)
  <2>1. \A y : IsPair(y) => y # hs
    BY PairsApart
  <2>2. NamedAfter(hs, out)
    BY DEF NamedAfter
  <2> HIDE DEF hs, out
  <2> QED
    BY <1>7, <1>8, <2>1, <2>2
<1>10. hs \notin DOMAIN self.buf
  <2> HIDE DEF hs
  <2> QED
    BY <1>1, <1>9, Fresh DEF out, n
<1>11. x \in DOMAIN self.buf /\ x # reshape /\ x # hs /\ x # out
  <2>1. x \in ToSet(n.inputs)
    BY <1>5 DEF ToSet
  <2>2. PICK a \in DOMAIN Graph : Graph[a].output = x
    BY <1>3, <2>1
  <2>3. x \notin IoInputs
    BY <1>1, <2>2, NodeOperands
  <2> HIDE DEF hs, reshape
  <2> QED
    BY <1>2, <1>7, <1>10, <2>1, <2>3 DEF Prepared
<1>12. 2 \in Nat /\ 2 <= ABI_MAX_WAITS
  BY AbiAssumption, LimitsAssumption
<1>13. /\ Steady(self, node, node) /\ NamedAfter(out, Graph[node].output)
       /\ out \notin DOMAIN self.buf /\ IoInputs \subseteq DOMAIN self.buf
  BY <1>1, <1>2 DEF Prepared, Steady, Known
<1>14. Built(s) /\ (EdgesWhole(self, {}) => EdgesWhole(s, {}))
  <2>1. OneEmitted(self, s, "EMBED", gathered, {}, hs)
    BY <1>1, <1>8, <1>13, EmitOneIs DEF Steady
  <2> QED
    BY <2>1 DEF OneEmitted
<1> HIDE DEF hs, reshape, pos, gathered, rotated, ids, turned
<1>15. NamedAfter(hs, Graph[node].output) /\ \A y \in ToSet(gathered) : y \in DOMAIN self.buf \/ y = hs
  BY <1>6, <1>7, <1>9, <1>11, <1>13
<1> HIDE DEF out, n
<1>16. OneTask(self, s, node, "EMBED", gathered, hs)
  BY <1>6, <1>10, <1>12, <1>13, <1>15, OneSound
<1> HIDE DEF s
<1>17. /\ DOMAIN s.buf = DOMAIN self.buf \cup {hs} /\ s.buf[hs] = Len(self.p.buffers) + 1
       /\ \A y \in DOMAIN self.buf : s.buf[y] = self.buf[y]
       /\ Cardinality(ids) \in OP_REGISTRY["EMBED"][1] .. OP_REGISTRY["EMBED"][2]
            => Sound(s.p) /\ Known(s, node + 1)
  BY <1>16 DEF OneTask, ids
<1>18. /\ \A y \in DOMAIN self.buf : self.buf[y] \in 1 .. Len(self.p.buffers)
       /\ Len(self.p.buffers) \in Nat
       /\ \A y, z \in DOMAIN self.buf : y # z => self.buf[y] # self.buf[z]
  BY <1>2, ListFacts DEF Prepared, Built
<1>19. Sound(s.p) /\ Known(s, node + 1)
  <2>1. ids = {s.buf[x], s.buf[reshape]}
    BY <1>6 DEF ids
  <2>2. s.buf[x] # s.buf[reshape]
    BY <1>7, <1>11, <1>13, <1>17, <1>18
  <2>3. Cardinality(ids) = 2
    BY <2>1, <2>2, Sizes
  <2>4. OP_REGISTRY["EMBED"] = <<2, 2>>
    BY DEF OP_REGISTRY
  <2> QED
    BY <1>17, <2>3, <2>4
<1>20. Steady(s, node, node + 1)
  BY <1>13, <1>14, <1>19 DEF Steady
<1>21. out \notin DOMAIN s.buf /\ \A y \in ToSet(rotated) : y \in DOMAIN s.buf \/ y = out
  BY <1>6, <1>7, <1>9, <1>13, <1>17
<1>22. OneTask(s, e, node, "ROPE", rotated, out)
  BY <1>6, <1>12, <1>13, <1>20, <1>21, OneSound
<1> HIDE DEF e
<1>23. /\ \A y \in DOMAIN s.buf : e.buf[y] = s.buf[y]
       /\ Cardinality(turned) \in OP_REGISTRY["ROPE"][1] .. OP_REGISTRY["ROPE"][2]
            => Sound(e.p) /\ Known(e, node + 1)
  BY <1>22 DEF OneTask, turned
<1>24. Cardinality(turned) = 2
  <2>1. hs \in DOMAIN s.buf /\ pos \in DOMAIN s.buf /\ pos \in DOMAIN self.buf
    BY <1>7, <1>13, <1>17
  <2>2. turned = {s.buf[hs], s.buf[pos]}
    BY <1>6, <1>23, <2>1 DEF turned
  <2>3. s.buf[hs] # s.buf[pos]
    BY <1>17, <1>18, <2>1
  <2> QED
    BY <2>2, <2>3, Sizes
<1>25. OP_REGISTRY["ROPE"] = <<2, 2>>
  BY DEF OP_REGISTRY
<1> QED
  BY <1>1, <1>23, <1>24, <1>25

LEMMA SeveralShards ==
  ASSUME args \in Requests, Parts > 1, NEW k \in 1 .. Parts, Shards = [i \in 1 .. k |-> Shards[i]]
  PROVE  k >= 2
<1>1. PICK size \in Nat \ {0}, P \in Nat \ {0} : size = kv_len /\ P = Parts /\ size > 1
  BY PartsAre
<1>2. PICK w \in Nat : w = CeilDiv(size, P) /\ w * P \in Nat /\ w * P < size + P
  BY CeilDivBounds
<1>3. w < size
  <2> SUFFICES ASSUME w >= size PROVE FALSE
    OBVIOUS
  <2>1. w >= 2 /\ P > 1
    BY <1>1
  <2>2. \E v \in Nat : w = v + 1
    <3> WITNESS w - 1 \in Nat
    <3> QED OBVIOUS
  <2>3. \E m \in Nat : P = m + 2
    <3> P - 2 \in Nat
      BY <2>1
    <3> WITNESS P - 2 \in Nat
    <3> QED OBVIOUS
  <2>4. PICK v \in Nat, m \in Nat : w = v + 1 /\ P = m + 2
    BY <2>2, <2>3
  <2>5. w * P = v * m + 2 * v + P
    BY <2>4
  <2>6. PICK product \in Nat, all \in Nat : product = v * m /\ all = w * P
    BY <1>2
  <2>7. all = product + 2 * v + P /\ all < size + P
    BY <1>2, <2>5, <2>6
  <2> HIDE DEF CeilDiv
  <2> QED
    BY <2>1, <2>4, <2>7
<1>4. (2 - 1) * w = w /\ 2 \in 1 .. P
  BY <1>1
<1>5. 2 \in DOMAIN Shards
  BY <1>1, <1>2, <1>3, <1>4 DEF Shards
<1> QED
  BY <1>5

(* The numbers of k new buffers.                                           *)
LEMMA Block ==
  ASSUME NEW b \in Nat, NEW k \in Nat
  PROVE  Cardinality({b + i : i \in 1 .. k}) = k
<1>1. {b + i : i \in 1 .. k} = b + 1 .. b + k
  <2>1. \A j \in b + 1 .. b + k : j - b \in 1 .. k /\ j = b + (j - b)
    OBVIOUS
  <2> QED
    BY <2>1
<1>2. Cardinality(b + 1 .. b + k) = k
  <2>1. b + 1 \in Int /\ b + k \in Int
    OBVIOUS
  <2> QED
    BY <2>1, FS_Interval
<1> QED
  BY <1>1, <1>2

LEMMA AttentionSplitSound ==
  ASSUME LowerInv, Sound(self.p), Known(self, node), OpAttentionSplit
  PROVE  Sound(self'.p) /\ Known(self', node + 1)
<1> DEFINE n == Graph[node]
           out == n.output
           s == EmitShards(self, n)
           tensors == [i \in DOMAIN Shards |-> Part(n, i)]
           e == Emit(NewBuffer(s, out, "ACTIVATION"), "ATTENTION_COMBINE", tensors, {}, out, <<Whole>>, WholeWindow, NoSM)
           ids == {e.buf[x] : x \in ToSet(tensors)}
           b == Len(self.p.buffers)
<1>1. node \in DOMAIN Graph /\ n.op = "attention" /\ args \in Requests /\ Parts > 1 /\ self' = e
  BY DEF OpAttentionSplit, At, LowerInv, EmitOne
<1>2. Prepared(self, node)
  BY <1>1, PreparedIs
<1>3. NodeShape(n) /\ \A x \in ToSet(Graph) : IsPair(x.output)
  BY <1>1, NodeOperands, OutputsOfProjections
<1>4. \E x, y, z : x # y /\ x # z /\ y # z /\ n.inputs = <<x, y, z>>
  BY <1>1, <1>3 DEF NodeShape
<1>5. PICK x, y, z : x # y /\ x # z /\ y # z /\ n.inputs = <<x, y, z>>
  BY <1>4
<1>6. n.inputs = [a \in 1 .. 3 |-> n.inputs[a]] /\ ToSet(n.inputs) = {x, y, z}
  BY <1>5 DEF ToSet
<1>7. \A v \in ToSet(n.inputs) : v \in DOMAIN self.buf /\ v # out
  BY <1>2 DEF Prepared
<1>8. PICK k \in 1 .. Parts : Shards = [i \in 1 .. k |-> Shards[i]]
  BY <1>1, ShardsSplit
<1>9. k \in Nat \ {0} /\ k >= 2 /\ k <= ABI_MAX_INPUTS /\ k <= ABI_MAX_WAITS /\ 3 <= ABI_MAX_WAITS
  <2>1. k >= 2
    BY <1>1, <1>8, SeveralShards
  <2>2. Parts \in Nat /\ Parts <= ATTN_PMAX
    BY <1>1, PartsAre
  <2>3. ATTN_PMAX \in Nat /\ ABI_MAX_INPUTS \in Nat /\ ABI_MAX_WAITS \in Nat
    BY AbiAssumption, LimitsAssumption
  <2> QED
    BY <2>1, <2>2, <2>3, LimitsAssumption
<1>10. DOMAIN Shards = 1 .. k /\ tensors = [i \in 1 .. k |-> tensors[i]]
  BY <1>8
<1>11. ToSet(tensors) = {Part(n, i) : i \in 1 .. k}
  BY <1>10 DEF ToSet
<1>12. /\ Built(self) /\ EdgesWhole(self, {}) /\ "num_sms" \in DOMAIN self.p /\ out \notin DOMAIN self.buf
       /\ b \in Nat /\ node < node + 1 /\ \A a \in DOMAIN Graph : a < node => a < node + 1
  BY <1>2, ListFacts DEF Prepared, Built
<1>13. \A i \in 1 .. k : NamedAfter(Part(n, i), out) /\ Part(n, i) # out /\ Part(n, i) \notin DOMAIN self.buf
  <2> TAKE i \in 1 .. k
  <2>1. NamedAfter(Part(n, i), out)
    BY DEF NamedAfter, Part
  <2>2. \A v : IsPair(v) => v # Part(n, i)
    BY PairsApart DEF Part
  <2>3. IsPair(out)
    BY <1>1, <1>3, OutputsOfProjections
  <2>4. \A v \in IoInputs : IsPair(v)
    BY DEF IoInputs, IsPair
  <2>5. Part(n, i) \notin IoInputs
    BY <2>2, <2>4
  <2>6. Part(n, i) \notin DOMAIN self.buf
    BY <1>1, <2>1, <2>5, Fresh
  <2> QED
    BY <2>1, <2>2, <2>3, <2>6
<1> HIDE DEF s
<1>14. ShardsPublished(self, s, n, k, 3)
  BY <1>6, <1>8, <1>9, <1>12, ShardsPublishedIs DEF s
<1>15. Built(s) /\ EdgesWhole(s, {})
  <2>1. ShardsEmitted(self, s, n, k)
    BY <1>1, <1>3, <1>8, <1>9, <1>12, EmitShardsIs DEF s
  <2> QED
    BY <1>12, <2>1 DEF ShardsEmitted
<1>16. Cardinality({self.buf[v] : v \in ToSet(n.inputs)}) \in 3 .. 4
  <2>1. x \in DOMAIN self.buf /\ y \in DOMAIN self.buf /\ z \in DOMAIN self.buf
    BY <1>6, <1>7
  <2>2. self.buf[x] # self.buf[y] /\ self.buf[x] # self.buf[z] /\ self.buf[y] # self.buf[z]
    BY <1>2, <1>5, <2>1 DEF Prepared, Built
  <2>3. {self.buf[v] : v \in ToSet(n.inputs)} = {self.buf[x], self.buf[y], self.buf[z]}
    BY <1>6
  <2>4. PICK b1, b2, b3 : b1 = self.buf[x] /\ b2 = self.buf[y] /\ b3 = self.buf[z]
    OBVIOUS
  <2>5. b1 # b2 /\ b1 # b3 /\ b2 # b3
    BY <2>2, <2>4
  <2>6. Cardinality({b1, b2, b3}) = 3
    BY <2>5, Sizes
  <2> QED
    BY <2>3, <2>4, <2>6
<1>17. Sound(s.p) /\ Known(s, node + 1)
  <2>1. /\ Sound(self.p) /\ Known(self, node) /\ 3 \in Nat
        /\ \A a \in 1 .. k : Part(Graph[node], a) \notin DOMAIN self.buf
        /\ \A v \in ToSet(Graph[node].inputs) : v \in DOMAIN self.buf
    BY <1>7, <1>13
  <2> QED
    BY <1>1, <1>9, <1>12, <1>14, <1>16, <2>1, ShardsSound
<1>18. /\ DOMAIN s.buf = DOMAIN self.buf \cup {Part(n, i) : i \in 1 .. k}
       /\ \A i \in 1 .. k : s.buf[Part(n, i)] = b + i
  BY <1>14 DEF ShardsPublished
<1>19. Steady(s, node, node + 1) /\ NamedAfter(out, Graph[node].output)
  BY <1>1, <1>12, <1>15, <1>17 DEF Steady, NamedAfter
<1>20. out \notin DOMAIN s.buf /\ \A v \in ToSet(tensors) : v \in DOMAIN s.buf \/ v = out
  BY <1>11, <1>12, <1>13, <1>18
<1> HIDE DEF out, tensors, n, ids
<1>21. OneTask(s, e, node, "ATTENTION_COMBINE", tensors, out)
  BY <1>9, <1>10, <1>19, <1>20, OneSound
<1> HIDE DEF e
<1>22. /\ \A v \in DOMAIN s.buf : e.buf[v] = s.buf[v]
       /\ Cardinality(ids) \in OP_REGISTRY["ATTENTION_COMBINE"][1] .. OP_REGISTRY["ATTENTION_COMBINE"][2]
            => Sound(e.p) /\ Known(e, node + 1)
  BY <1>21 DEF OneTask, ids
<1>23. Cardinality(ids) = k
  <2>1. ids = {e.buf[Part(n, i)] : i \in 1 .. k}
    BY <1>11 DEF ids
  <2>2. \A i \in 1 .. k : e.buf[Part(n, i)] = b + i
    BY <1>18, <1>22
  <2>3. ids = {b + i : i \in 1 .. k}
    BY <2>1, <2>2
  <2> QED
    BY <1>9, <1>12, <2>3, Block
<1>24. OP_REGISTRY["ATTENTION_COMBINE"] = <<2, ABI_MAX_INPUTS>>
  BY DEF OP_REGISTRY
<1>25. k \in 2 .. ABI_MAX_INPUTS
  BY <1>9, LimitsAssumption
<1> QED
  BY <1>1, <1>22, <1>23, <1>24, <1>25

AcceptInv == LowerInv /\ Sound(self.p) /\ Known(self, node)

LEMMA AcceptInvInit == LowerInit => AcceptInv
<1> SUFFICES ASSUME LowerInit PROVE AcceptInv
  OBVIOUS
<1>1. LowerInv
  BY LowerInvInit
<1>2. /\ self.p = [buffers |-> <<"IO_INPUT", "IO_INPUT", "IO_INPUT">>, counters |-> <<>>,
                    tasks |-> <<>>, num_sms |-> args.num_sms]
      /\ self.buf = [x \in IoInputs |-> IF x[2] = "token_id" THEN 1 ELSE IF x[2] = "pos" THEN 2 ELSE 3]
      /\ self.ready = <<>> /\ self.wbuf = <<>>
  BY DEF LowerInit
<1>3. /\ self.p.buffers = <<"IO_INPUT", "IO_INPUT", "IO_INPUT">> /\ self.p.counters = <<>>
      /\ self.p.tasks = <<>> /\ self.p.num_sms = args.num_sms /\ "num_sms" \in DOMAIN self.p
  BY <1>2
<1>4. /\ DOMAIN self.p.buffers = 1 .. 3 /\ \A b \in 1 .. 3 : self.p.buffers[b] = "IO_INPUT"
      /\ DOMAIN self.p.counters = {} /\ DOMAIN self.ready = {} /\ DOMAIN self.wbuf = {}
      /\ TaskIds(self.p) = {}
  BY <1>2, <1>3 DEF TaskIds
<1>5. DOMAIN self.buf = IoInputs /\ \A x \in IoInputs : self.buf[x] \in 1 .. 3
  BY <1>2
<1>6. \A b \in DOMAIN self.p.buffers : WrittenOnce(self.p, b)
  BY <1>4 DEF WrittenOnce, Transient, ReadOnlyKinds
<1>7. Sound(self.p)
  BY <1>3, <1>4, <1>6 DEF Sound
<1>8. Known(self, node)
  BY <1>3, <1>4, <1>5 DEF Known
<1> QED
  BY <1>1, <1>7, <1>8 DEF AcceptInv

LEMMA AcceptInvStep == AcceptInv /\ [LowerNext]_lowervars => AcceptInv'
<1> SUFFICES ASSUME AcceptInv, [LowerNext]_lowervars PROVE AcceptInv'
  OBVIOUS
<1>1. LowerInv /\ Sound(self.p) /\ Known(self, node)
  BY DEF AcceptInv
<1>2. LowerInv'
  BY <1>1, LowerInvStep
<1>3. args' = args /\ Sound(self'.p) /\ Known(self', node')
  <2>1. CASE UNCHANGED lowervars
    BY <1>1, <2>1 DEF lowervars
  <2>2. ASSUME NEW op, NEW opcode,
               <<op, opcode>> \in {<<"embed", "EMBED">>, <<"rmsnorm", "RMSNORM">>,
                                    <<"swiglu", "SILU_MUL">>, <<"add", "ADD">>},
               OpSingle(op, opcode)
        PROVE  args' = args /\ Sound(self'.p) /\ Known(self', node')
    <3>1. Sound(self'.p) /\ Known(self', node + 1)
      BY <1>1, <2>2, SingleSound
    <3> QED
      BY <2>2, <3>1 DEF OpSingle, Done
  <2>3. CASE OpLinear
    BY <1>1, <2>3, LinearSound DEF OpLinear, Done
  <2>4. CASE OpRope
    BY <1>1, <2>4, RopeSound DEF OpRope, Done
  <2>5. CASE OpKvAppend
    BY <1>1, <2>5, KvAppendSound DEF OpKvAppend, Done
  <2>6. CASE OpAttention
    BY <1>1, <2>6, AttentionSound DEF OpAttention, Done
  <2>7. CASE OpAttentionSplit
    BY <1>1, <2>7, AttentionSplitSound DEF OpAttentionSplit, Done
  <2> QED
    BY <2>1, <2>2, <2>3, <2>4, <2>5, <2>6, <2>7 DEF LowerNext
<1>4. Graph' = Graph
  BY <1>3 DEF Graph, LayerNodes, Node
<1>5. (Exempt <=> Exempt')
  BY <1>3, <1>4 DEF Exempt, Quantised
<1>6. Sound(self.p)'
  <2>1. (\A t \in TaskIds(self.p) : WaitsSound(self.p, t))'
    BY <1>3 DEF Sound, WaitsSound, Waits, Producers, TaskIds
  <2>2. (\A t \in TaskIds(self.p) : OperandsSound(self.p, t))'
    BY <1>3 DEF Sound, OperandsSound, Transient, Writers, Pred, Waits, Producers, TaskIds
  <2>3. (\A t \in TaskIds(self.p) : PlacedSound(self.p, t))'
    BY <1>3, <1>5 DEF Sound, PlacedSound, TaskIds
  <2>4. (\A b \in DOMAIN self.p.buffers : WrittenOnce(self.p, b))'
    BY <1>3 DEF Sound, WrittenOnce, Transient, Writers, DisjointTiles, TaskIds
  <2> QED
    BY <1>3, <2>1, <2>2, <2>3, <2>4 DEF Sound
<1>7. Known(self, node)'
  BY <1>3, <1>4 DEF Known, HasWeights, NamedAfter, Transient
<1> QED
  BY <1>2, <1>6, <1>7 DEF AcceptInv

(* The table of provenances: a task comes after its producers.             *)
LEMMA ProvenanceIs ==
  ASSUME IsList(p.tasks)
  PROVE  \A t \in TaskIds(p) : Pred(p, t) \subseteq Provenance[t]
<1> DEFINE k == Len(p.tasks)
           Entry(before, i) == Pred(p, i) \cup UNION {before[u] : u \in Pred(p, i)}
           Step(before, i) == Append(before, Entry(before, i))
           w == CHOOSE f : f = [i \in 0 .. k |-> IF i = 0 THEN <<>> ELSE Step(f[i - 1], i)]
<1>1. k \in Nat
  BY ListFacts
<1>2. Provenance = w[k]
  BY DEF Provenance
<1>3. \A before, i : Step(before, i) = Append(before, Entry(before, i)) /\ Pred(p, i) \subseteq Entry(before, i)
  OBVIOUS
<1> HIDE DEF Entry, Step, k
<1>4. w = [i \in 0 .. k |-> IF i = 0 THEN <<>> ELSE Step(w[i - 1], i)]
  <2> DEFINE S == {j \in 0 .. k :
                     \E f : f = [i \in 0 .. j |-> IF i = 0 THEN <<>> ELSE Step(f[i - 1], i)]}
  <2>1. 0 \in S
    <3> DEFINE g == [i \in 0 .. 0 |-> <<>>]
    <3>1. g = [i \in 0 .. 0 |-> IF i = 0 THEN <<>> ELSE Step(g[i - 1], i)]
      OBVIOUS
    <3> HIDE DEF g
    <3>2. \E f : f = [i \in 0 .. 0 |-> IF i = 0 THEN <<>> ELSE Step(f[i - 1], i)]
      BY <3>1
    <3> QED
      BY <1>1, <3>2
  <2>2. ASSUME NEW j \in 1 .. k, j - 1 \in S PROVE j \in S
    <3>1. PICK f : f = [i \in 0 .. j - 1 |-> IF i = 0 THEN <<>> ELSE Step(f[i - 1], i)]
      BY <2>2
    <3> DEFINE g == [i \in 0 .. j |-> IF i < j THEN f[i] ELSE Step(f[j - 1], j)]
    <3>2. \A i \in 0 .. j : g[i] = IF i = 0 THEN <<>> ELSE Step(g[i - 1], i)
      <4> SUFFICES ASSUME NEW i \in 0 .. j
                   PROVE  g[i] = IF i = 0 THEN <<>> ELSE Step(g[i - 1], i)
        OBVIOUS
      <4>1. i # 0 => i - 1 \in 0 .. j /\ i - 1 < j /\ g[i - 1] = f[i - 1]
        BY <1>1
      <4>2. CASE i < j
        <5>1. i \in 0 .. j - 1 /\ g[i] = f[i]
          BY <1>1, <4>2
        <5>2. f[i] = IF i = 0 THEN <<>> ELSE Step(f[i - 1], i)
          BY <3>1, <5>1
        <5> QED
          BY <4>1, <5>1, <5>2
      <4>3. CASE i = j
        BY <1>1, <4>1, <4>3
      <4> QED
        BY <1>1, <4>2, <4>3
    <3>3. g = [i \in 0 .. j |-> g[i]]
      OBVIOUS
    <3> HIDE DEF g
    <3>4. g = [i \in 0 .. j |-> IF i = 0 THEN <<>> ELSE Step(g[i - 1], i)]
      BY <3>2, <3>3
    <3>5. \E f1 : f1 = [i \in 0 .. j |-> IF i = 0 THEN <<>> ELSE Step(f1[i - 1], i)]
      BY <3>4
    <3> QED
      BY <1>1, <3>5
  <2> HIDE DEF S
  <2>3. k \in S
    BY <1>1, <2>1, <2>2, Counted
  <2>4. \E f : f = [i \in 0 .. k |-> IF i = 0 THEN <<>> ELSE Step(f[i - 1], i)]
    BY <2>3 DEF S
  <2> QED
    BY <2>4
<1> HIDE DEF w
<1>5. w[0] = <<>> /\ \A i \in 1 .. k : w[i] = Step(w[i - 1], i)
  BY <1>1, <1>4
<1> DEFINE Good(j) == IsList(w[j]) /\ Len(w[j]) = j /\ \A t \in 1 .. j : Pred(p, t) \subseteq w[j][t]
           S == {j \in 0 .. k : Good(j)}
<1>6. 0 \in S
  <2>1. IsList(<<>>) /\ Len(<<>>) = 0
    BY DEF IsList, Elements
  <2> QED
    BY <1>1, <1>5, <2>1
<1>7. ASSUME NEW j \in 1 .. k, j - 1 \in S PROVE j \in S
  <2> DEFINE before == w[j - 1]
             value == Entry(before, j)
  <2>1. Good(j - 1) /\ w[j] = Append(before, value) /\ Pred(p, j) \subseteq value
    BY <1>3, <1>5, <1>7
  <2>2. j \in Nat /\ \A t \in 1 .. j : t \in 1 .. j - 1 \/ t = j
    BY <1>1
  <2> HIDE DEF before, value
  <2>3. IsList(before) /\ Len(before) = j - 1 /\ \A t \in 1 .. j - 1 : Pred(p, t) \subseteq before[t]
    BY <2>1 DEF before
  <2>4. /\ IsList(w[j]) /\ Len(w[j]) = j /\ \A t \in 1 .. j - 1 : w[j][t] = before[t]
        /\ w[j][j] = value
    <3>1. (j - 1) + 1 = j
      BY <2>2
    <3> QED
      BY <2>1, <2>3, <3>1, ListAppended
  <2>5. Good(j)
    BY <2>1, <2>2, <2>3, <2>4
  <2> HIDE DEF Good
  <2> QED
    BY <2>5
<1> HIDE DEF S, Good
<1>8. k \in S
  BY <1>1, <1>6, <1>7, Counted
<1>9. Good(k)
  BY <1>8 DEF S
<1> QED
  BY <1>2, <1>9 DEF Good, TaskIds, k

(* What every program of the builder passes, whatever its arity.           *)
Checks(q) ==
  /\ WellFormed(q) /\ WaitsAreJoins(q) /\ PinnedInListOrder(q) /\ OutputsProduced(q)
  /\ ColumnTiled(q) /\ FreshCounters(q)
  /\ \A t \in TaskIds(q) :
       /\ Cardinality(q.tasks[t].outputs) = 1 /\ \A b \in q.tasks[t].outputs : Transient(q, b)
       /\ \A u \in Pred(q, t) : u < t
       /\ \A b \in q.tasks[t].inputs : Transient(q, b) =>
            Writers(q, b) # {} /\ Writers(q, b) \ {t} \subseteq Pred(q, t)
  /\ \A b \in DOMAIN q.buffers : Transient(q, b) => DisjointTiles(q, Writers(q, b))

LEMMA SoundChecks ==
  ASSUME NEW q, Sound(q), Len(q.tasks) \in Nat
  PROVE  Checks(q)
<1>1. /\ \A b \in DOMAIN q.buffers : WrittenOnce(q, b)
      /\ \A t \in TaskIds(q) : WaitsSound(q, t) /\ OperandsSound(q, t) /\ PlacedSound(q, t)
  BY DEF Sound
<1>2. \A c : IsFiniteSet(Producers(q, c)) /\ Cardinality(Producers(q, c)) \in Nat
  <2> TAKE c
  <2>1. Producers(q, c) \subseteq 1 .. Len(q.tasks) /\ IsFiniteSet(1 .. Len(q.tasks))
    BY FS_Interval DEF Producers, TaskIds
  <2>2. IsFiniteSet(Producers(q, c))
    BY <2>1, FS_Subset
  <2> QED
    BY <2>2, FS_CardinalityType
<1>3. \A c : Producers(q, c) # {} => Cardinality(Producers(q, c)) >= 1
  <2> TAKE c
  <2>1. Cardinality(Producers(q, c)) = 0 <=> Producers(q, c) = {}
    BY <1>2, FS_EmptySet
  <2>2. Cardinality(Producers(q, c)) \in Nat
    BY <1>2
  <2> QED
    BY <2>1, <2>2
<1>4. ASSUME NEW t \in TaskIds(q)
      PROVE  /\ Cardinality(q.tasks[t].outputs) = 1 /\ \A b \in q.tasks[t].outputs : Transient(q, b)
             /\ q.tasks[t].outputs \subseteq DOMAIN q.buffers
  <2>1. PICK b \in DOMAIN q.buffers : q.tasks[t].outputs = {b} /\ Transient(q, b)
    BY <1>1, <1>4 DEF OperandsSound
  <2>2. Cardinality({b}) = 1
    BY FS_Singleton
  <2> QED
    BY <2>1, <2>2
<1>5. ASSUME NEW t \in TaskIds(q), NEW u \in Pred(q, t) PROVE u < t
  BY <1>1, <1>5 DEF Pred, WaitsSound
<1>6. ASSUME NEW t \in TaskIds(q), NEW b \in q.tasks[t].inputs, Transient(q, b)
      PROVE  Writers(q, b) # {} /\ Writers(q, b) \ {t} \subseteq Pred(q, t)
  BY <1>1, <1>6 DEF OperandsSound, WrittenOnce
<1>7. WellFormed(q)
  BY <1>1, <1>3, <1>4 DEF WellFormed, WaitsSound, OperandsSound, PlacedSound
<1>8. WaitsAreJoins(q)
  <2> SUFFICES ASSUME NEW t \in TaskIds(q), NEW w \in Waits(q, t), NEW np, np = Cardinality(Producers(q, w.counter))
               PROVE  np # 0 /\ w.threshold <= np /\ (np > 1 => w.threshold = np)
    BY DEF WaitsAreJoins
  <2>1. w.threshold = np /\ np >= 1 /\ np \in Nat
    BY <1>1, <1>2, <1>3 DEF WaitsSound
  <2> QED
    BY <2>1
<1>9. PinnedInListOrder(q)
  BY <1>1, <1>5 DEF PinnedInListOrder, PlacedSound, Sound
<1>10. OutputsProduced(q)
  BY <1>1 DEF OutputsProduced, WrittenOnce, Transient, ReadOnlyKinds
<1>11. ColumnTiled(q) /\ FreshCounters(q)
  BY <1>1 DEF ColumnTiled, FreshCounters, PlacedSound, Sound
<1>12. \A b \in DOMAIN q.buffers : Transient(q, b) => DisjointTiles(q, Writers(q, b))
  BY <1>1 DEF WrittenOnce
<1> QED
  BY <1>4, <1>5, <1>6, <1>7, <1>8, <1>9, <1>10, <1>11, <1>12 DEF Checks

LEMMA AcceptInvIsAccepted == AcceptInv => LoweredIsAccepted
<1> SUFFICES ASSUME AcceptInv, ~ Exempt PROVE LoweredIsAccepted
  BY DEF LoweredIsAccepted, Exempt
<1>1. IsList(p.tasks) /\ Len(p.tasks) \in Nat /\ Sound(p)
  BY ListFacts DEF AcceptInv, LowerInv, LoweredTo, Built, p
<1>2. Checks(p)
  BY <1>1, SoundChecks
<1> DEFINE anc == Provenance
<1>3. \A t \in TaskIds(p) : Pred(p, t) \subseteq anc[t]
  BY <1>1, ProvenanceIs
<1>4. \A t \in TaskIds(p) : ArityOk(p.tasks[t])
  BY <1>1, <1>2 DEF ArityOk, Sound, PlacedSound, Checks
<1> HIDE DEF anc
<1>5. \A t \in TaskIds(p) : \A b \in p.tasks[t].inputs : Transient(p, b) =>
        Writers(p, b) # {} /\ Writers(p, b) \ {t} \subseteq anc[t]
  BY <1>2, <1>3 DEF Checks
<1> QED
  BY <1>2, <1>4, <1>5 DEF LoweredIsAccepted, Checks, anc

(***************************************************************************)
(* "The result is guaranteed to pass schedule.ir.validate": lower()        *)
(* returns, for every request, graph depth and limit, only programs that   *)
(* pass every check, the data-hazard checks above the task cap included.   *)
(***************************************************************************)
THEOREM LowerAccepted == LowerSpec => []LoweredIsAccepted
BY AcceptInvInit, AcceptInvStep, AcceptInvIsAccepted, PTL DEF LowerSpec

(* What lower() returns is Accepted, and ordered whatever its size.        *)
LoweredIsOrdered ==
  Lowered => /\ Accepted(p) /\ ColumnTiled(p) /\ FreshCounters(p)
             /\ ReadsOrdered(p) /\ WritesOrdered(p)

LEMMA ChecksOrdered ==
  ASSUME NEW q, Checks(q), Len(q.tasks) \in Nat
  PROVE  Acyclic(q) /\ ReadsOrdered(q) /\ WritesOrdered(q)
<1>1. Acyclic(q)
  <2> SUFFICES ASSUME NEW S \in (SUBSET TaskIds(q)) \ {{}} PROVE \E t \in S : Pred(q, t) \cap S = {}
    BY DEF Acyclic
  <2>1. S \in SUBSET (1 .. Len(q.tasks)) /\ S # {}
    BY DEF TaskIds
  <2>2. PICK t \in S : \A u \in S : t <= u
    BY <2>1, Smallest
  <2>3. t \in TaskIds(q) /\ \A u \in S : u \in Int /\ t \in Int
    BY <2>1 DEF TaskIds
  <2>4. \A u \in Pred(q, t) : u < t
    BY <2>3 DEF Checks
  <2> QED
    BY <2>2, <2>3, <2>4
<1>2. \A t \in TaskIds(q) : Pred(q, t) \subseteq Ancestors(q, t)
  BY DEF Ancestors, Pred
<1> QED
  BY <1>1, <1>2 DEF Checks, ReadsOrdered, WritesOrdered

(***************************************************************************)
(* validate() looks at data hazards below PROVENANCE_MAX_TASKS only; what  *)
(* lower() returns is free of them at every size, and Accepted: the        *)
(* programs the loader, the executors and the simulators are proved right  *)
(* about.  The number of operands of a task is not part of it, so that     *)
(* weights with zero points are included.                                  *)
(***************************************************************************)
THEOREM LowerOrdered == LowerSpec => []LoweredIsOrdered
<1>1. AcceptInv => LoweredIsOrdered
  <2> SUFFICES ASSUME AcceptInv PROVE LoweredIsOrdered
    OBVIOUS
  <2>1. Len(p.tasks) \in Nat /\ Sound(p)
    BY ListFacts DEF AcceptInv, LowerInv, LoweredTo, Built, p
  <2>2. Checks(p)
    BY <2>1, SoundChecks
  <2>3. Acyclic(p) /\ ReadsOrdered(p) /\ WritesOrdered(p)
    BY <2>1, <2>2, ChecksOrdered
  <2> QED
    BY <2>2, <2>3 DEF LoweredIsOrdered, Accepted, Checks
<1> QED
  BY AcceptInvInit, AcceptInvStep, <1>1, PTL DEF LowerSpec

-----------------------------------------------------------------------------
LEMMA Greatest ==
  ASSUME NEW S, S # {}, NEW f, NEW bound \in Nat, \A v \in S : f[v] \in Nat /\ f[v] <= bound
  PROVE  \E u \in S : \A v \in S : f[v] <= f[u]
<1> DEFINE K == {bound - f[v] + 1 : v \in S}
<1>1. K \in SUBSET (1 .. bound + 1) /\ K # {} /\ bound + 1 \in Nat
  OBVIOUS
<1> HIDE DEF K
<1>2. PICK m \in K : \A k \in K : m <= k
  BY <1>1, Smallest
<1>3. PICK u \in S : m = bound - f[u] + 1
  BY DEF K
<1>4. \A v \in S : bound - f[v] + 1 \in K
  BY DEF K
<1>5. \A v \in S : m <= bound - f[v] + 1
  BY <1>2, <1>4
<1>6. ASSUME NEW v \in S PROVE f[v] <= f[u]
  BY <1>3, <1>5, <1>6
<1> QED
  BY <1>6

LEMMA StartIs ==
  ASSUME NEW S, NEW f, NEW bound \in Nat, \A v \in S : f[v] \in Nat /\ f[v] <= bound
  PROVE  /\ Start(f, S) \in Nat /\ Start(f, S) <= bound
         /\ \A v \in S : f[v] <= Start(f, S)
<1>1. CASE S = {}
  BY <1>1 DEF Start
<1>2. CASE S # {}
  <2> DEFINE best == CHOOSE u \in S : \A v \in S : f[v] <= f[u]
  <2>1. best \in S /\ \A v \in S : f[v] <= f[best]
    BY <1>2, Greatest
  <2>2. Start(f, S) = f[best]
    BY <1>2 DEF Start
  <2> HIDE DEF best
  <2> QED
    BY <2>1, <2>2
<1> QED
  BY <1>1, <1>2

(* The sums and the tables of the first tasks.                             *)
LEMMA SumsAre ==
  ASSUME NEW q, Len(q.tasks) \in Nat
  PROVE  \E sum : /\ TotalWork(q) = sum[Len(q.tasks)] /\ sum[0] = 0
                  /\ \A i \in 1 .. Len(q.tasks) : sum[i] = sum[i - 1] + TaskTime(q.tasks[i])
<1> DEFINE k == Len(q.tasks)
           Step(before, i) == before + TaskTime(q.tasks[i])
           w == CHOOSE f : f = [i \in 0 .. k |-> IF i = 0 THEN 0 ELSE Step(f[i - 1], i)]
<1>2. TotalWork(q) = w[k] /\ k \in Nat
  BY DEF TotalWork
<1>3. \A before, i : Step(before, i) = before + TaskTime(q.tasks[i])
  OBVIOUS
<1> HIDE DEF Step, k
<1>4. w = [i \in 0 .. k |-> IF i = 0 THEN 0 ELSE Step(w[i - 1], i)]
  <2> DEFINE S == {j \in 0 .. k : \E f : f = [i \in 0 .. j |-> IF i = 0 THEN 0 ELSE Step(f[i - 1], i)]}
  <2>1. 0 \in S
    <3> DEFINE g == [i \in 0 .. 0 |-> 0]
    <3>1. g = [i \in 0 .. 0 |-> IF i = 0 THEN 0 ELSE Step(g[i - 1], i)]
      OBVIOUS
    <3> HIDE DEF g
    <3>2. \E f : f = [i \in 0 .. 0 |-> IF i = 0 THEN 0 ELSE Step(f[i - 1], i)]
      BY <3>1
    <3> QED
      BY <1>2, <3>2
  <2>2. ASSUME NEW j \in 1 .. k, j - 1 \in S PROVE j \in S
    <3>1. PICK f : f = [i \in 0 .. j - 1 |-> IF i = 0 THEN 0 ELSE Step(f[i - 1], i)]
      BY <2>2
    <3> DEFINE g == [i \in 0 .. j |-> IF i < j THEN f[i] ELSE Step(f[j - 1], j)]
    <3>2. \A i \in 0 .. j : g[i] = IF i = 0 THEN 0 ELSE Step(g[i - 1], i)
      <4> SUFFICES ASSUME NEW i \in 0 .. j PROVE g[i] = IF i = 0 THEN 0 ELSE Step(g[i - 1], i)
        OBVIOUS
      <4>1. i # 0 => i - 1 \in 0 .. j /\ i - 1 < j /\ g[i - 1] = f[i - 1]
        BY <1>2
      <4>2. CASE i < j
        <5>1. i \in 0 .. j - 1 /\ g[i] = f[i]
          BY <1>2, <4>2
        <5>2. f[i] = IF i = 0 THEN 0 ELSE Step(f[i - 1], i)
          BY <3>1, <5>1
        <5> QED
          BY <4>1, <5>1, <5>2
      <4>3. CASE i = j
        BY <1>2, <4>1, <4>3
      <4> QED
        BY <1>2, <4>2, <4>3
    <3>3. g = [i \in 0 .. j |-> g[i]]
      OBVIOUS
    <3> HIDE DEF g
    <3>4. g = [i \in 0 .. j |-> IF i = 0 THEN 0 ELSE Step(g[i - 1], i)]
      BY <3>2, <3>3
    <3>5. \E f1 : f1 = [i \in 0 .. j |-> IF i = 0 THEN 0 ELSE Step(f1[i - 1], i)]
      BY <3>4
    <3> QED
      BY <1>2, <3>5
  <2> HIDE DEF S
  <2>0. k \in Nat
    BY <1>2
  <2>3. k \in S
    <3>1. \A i \in 1 .. k : i - 1 \in S => i \in S
      BY <2>2
    <3>2. \A i \in 0 .. k : i \in S
      BY <2>0, <2>1, <3>1, Counted
    <3> QED
      BY <2>0, <3>2
  <2>4. \E f : f = [i \in 0 .. k |-> IF i = 0 THEN 0 ELSE Step(f[i - 1], i)]
    BY <2>3 DEF S
  <2> QED
    BY <2>4
<1> HIDE DEF w
<1>5. w[0] = 0 /\ \A i \in 1 .. k : w[i] = Step(w[i - 1], i)
  BY <1>2, <1>4
<1>6. \E sum : /\ TotalWork(q) = sum[k] /\ sum[0] = 0
               /\ \A i \in 1 .. k : sum[i] = sum[i - 1] + TaskTime(q.tasks[i])
  BY <1>2, <1>3, <1>5
<1> QED
  BY <1>6 DEF k

LEMMA FinishIs ==
  ASSUME NEW q, Len(q.tasks) \in Nat
  PROVE  \E table : /\ Finish(q) = table[Len(q.tasks)] /\ table[0] = <<>>
                    /\ \A i \in 1 .. Len(q.tasks) :
                         table[i] = Append(table[i - 1], Start(table[i - 1], After(q, i)) + TaskTime(q.tasks[i]))
<1> DEFINE k == Len(q.tasks)
           Step(before, i) == Append(before, Start(before, After(q, i)) + TaskTime(q.tasks[i]))
           w == CHOOSE f : f = [i \in 0 .. k |-> IF i = 0 THEN <<>> ELSE Step(f[i - 1], i)]
<1>2. Finish(q) = w[k] /\ k \in Nat
  BY DEF Finish
<1>3. \A before, i : Step(before, i) = Append(before, Start(before, After(q, i)) + TaskTime(q.tasks[i]))
  OBVIOUS
<1> HIDE DEF Step, k
<1>4. w = [i \in 0 .. k |-> IF i = 0 THEN <<>> ELSE Step(w[i - 1], i)]
  <2> DEFINE S == {j \in 0 .. k : \E f : f = [i \in 0 .. j |-> IF i = 0 THEN <<>> ELSE Step(f[i - 1], i)]}
  <2>1. 0 \in S
    <3> DEFINE g == [i \in 0 .. 0 |-> <<>>]
    <3>1. g = [i \in 0 .. 0 |-> IF i = 0 THEN <<>> ELSE Step(g[i - 1], i)]
      OBVIOUS
    <3> HIDE DEF g
    <3>2. \E f : f = [i \in 0 .. 0 |-> IF i = 0 THEN <<>> ELSE Step(f[i - 1], i)]
      BY <3>1
    <3> QED
      BY <1>2, <3>2
  <2>2. ASSUME NEW j \in 1 .. k, j - 1 \in S PROVE j \in S
    <3>1. PICK f : f = [i \in 0 .. j - 1 |-> IF i = 0 THEN <<>> ELSE Step(f[i - 1], i)]
      BY <2>2
    <3> DEFINE g == [i \in 0 .. j |-> IF i < j THEN f[i] ELSE Step(f[j - 1], j)]
    <3>2. \A i \in 0 .. j : g[i] = IF i = 0 THEN <<>> ELSE Step(g[i - 1], i)
      <4> SUFFICES ASSUME NEW i \in 0 .. j PROVE g[i] = IF i = 0 THEN <<>> ELSE Step(g[i - 1], i)
        OBVIOUS
      <4>1. i # 0 => i - 1 \in 0 .. j /\ i - 1 < j /\ g[i - 1] = f[i - 1]
        BY <1>2
      <4>2. CASE i < j
        <5>1. i \in 0 .. j - 1 /\ g[i] = f[i]
          BY <1>2, <4>2
        <5>2. f[i] = IF i = 0 THEN <<>> ELSE Step(f[i - 1], i)
          BY <3>1, <5>1
        <5> QED
          BY <4>1, <5>1, <5>2
      <4>3. CASE i = j
        BY <1>2, <4>1, <4>3
      <4> QED
        BY <1>2, <4>2, <4>3
    <3>3. g = [i \in 0 .. j |-> g[i]]
      OBVIOUS
    <3> HIDE DEF g
    <3>4. g = [i \in 0 .. j |-> IF i = 0 THEN <<>> ELSE Step(g[i - 1], i)]
      BY <3>2, <3>3
    <3>5. \E f1 : f1 = [i \in 0 .. j |-> IF i = 0 THEN <<>> ELSE Step(f1[i - 1], i)]
      BY <3>4
    <3> QED
      BY <1>2, <3>5
  <2> HIDE DEF S
  <2>0. k \in Nat
    BY <1>2
  <2>3. k \in S
    <3>1. \A i \in 1 .. k : i - 1 \in S => i \in S
      BY <2>2
    <3>2. \A i \in 0 .. k : i \in S
      BY <2>0, <2>1, <3>1, Counted
    <3> QED
      BY <2>0, <3>2
  <2>4. \E f : f = [i \in 0 .. k |-> IF i = 0 THEN <<>> ELSE Step(f[i - 1], i)]
    BY <2>3 DEF S
  <2> QED
    BY <2>4
<1> HIDE DEF w
<1>5. w[0] = <<>> /\ \A i \in 1 .. k : w[i] = Step(w[i - 1], i)
  BY <1>2, <1>4
<1>6. \E table : /\ Finish(q) = table[k] /\ table[0] = <<>>
                 /\ \A i \in 1 .. k :
                      table[i] = Append(table[i - 1], Start(table[i - 1], After(q, i)) + TaskTime(q.tasks[i]))
  BY <1>2, <1>3, <1>5
<1> QED
  BY <1>6 DEF k

(* No task finishes before its producers and itself, nor after the work.   *)
LEMMA FinishBounds ==
  ASSUME NEW q, Len(q.tasks) \in Nat, \A t \in TaskIds(q) : TaskTime(q.tasks[t]) \in Nat,
         \A t \in TaskIds(q) : \A u \in Pred(q, t) : u < t
  PROVE  /\ TotalWork(q) \in Nat
         /\ \A t \in TaskIds(q) :
              /\ Finish(q)[t] \in Nat /\ Finish(q)[t] <= TotalWork(q)
              /\ \A u \in Pred(q, t) : Finish(q)[u] + TaskTime(q.tasks[t]) <= Finish(q)[t]
<1>1. PICK k \in Nat : k = Len(q.tasks)
  OBVIOUS
<1>2. TaskIds(q) = 1 .. k
  BY <1>1 DEF TaskIds
<1>3. PICK sum : /\ TotalWork(q) = sum[k] /\ sum[0] = 0
                 /\ \A i \in 1 .. k : sum[i] = sum[i - 1] + TaskTime(q.tasks[i])
  BY <1>1, SumsAre
<1>4. PICK w : /\ Finish(q) = w[k] /\ w[0] = <<>>
               /\ \A i \in 1 .. k : w[i] = Append(w[i - 1], Start(w[i - 1], After(q, i)) + TaskTime(q.tasks[i]))
  BY <1>1, FinishIs
<1>5. \A t \in 1 .. k : Pred(q, t) \subseteq After(q, t) /\ \A u \in After(q, t) : u \in 1 .. t - 1
  <2> TAKE t \in 1 .. k
  <2>1. \A u \in Pred(q, t) : u \in 1 .. k /\ u < t
    BY <1>2 DEF Pred
  <2>2. \A u \in After(q, t) : u \in 1 .. k /\ u < t
    BY <1>2, <2>1 DEF After, PinnedTasks
  <2> QED
    BY <2>2 DEF After
<1> DEFINE Linked(f, t) == \A u \in Pred(q, t) : f[u] + TaskTime(q.tasks[t]) <= f[t]
           Good(j) == /\ IsList(w[j]) /\ Len(w[j]) = j /\ sum[j] \in Nat
                      /\ \A t \in 1 .. j : w[j][t] \in Nat /\ w[j][t] <= sum[j]
                      /\ \A t \in 1 .. j : Linked(w[j], t)
           S == {j \in 0 .. k : Good(j)}
<1>6. 0 \in S
  <2>1. IsList(<<>>) /\ Len(<<>>) = 0
    BY DEF IsList, Elements
  <2> QED
    BY <1>3, <1>4, <2>1
<1>7. ASSUME NEW j \in 1 .. k, j - 1 \in S PROVE j \in S
  <2>1. PICK f, bound, time, start :
          /\ f = w[j - 1] /\ bound = sum[j - 1] /\ time = TaskTime(q.tasks[j]) /\ start = Start(f, After(q, j))
    OBVIOUS
  <2>2. IsList(f) /\ Len(f) = j - 1 /\ bound \in Nat /\ time \in Nat
    BY <1>2, <1>7, <2>1
  <2>3. \A t \in 1 .. j - 1 : f[t] \in Nat /\ f[t] <= bound /\ Linked(f, t)
    BY <1>7, <2>1
  <2>4. w[j] = Append(f, start + time) /\ sum[j] = bound + time
    BY <1>3, <1>4, <2>1
  <2>5. start \in Nat /\ start <= bound /\ \A v \in After(q, j) : f[v] <= start
    <3>1. \A v \in After(q, j) : f[v] \in Nat /\ f[v] <= bound
      BY <1>5, <2>3
    <3> QED
      BY <2>1, <2>2, <3>1, StartIs
  <2>6. /\ IsList(w[j]) /\ Len(w[j]) = j /\ w[j][j] = start + time
        /\ \A t \in 1 .. j - 1 : w[j][t] = f[t]
    <3>1. j \in Nat /\ (j - 1) + 1 = j
      OBVIOUS
    <3> QED
      BY <2>2, <2>4, <3>1, ListAppended
  <2>7. \A t \in 1 .. j : t \in 1 .. j - 1 \/ t = j
    OBVIOUS
  <2>8. sum[j] \in Nat /\ \A t \in 1 .. j : w[j][t] \in Nat /\ w[j][t] <= sum[j]
    <3>1. \A t \in 1 .. j - 1 : w[j][t] \in Nat /\ w[j][t] <= bound
      BY <2>3, <2>6
    <3> QED
      BY <2>2, <2>4, <2>5, <2>6, <2>7, <3>1
  <2>9. ASSUME NEW t \in 1 .. j PROVE Linked(w[j], t)
    <3>1. t \in 1 .. k /\ \A u \in Pred(q, t) : u \in After(q, t) /\ u \in 1 .. j - 1 /\ w[j][u] = f[u]
      <4>1. t \in 1 .. k /\ 1 .. t - 1 \subseteq 1 .. j - 1
        OBVIOUS
      <4> QED
        BY <1>5, <2>6, <4>1
    <3>2. CASE t = j
      <4> SUFFICES ASSUME NEW u \in Pred(q, j) PROVE w[j][u] + time <= w[j][j]
        BY <2>1, <3>2
      <4>1. w[j][u] = f[u] /\ f[u] \in Nat /\ f[u] <= start
        BY <2>3, <2>5, <3>1, <3>2
      <4> QED
        BY <2>2, <2>5, <2>6, <4>1
    <3>3. CASE t \in 1 .. j - 1
      BY <2>3, <2>6, <3>1, <3>3
    <3> QED
      BY <2>7, <3>2, <3>3
  <2> HIDE DEF Linked
  <2>10. Good(j)
    BY <2>6, <2>8, <2>9
  <2> HIDE DEF Good
  <2> QED
    BY <2>10
<1> HIDE DEF S, Good
<1>8. k \in S
  <2>1. \A i \in 1 .. k : i - 1 \in S => i \in S
    BY <1>7
  <2>2. \A i \in 0 .. k : i \in S
    BY <1>6, <2>1, Counted
  <2> QED
    BY <2>2
<1>9. Good(k)
  BY <1>8 DEF S
<1> QED
  BY <1>2, <1>3, <1>4, <1>9 DEF Good

LEMMA CriticalPathIs ==
  ASSUME NEW q, Len(q.tasks) \in Nat, TaskIds(q) # {}, \A t \in TaskIds(q) : TaskTime(q.tasks[t]) \in Nat,
         \A t \in TaskIds(q) : \A u \in Pred(q, t) : u < t
  PROVE  /\ CriticalPath(q) \in Nat /\ CriticalPath(q) <= TotalWork(q)
         /\ \A t \in TaskIds(q) : Finish(q)[t] <= CriticalPath(q)
<1> DEFINE finish == Finish(q)
           T == TaskIds(q)
           best == CHOOSE t \in T : \A u \in T : finish[u] <= finish[t]
<1>1. /\ TotalWork(q) \in Nat
      /\ \A t \in T : finish[t] \in Nat /\ finish[t] <= TotalWork(q)
  BY FinishBounds
<1>2. CriticalPath(q) = finish[best] /\ T # {}
  BY DEF CriticalPath
<1> HIDE DEF finish, T
<1>3. best \in T /\ \A u \in T : finish[u] <= finish[best]
  BY <1>1, <1>2, Greatest
<1> HIDE DEF best
<1>4. /\ CriticalPath(q) \in Nat /\ CriticalPath(q) <= TotalWork(q)
      /\ \A t \in T : finish[t] <= CriticalPath(q)
  BY <1>1, <1>2, <1>3
<1> QED
  BY <1>4 DEF finish, T

LEMMA Scaled ==
  ASSUME NEW a \in Nat, NEW b \in Nat, a <= b, NEW m \in Nat
  PROVE  a * m \in Nat /\ b * m \in Nat /\ a * m <= b * m
<1>1. PICK d \in Nat : b = a + d
  <2> WITNESS b - a \in Nat
  <2> QED OBVIOUS
<1>2. b * m = a * m + d * m /\ a * m \in Nat /\ d * m \in Nat /\ b * m \in Nat
  BY <1>1
<1> QED
  BY <1>2

LEMMA PredictedBounds ==
  ASSUME NEW q, Len(q.tasks) \in Nat, TaskIds(q) # {}, \A t \in TaskIds(q) : TaskTime(q.tasks[t]) \in Nat,
         \A t \in TaskIds(q) : \A u \in Pred(q, t) : u < t, q.num_sms \in Nat \ {0}
  PROVE  /\ Predicted(q) <= TotalWork(q) * q.num_sms
         /\ \A t \in TaskIds(q) : \A u \in Pred(q, t) :
              Predicted(q) >= (Finish(q)[u] + TaskTime(q.tasks[t])) * q.num_sms
         /\ PinnedTasks(q) = {} => Predicted(q) >= TotalWork(q)
<1>1. PICK m \in Nat \ {0}, work \in Nat, path \in Nat, pinned \in {PinnedTasks(q)} :
        /\ m = q.num_sms /\ work = TotalWork(q) /\ path = CriticalPath(q) /\ pinned = PinnedTasks(q)
        /\ path <= work
  BY FinishBounds, CriticalPathIs
<1>2. Predicted(q) = IF pinned = {} /\ work > path * m THEN work ELSE path * m
  BY <1>1 DEF Predicted
<1>3. path * m \in Nat /\ work * m \in Nat /\ path * m <= work * m
  BY <1>1, Scaled
<1>4. work <= work * m
  <2>1. PICK d \in Nat : m = d + 1
    <3> WITNESS m - 1 \in Nat
    <3> QED OBVIOUS
  <2>2. work * m = work * d + work /\ work * d \in Nat
    BY <2>1
  <2> QED
    BY <2>2
<1>5. path * m <= Predicted(q)
  BY <1>2, <1>3
<1>6. ASSUME NEW t \in TaskIds(q), NEW u \in Pred(q, t)
      PROVE  Predicted(q) >= (Finish(q)[u] + TaskTime(q.tasks[t])) * m
  <2>1. /\ u \in TaskIds(q) /\ Finish(q)[u] \in Nat /\ TaskTime(q.tasks[t]) \in Nat /\ Finish(q)[t] \in Nat
        /\ Finish(q)[u] + TaskTime(q.tasks[t]) <= Finish(q)[t]
    <3>1. u \in TaskIds(q)
      BY <1>6 DEF Pred
    <3> QED
      BY <1>6, <3>1, FinishBounds
  <2>2. Finish(q)[t] <= path
    BY <1>1, CriticalPathIs
  <2>3. PICK end \in Nat : end = Finish(q)[u] + TaskTime(q.tasks[t]) /\ end <= path
    BY <2>1, <2>2
  <2>4. end * m \in Nat /\ end * m <= path * m
    BY <2>3, Scaled
  <2>5. Predicted(q) \in Nat
    BY <1>2, <1>3
  <2> QED
    BY <1>3, <1>5, <2>3, <2>4, <2>5
<1>7. Predicted(q) <= work * m /\ (pinned = {} => Predicted(q) >= work)
  BY <1>2, <1>3, <1>4
<1> QED
  BY <1>1, <1>6, <1>7

(* A projection whose node is lowered leaves tasks.                        *)
LEMMA LoweredHasTasks ==
  ASSUME AcceptInv, Lowered
  PROVE  TaskIds(p) # {}
<1>1. /\ args \in Requests /\ node \in Nat /\ LoweredTo(self, node) /\ Built(self)
      /\ Sound(p) /\ Known(self, node) /\ p = self.p
  BY DEF AcceptInv, LowerInv, LoweredTo, p
<1>2. 1 \in DOMAIN Graph /\ 1 < node
  BY <1>1, GraphIs DEF Lowered
<1>3. Graph[1].output \in DOMAIN self.buf /\ Graph[1].output \notin IoInputs
  BY <1>1, <1>2, NodeOperands DEF LoweredTo
<1>4. PICK b : b = self.buf[Graph[1].output] /\ Transient(p, b) /\ b \in DOMAIN p.buffers
  BY <1>1, <1>3, ListFacts DEF Known, Built
<1>5. Writers(p, b) # {}
  BY <1>1, <1>4 DEF Sound, WrittenOnce
<1> QED
  BY <1>5 DEF Writers

TimesAreNatural == \A t \in TaskIds(p) : TaskTime(p.tasks[t]) \in Nat

(***************************************************************************)
(* cost_model.predict(): whatever the durations of the tasks, the          *)
(* prediction for a lowered program is at most the serial sum and at least *)
(* the end of every producer followed by its consumer, and without pins at *)
(* least the work shared by all SMs.  The times need only be naturals.     *)
(***************************************************************************)
THEOREM PredictionBounds == LowerSpec => [](TimesAreNatural => PredictionInBounds)
<1>1. AcceptInv => (TimesAreNatural => PredictionInBounds)
  <2> SUFFICES ASSUME AcceptInv, TimesAreNatural, Lowered PROVE PredictionInBounds
    BY DEF PredictionInBounds
  <2>1. Len(p.tasks) \in Nat /\ Sound(p) /\ args \in Requests
    BY ListFacts DEF AcceptInv, LowerInv, LoweredTo, Built, p
  <2>2. \A t \in TaskIds(p) : \A u \in Pred(p, t) : u < t
    BY <2>1, SoundChecks DEF Checks
  <2>3. p.num_sms \in Nat \ {0}
    BY <2>1, PartsAre DEF Sound
  <2>4. TaskIds(p) # {} /\ \A t \in TaskIds(p) : TaskTime(p.tasks[t]) \in Nat
    BY LoweredHasTasks DEF TimesAreNatural
  <2>5. /\ Predicted(p) <= TotalWork(p) * p.num_sms
        /\ \A t \in TaskIds(p) : \A u \in Pred(p, t) :
             Predicted(p) >= (Finish(p)[u] + TaskTime(p.tasks[t])) * p.num_sms
        /\ PinnedTasks(p) = {} => Predicted(p) >= TotalWork(p)
    BY <2>1, <2>2, <2>3, <2>4, PredictedBounds
  <2> QED
    BY <2>5 DEF PredictionInBounds
<1> QED
  BY AcceptInvInit, AcceptInvStep, <1>1, PTL DEF LowerSpec
=============================================================================
