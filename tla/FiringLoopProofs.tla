---------------------------- MODULE FiringLoopProofs ----------------------------
(***************************************************************************)
(* Theorems about the two loops that fire the tasks of a program on the    *)
(* CPU, the oracle (ReferenceVM) and the simulations (Simulators), for     *)
(* every set of programs, in any list order.                               *)
(*                                                                         *)
(* The oracle: its watchdog is silent and exact, whatever Counter.init     *)
(* is; the ordering results hold for programs whose counters start at 0.   *)
(* The simulations: the firing order decides neither what gets stuck nor,  *)
(* on accepted programs, which reads come too early.                       *)
(***************************************************************************)
EXTENDS ReferenceVM, Simulators, ScheduleFacts

(***************************************************************************)
(* The oracle.                                                             *)
(***************************************************************************)
LoadedOK ==
  /\ IsProgram(prog)
  /\ \A t \in TaskIds(prog) :
       /\ prog.tasks[t].out_counter \in DOMAIN prog.counters
       /\ \A w \in Waits(prog, t) : w.counter \in DOMAIN prog.counters

CountersCountDone ==
  \A c \in DOMAIN prog.counters :
    cval[c] = prog.counters[c] + Cardinality(done \cap Producers(prog, c))

(* A sweep without progress so far began with work left, and has found     *)
(* none of the tasks behind its cursor ready.                              *)
FutileSoFar ==
  phase \in {"sweep", "exec"} /\ ~ progressed =>
    /\ done # TaskIds(prog)
    /\ \A t \in TaskIds(prog) \ done : t < cursor => ~ Ready(t)

Executing == phase = "exec" => cursor \in TaskIds(prog) \ done /\ Ready(cursor)

Complete == phase = "ok" => done = TaskIds(prog)

Futile == phase = "stuck" => done # TaskIds(prog) /\ \A t \in TaskIds(prog) \ done : ~ Ready(t)

OInv ==
  /\ LoadedOK
  /\ TypeOK
  /\ CountersCountDone
  /\ FutileSoFar
  /\ Executing
  /\ Complete
  /\ Futile

(* On a lawful program the tasks that are done are closed under            *)
(* predecessors.                                                           *)
Ordered == Lawful(prog) => PredClosed(prog, done)

-----------------------------------------------------------------------------
LEMMA ProgramFacts ==
  ASSUME LoadedOK
  PROVE  /\ Len(prog.tasks) \in Nat
         /\ prog.counters \in [DOMAIN prog.counters -> Nat]
         /\ \A t \in TaskIds(prog) :
              /\ prog.tasks[t].out_counter \in DOMAIN prog.counters
              /\ \A w \in Waits(prog, t) : w.counter \in DOMAIN prog.counters /\ w.threshold \in Int
BY WaitTypes DEF LoadedOK, IsProgram

(* With every predecessor done, a task is ready, whatever the counters     *)
(* started at.                                                             *)
LEMMA PredecessorsDoneMeansReady ==
  ASSUME OInv, Accepted(prog), NEW t \in TaskIds(prog), Pred(prog, t) \subseteq done
  PROVE  Ready(t)
<1> SUFFICES ASSUME NEW w \in Waits(prog, t) PROVE cval[w.counter] >= w.threshold
  BY DEF Ready
<1> DEFINE n == Cardinality(done \cap Producers(prog, w.counter))
<1>1. n \in Nat /\ n = w.threshold
  <2>1. IsProgram(prog) /\ Accepted(prog) /\ done \in SUBSET TaskIds(prog)
    BY DEF OInv, LoadedOK, TypeOK
  <2> QED
    BY <2>1, CompleteMeansJoined
<1>2. w.counter \in DOMAIN prog.counters /\ prog.counters[w.counter] \in Nat
  BY ProgramFacts DEF OInv
<1>3. cval[w.counter] = prog.counters[w.counter] + n
  BY <1>2 DEF OInv, CountersCountDone
<1> QED
  BY <1>1, <1>2, <1>3

(* With counters that started at 0, a ready task has its predecessors done. *)
LEMMA ReadyMeansPredecessorsDone ==
  ASSUME OInv, Accepted(prog), FreshCounters(prog), NEW t \in TaskIds(prog), Ready(t)
  PROVE  Pred(prog, t) \subseteq done
<1>1. ASSUME NEW w \in Waits(prog, t)
      PROVE  Cardinality(done \cap Producers(prog, w.counter)) >= w.threshold
  <2> DEFINE n == Cardinality(done \cap Producers(prog, w.counter))
  <2>1. w.counter \in DOMAIN prog.counters /\ prog.counters[w.counter] = 0
    BY ProgramFacts DEF OInv, FreshCounters
  <2>2. n \in Nat
    BY CountInSubset DEF OInv, LoadedOK, TypeOK
  <2>3. cval[w.counter] = n
    BY <2>1, <2>2 DEF OInv, CountersCountDone
  <2> QED
    BY <2>3 DEF Ready
<1> QED
  BY <1>1, JoinedMeansComplete DEF OInv, LoadedOK, TypeOK

LEMMA FreshRun ==
  ASSUME LoadedOK
  PROVE  /\ prog.counters \in [DOMAIN prog.counters -> Nat]
         /\ 1 \in 1 .. Len(prog.tasks) + 1
         /\ \A c \in DOMAIN prog.counters :
              prog.counters[c] = prog.counters[c] + Cardinality({} \cap Producers(prog, c))
<1>1. \A c : {} \cap Producers(prog, c) = {}
  OBVIOUS
<1>2. Cardinality({}) = 0
  BY FS_EmptySet
<1> QED
  BY <1>1, <1>2, ProgramFacts

LEMMA InitOInv == Init => OInv
<1> SUFFICES ASSUME Init PROVE OInv
  OBVIOUS
<1>1. LoadedOK
  BY ProgramsAssumption, CountersExist DEF Init, LoadedOK
<1>2. TypeOK
  BY <1>1, FreshRun DEF Init, TypeOK, Ended
<1>3. CountersCountDone
  BY <1>1, FreshRun DEF Init, CountersCountDone
<1> QED
  BY <1>1, <1>2, <1>3 DEF Init, OInv, FutileSoFar, Executing, Complete, Futile, Ready

(* The completion of a task: the one step that moves the counters.         *)
LEMMA CompleteTaskOInv ==
  ASSUME OInv, CompleteTask
  PROVE  OInv'
<1> USE DEF OInv
<1>1. /\ cursor \in TaskIds(prog) \ done /\ done \subseteq TaskIds(prog)
      /\ Len(prog.tasks) \in Nat
      /\ prog.tasks[cursor].out_counter \in DOMAIN prog.counters
  BY ProgramFacts DEF CompleteTask, Executing, TypeOK
<1>2. LoadedOK'
  BY DEF CompleteTask, LoadedOK
<1>3. /\ cursor \in 1 .. Len(prog.tasks)
      /\ done' = done \cup {cursor} /\ prog' = prog
      /\ cval' = [cval EXCEPT ![prog.tasks[cursor].out_counter] = @ + 1]
  BY <1>1 DEF CompleteTask, TaskIds
<1>4. TypeOK'
  <2>1. cval' \in [DOMAIN prog.counters -> Nat]
    BY <1>1, <1>3 DEF TypeOK
  <2>2. cursor' \in 1 .. Len(prog.tasks) + 1
    BY <1>1, <1>3 DEF CompleteTask
  <2>3. done' \subseteq TaskIds(prog)
    BY <1>1, <1>3
  <2> QED
    BY <1>3, <2>1, <2>2, <2>3 DEF CompleteTask, TypeOK
<1>5. CountersCountDone'
  <2> SUFFICES ASSUME NEW c \in DOMAIN prog.counters
               PROVE  cval'[c] = prog.counters[c] + Cardinality(done' \cap Producers(prog, c))
    BY <1>3 DEF CountersCountDone, Producers, TaskIds
  <2>1. cval[c] = prog.counters[c] + Cardinality(done \cap Producers(prog, c))
    BY DEF CountersCountDone
  <2>2. Cardinality(done \cap Producers(prog, c)) \in Nat
    BY <1>1, CountInSubset DEF LoadedOK
  <2>3. prog.counters[c] \in Nat
    BY ProgramFacts
  <2>4. /\ IsProgram(prog) /\ done \in SUBSET TaskIds(prog) /\ cursor \in TaskIds(prog) \ done
        /\ done' = done \cup {cursor}
    BY <1>1, <1>3 DEF LoadedOK
  <2>5. cval'[c] = IF prog.tasks[cursor].out_counter = c THEN cval[c] + 1 ELSE cval[c]
    BY <1>1, <1>3 DEF TypeOK
  <2>6. CASE prog.tasks[cursor].out_counter = c
    <3>1. Cardinality((done \cup {cursor}) \cap Producers(prog, c)) =
            Cardinality(done \cap Producers(prog, c)) + 1
      BY <2>4, <2>6, CountOneMore
    <3> QED
      BY <2>1, <2>2, <2>3, <2>4, <2>5, <2>6, <3>1
  <2>7. CASE prog.tasks[cursor].out_counter # c
    <3>1. Cardinality((done \cup {cursor}) \cap Producers(prog, c)) =
            Cardinality(done \cap Producers(prog, c))
      BY <2>4, <2>7, CountOneMore
    <3> QED
      BY <2>1, <2>2, <2>3, <2>4, <2>5, <2>7, <3>1
  <2> QED
    BY <2>6, <2>7
<1> QED
  BY <1>2, <1>4, <1>5
     DEF CompleteTask, FutileSoFar, Executing, Complete, Futile, Ready

(* A task that is not done while its predecessors are is ready, and by     *)
(* acyclicity there is one: an accepted program is never stuck.            *)
LEMMA AcceptedNotStuck ==
  ASSUME OInv
  PROVE  NeverStuck
<1> USE DEF OInv
<1> SUFFICES ASSUME phase = "stuck", Accepted(prog) PROVE FALSE
  BY DEF NeverStuck
<1>1. done # TaskIds(prog) /\ \A t \in TaskIds(prog) \ done : ~ Ready(t)
  BY DEF Futile
<1>2. PICK t \in TaskIds(prog) \ done : Pred(prog, t) \subseteq done
  BY <1>1, SomeTaskIsNext DEF LoadedOK, TypeOK
<1> QED
  BY <1>1, <1>2, PredecessorsDoneMeansReady

LEMMA NextOInv == OInv /\ [Next]_vars => OInv'
<1> SUFFICES ASSUME OInv, [Next]_vars PROVE OInv'
  OBVIOUS
<1> USE DEF OInv
<1>0. Len(prog.tasks) \in Nat /\ cursor \in 1 .. Len(prog.tasks) + 1
  BY ProgramFacts DEF TypeOK
<1>1. CASE Bind
  BY <1>1 DEF Bind, LoadedOK, TypeOK, Ended, CountersCountDone, FutileSoFar, Executing, Complete,
              Futile, Ready
<1>2. CASE StartSweep
  <2>1. TypeOK'
    <3>1. cursor' = 1 /\ prog' = prog /\ progressed' = FALSE
      BY <1>2 DEF StartSweep
    <3>2. cursor' \in 1 .. Len(prog'.tasks) + 1
      BY <1>0, <3>1
    <3> QED
      BY <1>2, <3>1, <3>2 DEF StartSweep, TypeOK
  <2>2. \A t \in TaskIds(prog) : ~ (t < 1)
    BY <1>0 DEF TaskIds
  <2> QED
    BY <1>2, <2>1, <2>2
       DEF StartSweep, LoadedOK, CountersCountDone, FutileSoFar, Executing, Complete, Futile, Ready
<1>3. CASE Return
  BY <1>3 DEF Return, LoadedOK, TypeOK, Ended, CountersCountDone, FutileSoFar, Executing, Complete,
              Futile, Ready
<1>4. CASE SkipTask
  <2>1. cursor \in 1 .. Len(prog.tasks) /\ cursor' = cursor + 1
    BY <1>4 DEF SkipTask, TaskIds
  <2>2. TypeOK'
    BY <1>0, <1>4, <2>1 DEF SkipTask, TypeOK
  <2>3. \A t \in TaskIds(prog) : t < cursor + 1 => t < cursor \/ t = cursor
    BY <1>0 DEF TaskIds
  <2>4. FutileSoFar'
    BY <1>4, <2>1, <2>3 DEF SkipTask, FutileSoFar, Ready
  <2> QED
    BY <1>4, <2>2, <2>4
       DEF SkipTask, LoadedOK, CountersCountDone, Executing, Complete, Futile, Ready
<1>5. CASE BeginTask
  BY <1>5 DEF BeginTask, LoadedOK, TypeOK, CountersCountDone, FutileSoFar, Executing, Complete,
              Futile, Ready
<1>6. CASE CompleteTask
  BY <1>6, CompleteTaskOInv
<1>7. CASE TaskRaises
  BY <1>7 DEF TaskRaises, LoadedOK, TypeOK, Ended, CountersCountDone, FutileSoFar, Executing,
              Complete, Futile, Ready
<1>8. CASE NoProgress
  <2>1. cursor = Len(prog.tasks) + 1 /\ ~ progressed /\ phase = "sweep" /\ phase' = "stuck"
        /\ UNCHANGED <<prog, cval, done, cursor, progressed, runs>>
    BY <1>8 DEF NoProgress
  <2>2. \A t \in TaskIds(prog) : t < cursor
    BY <1>0, <2>1 DEF TaskIds
  <2>3. done # TaskIds(prog) /\ \A t \in TaskIds(prog) \ done : ~ Ready(t)
    BY <2>1, <2>2 DEF FutileSoFar
  <2>4. Futile'
    BY <2>1, <2>3 DEF Futile, Ready
  <2> QED
    BY <2>1, <2>4 DEF LoadedOK, TypeOK, Ended, CountersCountDone, FutileSoFar, Executing, Complete
<1>9. CASE EndSweep
  BY <1>9 DEF EndSweep, LoadedOK, TypeOK, Ended, CountersCountDone, FutileSoFar, Executing,
              Complete, Futile, Ready
<1>10. CASE RunAgain
  <2>1. TypeOK'
    <3>1. cursor' = 1 /\ prog' = prog /\ progressed' = FALSE
      BY <1>10 DEF RunAgain
    <3>2. cursor' \in 1 .. Len(prog'.tasks) + 1
      BY <1>0, <3>1
    <3>3. cval' \in [DOMAIN prog'.counters -> Nat]
      BY <1>10, ProgramFacts DEF RunAgain
    <3>4. done' \subseteq TaskIds(prog') /\ runs' \in Nat /\ phase' = "bind"
      BY <1>10 DEF RunAgain, TypeOK
    <3> QED
      BY <3>1, <3>2, <3>3, <3>4 DEF TypeOK
  <2>2. CountersCountDone'
    BY <1>10, FreshRun DEF RunAgain, CountersCountDone, Producers, TaskIds
  <2> QED
    BY <1>10, <2>1, <2>2 DEF RunAgain, LoadedOK, FutileSoFar, Executing, Complete, Futile, Ready
<1>11. CASE UNCHANGED vars
  BY <1>11 DEF vars, LoadedOK, TypeOK, CountersCountDone, FutileSoFar, Executing, Complete,
               Futile, Ready
<1> QED
  BY <1>1, <1>2, <1>3, <1>4, <1>5, <1>6, <1>7, <1>8, <1>9, <1>10, <1>11 DEF Next, Step

(* The invariant holds in every state of every run.                        *)
THEOREM OracleInvariance == Spec => []OInv
<1> QED
  BY InitOInv, NextOInv, PTL DEF Spec

(* Type correctness.                                                       *)
THEOREM OracleTypes == Spec => []TypeOK
<1>1. OInv => TypeOK
  BY DEF OInv
<1> QED
  BY <1>1, OracleInvariance, PTL

(* On a program validate() accepts, DeadlockError for lack of progress is  *)
(* never raised, whatever the order of the task list and the initial       *)
(* values of the counters.                                                 *)
THEOREM WatchdogSilent == Spec => []NeverStuck
<1>1. OInv => NeverStuck
  BY AcceptedNotStuck
<1> QED
  BY <1>1, OracleInvariance, PTL

(* On any program, checked or not, the watchdog reports only tasks that no *)
(* order of execution could have run.                                      *)
THEOREM WatchdogExact == Spec => []StuckIsDeadlock
<1>1. OInv => StuckIsDeadlock
  <2> SUFFICES ASSUME OInv, phase = "stuck"
               PROVE  LET stuck == TaskIds(prog) \ done IN
                        /\ stuck # {}
                        /\ \A t \in stuck : \E w \in Waits(prog, t) :
                             prog.counters[w.counter]
                               + Cardinality(Producers(prog, w.counter) \ stuck) < w.threshold
    BY DEF StuckIsDeadlock
  <2> DEFINE stuck == TaskIds(prog) \ done
  <2>1. /\ done # TaskIds(prog) /\ done \subseteq TaskIds(prog)
        /\ \A t \in stuck : ~ Ready(t)
    BY DEF OInv, Futile, TypeOK
  <2>2. \A c : Producers(prog, c) \ stuck = done \cap Producers(prog, c)
    BY <2>1 DEF Producers
  <2>3. ASSUME NEW t \in stuck
        PROVE  \E w \in Waits(prog, t) :
                 prog.counters[w.counter]
                   + Cardinality(Producers(prog, w.counter) \ stuck) < w.threshold
    <3>1. PICK w \in Waits(prog, t) : ~ (cval[w.counter] >= w.threshold)
      BY <2>1, <2>3 DEF Ready
    <3>2. w.counter \in DOMAIN prog.counters /\ w.threshold \in Int
      BY ProgramFacts DEF OInv
    <3>3. cval[w.counter] \in Nat
      BY <3>2 DEF OInv, TypeOK
    <3>4. cval[w.counter] =
            prog.counters[w.counter] + Cardinality(done \cap Producers(prog, w.counter))
      BY <3>2 DEF OInv, CountersCountDone
    <3>5. Producers(prog, w.counter) \ stuck = done \cap Producers(prog, w.counter)
      BY <2>2
    <3>6. cval[w.counter] < w.threshold
      BY <3>1, <3>2, <3>3
    <3>7. prog.counters[w.counter]
            + Cardinality(Producers(prog, w.counter) \ stuck) < w.threshold
      BY <3>4, <3>5, <3>6
    <3> QED
      BY <3>7
  <2>4. stuck # {}
    BY <2>1
  <2> QED
    BY <2>3, <2>4
<1> QED
  BY <1>1, OracleInvariance, PTL

-----------------------------------------------------------------------------
(* Validated programs whose counters start at 0.                           *)

LEMMA InitOrdered == Init => Ordered
BY DEF Init, Ordered, PredClosed

LEMMA NextOrdered ==
  ASSUME OInv, Ordered, [Next]_vars
  PROVE  Ordered'
<1>1. CASE CompleteTask
  <2>1. Lawful(prog) => Pred(prog, cursor) \subseteq done
    BY <1>1, ReadyMeansPredecessorsDone DEF CompleteTask, OInv, Executing, Lawful
  <2>2. prog' = prog /\ done' = done \cup {cursor}
    BY <1>1 DEF CompleteTask
  <2>3. Lawful(prog) => PredClosed(prog, done \cup {cursor})
    BY <2>1 DEF Ordered, PredClosed
  <2> QED
    BY <2>2, <2>3 DEF Ordered
<1>2. CASE RunAgain
  <2>1. prog' = prog /\ done' = {}
    BY <1>2 DEF RunAgain
  <2>2. PredClosed(prog, {})
    BY DEF PredClosed
  <2> QED
    BY <2>1, <2>2 DEF Ordered
<1>3. CASE UNCHANGED <<prog, done>>
  BY <1>3 DEF Ordered
<1> QED
  BY <1>1, <1>2, <1>3
     DEF Next, Step, vars, Bind, StartSweep, Return, SkipTask, BeginTask, TaskRaises, NoProgress,
         EndSweep

(* While the program is lawful the oracle has executed a set of tasks that *)
(* is closed under predecessors, whatever the order of its list.           *)
THEOREM OracleOrdered == Spec => [](OInv /\ Ordered)
<1>1. Init => OInv /\ Ordered
  BY InitOInv, InitOrdered
<1>2. (OInv /\ Ordered) /\ [Next]_vars => (OInv /\ Ordered)'
  BY NextOInv, NextOrdered
<1> QED
  BY <1>1, <1>2, PTL DEF Spec

(* The oracle never reads a transient buffer of a lawful program before    *)
(* all of its other writers are done.                                      *)
THEOREM OracleReadsSettled == Spec => []ReadsSettled
<1>1. OInv /\ Ordered => ReadsSettled
  <2> SUFFICES ASSUME OInv, Ordered, phase = "exec", Lawful(prog),
                      Len(prog.tasks) <= PROVENANCE_MAX_TASKS,
                      NEW b \in prog.tasks[cursor].inputs, Transient(prog, b)
               PROVE  Writers(prog, b) \ {cursor} \subseteq done
    BY DEF ReadsSettled
  <2>1. cursor \in TaskIds(prog) /\ Ready(cursor) /\ done \in SUBSET TaskIds(prog)
    BY DEF OInv, Executing, TypeOK
  <2>2. Pred(prog, cursor) \subseteq done
    BY <2>1, ReadyMeansPredecessorsDone DEF Lawful
  <2>3. Ancestors(prog, cursor) \subseteq done
    BY <2>1, <2>2, AncestorsInClosedSet DEF Ordered
  <2>4. ReadsOrdered(prog)
    BY DEF Lawful, Accepted
  <2>5. Writers(prog, b) \ {cursor} \subseteq Ancestors(prog, cursor)
    BY <2>1, <2>4 DEF ReadsOrdered
  <2> QED
    BY <2>3, <2>5
<1> QED
  BY <1>1, OracleOrdered, PTL

LEMMA SameRelations ==
  /\ Executor!TaskIds(prog) = TaskIds(prog)
  /\ \A t : Executor!Pred(prog, t) = Pred(prog, t)
BY DEF Executor!TaskIds, Executor!Pred, Executor!Waits, Executor!Producers,
       TaskIds, Pred, Waits, Producers

LEMMA StepImplements ==
  ASSUME OInv, Ordered, [Next]_vars, Lawful(prog)
  PROVE  [Executor!Next]_(Executor!vars)
<1> USE DEF OInv
<1>0. prog' = prog /\ Lawful(prog')
  BY DEF Next, Step, vars, Bind, StartSweep, Return, SkipTask, BeginTask, CompleteTask, TaskRaises,
         NoProgress, EndSweep, RunAgain
<1>1. CASE BeginTask
  <2>1. /\ phase = "sweep" /\ phase' = "exec" /\ UNCHANGED <<prog, cursor, done>>
        /\ cursor \in TaskIds(prog) \ done /\ Ready(cursor)
    BY <1>1 DEF BeginTask
  <2>2. Pred(prog, cursor) \subseteq done
    BY <2>1, ReadyMeansPredecessorsDone DEF Lawful
  <2>3. Executor!Start(cursor)
    BY <1>0, <2>1, <2>2, SameRelations DEF Executor!Start, Ended
  <2> QED
    BY <2>1, <2>3, SameRelations DEF Executor!Next
<1>2. CASE CompleteTask
  <2>1. /\ phase = "exec" /\ phase' = "sweep" /\ prog' = prog /\ done' = done \cup {cursor}
        /\ cursor \in TaskIds(prog)
    BY <1>2 DEF CompleteTask, Executing
  <2>2. Executor!Finish(cursor)
    BY <1>0, <2>1 DEF Executor!Finish, Ended
  <2> QED
    BY <2>1, <2>2, SameRelations DEF Executor!Next
<1>3. CASE Return
  <2>1. /\ phase = "head" /\ phase' = "ok" /\ UNCHANGED <<prog, done>> /\ done = TaskIds(prog)
    BY <1>3 DEF Return
  <2> QED
    BY <1>0, <2>1, SameRelations DEF Executor!Next, Executor!Return, Ended
<1>4. CASE RunAgain
  <2>1. /\ phase \in Ended /\ phase' = "bind" /\ prog' = prog /\ done' = {}
    BY <1>4 DEF RunAgain
  <2> QED
    BY <1>0, <2>1 DEF Executor!Next, Executor!NextPass, Ended
<1>5. ASSUME phase \notin Ended, phase' \in {"stuck", "raised"}, UNCHANGED <<prog, done>>
      PROVE  Executor!Next
  BY <1>0, <1>5 DEF Executor!Next, Executor!Raise, Ended
<1>6. ASSUME phase \in {"bind", "head", "sweep"}, phase' \in {"bind", "head", "sweep"},
             UNCHANGED <<prog, done>>
      PROVE  UNCHANGED Executor!vars
  BY <1>0, <1>6 DEF Executor!vars, Ended
<1>7. CASE Bind
  BY <1>5, <1>6, <1>7 DEF Bind, Ended
<1>8. CASE StartSweep \/ SkipTask
  BY <1>6, <1>8 DEF StartSweep, SkipTask
<1>9. CASE TaskRaises
  BY <1>5, <1>9 DEF TaskRaises, Ended
<1>10. CASE NoProgress
  BY <1>5, <1>10 DEF NoProgress, Ended
<1>11. CASE EndSweep
  BY <1>5, <1>6, <1>11 DEF EndSweep, Ended
<1>12. CASE UNCHANGED vars
  BY <1>12 DEF vars, Executor!vars
<1> QED
  BY <1>1, <1>2, <1>3, <1>4, <1>7, <1>8, <1>9, <1>10, <1>11, <1>12 DEF Next, Step

(* Any other program is mapped to an executor at rest.                     *)
LEMMA UnlawfulStutters ==
  ASSUME [Next]_vars, ~ Lawful(prog)
  PROVE  UNCHANGED Executor!vars
<1>1. prog' = prog /\ ~ Lawful(prog')
  BY DEF Next, Step, vars, Bind, StartSweep, Return, SkipTask, BeginTask, CompleteTask, TaskRaises,
         NoProgress, EndSweep, RunAgain
<1> QED
  BY <1>1 DEF Executor!vars

(* The oracle and the CUDA scheduler implement one abstract executor.      *)
THEOREM OracleRefinement == Spec => ImplementsTaskGraph
<1>1. Init => Executor!Init
  BY DEF Init, Executor!Init, Ended
<1>2. (OInv /\ Ordered) /\ [Next]_vars => [Executor!Next]_(Executor!vars)
  BY StepImplements, UnlawfulStutters
<1> QED
  BY <1>1, <1>2, OracleOrdered, PTL DEF Spec, ImplementsTaskGraph, Executor!Spec

-----------------------------------------------------------------------------
(***************************************************************************)
(* The simulations.                                                        *)
(***************************************************************************)
CountsFired ==
  \A c \in DOMAIN program.counters :
    count[c] = program.counters[c] + Cardinality(fired \cap Producers(program, c))

SimInv ==
  /\ program \in Simulated
  /\ count \in [DOMAIN program.counters -> Nat]
  /\ fired \subseteq TaskIds(program)
  /\ CountsFired
  /\ \A S \in SUBSET TaskIds(program) : Blocked(S) => S \cap fired = {}

Fresh == \A c \in DOMAIN program.counters : program.counters[c] = 0

(* On accepted programs: what is fired is closed under predecessors, a      *)
(* buffer some fired task writes is written, and no read came too early.    *)
Checked == Accepted(program) /\ Len(program.tasks) <= PROVENANCE_MAX_TASKS /\ Fresh

Early ==
  Checked =>
    /\ PredClosed(program, fired)
    /\ \A b \in DOMAIN program.buffers :
         b \in Prewritten(program) \/ Writers(program, b) \cap fired # {} => b \in written
    /\ \A f \in flagged : Writers(program, f[2]) = {f[1]}

-----------------------------------------------------------------------------
LEMMA SimulatedFacts ==
  ASSUME NEW p \in Simulated
  PROVE  /\ IsProgram(p)
         /\ p.counters \in [DOMAIN p.counters -> Nat]
         /\ Len(p.tasks) \in Nat
         /\ \A t \in TaskIds(p) :
              /\ p.tasks[t].out_counter \in DOMAIN p.counters
              /\ \A w \in Waits(p, t) : w.counter \in DOMAIN p.counters /\ w.threshold \in Int
BY SimulatedAssumption, WaitTypes DEF IsProgram

(* A task of a blocked set that has not begun to fire is not ready.        *)
LEMMA BlockedNotReady ==
  ASSUME SimInv, NEW S \in SUBSET TaskIds(program), Blocked(S), NEW t \in S
  PROVE  ~ MayFire(t)
<1>1. /\ IsProgram(program) /\ t \in TaskIds(program)
      /\ fired \in SUBSET TaskIds(program) /\ S \cap fired = {}
  BY SimulatedFacts DEF SimInv
<1>2. PICK w \in Waits(program, t) :
        program.counters[w.counter]
          + Cardinality((TaskIds(program) \ S) \cap Producers(program, w.counter)) < w.threshold
  BY DEF Blocked
<1> DEFINE n == Cardinality(fired \cap Producers(program, w.counter))
           m == Cardinality((TaskIds(program) \ S) \cap Producers(program, w.counter))
<1>3. n \in Nat /\ m \in Nat /\ n <= m
  <2>1. TaskIds(program) \ S \in SUBSET TaskIds(program) /\ fired \subseteq TaskIds(program) \ S
    BY <1>1
  <2> QED
    BY <1>1, <2>1, CountInSubset
<1>4. /\ w.counter \in DOMAIN program.counters /\ w.threshold \in Int
      /\ program.counters[w.counter] \in Nat
  BY <1>1, SimulatedFacts DEF SimInv
<1>5. count[w.counter] = program.counters[w.counter] + n
  BY <1>4 DEF SimInv, CountsFired
<1> HIDE DEF n, m
<1>6. count[w.counter] < w.threshold
  BY <1>2, <1>3, <1>4, <1>5 DEF m
<1>7. ~ (count[w.counter] >= w.threshold)
  BY <1>3, <1>4, <1>5, <1>6
<1> QED
  BY <1>7 DEF MayFire

LEMMA SimInitInv == SimInit => SimInv
<1> SUFFICES ASSUME SimInit PROVE SimInv
  OBVIOUS
<1>1. \A c : {} \cap Producers(program, c) = {}
  OBVIOUS
<1>2. Cardinality({}) = 0
  BY FS_EmptySet
<1>3. program \in Simulated /\ count = program.counters /\ fired = {}
  BY DEF SimInit
<1>4. program.counters \in [DOMAIN program.counters -> Nat]
  BY <1>3, SimulatedFacts
<1>5. CountsFired
  BY <1>1, <1>2, <1>3, <1>4 DEF CountsFired
<1> QED
  BY <1>3, <1>4, <1>5 DEF SimInv

LEMMA FireInv ==
  ASSUME SimInv, NEW t \in TaskIds(program), Fire(t)
  PROVE  SimInv'
<1>1. /\ program' = program /\ program \in Simulated
      /\ fired' = fired \cup {t} /\ fired \in SUBSET TaskIds(program) /\ t \in TaskIds(program) \ fired
      /\ count' = [count EXCEPT ![program.tasks[t].out_counter] = @ + 1]
      /\ count \in [DOMAIN program.counters -> Nat]
      /\ IsProgram(program)
      /\ program.tasks[t].out_counter \in DOMAIN program.counters
  BY SimulatedFacts DEF SimInv, Fire
<1>2. count' \in [DOMAIN program.counters -> Nat]
  BY <1>1
<1>3. CountsFired'
  <2> SUFFICES ASSUME NEW c \in DOMAIN program.counters
               PROVE  count'[c] = program.counters[c] + Cardinality(fired' \cap Producers(program, c))
    BY <1>1 DEF CountsFired, Producers, TaskIds
  <2>1. count[c] = program.counters[c] + Cardinality(fired \cap Producers(program, c))
    BY DEF SimInv, CountsFired
  <2>2. Cardinality(fired \cap Producers(program, c)) \in Nat /\ program.counters[c] \in Nat
    BY <1>1, CountInSubset, SimulatedFacts
  <2>3. count'[c] = IF program.tasks[t].out_counter = c THEN count[c] + 1 ELSE count[c]
    BY <1>1
  <2>4. CASE program.tasks[t].out_counter = c
    <3>1. Cardinality((fired \cup {t}) \cap Producers(program, c)) =
            Cardinality(fired \cap Producers(program, c)) + 1
      BY <1>1, <2>4, CountOneMore
    <3> QED
      BY <1>1, <2>1, <2>2, <2>3, <2>4, <3>1
  <2>5. CASE program.tasks[t].out_counter # c
    <3>1. Cardinality((fired \cup {t}) \cap Producers(program, c)) =
            Cardinality(fired \cap Producers(program, c))
      BY <1>1, <2>5, CountOneMore
    <3> QED
      BY <1>1, <2>1, <2>2, <2>3, <2>5, <3>1
  <2> QED
    BY <2>4, <2>5
<1>4. ASSUME NEW S \in SUBSET TaskIds(program), Blocked(S)
      PROVE  S \cap (fired \cup {t}) = {}
  <2>1. S \cap fired = {}
    BY <1>4 DEF SimInv
  <2>2. t \notin S
    BY <1>4, BlockedNotReady DEF Fire
  <2> QED
    BY <2>1, <2>2
<1>5. \A S \in SUBSET TaskIds(program') : Blocked(S)' => S \cap fired' = {}
  <2>1. \A S : Blocked(S)' = Blocked(S)
    BY <1>1 DEF Blocked, TaskIds, Waits, Producers
  <2> QED
    BY <1>1, <1>4, <2>1
<1> QED
  BY <1>1, <1>2, <1>3, <1>5 DEF SimInv

LEMMA SimNextInv == SimInv /\ [SimNext]_simvars => SimInv'
<1> SUFFICES ASSUME SimInv, [SimNext]_simvars PROVE SimInv'
  OBVIOUS
<1>1. CASE SimNext
  BY <1>1, FireInv DEF SimNext
<1>2. CASE UNCHANGED simvars
  BY <1>2 DEF simvars, SimInv, CountsFired, Blocked
<1> QED
  BY <1>1, <1>2

(* The invariant of the two simulations: what has fired, what it counted,  *)
(* and that nothing unreachable is among it.                               *)
THEOREM SimulatorInvariance == SimSpec => []SimInv
<1> QED
  BY SimInitInv, SimNextInv, PTL DEF SimSpec

(* Type correctness: the buffers' part is inductive given SimInv.            *)
BuffersTyped ==
  /\ written \subseteq DOMAIN program.buffers
  /\ flagged \subseteq TaskIds(program) \X DOMAIN program.buffers

LEMMA FireBuffersTyped ==
  ASSUME SimInv, BuffersTyped, NEW t \in TaskIds(program), Fire(t)
  PROVE  BuffersTyped'
<1>1. program' = program
  BY DEF Fire
<1>2. program.tasks[t].inputs \cup program.tasks[t].outputs \subseteq DOMAIN program.buffers
  BY SimulatedAssumption DEF SimInv
<1>3. /\ written' = written \cup program.tasks[t].outputs
      /\ flagged' = flagged \cup {<<t, b>> : b \in program.tasks[t].inputs \ written}
  BY DEF Fire
<1>4. written' \subseteq DOMAIN program.buffers
  BY <1>2, <1>3 DEF BuffersTyped
<1>5. flagged' \subseteq TaskIds(program) \X DOMAIN program.buffers
  BY <1>2, <1>3 DEF BuffersTyped
<1> QED
  BY <1>1, <1>4, <1>5 DEF BuffersTyped, TaskIds

(* Type correctness of the simulations: they fire tasks of the program and *)
(* report its tasks and buffers.                                           *)
THEOREM SimulatorTypes == SimSpec => []SimTypeOK
<1>1. SimInit => BuffersTyped
  BY DEF SimInit, BuffersTyped, Prewritten
<1>2. SimInv /\ BuffersTyped /\ [SimNext]_simvars => BuffersTyped'
  <2> SUFFICES ASSUME SimInv, BuffersTyped, [SimNext]_simvars PROVE BuffersTyped'
    OBVIOUS
  <2>1. CASE \E t \in TaskIds(program) : Fire(t)
    BY <2>1, FireBuffersTyped
  <2>2. CASE UNCHANGED simvars
    BY <2>2 DEF simvars, BuffersTyped, TaskIds
  <2> QED
    BY <2>1, <2>2 DEF SimNext
<1>3. SimInv /\ BuffersTyped => SimTypeOK
  BY DEF SimInv, BuffersTyped, SimTypeOK
<1> QED
  BY <1>1, <1>2, <1>3, SimulatorInvariance, PTL DEF SimSpec

(* What is left when nothing is ready can be fired in no order at all.     *)
LEMMA LeftIsBlocked ==
  ASSUME SimInv, AtRest
  PROVE  Blocked(TaskIds(program) \ fired)
<1> SUFFICES ASSUME NEW t \in TaskIds(program) \ fired
             PROVE  \E w \in Waits(program, t) :
                      program.counters[w.counter]
                        + Cardinality((TaskIds(program) \ (TaskIds(program) \ fired))
                                        \cap Producers(program, w.counter)) < w.threshold
  BY DEF Blocked
<1>1. PICK w \in Waits(program, t) : ~ (count[w.counter] >= w.threshold)
  BY DEF AtRest, MayFire
<1>2. TaskIds(program) \ (TaskIds(program) \ fired) = fired
  BY DEF SimInv
<1>3. /\ w.counter \in DOMAIN program.counters /\ w.threshold \in Int
      /\ count[w.counter] \in Nat
  BY SimulatedFacts DEF SimInv
<1>4. count[w.counter] =
        program.counters[w.counter] + Cardinality(fired \cap Producers(program, w.counter))
  BY <1>3 DEF SimInv, CountsFired
<1>5. count[w.counter] < w.threshold
  BY <1>1, <1>3
<1> QED
  BY <1>2, <1>4, <1>5

(* simulate_counters reports a task as stuck exactly if no order of firing *)
(* reaches it.                                                             *)
THEOREM StuckUnavoidable == SimSpec => []StuckIsUnavoidable
<1>1. SimInv => StuckIsUnavoidable
  BY LeftIsBlocked DEF StuckIsUnavoidable, SimInv
<1> QED
  BY <1>1, SimulatorInvariance, PTL

(* simulate_counters leaves no task of a program validate() accepts        *)
(* unfired, in whatever order it fires them.                               *)
THEOREM AcceptedFires == SimSpec => []AcceptedNeverStuck
<1>1. ASSUME SimInv, AtRest, Accepted(program) PROVE fired = TaskIds(program)
  <2> SUFFICES ASSUME fired # TaskIds(program) PROVE FALSE
    OBVIOUS
  <2>1. IsProgram(program) /\ fired \in SUBSET TaskIds(program)
    BY <1>1, SimulatedFacts DEF SimInv
  <2>2. PICK t \in TaskIds(program) \ fired : Pred(program, t) \subseteq fired
    BY <1>1, <2>1, SomeTaskIsNext
  <2>3. PICK w \in Waits(program, t) : ~ (count[w.counter] >= w.threshold)
    BY <1>1, <2>2 DEF AtRest, MayFire
  <2> DEFINE n == Cardinality(fired \cap Producers(program, w.counter))
  <2>4. n \in Nat /\ n = w.threshold
    BY <1>1, <2>1, <2>2, CompleteMeansJoined
  <2>5. w.counter \in DOMAIN program.counters /\ program.counters[w.counter] \in Nat
    BY <1>1, SimulatedFacts DEF SimInv
  <2>6. count[w.counter] = program.counters[w.counter] + n
    BY <1>1, <2>5 DEF SimInv, CountsFired
  <2> QED
    BY <2>3, <2>4, <2>5, <2>6
<1>2. SimInv => AcceptedNeverStuck
  BY <1>1 DEF AcceptedNeverStuck
<1> QED
  BY <1>2, SimulatorInvariance, PTL

-----------------------------------------------------------------------------
(* Early reads.                                                            *)

LEMMA MayFireMeansPredecessorsFired ==
  ASSUME SimInv, Accepted(program), Fresh, NEW t \in TaskIds(program), MayFire(t)
  PROVE  Pred(program, t) \subseteq fired
<1>1. IsProgram(program) /\ fired \in SUBSET TaskIds(program)
  BY SimulatedFacts DEF SimInv
<1>2. ASSUME NEW w \in Waits(program, t)
      PROVE  Cardinality(fired \cap Producers(program, w.counter)) >= w.threshold
  <2> DEFINE n == Cardinality(fired \cap Producers(program, w.counter))
  <2>1. w.counter \in DOMAIN program.counters /\ program.counters[w.counter] = 0
    BY SimulatedFacts DEF SimInv, Fresh
  <2>2. n \in Nat
    BY <1>1, CountInSubset
  <2>3. count[w.counter] = n
    BY <2>1, <2>2 DEF SimInv, CountsFired
  <2> QED
    BY <2>3 DEF MayFire
<1> QED
  BY <1>1, <1>2, JoinedMeansComplete

LEMMA InitEarly == SimInit => Early
BY DEF SimInit, Early, PredClosed

LEMMA FireEarly ==
  ASSUME SimInv, Early, NEW t \in TaskIds(program), Fire(t)
  PROVE  Early'
<1>1. /\ program' = program /\ program \in Simulated
      /\ fired' = fired \cup {t} /\ fired \in SUBSET TaskIds(program) /\ t \in TaskIds(program) \ fired
      /\ MayFire(t)
      /\ written' = written \cup program.tasks[t].outputs
      /\ flagged' = flagged \cup {<<t, b>> : b \in program.tasks[t].inputs \ written}
  BY DEF SimInv, Fire
<1>2. Checked' = Checked
  BY <1>1 DEF Checked, Fresh
<1> SUFFICES ASSUME Checked
             PROVE  /\ PredClosed(program, fired \cup {t})
                    /\ \A b \in DOMAIN program.buffers :
                         b \in Prewritten(program) \/ Writers(program, b) \cap (fired \cup {t}) # {}
                           => b \in written'
                    /\ \A f \in flagged' : Writers(program, f[2]) = {f[1]}
  BY <1>1, <1>2 DEF Early
<1>3. Accepted(program) /\ ReadsOrdered(program) /\ WellFormed(program)
  BY DEF Checked, Accepted
<1>4. Pred(program, t) \subseteq fired
  BY <1>1, <1>3, MayFireMeansPredecessorsFired DEF Checked
<1>5. PredClosed(program, fired \cup {t})
  BY <1>4 DEF Early, PredClosed
<1>6. ASSUME NEW b \in DOMAIN program.buffers,
             b \in Prewritten(program) \/ Writers(program, b) \cap (fired \cup {t}) # {}
      PROVE  b \in written'
  <2>1. CASE b \in Prewritten(program) \/ Writers(program, b) \cap fired # {}
    BY <1>1, <1>6, <2>1 DEF Early
  <2>2. CASE t \in Writers(program, b)
    BY <1>1, <2>2 DEF Writers
  <2> QED
    BY <1>6, <2>1, <2>2
<1>7. ASSUME NEW b \in program.tasks[t].inputs, b \notin written
      PROVE  Writers(program, b) = {t}
  <2>1. b \in DOMAIN program.buffers
    BY <1>1, <1>3 DEF WellFormed
  <2>2. Transient(program, b) /\ (program.buffers[b] = "KV_CACHE" => Writers(program, b) # {})
    BY <1>7, <2>1 DEF Early, Prewritten
  <2>3. Writers(program, b) \cap fired = {}
    BY <1>7, <2>1 DEF Early
  <2>4. /\ program.buffers[b] # "KV_CACHE" => Writers(program, b) # {}
        /\ Writers(program, b) \ {t} \subseteq Ancestors(program, t)
    BY <1>1, <1>3, <2>2 DEF ReadsOrdered
  <2>5. PredClosed(program, fired)
    BY DEF Early
  <2>6. Ancestors(program, t) \subseteq fired
    BY <1>1, <1>4, <2>5, AncestorsInClosedSet
  <2> QED
    BY <2>2, <2>3, <2>4, <2>6
<1>8. \A f \in flagged' : Writers(program, f[2]) = {f[1]}
  BY <1>1, <1>7 DEF Early
<1> QED
  BY <1>5, <1>6, <1>8

LEMMA NextEarly == SimInv /\ Early /\ [SimNext]_simvars => Early'
<1> SUFFICES ASSUME SimInv, Early, [SimNext]_simvars PROVE Early'
  OBVIOUS
<1>1. CASE SimNext
  BY <1>1, FireEarly DEF SimNext
<1>2. CASE UNCHANGED simvars
  BY <1>2 DEF simvars, Early, Checked, Fresh
<1> QED
  BY <1>1, <1>2

(* simulate_adversarial, on a program validate() accepts, never reports a  *)
(* read that some order of the producers could have served: only tasks     *)
(* that read a buffer nobody else writes.                                  *)
THEOREM OnlyInPlaceReadsFlagged == SimSpec => []FlagsOnlyInPlace
<1>1. SimInit => Early
  BY InitEarly
<1>2. SimInv /\ Early /\ [SimNext]_simvars => Early'
  BY NextEarly
<1>3. Early => FlagsOnlyInPlace
  BY DEF Early, Checked, Fresh, FlagsOnlyInPlace
<1> QED
  BY <1>1, <1>2, <1>3, SimulatorInvariance, PTL DEF SimSpec
=============================================================================
