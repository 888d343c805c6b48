-------------------------- MODULE MegakernelVMProofs --------------------------
(***************************************************************************)
(* Theorems about MegakernelVM for every set of launches, any number of    *)
(* blocks, tasks, counters and passes.                                     *)
(***************************************************************************)
EXTENDS MegakernelVM, ScheduleFacts

(* What a launch is given and never changes.                               *)
LaunchOK ==
  /\ IsProgram(prog)
  /\ queues \in [Blocks -> Seq(TaskIds(prog))]
  /\ Accepted(prog)
  /\ LaunchContract(prog, queues)

(* A task that has been announced was fenced; the predecessors of a task   *)
(* that is or was in flight have retired.                                  *)
Announced ==
  /\ Retired \subseteq visible
  /\ \A b \in Blocks : pc[b] = "add" => Current(b) \in visible

PredecessorsRetired ==
  /\ PredClosed(prog, Retired)
  /\ \A b \in InFlight : Pred(prog, Current(b)) \subseteq Retired

(* While the flag is clear, a block leaves the loop only at the end of its *)
(* queue, and no trapping task has computed.                               *)
CleanSoFar ==
  (host \in {"launched", "ok"} /\ ~ abort) =>
    /\ \A b \in Blocks : pc[b] \in {"exit", "done"} => qi[b] = Len(queues[b]) + 1
    /\ \A t \in visible : prog.tasks[t].op \in DeviceOps
    /\ \A b \in Blocks : pc[b] = "fence" => CurrentTask(b).op \in DeviceOps

ReturnedClean ==
  host = "ok" => ~ abort /\ \A b \in Blocks : pc[b] = "done"

Idle ==
  host # "launched" => \A b \in Blocks : pc[b] = "done"

IInv ==
  /\ LaunchOK
  /\ TypeOK
  /\ CountersCountRetired
  /\ Announced
  /\ PredecessorsRetired
  /\ CleanSoFar
  /\ ReturnedClean
  /\ Idle

-----------------------------------------------------------------------------
(* The queues of a launch.                                                 *)

LEMMA SlotsAreUnique ==
  ASSUME LaunchOK, NEW b \in Blocks, NEW c \in Blocks,
         NEW i \in DOMAIN queues[b], NEW j \in DOMAIN queues[c],
         queues[b][i] = queues[c][j]
  PROVE  b = c /\ i = j
BY DEF LaunchOK, LaunchContract, QueuesPartition, Blocks

LEMMA SlotIsTask ==
  ASSUME LaunchOK, NEW b \in Blocks, NEW i \in DOMAIN queues[b]
  PROVE  /\ queues[b][i] \in TaskIds(prog)
         /\ prog.tasks[queues[b][i]] \in TaskType
         /\ i \in Nat /\ i >= 1 /\ i <= Len(queues[b])
         /\ Len(queues[b]) \in Nat
<1>1. queues[b] \in Seq(TaskIds(prog))
  BY DEF LaunchOK
<1>2. queues[b][i] \in TaskIds(prog)
  BY <1>1
<1>3. prog.tasks[queues[b][i]] \in TaskType
  BY <1>2 DEF LaunchOK, IsProgram, TaskIds
<1> QED
  BY <1>1, <1>2, <1>3

-----------------------------------------------------------------------------
(* Retired and the in-flight tasks.                                        *)

LEMMA InFlightNotRetired ==
  ASSUME LaunchOK, TypeOK, NEW b \in InFlight
  PROVE  /\ Current(b) \in TaskIds(prog)
         /\ Current(b) \notin Retired
<1>1. b \in Blocks /\ qi[b] \in DOMAIN queues[b]
  BY DEF InFlight, TypeOK
<1>2. Current(b) \in TaskIds(prog)
  BY <1>1, SlotIsTask DEF Current
<1>3. ASSUME Current(b) \in Retired PROVE FALSE
  <2>1. PICK c \in Blocks : \E i \in DOMAIN queues[c] : i < qi[c] /\ queues[c][i] = Current(b)
    BY <1>3 DEF Retired
  <2>2. PICK i \in DOMAIN queues[c] : i < qi[c] /\ queues[c][i] = Current(b)
    BY <2>1
  <2>3. c = b /\ i = qi[b]
    BY <1>1, <2>2, SlotsAreUnique DEF Current
  <2> QED
    BY <1>1, <2>2, <2>3, SlotIsTask
<1> QED
  BY <1>2, <1>3

LEMMA InFlightDistinct ==
  ASSUME LaunchOK, TypeOK, NEW b \in InFlight, NEW c \in InFlight, b # c
  PROVE  Current(b) # Current(c)
<1>1. /\ b \in Blocks /\ qi[b] \in DOMAIN queues[b]
      /\ c \in Blocks /\ qi[c] \in DOMAIN queues[c]
  BY DEF InFlight, TypeOK
<1> QED
  BY <1>1, SlotsAreUnique DEF Current

(* The counters a block waited for stand for all their producers.          *)
LEMMA ReadyMeansRetired ==
  ASSUME LaunchOK, TypeOK, CountersCountRetired,
         NEW b \in Blocks, qi[b] \in DOMAIN queues[b], WaitsReady(b)
  PROVE  Pred(prog, Current(b)) \subseteq Retired
<1> DEFINE t == Current(b)
<1>1. t \in TaskIds(prog) /\ prog.tasks[t] \in TaskType
  BY SlotIsTask DEF Current
<1>2. ASSUME NEW w \in Waits(prog, t)
      PROVE  Cardinality(Retired \cap Producers(prog, w.counter)) >= w.threshold
  <2>1. PICK i \in DOMAIN prog.tasks[t].waits : w = prog.tasks[t].waits[i]
    BY <1>2 DEF Waits
  <2>2. i <= ABI_MAX_WAITS
    <3>1. prog.tasks[t].waits \in Seq(WaitType)
      BY <1>1 DEF TaskType
    <3>2. Len(prog.tasks[t].waits) <= ABI_MAX_WAITS
      BY <1>1 DEF LaunchOK, Accepted, WellFormed
    <3> QED
      BY <3>1, <3>2, <2>1, AbiAssumption
  <2>3. counters[w.counter] >= w.threshold
    BY <2>1, <2>2 DEF WaitsReady, CurrentTask
  <2>4. w.counter \in DOMAIN counters
    BY <1>1, <1>2, WaitIsJoin DEF LaunchOK, TypeOK
  <2> QED
    BY <2>3, <2>4 DEF CountersCountRetired
<1>3. Retired \in SUBSET TaskIds(prog)
  BY DEF Retired
<1> QED
  BY <1>1, <1>2, <1>3, JoinedMeansComplete DEF LaunchOK

-----------------------------------------------------------------------------
(* Initial states.                                                         *)

LEMMA FreshRetired ==
  ASSUME LaunchOK, qi = [b \in Blocks |-> 1]
  PROVE  Retired = {}
<1> SUFFICES ASSUME NEW b \in Blocks, NEW i \in DOMAIN queues[b], i < qi[b] PROVE FALSE
  BY DEF Retired
<1> QED
  BY SlotIsTask

LEMMA FreshIInv ==
  ASSUME LaunchOK, FreshLaunch, host = "launched", passes \in Nat
  PROVE  IInv
<1>1. Retired = {}
  BY FreshRetired DEF FreshLaunch
<1>2. \A b \in Blocks : pc[b] = "start" /\ qi[b] = 1
  BY DEF FreshLaunch
<1>3. InFlight = {}
  BY <1>2 DEF InFlight
<1>4. TypeOK
  <2>1. \A b \in Blocks : Len(queues[b]) \in Nat
    BY DEF LaunchOK
  <2>2. /\ pc \in [Blocks -> {"start", "entry", "wait", "dispatch", "fence", "add", "exit", "done"}]
        /\ qi \in [Blocks -> Nat \ {0}]
    BY DEF FreshLaunch
  <2>4. counters \in [DOMAIN prog.counters -> Nat]
    BY DEF FreshLaunch
  <2>5. abort \in BOOLEAN /\ visible \subseteq TaskIds(prog)
    BY DEF FreshLaunch
  <2>3. \A b \in Blocks : qi[b] <= Len(queues[b]) + 1
    BY <1>2, <2>1
  <2> QED
    BY <1>3, <2>2, <2>3, <2>4, <2>5 DEF TypeOK
<1>5. CountersCountRetired
  BY <1>1, FS_EmptySet DEF FreshLaunch, CountersCountRetired
<1>6. Announced /\ PredecessorsRetired /\ CleanSoFar /\ ReturnedClean /\ Idle
  BY <1>1, <1>2, <1>3
     DEF FreshLaunch, Announced, PredecessorsRetired, PredClosed, CleanSoFar, ReturnedClean, Idle
<1> QED
  BY <1>4, <1>5, <1>6 DEF IInv

LEMMA FreshLaunchIInv ==
  LaunchOK /\ FreshLaunch /\ host = "launched" /\ passes \in Nat => IInv
BY FreshIInv

LEMMA InitIInv == Init => IInv
<1> SUFFICES ASSUME Init PROVE IInv
  OBVIOUS
<1>1. PICK l \in Launchable : prog = l.prog /\ queues = l.queues
  BY DEF Init
<1>2. LaunchOK
  BY <1>1, LaunchesAssumption DEF Launchable, LaunchOK, Blocks
<1> QED
  BY <1>2, FreshIInv DEF Init

-----------------------------------------------------------------------------
(* Steps.                                                                  *)

LEMMA SameQueueIndex ==
  ASSUME UNCHANGED <<prog, queues, qi>>
  PROVE  /\ Blocks' = Blocks
         /\ Retired' = Retired
         /\ \A b \in Blocks : Current(b)' = Current(b) /\ CurrentTask(b)' = CurrentTask(b)
BY DEF Blocks, Retired, Current, CurrentTask, TaskIds

LEMMA SameLaunch ==
  ASSUME LaunchOK, UNCHANGED <<prog, queues>>
  PROVE  LaunchOK'
BY DEF LaunchOK, Blocks

(* A step that moves one block and leaves the queue indices alone keeps    *)
(* the invariant if it keeps the types and its target location is covered. *)
LEMMA LocationStep ==
  ASSUME IInv, NEW b \in Blocks, host = "launched", NEW from, NEW to, Goto(b, from, to),
         to \in {"entry", "wait", "dispatch", "fence", "add", "exit", "done"},
         UNCHANGED <<prog, queues, qi, counters, host, passes>>,
         (abort' = abort \/ abort') /\ abort' \in BOOLEAN,
         visible' = visible \/ (visible' = visible \cup {Current(b)} /\ from = "fence"),
         from \in {"dispatch", "fence", "add"}
           \/ to \notin {"dispatch", "fence", "add"}
           \/ (to = "dispatch" /\ qi[b] \in DOMAIN queues[b] /\ WaitsReady(b)),
         to = "add" => Current(b) \in visible',
         to = "fence" => (CurrentTask(b).op \in DeviceOps \/ abort'),
         to = "exit" => (qi[b] \notin DOMAIN queues[b] \/ abort),
         to = "done" => from = "exit"
  PROVE  IInv'
<1> USE DEF IInv
<1>1. LaunchOK'
  BY SameLaunch
<1>2. /\ Blocks' = Blocks
      /\ Retired' = Retired
      /\ \A c \in Blocks : Current(c)' = Current(c) /\ CurrentTask(c)' = CurrentTask(c)
  BY SameQueueIndex
<1>3. /\ pc[b] = from
      /\ pc' \in [Blocks -> {"start", "entry", "wait", "dispatch", "fence", "add", "exit", "done"}]
      /\ pc'[b] = to
      /\ \A c \in Blocks : c # b => pc'[c] = pc[c]
  BY DEF Goto, TypeOK
<1>4. /\ InFlight' \subseteq InFlight \cup {b}
      /\ b \in InFlight' => b \in InFlight \/ (qi[b] \in DOMAIN queues[b] /\ WaitsReady(b))
  BY <1>2, <1>3 DEF InFlight
<1>5. Current(b) \in TaskIds(prog) \/ visible' = visible
  <2>1. CASE from = "fence"
    BY <2>1, <1>3, InFlightNotRetired DEF InFlight
  <2> QED
    BY <2>1
<1>6. TypeOK'
  <2>1. \A c \in InFlight' : qi[c] \in DOMAIN queues[c]
    BY <1>4 DEF TypeOK
  <2>2. visible' \subseteq TaskIds(prog)
    BY <1>5 DEF TypeOK
  <2> QED
    BY <1>2, <1>3, <2>1, <2>2 DEF TypeOK
<1>7. CountersCountRetired'
  BY <1>2 DEF CountersCountRetired
<1>8. Announced'
  BY <1>2, <1>3 DEF Announced
<1>9. PredecessorsRetired'
  <2>1. \A c \in InFlight' : Pred(prog, Current(c)) \subseteq Retired
    <3> SUFFICES ASSUME NEW c \in InFlight' PROVE Pred(prog, Current(c)) \subseteq Retired
      OBVIOUS
    <3>1. CASE c \in InFlight
      BY <3>1 DEF PredecessorsRetired
    <3>2. CASE c \notin InFlight
      BY <3>2, <1>4, ReadyMeansRetired
    <3> QED
      BY <3>1, <3>2
  <2>2. \A c \in InFlight' : c \in Blocks
    BY <1>2 DEF InFlight
  <2> QED
    BY <1>2, <2>1, <2>2 DEF PredecessorsRetired, PredClosed
<1>10. CleanSoFar'
  <2> SUFFICES ASSUME ~ abort'
               PROVE  /\ \A c \in Blocks : pc'[c] \in {"exit", "done"} => qi[c] = Len(queues[c]) + 1
                      /\ \A t \in visible' : prog.tasks[t].op \in DeviceOps
                      /\ \A c \in Blocks : pc'[c] = "fence" => CurrentTask(c).op \in DeviceOps
    BY <1>2 DEF CleanSoFar
  <2>1. /\ \A c \in Blocks : pc[c] \in {"exit", "done"} => qi[c] = Len(queues[c]) + 1
        /\ \A t \in visible : prog.tasks[t].op \in DeviceOps
        /\ \A c \in Blocks : pc[c] = "fence" => CurrentTask(c).op \in DeviceOps
    BY DEF CleanSoFar
  <2>2. \A c \in Blocks : pc'[c] \in {"exit", "done"} => qi[c] = Len(queues[c]) + 1
    <3>1. Len(queues[b]) \in Nat /\ DOMAIN queues[b] = 1 .. Len(queues[b])
      BY DEF LaunchOK
    <3>2. qi[b] \in Nat \ {0} /\ qi[b] <= Len(queues[b]) + 1
      BY DEF TypeOK
    <3>3. pc'[b] = "exit" => qi[b] = Len(queues[b]) + 1
      BY <1>3, <3>1, <3>2
    <3> QED
      BY <1>3, <2>1, <3>3
  <2>3. \A t \in visible' : prog.tasks[t].op \in DeviceOps
    BY <1>3, <2>1 DEF CurrentTask
  <2>4. \A c \in Blocks : pc'[c] = "fence" => CurrentTask(c).op \in DeviceOps
    BY <1>3, <2>1
  <2> QED
    BY <2>2, <2>3, <2>4
<1>11. ReturnedClean' /\ Idle'
  BY DEF ReturnedClean, Idle
<1> QED
  BY <1>1, <1>6, <1>7, <1>8, <1>9, <1>10, <1>11

(* amk_signal: exactly one more task is retired, and exactly its counter   *)
(* advances.                                                               *)
LEMMA SignalRetires ==
  ASSUME LaunchOK, TypeOK, NEW b \in Blocks, pc[b] = "add", Signal(b), UNCHANGED <<prog, queues>>
  PROVE  Retired' = Retired \cup {Current(b)}
<1>1. b \in InFlight /\ qi[b] \in DOMAIN queues[b]
  BY DEF InFlight, TypeOK
<1>2. /\ Blocks' = Blocks /\ TaskIds(prog)' = TaskIds(prog)
      /\ qi'[b] = qi[b] + 1
      /\ \A c \in Blocks : c # b => qi'[c] = qi[c]
  BY DEF Signal, Blocks, TypeOK
<1>3. Current(b) \in TaskIds(prog)
  BY <1>1, InFlightNotRetired
<1>4. ASSUME NEW t \in Retired' PROVE t \in Retired \cup {Current(b)}
  <2>1. t \in TaskIds(prog)
    BY <1>2 DEF Retired
  <2>2. PICK c \in Blocks : \E i \in DOMAIN queues[c] : i < qi'[c] /\ queues[c][i] = t
    BY <1>2 DEF Retired
  <2>3. PICK i \in DOMAIN queues[c] : i < qi'[c] /\ queues[c][i] = t
    BY <2>2
  <2>4. i \in Nat /\ qi[b] \in Nat
    BY SlotIsTask DEF TypeOK
  <2>5. (c = b /\ i = qi[b]) \/ i < qi[c]
    BY <1>2, <2>3, <2>4
  <2> QED
    BY <2>1, <2>3, <2>5 DEF Retired, Current
<1>5. ASSUME NEW t \in Retired PROVE t \in Retired'
  <2>1. t \in TaskIds(prog)
    BY DEF Retired
  <2>2. PICK c \in Blocks : \E i \in DOMAIN queues[c] : i < qi[c] /\ queues[c][i] = t
    BY DEF Retired
  <2>3. PICK i \in DOMAIN queues[c] : i < qi[c] /\ queues[c][i] = t
    BY <2>2
  <2>4. i \in Nat /\ qi[b] \in Nat /\ qi[c] \in Nat
    BY SlotIsTask DEF TypeOK
  <2>5. i < qi'[c]
    BY <1>2, <2>3, <2>4
  <2> QED
    BY <1>2, <2>1, <2>3, <2>5 DEF Retired
<1>6. Current(b) \in Retired'
  <2>1. qi[b] \in Nat /\ qi[b] < qi'[b]
    BY <1>2 DEF TypeOK
  <2> QED
    BY <1>1, <1>2, <1>3, <2>1 DEF Retired, Current
<1> QED
  BY <1>4, <1>5, <1>6

LEMMA SignalStep ==
  ASSUME IInv, NEW b \in Blocks, host = "launched", Signal(b), UNCHANGED <<prog, queues, host, passes>>
  PROVE  IInv'
<1> USE DEF IInv
<1> DEFINE t == Current(b)
<1>1. LaunchOK' /\ Blocks' = Blocks /\ TaskIds(prog)' = TaskIds(prog)
  BY SameLaunch DEF Blocks
<1>2. /\ pc[b] = "add" /\ b \in InFlight /\ qi[b] \in DOMAIN queues[b]
      /\ pc' \in [Blocks -> {"start", "entry", "wait", "dispatch", "fence", "add", "exit", "done"}]
      /\ pc'[b] = "wait"
      /\ \A c \in Blocks : c # b => pc'[c] = pc[c]
  BY DEF Signal, Goto, TypeOK, InFlight
<1>3. /\ qi' \in [Blocks -> Nat \ {0}]
      /\ qi'[b] = qi[b] + 1
      /\ \A c \in Blocks : c # b => qi'[c] = qi[c]
  BY DEF Signal, TypeOK
<1>4. t \in TaskIds(prog) /\ t \notin Retired /\ prog.tasks[t] \in TaskType
  BY <1>2, InFlightNotRetired, SlotIsTask DEF Current
<1>5. Retired' = Retired \cup {t}
  BY <1>2, SignalRetires
<1>6. /\ InFlight' \subseteq InFlight \ {b}
      /\ \A c \in InFlight' : Current(c)' = Current(c)
      /\ \A c \in Blocks : c # b => Current(c)' = Current(c) /\ CurrentTask(c)' = CurrentTask(c)
  BY <1>1, <1>2, <1>3 DEF InFlight, Current, CurrentTask
<1>7. prog.tasks[t].out_counter \in DOMAIN prog.counters
  BY <1>4 DEF LaunchOK, Accepted, WellFormed
<1>8. TypeOK'
  <2>1. counters' \in [DOMAIN prog.counters -> Nat]
    BY <1>7 DEF Signal, TypeOK, CurrentTask
  <2>2. \A c \in Blocks : qi'[c] <= Len(queues[c]) + 1
    <3>1. DOMAIN queues[b] = 1 .. Len(queues[b]) /\ Len(queues[b]) \in Nat
      BY DEF LaunchOK
    <3>2. qi[b] + 1 <= Len(queues[b]) + 1
      BY <1>2, <3>1
    <3> QED
      BY <1>3, <3>2 DEF TypeOK
  <2>3. \A c \in InFlight' : qi'[c] \in DOMAIN queues[c]
    BY <1>1, <1>3, <1>6 DEF TypeOK, InFlight
  <2> QED
    BY <1>1, <1>2, <1>3, <2>1, <2>2, <2>3 DEF TypeOK, Signal
<1>9. CountersCountRetired'
  <2> SUFFICES ASSUME NEW c \in DOMAIN counters'
               PROVE  counters'[c] = Cardinality(Retired' \cap Producers(prog, c))
    BY DEF CountersCountRetired, Producers, TaskIds
  <2>1. /\ c \in DOMAIN prog.counters /\ c \in DOMAIN counters
        /\ counters[c] = Cardinality(Retired \cap Producers(prog, c))
        /\ counters[c] \in Nat
    BY DEF CountersCountRetired, Signal, TypeOK
  <2>2. /\ c = prog.tasks[t].out_counter => counters'[c] = counters[c] + 1
        /\ c # prog.tasks[t].out_counter => counters'[c] = counters[c]
    BY <2>1, <1>7 DEF Signal, CurrentTask, TypeOK
  <2>3. CASE c = prog.tasks[t].out_counter
    <3>1. Retired' \cap Producers(prog, c) = (Retired \cap Producers(prog, c)) \cup {t}
      BY <2>3, <1>4, <1>5 DEF Producers
    <3>2. IsFiniteSet(Retired \cap Producers(prog, c))
      BY TaskIdsFinite DEF LaunchOK, Producers
    <3>3. Cardinality(Retired' \cap Producers(prog, c)) = Cardinality(Retired \cap Producers(prog, c)) + 1
      BY <3>1, <3>2, <1>4, FS_AddElement
    <3> QED
      BY <2>1, <2>2, <2>3, <3>3
  <2>4. CASE c # prog.tasks[t].out_counter
    <3>1. Retired' \cap Producers(prog, c) = Retired \cap Producers(prog, c)
      BY <2>4, <1>5 DEF Producers
    <3> QED
      BY <2>1, <2>2, <2>4, <3>1
  <2> QED
    BY <2>3, <2>4
<1>10. Announced'
  BY <1>1, <1>2, <1>5, <1>6 DEF Announced, Signal
<1>11. PredecessorsRetired'
  <2>1. PredClosed(prog, Retired) /\ Pred(prog, t) \subseteq Retired
    BY <1>2 DEF PredecessorsRetired
  <2>2. PredClosed(prog, Retired \cup {t})
    BY <2>1 DEF PredClosed
  <2>3. \A c \in InFlight' : Pred(prog, Current(c)) \subseteq Retired
    BY <1>6 DEF PredecessorsRetired
  <2>4. \A c \in InFlight' : Pred(prog, Current(c)') \subseteq Retired \cup {t}
    BY <2>3, <1>6
  <2> QED
    BY <1>5, <2>2, <2>4 DEF PredecessorsRetired, PredClosed, Pred, Waits, Producers, TaskIds
<1>12. CleanSoFar'
  BY <1>1, <1>2, <1>3, <1>6 DEF CleanSoFar, Signal
<1>13. ReturnedClean' /\ Idle'
  BY DEF ReturnedClean, Idle
<1> QED
  BY <1>1, <1>8, <1>9, <1>10, <1>11, <1>12, <1>13

(* The flag stays set, and an opcode without a device function sets it.    *)
LEMMA BlockStepIInv ==
  ASSUME IInv, NEW b \in Blocks, BlockStep(b)
  PROVE  IInv'
<1> USE DEF BlockStep
<1>0. abort \in BOOLEAN
  BY DEF IInv, TypeOK
<1>1. CASE ArriveEntry(b)
  BY <1>0, <1>1, LocationStep DEF ArriveEntry
<1>2. CASE LeaveEntry(b)
  BY <1>0, <1>2, LocationStep DEF LeaveEntry
<1>3. CASE BeginTask(b)
  BY <1>0, <1>3, LocationStep DEF BeginTask
<1>4. CASE AbandonQueue(b)
  BY <1>0, <1>4, LocationStep DEF AbandonQueue
<1>5. CASE Compute(b)
  BY <1>0, <1>5, LocationStep DEF Compute
<1>6. CASE Fence(b)
  BY <1>0, <1>6, LocationStep DEF Fence
<1>7. CASE Signal(b)
  BY <1>7, SignalStep
<1>8. CASE DrainQueue(b)
  BY <1>0, <1>8, LocationStep DEF DrainQueue
<1>9. CASE LeaveExit(b)
  BY <1>0, <1>9, LocationStep DEF LeaveExit
<1> QED
  BY <1>1, <1>2, <1>3, <1>4, <1>5, <1>6, <1>7, <1>8, <1>9

LEMMA CheckAbortIInv ==
  ASSUME IInv, CheckAbort
  PROVE  IInv'
<1> USE DEF IInv
<1>1. /\ UNCHANGED <<prog, queues, pc, qi, counters, abort, visible, passes>>
      /\ host' = IF abort THEN "raised" ELSE "ok"
      /\ \A b \in Blocks : pc[b] = "done"
      /\ host = "launched"
  BY DEF CheckAbort, kernelVars
<1>2. /\ LaunchOK' /\ Blocks' = Blocks /\ Retired' = Retired /\ InFlight' = InFlight
      /\ \A b \in Blocks : Current(b)' = Current(b) /\ CurrentTask(b)' = CurrentTask(b)
  BY <1>1, SameLaunch, SameQueueIndex DEF InFlight
<1>3. TypeOK'
  BY <1>1, <1>2 DEF TypeOK, TaskIds
<1>4. CountersCountRetired' /\ Announced'
  BY <1>1, <1>2 DEF CountersCountRetired, Announced, Producers, TaskIds
<1>5. PredecessorsRetired'
  BY <1>1, <1>2 DEF PredecessorsRetired, PredClosed, Pred, Waits, Producers, TaskIds, InFlight
<1>6. CleanSoFar' /\ ReturnedClean' /\ Idle'
  BY <1>1, <1>2 DEF CleanSoFar, ReturnedClean, Idle
<1> QED
  BY <1>2, <1>3, <1>4, <1>5, <1>6

LEMMA LaunchTimeoutIInv ==
  ASSUME IInv, LaunchTimeout
  PROVE  IInv'
<1> USE DEF IInv
<1>1. /\ UNCHANGED <<prog, queues, qi, counters, abort, visible, passes>>
      /\ host' = "raised"
      /\ pc' = [b \in Blocks |-> "done"]
  BY DEF LaunchTimeout
<1>2. /\ LaunchOK' /\ Blocks' = Blocks /\ Retired' = Retired
      /\ \A b \in Blocks : pc'[b] = "done"
  BY <1>1, SameLaunch, SameQueueIndex
<1>3. InFlight' = {}
  BY <1>2 DEF InFlight
<1>4. TypeOK'
  BY <1>1, <1>2, <1>3 DEF TypeOK, TaskIds
<1>5. CountersCountRetired' /\ Announced'
  BY <1>1, <1>2 DEF CountersCountRetired, Announced, Producers, TaskIds
<1>6. PredecessorsRetired'
  BY <1>1, <1>2, <1>3 DEF PredecessorsRetired, PredClosed, Pred, Waits, Producers, TaskIds
<1>7. CleanSoFar' /\ ReturnedClean' /\ Idle'
  BY <1>1, <1>2 DEF CleanSoFar, ReturnedClean, Idle
<1> QED
  BY <1>2, <1>4, <1>5, <1>6, <1>7

(* Zeroing the counters matches the tasks the new launch has retired: none. *)
LEMMA RelaunchIInv ==
  ASSUME IInv, Relaunch
  PROVE  IInv'
<1>1. LaunchOK /\ passes \in Nat
  BY DEF IInv, TypeOK
<1>2. /\ UNCHANGED <<prog, queues>> /\ Blocks' = Blocks
      /\ pc' = [b \in Blocks |-> "start"]
      /\ qi' = [b \in Blocks |-> 1]
      /\ counters' = [c \in DOMAIN prog.counters |-> 0]
      /\ abort' = FALSE /\ visible' = {} /\ host' = "launched" /\ passes' = passes + 1
  BY DEF Relaunch, Blocks
<1>3. LaunchOK' /\ passes' \in Nat
  BY <1>1, <1>2, SameLaunch
<1>4. FreshLaunch' /\ (host = "launched")'
  BY <1>2 DEF FreshLaunch
<1>5. (LaunchOK /\ FreshLaunch /\ host = "launched" /\ passes \in Nat)'
  BY <1>3, <1>4
<1> QED
  BY <1>5, FreshLaunchIInv, PTL

LEMMA StutterIInv ==
  ASSUME IInv, UNCHANGED vars
  PROVE  IInv'
<1> USE DEF IInv
<1>1. UNCHANGED <<prog, queues, pc, qi, counters, abort, visible, host, passes>>
  BY DEF vars, kernelVars
<1>2. /\ LaunchOK' /\ Blocks' = Blocks /\ Retired' = Retired /\ InFlight' = InFlight
      /\ \A b \in Blocks : Current(b)' = Current(b) /\ CurrentTask(b)' = CurrentTask(b)
  BY <1>1, SameLaunch, SameQueueIndex DEF InFlight
<1>3. TypeOK'
  BY <1>1, <1>2 DEF TypeOK, TaskIds
<1>4. CountersCountRetired' /\ Announced'
  BY <1>1, <1>2 DEF CountersCountRetired, Announced, Producers, TaskIds
<1>5. PredecessorsRetired'
  BY <1>1, <1>2 DEF PredecessorsRetired, PredClosed, Pred, Waits, Producers, TaskIds, InFlight
<1>6. CleanSoFar' /\ ReturnedClean' /\ Idle'
  BY <1>1, <1>2 DEF CleanSoFar, ReturnedClean, Idle
<1> QED
  BY <1>2, <1>3, <1>4, <1>5, <1>6

LEMMA NextIInv == IInv /\ [Next]_vars => IInv'
<1> SUFFICES ASSUME IInv, [Next]_vars PROVE IInv'
  OBVIOUS
<1>1. CASE \E b \in Blocks : BlockStep(b)
  BY <1>1, BlockStepIInv
<1>2. CASE CheckAbort
  BY <1>2, CheckAbortIInv
<1>3. CASE LaunchTimeout
  BY <1>3, LaunchTimeoutIInv
<1>4. CASE Relaunch
  BY <1>4, RelaunchIInv
<1>5. CASE UNCHANGED vars
  BY <1>5, StutterIInv
<1> QED
  BY <1>1, <1>2, <1>3, <1>4, <1>5 DEF Next

(* The invariant of the kernel and its host holds in every state of every  *)
(* launch.                                                                 *)
THEOREM Invariance == Spec => []IInv
<1> QED
  BY InitIInv, NextIInv, PTL DEF Spec

(* The kernel's state stays well typed in every launch of every program.   *)
THEOREM TypeCorrect == Spec => []TypeOK
<1>1. IInv => TypeOK
  BY DEF IInv
<1> QED
  BY <1>1, Invariance, PTL

(* sync.cuh: counters advance by one per instruction and start from zero   *)
(* in every launch, so each counts the retired producers exactly.          *)
THEOREM CountersCorrect == Spec => []CountersCountRetired
<1>1. IInv => CountersCountRetired
  BY DEF IInv
<1> QED
  BY <1>1, Invariance, PTL

-----------------------------------------------------------------------------
(* Ordering.                                                               *)

LEMMA InFlightAncestors ==
  ASSUME IInv, NEW b \in InFlight
  PROVE  /\ b \in Blocks
         /\ Current(b) \in TaskIds(prog) \ Retired
         /\ prog.tasks[Current(b)] \in TaskType
         /\ Ancestors(prog, Current(b)) \subseteq Retired
<1>1. b \in Blocks /\ Current(b) \in TaskIds(prog) /\ Current(b) \notin Retired
  BY InFlightNotRetired DEF IInv, InFlight
<1>2. prog.tasks[Current(b)] \in TaskType
  BY <1>1 DEF IInv, LaunchOK, IsProgram, TaskIds
<1>3. Retired \in SUBSET TaskIds(prog)
  BY DEF Retired
<1>4. PredClosed(prog, Retired) /\ Pred(prog, Current(b)) \subseteq Retired
  BY DEF IInv, PredecessorsRetired
<1> QED
  BY <1>1, <1>2, <1>3, <1>4, AncestorsInClosedSet

(* Waiting on direct producers orders a task after all its ancestors.      *)
THEOREM OrderedExecutionHolds == Spec => []OrderedExecution
<1>1. IInv => OrderedExecution
  BY InFlightAncestors DEF OrderedExecution
<1> QED
  BY <1>1, Invariance, PTL

(* Every value a task reads was written and fenced before it started.      *)
THEOREM ReadsSettledHolds == Spec => []ReadsSettled
<1>1. ASSUME IInv PROVE ReadsSettled
  <2> SUFFICES ASSUME Len(prog.tasks) <= PROVENANCE_MAX_TASKS,
                      NEW b \in Blocks, pc[b] = "dispatch",
                      NEW x \in CurrentTask(b).inputs, Transient(prog, x)
               PROVE  Writers(prog, x) \ {Current(b)} \subseteq visible
    BY DEF ReadsSettled
  <2>1. b \in InFlight
    BY DEF InFlight
  <2>2. Current(b) \in TaskIds(prog) /\ Ancestors(prog, Current(b)) \subseteq Retired
    BY <2>1, <1>1, InFlightAncestors
  <2>3. ReadsOrdered(prog)
    BY <1>1 DEF IInv, LaunchOK, Accepted
  <2>4. Writers(prog, x) \ {Current(b)} \subseteq Ancestors(prog, Current(b))
    BY <2>2, <2>3 DEF ReadsOrdered, CurrentTask
  <2>5. Retired \subseteq visible
    BY <1>1 DEF IInv, Announced
  <2> QED
    BY <2>2, <2>4, <2>5
<1> QED
  BY <1>1, Invariance, PTL

-----------------------------------------------------------------------------
(* Race freedom.                                                           *)

(* What validate() calls disjoint is disjoint in memory, as long as no     *)
(* tile claims a part of the rows.                                         *)
LEMMA DisjointRegionsDisjointFootprints ==
  ASSUME NEW a \in TaskType, NEW b \in TaskType,
         a.op = "GEMM_TILE" => a.tile.m_off < 0,
         b.op = "GEMM_TILE" => b.tile.m_off < 0,
         RegionsDisjoint(WriteRegion(a), WriteRegion(b))
  PROVE  Footprint(a) \cap Footprint(b) = {}
<1>1. /\ a.tile \in [n_off : Int, N_tile : Int, m_off : Int, M_tile : Int]
      /\ b.tile \in [n_off : Int, N_tile : Int, m_off : Int, M_tile : Int]
  BY DEF TaskType
<1> DEFINE Tiled(v) == v.op \in TiledOps /\ v.tile.n_off >= 0 /\ v.tile.N_tile > 0
           ColsOf(v) == <<v.tile.n_off, v.tile.n_off + v.tile.N_tile>>
<1>2. ASSUME NEW v \in TaskType, WriteRegion(v) # WholeBuffer, v.op = "GEMM_TILE" => v.tile.m_off < 0
      PROVE  Tiled(v) /\ WriteRegion(v) = [rows |-> AllRows, cols |-> ColsOf(v)]
  <2>1. v.tile \in [n_off : Int, N_tile : Int, m_off : Int, M_tile : Int]
    BY DEF TaskType
  <2>2. Tiled(v)
    BY <1>2, <2>1 DEF WriteRegion
  <2>3. ~ (v.op = "GEMM_TILE" /\ v.tile.m_off >= 0 /\ v.tile.M_tile > 0)
    BY <1>2, <2>1
  <2> QED
    BY <2>1, <2>2, <2>3 DEF WriteRegion
<1>3. WriteRegion(a) # WholeBuffer /\ WriteRegion(b) # WholeBuffer
  BY DEF RegionsDisjoint
<1>4. /\ Tiled(a) /\ WriteRegion(a) = [rows |-> AllRows, cols |-> ColsOf(a)]
      /\ Tiled(b) /\ WriteRegion(b) = [rows |-> AllRows, cols |-> ColsOf(b)]
  BY <1>2, <1>3
<1>5. RangesOverlap(AllRows, AllRows)
  BY DEF RangesOverlap, AllRows
<1>6. ~ RangesOverlap(ColsOf(a), ColsOf(b))
  BY <1>4, <1>5 DEF RegionsDisjoint
<1>7. ~ (/\ a.tile.n_off < b.tile.n_off + b.tile.N_tile
         /\ b.tile.n_off < a.tile.n_off + a.tile.N_tile)
  BY <1>6 DEF RangesOverlap
<1>8. a.op \in TiledOps /\ b.op \in TiledOps
  BY <1>4
<1> SUFFICES ASSUME NEW c \in Footprint(a), c \in Footprint(b) PROVE FALSE
  OBVIOUS
<1>9. c \in Nat
  BY ColsAssumption DEF Footprint
<1>10. /\ a.tile.n_off <= c /\ c < a.tile.n_off + a.tile.N_tile
       /\ b.tile.n_off <= c /\ c < b.tile.n_off + b.tile.N_tile
  BY <1>8 DEF Footprint
<1>11. /\ a.tile.n_off \in Int /\ a.tile.N_tile \in Int
       /\ b.tile.n_off \in Int /\ b.tile.N_tile \in Int
  BY <1>1
<1> HIDE DEF Tiled, ColsOf
<1> QED
  BY <1>7, <1>9, <1>10, <1>11

(* Tasks in flight together are unordered, so validate() has made them     *)
(* touch different buffers or disjoint tiles.                              *)
LEMMA NoRaceBetween ==
  ASSUME IInv, Len(prog.tasks) <= PROVENANCE_MAX_TASKS, ColumnTiled(prog),
         NEW x \in DOMAIN prog.buffers, Transient(prog, x),
         NEW b \in InFlight, NEW c \in InFlight, b # c
  PROVE  ~ RaceOn(x, Current(b), Current(c))
<1> DEFINE t == Current(b)
           u == Current(c)
<1>1. /\ t \in TaskIds(prog) \ Retired /\ Ancestors(prog, t) \subseteq Retired
      /\ u \in TaskIds(prog) \ Retired /\ Ancestors(prog, u) \subseteq Retired
      /\ prog.tasks[t] \in TaskType /\ prog.tasks[u] \in TaskType
  BY InFlightAncestors
<1>2. t # u
  BY InFlightDistinct DEF IInv
<1>3. ReadsOrdered(prog) /\ WritesOrdered(prog)
  BY DEF IInv, LaunchOK, Accepted
<1>4. ASSUME NEW r \in TaskIds(prog), NEW w \in TaskIds(prog), r # w,
             Ancestors(prog, r) \subseteq Retired, w \notin Retired
      PROVE  ~ (x \in prog.tasks[w].outputs /\ x \in prog.tasks[r].inputs)
  BY <1>3, <1>4 DEF ReadsOrdered, Writers
<1>5. ASSUME x \in prog.tasks[t].outputs, x \in prog.tasks[u].outputs
      PROVE  Footprint(prog.tasks[t]) \cap Footprint(prog.tasks[u]) = {}
  <2>1. t \in Writers(prog, x) /\ u \in Writers(prog, x)
    BY <1>1, <1>5 DEF Writers
  <2>2. CASE DisjointTiles(prog, Writers(prog, x))
    <3>1. RegionsDisjoint(WriteRegion(prog.tasks[t]), WriteRegion(prog.tasks[u]))
      BY <1>2, <2>1, <2>2 DEF DisjointTiles
    <3>2. /\ prog.tasks[t].op = "GEMM_TILE" => prog.tasks[t].tile.m_off < 0
          /\ prog.tasks[u].op = "GEMM_TILE" => prog.tasks[u].tile.m_off < 0
      BY <1>1 DEF ColumnTiled
    <3> QED
      BY <1>1, <3>1, <3>2, DisjointRegionsDisjointFootprints
  <2>3. CASE TotallyOrdered(prog, Writers(prog, x))
    BY <1>1, <1>2, <2>1, <2>3 DEF TotallyOrdered, HappensBefore
  <2> QED
    BY <1>3, <2>2, <2>3 DEF WritesOrdered
<1>6. /\ ~ (x \in prog.tasks[t].outputs /\ x \in prog.tasks[u].inputs)
      /\ ~ (x \in prog.tasks[u].outputs /\ x \in prog.tasks[t].inputs)
  BY <1>1, <1>2, <1>4
<1> QED
  BY <1>5, <1>6 DEF RaceOn

(* An accepted program with column tiles has no data race on any buffer it *)
(* writes, on any number of blocks and whatever their interleaving.        *)
THEOREM RaceFreedom == Spec => []RaceFree
<1>1. ASSUME IInv PROVE RaceFree
  <2> SUFFICES ASSUME Len(prog.tasks) <= PROVENANCE_MAX_TASKS, ColumnTiled(prog),
                      NEW b \in Blocks, NEW c \in Blocks, b # c,
                      pc[b] = "dispatch", pc[c] = "dispatch",
                      NEW x \in DOMAIN prog.buffers, Transient(prog, x)
               PROVE  ~ RaceOn(x, Current(b), Current(c))
    BY DEF RaceFree, NoRaceOn
  <2>1. b \in InFlight /\ c \in InFlight
    BY DEF InFlight
  <2> QED
    BY <1>1, <2>1, NoRaceBetween
<1> QED
  BY <1>1, Invariance, PTL

-----------------------------------------------------------------------------
(* Deadlock freedom.                                                       *)

LEMMA RetiredMeansReady ==
  ASSUME LaunchOK, TypeOK, CountersCountRetired, NEW b \in Blocks, qi[b] \in DOMAIN queues[b],
         Pred(prog, Current(b)) \subseteq Retired
  PROVE  WaitsReady(b)
<1> DEFINE t == Current(b)
<1>1. t \in TaskIds(prog)
  BY SlotIsTask DEF Current
<1> SUFFICES ASSUME NEW i \in DOMAIN prog.tasks[t].waits
             PROVE  counters[prog.tasks[t].waits[i].counter] >= prog.tasks[t].waits[i].threshold
  BY DEF WaitsReady, CurrentTask
<1> DEFINE w == prog.tasks[t].waits[i]
<1>2. w \in Waits(prog, t)
  BY DEF Waits
<1>3. /\ w.threshold = Cardinality(Producers(prog, w.counter))
      /\ w.counter \in DOMAIN prog.counters
  BY <1>1, <1>2, WaitIsJoin DEF LaunchOK
<1>4. Producers(prog, w.counter) \subseteq Pred(prog, t)
  BY <1>2 DEF Pred, Producers
<1>5. Retired \cap Producers(prog, w.counter) = Producers(prog, w.counter)
  BY <1>4
<1>6. w.counter \in DOMAIN counters /\ counters[w.counter] \in Nat
  BY <1>3 DEF TypeOK
<1>7. counters[w.counter] = w.threshold
  BY <1>3, <1>5, <1>6 DEF CountersCountRetired
<1> QED
  BY <1>6, <1>7

(* A task behind which everything in its queue has retired, and which has  *)
(* not retired itself, is its block's current one.                         *)
LEMMA FrontOfQueue ==
  ASSUME LaunchOK, TypeOK, NEW t \in TaskIds(prog), t \notin Retired,
         Ahead(prog, queues, t) \subseteq Retired
  PROVE  \E b \in Blocks : qi[b] \in DOMAIN queues[b] /\ Current(b) = t
<1>1. PICK b \in Blocks : \E i \in DOMAIN queues[b] : queues[b][i] = t
  BY DEF LaunchOK, LaunchContract, QueuesPartition, Blocks
<1>2. PICK i \in DOMAIN queues[b] : queues[b][i] = t
  BY <1>1
<1>3. /\ DOMAIN queues[b] = 1 .. Len(queues[b]) /\ Len(queues[b]) \in Nat
      /\ i \in Nat /\ qi[b] \in Nat \ {0}
  BY DEF LaunchOK, TypeOK
<1>4. ~ (i < qi[b])
  BY <1>2 DEF Retired
<1>5. ASSUME qi[b] < i PROVE FALSE
  <2>1. qi[b] \in DOMAIN queues[b]
    BY <1>3, <1>5
  <2>2. queues[b][qi[b]] \in Ahead(prog, queues, t)
    BY <1>2, <1>5, <2>1, SlotIsTask DEF Ahead, Blocks
  <2>3. queues[b][qi[b]] \in Retired
    BY <2>2
  <2>4. PICK c \in Blocks : \E j \in DOMAIN queues[c] : j < qi[c] /\ queues[c][j] = queues[b][qi[b]]
    BY <2>3 DEF Retired
  <2>5. PICK j \in DOMAIN queues[c] : j < qi[c] /\ queues[c][j] = queues[b][qi[b]]
    BY <2>4
  <2>6. c = b /\ j = qi[b]
    BY <2>1, <2>5, SlotsAreUnique
  <2> QED
    BY <1>3, <2>5, <2>6
<1>6. i = qi[b]
  BY <1>3, <1>4, <1>5
<1> QED
  BY <1>2, <1>6 DEF Current

(* abi.h: queues that follow one global topological sort cannot wait in a  *)
(* circle; the first unretired task of that sort is always ready.          *)
THEOREM DeadlockFreedom == Spec => []SomeBlockCanMove
<1>1. ASSUME IInv PROVE SomeBlockCanMove
  <2> USE <1>1 DEF IInv
  <2> SUFFICES ASSUME NEW a \in Blocks, pc[a] = "wait", qi[a] \in DOMAIN queues[a],
                      \A b \in Blocks : pc[b] \notin {"start", "entry"},
                      InFlight = {}
               PROVE  \E b \in Blocks :
                        pc[b] = "wait" /\ (qi[b] \in DOMAIN queues[b] => WaitsReady(b) \/ abort)
    BY DEF SomeBlockCanMove
  <2>1. host = "launched"
    BY DEF Idle
  <2> DEFINE S == TaskIds(prog) \ Retired
  <2>2. Current(a) \in S
    <3>1. Current(a) \in TaskIds(prog)
      BY SlotIsTask DEF Current
    <3>2. ASSUME Current(a) \in Retired PROVE FALSE
      <4>1. PICK c \in Blocks : \E i \in DOMAIN queues[c] : i < qi[c] /\ queues[c][i] = Current(a)
        BY <3>2 DEF Retired
      <4>2. PICK i \in DOMAIN queues[c] : i < qi[c] /\ queues[c][i] = Current(a)
        BY <4>1
      <4>3. c = a /\ i = qi[a]
        BY <4>2, SlotsAreUnique DEF Current
      <4> QED
        BY <4>2, <4>3, SlotIsTask
    <3> QED
      BY <3>1, <3>2
  <2>3. S \in (SUBSET TaskIds(prog)) \ {{}}
    BY <2>2
  <2>4. PICK t \in S : Pred(prog, t) \cap S = {} /\ Ahead(prog, queues, t) \cap S = {}
    <3>1. QueuesFollowGlobalOrder(prog, queues)
      BY DEF LaunchOK, LaunchContract
    <3> HIDE DEF S
    <3> QED
      BY <2>3, <3>1 DEF QueuesFollowGlobalOrder
  <2>5. Pred(prog, t) \subseteq Retired /\ Ahead(prog, queues, t) \subseteq Retired
    BY <2>4 DEF Pred, Ahead
  <2>6. PICK b \in Blocks : qi[b] \in DOMAIN queues[b] /\ Current(b) = t
    BY <2>4, <2>5, FrontOfQueue
  <2>7. WaitsReady(b)
    BY <2>5, <2>6, RetiredMeansReady
  <2>8. pc[b] \in {"wait", "exit", "done"}
    BY DEF TypeOK, InFlight
  <2>9. CASE pc[b] = "wait"
    BY <2>7, <2>9
  <2>10. CASE pc[b] \in {"exit", "done"}
    <3>1. qi[b] # Len(queues[b]) + 1
      BY <2>6, SlotIsTask
    <3>2. abort
      BY <2>1, <2>10, <3>1 DEF CleanSoFar, TypeOK
    <3> QED
      BY <3>2
  <2> QED
    BY <2>8, <2>9, <2>10
<1> QED
  BY <1>1, Invariance, PTL

-----------------------------------------------------------------------------
(* What the caller gets.                                                   *)

LEMMA DrainedMeansRetired ==
  ASSUME LaunchOK, \A b \in Blocks : qi[b] = Len(queues[b]) + 1
  PROVE  Retired = TaskIds(prog)
<1> SUFFICES ASSUME NEW t \in TaskIds(prog) PROVE t \in Retired
  BY DEF Retired
<1>1. PICK b \in Blocks : \E i \in DOMAIN queues[b] : queues[b][i] = t
  BY DEF LaunchOK, LaunchContract, QueuesPartition, Blocks
<1>2. PICK i \in DOMAIN queues[b] : queues[b][i] = t
  BY <1>1
<1>3. i < qi[b]
  BY <1>2, SlotIsTask
<1> QED
  BY <1>2, <1>3 DEF Retired

(* run() hands out results only of a launch that computed and announced    *)
(* every task, none of them by the trap.                                   *)
THEOREM ResultsCompleteHolds == Spec => []ResultsComplete
<1>1. ASSUME IInv, host = "ok"
      PROVE  /\ visible = TaskIds(prog)
             /\ Retired = TaskIds(prog)
             /\ \A t \in TaskIds(prog) : prog.tasks[t].op \in DeviceOps
  <2> USE <1>1 DEF IInv
  <2>1. ~ abort /\ \A b \in Blocks : pc[b] = "done"
    BY DEF ReturnedClean
  <2>2. Retired = TaskIds(prog)
    BY <2>1, DrainedMeansRetired DEF CleanSoFar
  <2>3. visible = TaskIds(prog)
    BY <2>2 DEF Announced, TypeOK
  <2> QED
    BY <2>1, <2>2, <2>3 DEF CleanSoFar
<1>2. IInv => ResultsComplete
  BY <1>1 DEF ResultsComplete
<1> QED
  BY <1>2, Invariance, PTL

-----------------------------------------------------------------------------
(* The kernel implements the abstract executor.                            *)

LEMMA SameRelations ==
  /\ Executor!TaskIds(prog) = TaskIds(prog)
  /\ \A t : Executor!Pred(prog, t) = Pred(prog, t)
BY DEF Executor!TaskIds, Executor!Pred, Executor!Waits, Executor!Producers,
       TaskIds, Pred, Waits, Producers

(* A step that moves no block in or out of a task is invisible.            *)
LEMMA InvisibleStep ==
  ASSUME UNCHANGED <<prog, queues, qi, host>>, InFlight' = InFlight
  PROVE  UNCHANGED Executor!vars
<1>1. Retired' = Retired /\ \A b \in Blocks : Current(b)' = Current(b)
  BY SameQueueIndex
<1>2. Running' = Running
  BY <1>1 DEF Running, InFlight
<1> QED
  BY <1>1, <1>2 DEF Executor!vars

LEMMA BeginTaskStarts ==
  ASSUME IInv, NEW b \in Blocks, host = "launched", BeginTask(b), UNCHANGED <<prog, queues, host>>
  PROVE  Executor!Start(Current(b))
<1> DEFINE t == Current(b)
<1> USE DEF IInv
<1>1. /\ pc[b] = "wait" /\ pc' = [pc EXCEPT ![b] = "dispatch"] /\ UNCHANGED qi
      /\ qi[b] \in DOMAIN queues[b] /\ WaitsReady(b)
  BY DEF BeginTask, Goto
<1>2. Pred(prog, t) \subseteq Retired
  BY <1>1, ReadyMeansRetired
<1>3. t \notin Retired
  <2> SUFFICES ASSUME t \in Retired PROVE FALSE
    OBVIOUS
  <2>1. PICK c \in Blocks : \E i \in DOMAIN queues[c] : i < qi[c] /\ queues[c][i] = t
    BY DEF Retired
  <2>2. PICK i \in DOMAIN queues[c] : i < qi[c] /\ queues[c][i] = t
    BY <2>1
  <2>3. c = b /\ i = qi[b]
    BY <1>1, <2>2, SlotsAreUnique DEF Current
  <2> QED
    BY <1>1, <2>2, <2>3, SlotIsTask
<1>4. t \notin Running
  <2> SUFFICES ASSUME NEW c \in InFlight, Current(c) = t PROVE FALSE
    BY DEF Running
  <2>1. c \in Blocks /\ c # b /\ qi[c] \in DOMAIN queues[c]
    BY <1>1 DEF InFlight, TypeOK
  <2> QED
    BY <1>1, <2>1, SlotsAreUnique DEF Current
<1>5. /\ Retired' = Retired /\ Blocks' = Blocks
      /\ \A c \in Blocks : Current(c)' = Current(c)
  BY <1>1, SameQueueIndex
<1>6. InFlight' = InFlight \cup {b}
  BY <1>1, <1>5 DEF InFlight, TypeOK
<1>7. InFlight \subseteq Blocks
  BY DEF InFlight
<1>8. Running' = Running \cup {t}
  BY <1>5, <1>6, <1>7 DEF Running
<1> QED
  BY <1>2, <1>3, <1>4, <1>5, <1>8, SameRelations DEF Executor!Start

LEMMA SignalFinishes ==
  ASSUME IInv, NEW b \in Blocks, host = "launched", Signal(b), UNCHANGED <<prog, queues, host>>
  PROVE  Executor!Finish(Current(b))
<1> DEFINE t == Current(b)
<1> USE DEF IInv
<1>1. pc[b] = "add" /\ pc' = [pc EXCEPT ![b] = "wait"] /\ qi' = [qi EXCEPT ![b] = @ + 1]
  BY DEF Signal, Goto
<1>2. b \in InFlight
  BY <1>1 DEF InFlight
<1>3. Retired' = Retired \cup {t}
  BY <1>1, SignalRetires
<1>4. /\ Blocks' = Blocks
      /\ InFlight' = InFlight \ {b}
  BY <1>1 DEF InFlight, TypeOK, Blocks
<1>5. \A c \in InFlight \ {b} : Current(c)' = Current(c)
  BY <1>1 DEF Current, InFlight, TypeOK
<1>6. \A c \in InFlight \ {b} : Current(c) # t
  BY <1>2, InFlightDistinct
<1>7. Running' = {Current(c) : c \in InFlight \ {b}}
  BY <1>4, <1>5 DEF Running
<1>8. Running' = Running \ {t}
  BY <1>2, <1>6, <1>7 DEF Running
<1>9. t \in Running
  BY <1>2 DEF Running
<1> QED
  BY <1>3, <1>8, <1>9 DEF Executor!Finish

LEMMA StepImplements ==
  ASSUME IInv, [Next]_vars
  PROVE  [Executor!Next]_(Executor!vars)
<1> USE DEF IInv
<1>1. ASSUME NEW b \in Blocks, BlockStep(b)
      PROVE  [Executor!Next]_(Executor!vars)
  <2>1. host = "launched" /\ UNCHANGED <<prog, queues, host>>
    BY <1>1 DEF BlockStep
  <2>2. CASE BeginTask(b)
    <3>1. Current(b) \in TaskIds(prog)
      BY <2>2, SlotIsTask DEF BeginTask, Current
    <3> QED
      BY <2>1, <2>2, <3>1, BeginTaskStarts, SameRelations DEF Executor!Next
  <2>3. CASE Signal(b)
    <3>1. Current(b) \in TaskIds(prog)
      BY <2>3, InFlightNotRetired DEF Signal, Goto, InFlight
    <3> QED
      BY <2>1, <2>3, <3>1, SignalFinishes, SameRelations DEF Executor!Next
  <2>4. CASE ArriveEntry(b) \/ LeaveEntry(b) \/ AbandonQueue(b) \/ DrainQueue(b) \/ LeaveExit(b)
    <3>1. /\ UNCHANGED qi
          /\ pc[b] \notin {"dispatch", "fence", "add"} /\ pc'[b] \notin {"dispatch", "fence", "add"}
          /\ \A c \in Blocks : c # b => pc'[c] = pc[c]
      BY <2>4 DEF ArriveEntry, LeaveEntry, AbandonQueue, DrainQueue, LeaveExit, Goto, TypeOK
    <3>2. InFlight' = InFlight
      BY <2>1, <3>1 DEF InFlight, Blocks
    <3> QED
      BY <2>1, <3>1, <3>2, InvisibleStep
  <2>5. CASE Compute(b) \/ Fence(b)
    <3>1. /\ UNCHANGED qi
          /\ pc[b] \in {"dispatch", "fence", "add"} /\ pc'[b] \in {"dispatch", "fence", "add"}
          /\ \A c \in Blocks : c # b => pc'[c] = pc[c]
      BY <2>5 DEF Compute, Fence, Goto, TypeOK
    <3>2. InFlight' = InFlight
      BY <2>1, <3>1 DEF InFlight, Blocks
    <3> QED
      BY <2>1, <3>1, <3>2, InvisibleStep
  <2> QED
    BY <1>1, <2>2, <2>3, <2>4, <2>5 DEF BlockStep
<1>2. CASE CheckAbort
  <2>1. /\ UNCHANGED <<prog, queues, pc, qi, abort>> /\ host = "launched"
        /\ host' = IF abort THEN "raised" ELSE "ok"
        /\ \A b \in Blocks : pc[b] = "done"
    BY <1>2 DEF CheckAbort, kernelVars
  <2>2. InFlight = {} /\ InFlight' = {}
    BY <2>1 DEF InFlight, Blocks
  <2>3. Running = {} /\ Running' = {} /\ Retired' = Retired
    BY <2>1, <2>2, SameQueueIndex DEF Running
  <2>4. CASE abort
    BY <2>1, <2>3, <2>4 DEF Executor!Next, Executor!Raise
  <2>5. CASE ~ abort
    <3>1. Retired = TaskIds(prog)
      BY <2>1, <2>5, DrainedMeansRetired DEF CleanSoFar
    <3> QED
      BY <2>1, <2>3, <2>5, <3>1, SameRelations DEF Executor!Next, Executor!Return
  <2> QED
    BY <2>4, <2>5
<1>3. CASE LaunchTimeout
  <2>1. /\ UNCHANGED <<prog, queues, qi>> /\ host = "launched" /\ host' = "raised"
        /\ Blocks' = Blocks /\ \A b \in Blocks : pc'[b] = "done"
    BY <1>3 DEF LaunchTimeout, Blocks
  <2>2. Running' = {} /\ Retired' = Retired
    BY <2>1, SameQueueIndex DEF Running, InFlight
  <2> QED
    BY <2>1, <2>2 DEF Executor!Next, Executor!Raise
<1>4. CASE Relaunch
  <2>1. /\ UNCHANGED <<prog, queues>> /\ host # "launched" /\ host' = "launched"
        /\ Blocks' = Blocks /\ \A b \in Blocks : pc'[b] = "start" /\ qi'[b] = 1
    BY <1>4 DEF Relaunch, Blocks
  <2>2. Running = {}
    BY <2>1 DEF Idle, Running, InFlight
  <2>3. Running' = {}
    BY <2>1 DEF Running, InFlight
  <2>4. Retired' = {}
    <3>1. \A b \in Blocks : \A i \in DOMAIN queues[b] : ~ (i < 1)
      BY SlotIsTask
    <3> QED
      BY <2>1, <3>1 DEF Retired
  <2>5. host \in {"ok", "raised"}
    BY <2>1 DEF TypeOK
  <2> QED
    BY <2>1, <2>2, <2>3, <2>4, <2>5 DEF Executor!Next, Executor!NextPass
<1>5. CASE UNCHANGED vars
  <2>1. UNCHANGED <<prog, queues, qi, pc, host>>
    BY <1>5 DEF vars, kernelVars
  <2>2. InFlight' = InFlight
    BY <2>1 DEF InFlight, Blocks
  <2> QED
    BY <2>1, <2>2, InvisibleStep
<1> QED
  BY <1>1, <1>2, <1>3, <1>4, <1>5 DEF Next

(* Every pass of the kernel runs each task once, after its predecessors,   *)
(* and returns results only when all of them have finished.                *)
THEOREM Refinement == Spec => ImplementsTaskGraph
<1>1. Init => Executor!Init
  <2> SUFFICES ASSUME Init PROVE Executor!Init
    OBVIOUS
  <2>1. LaunchOK /\ qi = [b \in Blocks |-> 1] /\ host = "launched"
    BY InitIInv DEF IInv, Init, FreshLaunch
  <2>2. Retired = {}
    BY <2>1, FreshRetired
  <2>3. Running = {}
    BY DEF Init, FreshLaunch, Running, InFlight
  <2> QED
    BY <2>1, <2>2, <2>3 DEF Executor!Init
<1>2. IInv /\ [Next]_vars => [Executor!Next]_(Executor!vars)
  BY StepImplements
<1> QED
  BY <1>1, <1>2, Invariance, PTL DEF Spec, ImplementsTaskGraph, Executor!Spec
=============================================================================
