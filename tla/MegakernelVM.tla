---------------------------- MODULE MegakernelVM ----------------------------
(***************************************************************************)
(* One launch after another of the persistent megakernel: the block        *)
(* scheduler of vm/scheduler.cu with the primitives of vm/sync.cuh, and    *)
(* the host side of a pass (vm/loader.py _run_steady_state: zero the       *)
(* counters and the abort flag, launch, check the flag).                   *)
(*                                                                         *)
(* Block b walks queues[b].  For each instruction it waits for the input   *)
(* counters (amk_wait_all), computes (amk_dispatch), fences its stores and *)
(* increments the output counter (amk_signal).  An opcode the build has no *)
(* device function for traps: it sets abort_flag, which waiting blocks     *)
(* poll and the host checks after the launch.                              *)
(*                                                                         *)
(* The threads of a block act as one: thread 0 polls and signals between   *)
(* __syncthreads().  One pass of wait_all over the counters is one step;   *)
(* counters only grow during a launch, so a pass that saw each counter     *)
(* reach its threshold at different moments also holds at the last one.    *)
(* The spin count that decides when the flag is polled is abstracted: a    *)
(* block whose counters are not ready may poll.                            *)
(***************************************************************************)
EXTENDS Schedule

CONSTANTS
  Launches,    \* the [prog, queues] pairs a loader may hand to the kernel
  DeviceOps,   \* opcodes amk_dispatch of this build implements
  MaxPasses    \* bound on the launches of one behaviour

ASSUME LaunchesAssumption ==
  \A l \in Launches :
    /\ IsProgram(l.prog)
    /\ l.queues \in [DOMAIN l.queues -> Seq(TaskIds(l.prog))]

VARIABLES
  prog,      \* the loaded program
  queues,    \* block -> its instruction queue
  pc,        \* block -> where it is in amk_megakernel
  qi,        \* block -> index of its current queue slot
  counters,  \* counter -> value
  abort,     \* abort_flag is set
  visible,   \* tasks whose output stores were fenced in this launch
  host,      \* "launched", "ok" (results returned) or "raised"
  passes     \* launches so far

kernelVars == <<pc, qi, counters, abort, visible>>
vars == <<prog, queues, kernelVars, host, passes>>

Blocks == DOMAIN queues
Current(b) == queues[b][qi[b]]
CurrentTask(b) == prog.tasks[Current(b)]

(* Tasks between the end of their wait and the increment of their counter. *)
InFlight == {b \in Blocks : pc[b] \in {"dispatch", "fence", "add"}}
Running == {Current(b) : b \in InFlight}

(* Tasks behind their block's queue index: waited, computed and signalled. *)
Retired ==
  {t \in TaskIds(prog) : \E b \in Blocks : \E i \in DOMAIN queues[b] : i < qi[b] /\ queues[b][i] = t}

-----------------------------------------------------------------------------
FreshLaunch ==
  /\ pc = [b \in Blocks |-> "start"]
  /\ qi = [b \in Blocks |-> 1]
  /\ counters = [c \in DOMAIN prog.counters |-> 0]
  /\ abort = FALSE
  /\ visible = {}

(* validate() passed, and the loader filled the queues.                    *)
Launchable == {l \in Launches : Accepted(l.prog) /\ LaunchContract(l.prog, l.queues)}

Init ==
  /\ \E l \in Launchable : prog = l.prog /\ queues = l.queues
  /\ FreshLaunch
  /\ host = "launched"
  /\ passes = 1

Goto(b, from, to) == pc[b] = from /\ pc' = [pc EXCEPT ![b] = to]

(* grid.sync(): nobody leaves a barrier before everybody has arrived.      *)
ArriveEntry(b) ==
  /\ Goto(b, "start", "entry")
  /\ UNCHANGED <<qi, counters, abort, visible>>

LeaveEntry(b) ==
  /\ Goto(b, "entry", "wait")
  /\ \A c \in Blocks : pc[c] # "start"
  /\ UNCHANGED <<qi, counters, abort, visible>>

(* Mutants: one increment too many; the first slot only.                   *)
WaitsReadyLate(b) ==
  \A i \in DOMAIN CurrentTask(b).waits :
    LET w == CurrentTask(b).waits[i] IN
      i <= ABI_MAX_WAITS => counters[w.counter] > w.threshold

WaitsReadyFirst(b) ==
  \A i \in DOMAIN CurrentTask(b).waits :
    LET w == CurrentTask(b).waits[i] IN
      i <= 1 => counters[w.counter] >= w.threshold

(* amk_wait_all reads at most ABI_MAX_WAITS wait slots.                    *)
WaitsReady(b) ==
  \A i \in DOMAIN CurrentTask(b).waits :
    LET w == CurrentTask(b).waits[i] IN
      i <= ABI_MAX_WAITS => counters[w.counter] >= w.threshold

BeginTask(b) ==
  /\ Goto(b, "wait", "dispatch")
  /\ qi[b] \in DOMAIN queues[b]
  /\ WaitsReady(b)
  /\ UNCHANGED <<qi, counters, abort, visible>>

(* The flag is polled only by a block whose counters are not ready.        *)
AbandonQueue(b) ==
  /\ Goto(b, "wait", "exit")
  /\ qi[b] \in DOMAIN queues[b]
  /\ ~ WaitsReady(b)
  /\ abort
  /\ UNCHANGED <<qi, counters, abort, visible>>

(* amk_dispatch: the window in which the task reads and writes buffers     *)
(* ends here.                                                              *)
Compute(b) ==
  /\ Goto(b, "dispatch", "fence")
  /\ abort' = (abort \/ CurrentTask(b).op \notin DeviceOps)
  /\ UNCHANGED <<qi, counters, visible>>

(* Mutant: no fence before the increment.                                  *)
FenceMissing(b) ==
  /\ Goto(b, "fence", "add")
  /\ UNCHANGED <<qi, counters, abort, visible>>

(* amk_signal: __threadfence(), then the increment.                        *)
Fence(b) ==
  /\ Goto(b, "fence", "add")
  /\ visible' = visible \cup {Current(b)}
  /\ UNCHANGED <<qi, counters, abort>>

Signal(b) ==
  /\ Goto(b, "add", "wait")
  /\ counters' = [counters EXCEPT ![CurrentTask(b).out_counter] = @ + 1]
  /\ qi' = [qi EXCEPT ![b] = @ + 1]
  /\ UNCHANGED <<abort, visible>>

DrainQueue(b) ==
  /\ Goto(b, "wait", "exit")
  /\ qi[b] \notin DOMAIN queues[b]
  /\ UNCHANGED <<qi, counters, abort, visible>>

LeaveExit(b) ==
  /\ Goto(b, "exit", "done")
  /\ \A c \in Blocks : pc[c] \in {"exit", "done"}
  /\ UNCHANGED <<qi, counters, abort, visible>>

BlockStep(b) ==
  /\ host = "launched"
  /\ \/ ArriveEntry(b)
     \/ LeaveEntry(b)
     \/ BeginTask(b)
     \/ AbandonQueue(b)
     \/ Compute(b)
     \/ Fence(b)
     \/ Signal(b)
     \/ DrainQueue(b)
     \/ LeaveExit(b)
  /\ UNCHANGED <<prog, queues, host, passes>>

-----------------------------------------------------------------------------
(* Mutant: the flag is not checked after the launch.                       *)
CheckNothing ==
  /\ host = "launched"
  /\ \A b \in Blocks : pc[b] = "done"
  /\ host' = "ok"
  /\ UNCHANGED <<prog, queues, kernelVars, passes>>

(* The stream synchronised: _check_abort(), then the outputs are read.     *)
CheckAbort ==
  /\ host = "launched"
  /\ \A b \in Blocks : pc[b] = "done"
  /\ host' = IF abort THEN "raised" ELSE "ok"
  /\ UNCHANGED <<prog, queues, kernelVars, passes>>

(* cudaErrorLaunchTimeout: the display driver kills the launch.            *)
LaunchTimeout ==
  /\ host = "launched"
  /\ host' = "raised"
  /\ pc' = [b \in Blocks |-> "done"]
  /\ UNCHANGED <<prog, queues, qi, counters, abort, visible, passes>>

(* The next run(): zero the counters and the flag, launch again.           *)
Relaunch ==
  /\ host # "launched"
  /\ passes < MaxPasses
  /\ host' = "launched"
  /\ passes' = passes + 1
  /\ pc' = [b \in Blocks |-> "start"]
  /\ qi' = [b \in Blocks |-> 1]
  /\ counters' = [c \in DOMAIN prog.counters |-> 0]
  /\ abort' = FALSE
  /\ visible' = {}
  /\ UNCHANGED <<prog, queues>>

Next ==
  \/ \E b \in Blocks : BlockStep(b)
  \/ CheckAbort
  \/ LaunchTimeout
  \/ Relaunch

Spec == Init /\ [][Next]_vars

(* A cooperative launch keeps every block resident and running, and the    *)
(* host thread blocks in cudaStreamSynchronize.  Nothing forces a timeout  *)
(* or another run().                                                       *)
Fairness ==
  /\ \A b \in UNION {DOMAIN l.queues : l \in Launches} : WF_vars(b \in Blocks /\ BlockStep(b))
  /\ WF_vars(CheckAbort)

FairSpec == Spec /\ Fairness

-----------------------------------------------------------------------------
(* Types of the kernel's state.                                            *)
TypeOK ==
  /\ pc \in [Blocks -> {"start", "entry", "wait", "dispatch", "fence", "add", "exit", "done"}]
  /\ qi \in [Blocks -> Nat \ {0}]
  /\ \A b \in Blocks : qi[b] <= Len(queues[b]) + 1
  /\ \A b \in InFlight : qi[b] \in DOMAIN queues[b]
  /\ counters \in [DOMAIN prog.counters -> Nat]
  /\ abort \in BOOLEAN
  /\ visible \subseteq TaskIds(prog)
  /\ host \in {"launched", "ok", "raised"}
  /\ passes \in Nat

(* A counter counts the retired producers of this launch: none twice, none *)
(* of an earlier launch (sync.cuh: it advances by exactly 1 per            *)
(* instruction; the host zeroes it before each launch).                    *)
CountersCountRetired ==
  \A c \in DOMAIN counters : counters[c] = Cardinality(Retired \cap Producers(prog, c))

(* While a task computes, all its ancestors in the DAG, not only the       *)
(* producers it waited on, have retired.                                   *)
OrderedExecution ==
  \A b \in InFlight : Ancestors(prog, Current(b)) \subseteq Retired

(* When a task reads a transient buffer, the stores of every other writer  *)
(* of it have been fenced: "every output of every contributing producer is *)
(* written and visible" (abi.h).                                           *)
ReadsSettled ==
  Len(prog.tasks) <= PROVENANCE_MAX_TASKS =>
    \A b \in Blocks : pc[b] = "dispatch" =>
      \A x \in CurrentTask(b).inputs :
        Transient(prog, x) => Writers(prog, x) \ {Current(b)} \subseteq visible

(* Tasks t and u, computing at once, touch an element of x and one of them *)
(* writes it.                                                              *)
RaceOn(x, t, u) ==
  LET Touches(v) == x \in v.inputs
      Stores(v) == x \in v.outputs
      a == prog.tasks[t]
      b == prog.tasks[u]
  IN  \/ Stores(a) /\ Touches(b)
      \/ Touches(a) /\ Stores(b)
      \/ Stores(a) /\ Stores(b) /\ Footprint(a) \cap Footprint(b) # {}

NoRaceOn(X) ==
  \A b, c \in Blocks : b # c /\ pc[b] = "dispatch" /\ pc[c] = "dispatch" =>
    \A x \in X : ~ RaceOn(x, Current(b), Current(c))

(* An accepted program whose GEMM tiles split columns runs without a data  *)
(* race on the buffers it writes, whatever the interleaving of the blocks. *)
RaceFree ==
  Len(prog.tasks) <= PROVENANCE_MAX_TASKS /\ ColumnTiled(prog) =>
    NoRaceOn({x \in DOMAIN prog.buffers : Transient(prog, x)})

(* Some block can always take a step until all are at the exit barrier:    *)
(* the blocks never wait for each other in a circle.                       *)
SomeBlockCanMove ==
  (\E b \in Blocks : pc[b] = "wait" /\ qi[b] \in DOMAIN queues[b]) =>
     \/ \E b \in Blocks : pc[b] \in {"start", "entry"}
     \/ InFlight # {}
     \/ \E b \in Blocks : pc[b] = "wait" /\ (qi[b] \in DOMAIN queues[b] => WaitsReady(b) \/ abort)

(* run() returns results only from a launch in which every task computed,  *)
(* with its stores fenced, and no opcode trapped.                          *)
ResultsComplete ==
  host = "ok" =>
    /\ visible = TaskIds(prog)
    /\ Retired = TaskIds(prog)
    /\ \A t \in TaskIds(prog) : prog.tasks[t].op \in DeviceOps

(* Every launch ends: the exit barrier is reached with and without a trap. *)
LaunchEnds == host = "launched" ~> host # "launched"

(* The kernel implements the abstract executor.                            *)
Executor == INSTANCE TaskGraph WITH
  running <- Running,
  finished <- Retired,
  outcome <- IF host = "launched" THEN "running" ELSE host

ImplementsTaskGraph == Executor!Spec

=============================================================================
