------------------------------- MODULE Schedule -------------------------------
(***************************************************************************)
(* The megakernel IR of schedule/ir.py: a task DAG synchronised by         *)
(* counters, the relations the rest of the system derives from it, and     *)
(* the static checks of validate() that decide whether it may be loaded.   *)
(*                                                                         *)
(* A program p is a record                                                 *)
(*   p.buffers  : buffer id  -> kind                                       *)
(*   p.counters : counter id -> Counter.init                               *)
(*   p.tasks    : sequence of tasks; a task's id is its list position      *)
(*   p.num_sms  : the SMs of the target GPU                                *)
(*                                                                         *)
(* and a task is a record with its opcode (op), the buffers it reads and   *)
(* writes (inputs, outputs: sets, the order of operands does not matter    *)
(* here), out_counter, its waits (a sequence of [counter, threshold]), its *)
(* tile (the params n_off, N_tile, m_off, M_tile; m_off = -1 when absent,  *)
(* as in every program the lowerer emits) and the SM it is pinned to (sm,  *)
(* or NoSM).                                                               *)
(*                                                                         *)
(* Nothing here is recursive, so that theorems can be stated about it: the *)
(* ancestors of a task and acyclicity are given by the sets closed under   *)
(* predecessors.  Loader models the loop that decides acyclicity.          *)
(***************************************************************************)
EXTENDS Integers, Sequences, FiniteSets

CONSTANTS
  BufferIds, CounterIds, Opcodes,
  ABI_MAX_WAITS,        \* wait slots of amk_instruction_t
  PROVENANCE_MAX_TASKS, \* above it validate() skips the data-hazard checks
  NoSM,                 \* Task.sm is None
  Cols                  \* the column indices of a buffer

ASSUME AbiAssumption == ABI_MAX_WAITS \in Nat /\ PROVENANCE_MAX_TASKS \in Nat
ASSUME ColsAssumption == Cols \subseteq Nat

BufferKinds == {"WEIGHT", "ACTIVATION", "KV_CACHE", "IO_INPUT", "IO_OUTPUT", "CONST"}
ReadOnlyKinds == {"WEIGHT", "CONST", "IO_INPUT"}

WaitType == [counter : CounterIds, threshold : Int]

TaskType ==
  [op : Opcodes, inputs : SUBSET BufferIds, outputs : SUBSET BufferIds, out_counter : CounterIds,
   waits : Seq(WaitType),
   tile : [n_off : Int, N_tile : Int, m_off : Int, M_tile : Int], sm : Nat \cup {NoSM}]

IsProgram(p) ==
  /\ p.buffers \in [DOMAIN p.buffers -> BufferKinds]
  /\ p.counters \in [DOMAIN p.counters -> Nat]
  /\ p.tasks \in Seq(TaskType)
  /\ p.num_sms \in Nat

TaskIds(p) == 1 .. Len(p.tasks)

Waits(p, t) == {p.tasks[t].waits[i] : i \in DOMAIN p.tasks[t].waits}

Producers(p, c) == {t \in TaskIds(p) : p.tasks[t].out_counter = c}

Writers(p, b) == {t \in TaskIds(p) : b \in p.tasks[t].outputs}

Transient(p, b) == p.buffers[b] \notin ReadOnlyKinds

-----------------------------------------------------------------------------
(* The producer -> consumer graph.                                         *)

Pred(p, t) == {u \in TaskIds(p) : \E w \in Waits(p, t) : u \in Producers(p, w.counter)}

PredClosed(p, S) == \A t \in S : Pred(p, t) \subseteq S

(* anc[t]: the tasks in every predecessor-closed set holding t's predecessors. *)
Ancestors(p, t) ==
  {u \in TaskIds(p) :
     \A S \in SUBSET TaskIds(p) : PredClosed(p, S) /\ Pred(p, t) \subseteq S => u \in S}

HappensBefore(p, u, v) == u \in Ancestors(p, v)

(* topological_order() is not None: no set of tasks waits only on itself.  *)
Acyclic(p) == \A S \in (SUBSET TaskIds(p)) \ {{}} : \E t \in S : Pred(p, t) \cap S = {}

IsTopologicalOrder(p, order) ==
  /\ Len(order) = Len(p.tasks)
  /\ \A t \in TaskIds(p) : \E i \in 1 .. Len(order) : order[i] = t
  /\ \A i, j \in 1 .. Len(order) : order[i] \in Pred(p, order[j]) => i < j

-----------------------------------------------------------------------------
(* The part of an output buffer a task writes, as validate() sees it.      *)

TiledOps == {"GEMV_TILE", "GEMM_TILE"}
WholeBuffer == [rows |-> <<0, -1>>, cols |-> <<0, -1>>]
AllRows == <<0, -1>>

WriteRegion(task) ==
  LET tile == task.tile
      cols == <<tile.n_off, tile.n_off + tile.N_tile>>
  IN  IF task.op \notin TiledOps \/ tile.n_off < 0 \/ tile.N_tile <= 0
      THEN WholeBuffer
      ELSE IF task.op = "GEMM_TILE" /\ tile.m_off >= 0 /\ tile.M_tile > 0
           THEN [rows |-> <<tile.m_off, tile.m_off + tile.M_tile>>, cols |-> cols]
           ELSE [rows |-> AllRows, cols |-> cols]

RangesOverlap(a, b) == a[2] = -1 \/ b[2] = -1 \/ (a[1] < b[2] /\ b[1] < a[2])

RegionsDisjoint(ra, rb) ==
  /\ ra # WholeBuffer /\ rb # WholeBuffer
  /\ ~ RangesOverlap(ra.rows, rb.rows) \/ ~ RangesOverlap(ra.cols, rb.cols)

(* The columns the instruction really stores to.  A GEMM tile computes every *)
(* row of its columns: neither the kernel nor the reference oracle reads     *)
(* m_off or M_tile.                                                          *)
Footprint(task) ==
  IF task.op \in TiledOps
  THEN {c \in Cols : task.tile.n_off <= c /\ c < task.tile.n_off + task.tile.N_tile}
  ELSE Cols

(* No GEMM tile carries m_off: tiles split columns only.  The lowerer       *)
(* (_gemm_tiles) emits no other programs; validate() accepts others.        *)
ColumnTiled(p) == \A t \in TaskIds(p) : p.tasks[t].op = "GEMM_TILE" => p.tasks[t].tile.m_off < 0

(* new_counter(): every counter starts at 0.  The program record may say    *)
(* otherwise, and validate() does not look.                                 *)
FreshCounters(p) == \A c \in DOMAIN p.counters : p.counters[c] = 0

-----------------------------------------------------------------------------
(* validate(): each conjunct is one numbered check of the code.            *)

(* 1. ids resolve, the waits fit the ABI record, thresholds are positive,   *)
(*    nobody waits on its own out_counter.                                  *)
WellFormed(p) ==
  \A t \in TaskIds(p) :
    LET task == p.tasks[t] IN
      /\ task.inputs \cup task.outputs \subseteq DOMAIN p.buffers
      /\ task.out_counter \in DOMAIN p.counters
      /\ Len(task.waits) <= ABI_MAX_WAITS
      /\ \A w \in Waits(p, t) :
           /\ w.counter \in DOMAIN p.counters
           /\ w.threshold >= 1
           /\ w.counter # task.out_counter

(* 2. + 3. a wait can be satisfied, and on a shared counter it is a join.   *)
WaitsAreJoins(p) ==
  \A t \in TaskIds(p) : \A w \in Waits(p, t) :
    LET np == Cardinality(Producers(p, w.counter)) IN
      /\ np # 0
      /\ w.threshold <= np
      /\ np > 1 => w.threshold = np

(* 5. every writer of a transient input, other than the reader itself, is   *)
(*    ordered before the read.                                              *)
ReadsOrdered(p) ==
  \A t \in TaskIds(p) : \A b \in p.tasks[t].inputs :
    Transient(p, b) =>
      /\ p.buffers[b] # "KV_CACHE" => Writers(p, b) # {}
      /\ Writers(p, b) \ {t} \subseteq Ancestors(p, t)

(* Mutant of 5a: one counter is taken for disjoint tiles.                   *)
TilesShareCounter(p, ws) ==
  \A u, v \in ws : p.tasks[u].out_counter = p.tasks[v].out_counter

(* 5a. the writers of a buffer are disjoint tiles under one counter, or     *)
(*     totally ordered.                                                     *)
DisjointTiles(p, ws) ==
  \A u, v \in ws : u # v =>
    /\ p.tasks[u].out_counter = p.tasks[v].out_counter
    /\ RegionsDisjoint(WriteRegion(p.tasks[u]), WriteRegion(p.tasks[v]))

TotallyOrdered(p, ws) ==
  \A u, v \in ws : u # v => HappensBefore(p, u, v) \/ HappensBefore(p, v, u)

WritesOrdered(p) ==
  \A b \in DOMAIN p.buffers : Transient(p, b) =>
    DisjointTiles(p, Writers(p, b)) \/ TotallyOrdered(p, Writers(p, b))

(* 6. a pinned producer precedes a consumer on its SM in the task list, and *)
(*    pins name SMs of the target.                                          *)
PinnedInListOrder(p) ==
  \A t \in TaskIds(p) :
    p.tasks[t].sm # NoSM =>
      /\ \A u \in Pred(p, t) : p.tasks[u].sm = p.tasks[t].sm => u < t
      /\ p.tasks[t].sm < p.num_sms

(* 8. every output of the program is produced.                              *)
OutputsProduced(p) ==
  \A b \in DOMAIN p.buffers : p.buffers[b] = "IO_OUTPUT" => Writers(p, b) # {}

Accepted(p) ==
  /\ WellFormed(p)
  /\ WaitsAreJoins(p)
  /\ Acyclic(p)
  /\ Len(p.tasks) <= PROVENANCE_MAX_TASKS => ReadsOrdered(p) /\ WritesOrdered(p)
  /\ PinnedInListOrder(p)
  /\ OutputsProduced(p)

-----------------------------------------------------------------------------
(* The launch tables.  queues[b] is the instruction queue of block b.      *)

(* The tasks in front of t in its block's queue.                           *)
Ahead(p, queues, t) ==
  {u \in TaskIds(p) : \E b \in DOMAIN queues : \E i, j \in DOMAIN queues[b] :
                        i < j /\ queues[b][i] = u /\ queues[b][j] = t}

(* abi.h: every task sits in exactly one queue slot, and all the queues     *)
(* follow one global topological sort.  The second part is stated without   *)
(* naming the sort: no set of tasks waits only on itself, neither for a     *)
(* counter nor for a turn in a queue.                                       *)
QueuesPartition(p, queues) ==
  /\ \A t \in TaskIds(p) : \E b \in DOMAIN queues : \E i \in DOMAIN queues[b] : queues[b][i] = t
  /\ \A b, c \in DOMAIN queues : \A i \in DOMAIN queues[b], j \in DOMAIN queues[c] :
       queues[b][i] = queues[c][j] => b = c /\ i = j

(* Mutant: each queue alone follows the dependencies.                       *)
QueuesFollowOwnOrder(p, queues) ==
  \A b \in DOMAIN queues : \A i, j \in DOMAIN queues[b] :
    queues[b][i] \in Pred(p, queues[b][j]) => i < j

QueuesFollowGlobalOrder(p, queues) ==
  \A S \in (SUBSET TaskIds(p)) \ {{}} :
    \E t \in S : Pred(p, t) \cap S = {} /\ Ahead(p, queues, t) \cap S = {}

LaunchContract(p, queues) ==
  QueuesPartition(p, queues) /\ QueuesFollowGlobalOrder(p, queues)
=============================================================================
