-------------------------------- MODULE Loader --------------------------------
(***************************************************************************)
(* Construction of a MegakernelVM (vm/loader.py __init__, _assign_sms): a  *)
(* program is validated, sorted by Kahn's algorithm (schedule/ir.py        *)
(* topological_order) and its tasks are dealt to one queue per block.  The *)
(* outcome is either a refusal or the launch tables the kernel runs on.    *)
(*                                                                         *)
(* A job is what the constructor is given and what the device reports:     *)
(*   prog, strict (strict_validate), roundRobin (sm_round_robin),          *)
(*   tpb (threads_per_block), smem and smemCap (dynamic shared memory and  *)
(*   the opt-in cap), wanted (blocks_per_sm * num_sms), coresident (the    *)
(*   occupancy limit) and cost: task -> <<est_bytes, est_flops>>.          *)
(***************************************************************************)
EXTENDS Schedule

CONSTANTS
  Jobs,
  SAFE_MAX_TPB   \* threads per block the cooperative kernel is validated for

ASSUME JobsAssumption ==
  \A j \in Jobs :
    /\ IsProgram(j.prog)
    /\ j.wanted \in Nat \ {0} /\ j.coresident \in Nat
    /\ j.cost \in [TaskIds(j.prog) -> Nat \X Nat]

VARIABLES
  job,
  phase,    \* "validate", "seed", "pop", "release", "place", "fill", "ready" or "refused"
  indeg,    \* task -> predecessors not yet popped
  ready,    \* the deque of Kahn's algorithm
  order,    \* the topological order under construction
  next,     \* cursor of the loop of the current phase
  grid,     \* grid_dim
  load,     \* SM -> <<bytes, flops, count>>, the heap entries
  smOf,     \* task -> SM
  queues    \* SM -> its queue

vars == <<job, phase, indeg, ready, order, next, grid, load, smOf, queues>>

prog == job.prog
N == Len(prog.tasks)
SMs == 0 .. grid - 1
Newest(s) == s[Len(s)]

Init ==
  /\ job \in Jobs
  /\ phase = "validate"
  /\ indeg = [t \in TaskIds(prog) |-> Cardinality(Pred(prog, t))]
  /\ ready = <<>>
  /\ order = <<>>
  /\ next = 1
  /\ grid = 0
  /\ load = <<>>
  /\ smOf = <<>>
  /\ queues = <<>>

(* validate(), then the launch-configuration guards.                       *)
Validate ==
  /\ phase = "validate"
  /\ phase' = IF /\ job.strict => Accepted(prog)
                 /\ job.tpb <= SAFE_MAX_TPB
                 /\ job.smem <= job.smemCap
              THEN "seed" ELSE "refused"
  /\ UNCHANGED <<job, indeg, ready, order, next, grid, load, smOf, queues>>

-----------------------------------------------------------------------------
(* topological_order()                                                     *)

(* ready = deque(sorted(t for t if indeg[t] == 0)), one task at a time.    *)
Seed ==
  /\ phase = "seed"
  /\ next <= N
  /\ ready' = IF indeg[next] = 0 THEN Append(ready, next) ELSE ready
  /\ next' = next + 1
  /\ UNCHANGED <<job, phase, indeg, order, grid, load, smOf, queues>>

StartSort ==
  /\ phase = "seed"
  /\ next > N
  /\ phase' = "pop"
  /\ UNCHANGED <<job, indeg, ready, order, next, grid, load, smOf, queues>>

Pop ==
  /\ phase = "pop"
  /\ ready # <<>>
  /\ order' = Append(order, Head(ready))
  /\ ready' = Tail(ready)
  /\ next' = 1
  /\ phase' = "release"
  /\ UNCHANGED <<job, indeg, grid, load, smOf, queues>>

(* Mutant: the cursor moves on a release only.                             *)
ReleaseWaits ==
  /\ phase = "release"
  /\ next <= N
  /\ Newest(order) \in Pred(prog, next)
  /\ next' = next + 1
  /\ indeg' = [indeg EXCEPT ![next] = @ - 1]
  /\ ready' = IF indeg[next] = 1 THEN Append(ready, next) ELSE ready
  /\ UNCHANGED <<job, phase, order, grid, load, smOf, queues>>

(* for m in adj[n]: the adjacency lists are ascending.                     *)
Release ==
  /\ phase = "release"
  /\ next <= N
  /\ next' = next + 1
  /\ IF Newest(order) \in Pred(prog, next)
     THEN /\ indeg' = [indeg EXCEPT ![next] = @ - 1]
          /\ ready' = IF indeg[next] = 1 THEN Append(ready, next) ELSE ready
     ELSE UNCHANGED <<indeg, ready>>
  /\ UNCHANGED <<job, phase, order, grid, load, smOf, queues>>

Released ==
  /\ phase = "release"
  /\ next > N
  /\ phase' = "pop"
  /\ UNCHANGED <<job, indeg, ready, order, next, grid, load, smOf, queues>>

(* Mutant: a partial order is taken for a sort.                            *)
SortedUnchecked ==
  /\ phase = "pop"
  /\ ready = <<>>
  /\ next' = 1
  /\ phase' = "place"
  /\ grid' = job.wanted
  /\ load' = [s \in 0 .. job.wanted - 1 |-> <<0, 0, 0>>]
  /\ queues' = [s \in 0 .. job.wanted - 1 |-> <<>>]
  /\ UNCHANGED <<job, indeg, ready, order, smOf>>

(* The sort is over.  A cycle or a device without room for a block refuses *)
(* the program; otherwise the cooperative grid is sized.                   *)
Sorted ==
  /\ phase = "pop"
  /\ ready = <<>>
  /\ next' = 1
  /\ IF Len(order) = N /\ job.coresident > 0
     THEN LET g == IF job.wanted <= job.coresident THEN job.wanted ELSE job.coresident IN
          /\ phase' = "place"
          /\ grid' = g
          /\ load' = [s \in 0 .. g - 1 |-> <<0, 0, 0>>]
          /\ queues' = [s \in 0 .. g - 1 |-> <<>>]
     ELSE phase' = "refused" /\ UNCHANGED <<grid, load, queues>>
  /\ UNCHANGED <<job, indeg, ready, order, smOf>>

-----------------------------------------------------------------------------
(* _assign_sms()                                                           *)

Pinned(t) == prog.tasks[t].sm # NoSM

(* Some task is pinned and no pin is outside the grid.                     *)
KeepPins ==
  /\ \E t \in TaskIds(prog) : Pinned(t)
  /\ \A t \in TaskIds(prog) : Pinned(t) => prog.tasks[t].sm \in SMs

(* Mutant: the number of tasks decides, not their bytes.                   *)
LighterByCount(r, s) ==
  \/ load[r][3] < load[s][3]
  \/ load[r][3] = load[s][3] /\ r < s

(* The heap's order: bytes, then flops, then count, then SM.               *)
Lighter(r, s) ==
  LET a == load[r]
      b == load[s]
  IN  \/ a[1] < b[1]
      \/ a[1] = b[1] /\ a[2] < b[2]
      \/ a[1] = b[1] /\ a[2] = b[2] /\ a[3] < b[3]
      \/ a = b /\ r < s

Place(t, s) ==
  /\ smOf' = [u \in DOMAIN smOf \cup {t} |-> IF u = t THEN s ELSE smOf[u]]
  /\ next' = next + 1
  /\ UNCHANGED <<job, phase, indeg, ready, order, grid, queues>>

PlacePinned ==
  /\ phase = "place"
  /\ next <= N
  /\ KeepPins
  /\ Place(order[next], IF Pinned(order[next]) THEN prog.tasks[order[next]].sm ELSE 0)
  /\ UNCHANGED load

PlaceRoundRobin ==
  /\ phase = "place"
  /\ next <= N
  /\ ~ KeepPins
  /\ job.roundRobin
  /\ Place(order[next], (next - 1) % grid)
  /\ UNCHANGED load

PlaceLightest ==
  /\ phase = "place"
  /\ next <= N
  /\ ~ KeepPins
  /\ ~ job.roundRobin
  /\ \E s \in SMs :
       /\ \A r \in SMs \ {s} : Lighter(s, r)
       /\ Place(order[next], s)
       /\ LET c == job.cost[order[next]] IN
          load' = [load EXCEPT ![s] = <<@[1] + c[1], @[2] + c[2], @[3] + 1>>]

Placed ==
  /\ phase = "place"
  /\ next > N
  /\ phase' = "fill"
  /\ next' = 1
  /\ UNCHANGED <<job, indeg, ready, order, grid, load, smOf, queues>>

(* Mutant: the queues follow the task list.                                *)
FillListOrder ==
  /\ phase = "fill"
  /\ next <= N
  /\ queues' = [queues EXCEPT ![smOf[next]] = Append(@, next)]
  /\ next' = next + 1
  /\ UNCHANGED <<job, phase, indeg, ready, order, grid, load, smOf>>

(* for tid in self._topo: self._queues[self._sm_of[tid]].append(tid)       *)
Fill ==
  /\ phase = "fill"
  /\ next <= N
  /\ queues' = [queues EXCEPT ![smOf[order[next]]] = Append(@, order[next])]
  /\ next' = next + 1
  /\ UNCHANGED <<job, phase, indeg, ready, order, grid, load, smOf>>

Filled ==
  /\ phase = "fill"
  /\ next > N
  /\ phase' = "ready"
  /\ UNCHANGED <<job, indeg, ready, order, next, grid, load, smOf, queues>>

Next ==
  \/ Validate
  \/ Seed \/ StartSort \/ Pop \/ Release \/ Released \/ Sorted
  \/ PlacePinned \/ PlaceRoundRobin \/ PlaceLightest \/ Placed
  \/ Fill \/ Filled

Spec == Init /\ [][Next]_vars

(* The constructor runs on the caller's thread to the end.                 *)
FairSpec == Spec /\ WF_vars(Next)

-----------------------------------------------------------------------------
TypeOK ==
  /\ phase \in {"validate", "seed", "pop", "release", "place", "fill", "ready", "refused"}
  /\ indeg \in [TaskIds(prog) -> Nat]
  /\ ready \in Seq(TaskIds(prog))
  /\ order \in Seq(TaskIds(prog))
  /\ next \in 1 .. N + 1
  /\ grid \in Nat
  /\ phase \in {"place", "fill", "ready"} => grid > 0
  /\ smOf \in [DOMAIN smOf -> SMs] /\ DOMAIN smOf \subseteq TaskIds(prog)
  /\ phase \in {"place", "fill", "ready"} => queues \in [SMs -> Seq(TaskIds(prog))]

Topo == phase \in {"place", "fill", "ready"}

(* Kahn's loop decides acyclicity: a complete order is a topological one,  *)
(* and a program is called cyclic only if some of its tasks wait only on   *)
(* each other (topological_order: "None if the graph has a cycle").        *)
KahnIsSound ==
  /\ Topo => IsTopologicalOrder(prog, order) /\ Acyclic(prog)
  /\ phase = "pop" /\ ready = <<>> /\ Len(order) # N => ~ Acyclic(prog)

(* The tables of a loaded program keep the launch contract of abi.h, however *)
(* the SMs were assigned: by pins, round robin or cost.                    *)
LoadedTablesKeepContract ==
  phase = "ready" => LaunchContract(prog, queues)

(* Cost balancing: no SM is loaded beyond another by more than one task.   *)
Balanced ==
  ~ job.roundRobin /\ Topo /\ ~ KeepPins =>
    \A r, s \in SMs : load[r][1] > load[s][1] =>
      \E t \in DOMAIN smOf : smOf[t] = r /\ load[r][1] - load[s][1] <= job.cost[t][1]

(* Every construction ends, with tables or with a refusal.                 *)
LoadEnds == <>(phase \in {"ready", "refused"})

=============================================================================
