------------------------------ MODULE MCLoader ------------------------------
(***************************************************************************)
(* Model checking Loader: every dependency graph over three tasks, cyclic  *)
(* ones included, every pinning of the sample programs, and every cost     *)
(* assignment of four independent tasks.                                   *)
(***************************************************************************)
EXTENDS Loader, SamplePrograms, SequencesExt

(* Task t signals counter t and waits on the counters of its predecessors. *)
GraphProgram(n, preds) ==
  Program([t \in 1 .. n |->
    Task("COPY", {"x"}, {"out"}, t,
         [i \in 1 .. Cardinality(preds[t]) |-> Wait(SetToSeq(preds[t])[i], 1)])])

Job(p, cost) ==
  [prog |-> p, strict |-> FALSE, roundRobin |-> FALSE, tpb |-> 256, smem |-> 0, smemCap |-> 0,
   wanted |-> 2, coresident |-> 2, cost |-> cost]

ByPosition(p) == [t \in TaskIds(p) |-> <<t, 0>>]

(* Every graph, sorted without the protection of validate().               *)
GraphJobs ==
  {Job(p, ByPosition(p)) : p \in {GraphProgram(3, g) : g \in [1 .. 3 -> SUBSET (1 .. 3)]}}

(* Every pinning to the SMs 0 .. 3 of a grid of two, or to none; the target  *)
(* has three.                                                              *)
PinnedAs(p, pins) == [p EXCEPT !.tasks = [t \in TaskIds(p) |-> [p.tasks[t] EXCEPT !.sm = pins[t]]]]
PinJobs ==
  UNION {{[Job(PinnedAs(p, pins), ByPosition(p)) EXCEPT !.strict = TRUE, !.roundRobin = r] :
            pins \in [TaskIds(p) -> {NoSM, 0, 1, 2, 3}], r \in BOOLEAN} :
         p \in {Chain, TwoChains, PartialJoin}}

(* Every cost of four independent tasks on three SMs; flops disagree.      *)
CostJobs ==
  {[Job(GraphProgram(4, [t \in 1 .. 4 |-> {}]), [t \in 1 .. 4 |-> <<c[t], 3 - c[t]>>])
      EXCEPT !.wanted = 3, !.coresident = k] :
     c \in [1 .. 4 -> 0 .. 3], k \in {2, 4}}

(* Launch configurations the constructor refuses.                          *)
RefusedJobs ==
  {[Job(Chain, ByPosition(Chain)) EXCEPT !.tpb = 512],
   [Job(Chain, ByPosition(Chain)) EXCEPT !.smem = 1],
   [Job(Chain, ByPosition(Chain)) EXCEPT !.coresident = 0]}

MCJobs == GraphJobs \cup PinJobs \cup CostJobs \cup RefusedJobs
=============================================================================
