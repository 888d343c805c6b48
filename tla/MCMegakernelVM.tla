--------------------------- MODULE MCMegakernelVM ---------------------------
(***************************************************************************)
(* Model checking MegakernelVM: the sample programs with every way to lay  *)
(* their tasks out in the queues of two or three blocks.  Programs         *)
(* validate() must reject and layouts that break the launch contract are   *)
(* included: Init filters them with the checks under test.                 *)
(***************************************************************************)
EXTENDS MegakernelVM, SamplePrograms, SequencesExt

(* Every split of the task list, in any order, between n blocks.           *)
Cuts(len, n) ==
  {cut \in [0 .. n -> 0 .. len] :
     cut[0] = 0 /\ cut[n] = len /\ \A i \in 1 .. n : cut[i - 1] <= cut[i]}

Layouts(p, n) ==
  {[b \in 0 .. n - 1 |-> SubSeq(s, cut[b] + 1, cut[b + 1])] :
     s \in SetToSeqs(TaskIds(p)), cut \in Cuts(Len(p.tasks), n)}

LaunchesOf(P) ==
  {[prog |-> l[1], queues |-> l[2]] :
     l \in UNION {{p} \X UNION {Layouts(p, n) : n \in 2 .. 3} : p \in P}}

MCLaunches == LaunchesOf(Loadable \cup Rejected)

MCDeviceOps == SampleOpcodes \ {"GELU"}
=============================================================================
