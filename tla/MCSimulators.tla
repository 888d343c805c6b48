----------------------------- MODULE MCSimulators -----------------------------
(***************************************************************************)
(* Model checking Simulators: the sample programs, every wait threshold    *)
(* from 0 to 3 on every dependency graph of three tasks that share a       *)
(* counter or do not, and counters preset to 1.                            *)
(***************************************************************************)
EXTENDS Simulators, SamplePrograms, SequencesExt

(* Task t signals counter c[t] and waits for k producers of counter w[t].  *)
JoinPrograms ==
  {Program([t \in 1 .. 3 |-> Task("COPY", {"x"}, {"out"}, c[t], <<Wait(w[t], k)>>)]) :
     c \in [1 .. 3 -> 1 .. 2], w \in [1 .. 3 -> 1 .. 2], k \in 0 .. 3}

MCPrograms ==
  Loadable \cup Rejected \cup JoinPrograms
    \cup {[p EXCEPT !.counters[1] = 1] : p \in Loadable \cup JoinPrograms}
=============================================================================
