---------------------------- MODULE MCReferenceVM ----------------------------
(***************************************************************************)
(* Model checking ReferenceVM: every order of the task list of the sample  *)
(* programs, those validate() rejects and those that deadlock included.    *)
(***************************************************************************)
EXTENDS ReferenceVM, SamplePrograms, SequencesExt

Reorderings(p) == {[p EXCEPT !.tasks = s] : s \in {[i \in DOMAIN q |-> p.tasks[q[i]]] :
                                                    q \in SetToSeqs(TaskIds(p))}}

(* Programs that deadlock: a cycle, alone and beside work that can be done, *)
(* a threshold no counter reaches, a wait for a counter nobody signals; one *)
(* whose preset counter breaks the cycle.  Preset is accepted, though its   *)
(* preset counter lets the reader start first.                              *)
Unreachable == [Chain EXCEPT !.tasks[2].waits = <<Wait(1, 2)>>]
Unsignalled == [Chain EXCEPT !.tasks[2].waits = <<Wait(4, 1)>>]
BrokenCycle == [Cycle EXCEPT !.counters[1] = 1]
Preset == [Chain EXCEPT !.counters[1] = 1]

MCPrograms ==
  UNION {Reorderings(p) :
           p \in Loadable \cup Rejected \cup {Unreachable, Unsignalled, BrokenCycle, Preset}}
=============================================================================
