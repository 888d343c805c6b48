------------------------------ MODULE TaskGraph ------------------------------
(***************************************************************************)
(* What every executor of a schedule promises: one pass runs each task     *)
(* once, a task starts only when all its predecessors have finished, and   *)
(* the caller gets a result only from a pass in which every task finished  *)
(* and none trapped.  No counters, no queues, no SMs.                      *)
(*                                                                         *)
(* The CUDA scheduler (MegakernelVM) and the CPU oracle (ReferenceVM) are  *)
(* shown to implement it.                                                  *)
(***************************************************************************)
EXTENDS Schedule

VARIABLES
  prog,      \* the loaded program
  running,   \* tasks that are computing
  finished,  \* tasks whose outputs are written and announced
  outcome    \* "running", "ok" (results returned) or "raised"

vars == <<prog, running, finished, outcome>>

Init ==
  /\ running = {}
  /\ finished = {}
  /\ outcome = "running"

Start(t) ==
  /\ outcome = "running"
  /\ t \notin running \cup finished
  /\ Pred(prog, t) \subseteq finished
  /\ running' = running \cup {t}
  /\ UNCHANGED <<prog, finished, outcome>>

Finish(t) ==
  /\ t \in running
  /\ running' = running \ {t}
  /\ finished' = finished \cup {t}
  /\ UNCHANGED <<prog, outcome>>

Return ==
  /\ outcome = "running"
  /\ running = {}
  /\ finished = TaskIds(prog)
  /\ outcome' = "ok"
  /\ UNCHANGED <<prog, running, finished>>

(* A trap or a timeout: the caller sees an exception, never a result.  A   *)
(* killed pass abandons the tasks it was computing.                        *)
Raise ==
  /\ outcome = "running"
  /\ running' = {}
  /\ outcome' = "raised"
  /\ UNCHANGED <<prog, finished>>

NextPass ==
  /\ outcome # "running"
  /\ finished' = {}
  /\ outcome' = "running"
  /\ UNCHANGED <<prog, running>>

Next ==
  \/ \E t \in TaskIds(prog) : Start(t) \/ Finish(t)
  \/ Return
  \/ Raise
  \/ NextPass

Spec == Init /\ [][Next]_vars
=============================================================================
