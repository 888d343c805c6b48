----------------------------- MODULE ReferenceVM -----------------------------
(***************************************************************************)
(* The CPU oracle (vm/reference_vm.py): run() binds the buffers and sweeps *)
(* the task list until every task is done.  A task whose waits hold runs   *)
(* its reference operator and increments its counter; a sweep without      *)
(* progress, and a sweep that ends past the time limit, raise.             *)
(*                                                                         *)
(* The oracle is sequential; what varies is the program, which operators   *)
(* raise and when the clock runs out.                                      *)
(***************************************************************************)
EXTENDS Schedule

CONSTANTS
  Programs,  \* programs a caller may load
  MaxRuns    \* bound on the calls of run() in one behaviour

ASSUME ProgramsAssumption == \A p \in Programs : IsProgram(p)

(* Without the check, the programs considered still name counters that     *)
(* exist (an unknown one reads as 0 and is created by its first producer). *)
ASSUME CountersExist ==
  \A p \in Programs : \A t \in TaskIds(p) :
    /\ p.tasks[t].out_counter \in DOMAIN p.counters
    /\ \A w \in Waits(p, t) : w.counter \in DOMAIN p.counters

VARIABLES
  prog,        \* the loaded program
  phase,       \* "bind", "head", "sweep", "exec", "ok", "stuck" or "raised"
  cval,        \* counter -> value
  done,        \* tasks that completed in this run
  cursor,      \* position of the sweep in the task list
  progressed,  \* this sweep completed a task
  runs         \* calls of run() so far

vars == <<prog, phase, cval, done, cursor, progressed, runs>>

Ended == {"ok", "stuck", "raised"}

(* The constructor refuses a program validate() rejects, unless its caller *)
(* turned the check off.                                                   *)
Init ==
  /\ \E strict_validate \in BOOLEAN :
       prog \in {p \in Programs : strict_validate => Accepted(p)}
  /\ phase = "bind"
  /\ cval = prog.counters
  /\ done = {}
  /\ cursor = 1
  /\ progressed = FALSE
  /\ runs = 1

(* _bind: a weight or an input the caller did not supply is a KeyError.    *)
Bind ==
  /\ phase = "bind"
  /\ phase' \in {"head", "raised"}
  /\ UNCHANGED <<prog, cval, done, cursor, progressed, runs>>

(* while remaining > 0                                                     *)
StartSweep ==
  /\ phase = "head"
  /\ done # TaskIds(prog)
  /\ phase' = "sweep"
  /\ cursor' = 1
  /\ progressed' = FALSE
  /\ UNCHANGED <<prog, cval, done, runs>>

Return ==
  /\ phase = "head"
  /\ done = TaskIds(prog)
  /\ phase' = "ok"
  /\ UNCHANGED <<prog, cval, done, cursor, progressed, runs>>

(* Mutant: one wait is enough.                                             *)
ReadyAny(t) ==
  Waits(prog, t) = {} \/ \E w \in Waits(prog, t) : cval[w.counter] >= w.threshold

Ready(t) == \A w \in Waits(prog, t) : cval[w.counter] >= w.threshold

(* Mutant: the cursor stays on a task that is done.                        *)
SkipReadyOnly ==
  /\ phase = "sweep"
  /\ cursor \in TaskIds(prog) \ done
  /\ ~ Ready(cursor)
  /\ cursor' = cursor + 1
  /\ UNCHANGED <<prog, phase, cval, done, progressed, runs>>

SkipTask ==
  /\ phase = "sweep"
  /\ cursor \in TaskIds(prog)
  /\ cursor \in done \/ ~ Ready(cursor)
  /\ cursor' = cursor + 1
  /\ UNCHANGED <<prog, phase, cval, done, progressed, runs>>

BeginTask ==
  /\ phase = "sweep"
  /\ cursor \in TaskIds(prog) \ done
  /\ Ready(cursor)
  /\ phase' = "exec"
  /\ UNCHANGED <<prog, cval, done, cursor, progressed, runs>>

(* Mutant: the completion is not progress.                                 *)
CompleteQuietly ==
  /\ phase = "exec"
  /\ phase' = "sweep"
  /\ cval' = [cval EXCEPT ![prog.tasks[cursor].out_counter] = @ + 1]
  /\ done' = done \cup {cursor}
  /\ cursor' = cursor + 1
  /\ UNCHANGED <<prog, progressed, runs>>

CompleteTask ==
  /\ phase = "exec"
  /\ phase' = "sweep"
  /\ cval' = [cval EXCEPT ![prog.tasks[cursor].out_counter] = @ + 1]
  /\ done' = done \cup {cursor}
  /\ cursor' = cursor + 1
  /\ progressed' = TRUE
  /\ UNCHANGED <<prog, runs>>

(* The reference operator raises (shapes, dtypes, a missing operator).     *)
TaskRaises ==
  /\ phase = "exec"
  /\ phase' = "raised"
  /\ UNCHANGED <<prog, cval, done, cursor, progressed, runs>>

(* DeadlockError: "no progress with ... tasks stuck".                      *)
NoProgress ==
  /\ phase = "sweep"
  /\ cursor = Len(prog.tasks) + 1
  /\ ~ progressed
  /\ phase' = "stuck"
  /\ UNCHANGED <<prog, cval, done, cursor, progressed, runs>>

(* The clock is read after every sweep that made progress, the last one    *)
(* included: a run whose tasks are all done may still raise.               *)
EndSweep ==
  /\ phase = "sweep"
  /\ cursor = Len(prog.tasks) + 1
  /\ progressed
  /\ phase' \in {"head", "raised"}
  /\ UNCHANGED <<prog, cval, done, cursor, progressed, runs>>

(* Mutant: the counters survive the run.                                   *)
RunAgainStale ==
  /\ phase \in Ended
  /\ runs < MaxRuns
  /\ runs' = runs + 1
  /\ phase' = "bind"
  /\ done' = {}
  /\ cursor' = 1
  /\ progressed' = FALSE
  /\ UNCHANGED <<prog, cval>>

(* The next call of run().                                                 *)
RunAgain ==
  /\ phase \in Ended
  /\ runs < MaxRuns
  /\ runs' = runs + 1
  /\ phase' = "bind"
  /\ cval' = prog.counters
  /\ done' = {}
  /\ cursor' = 1
  /\ progressed' = FALSE
  /\ UNCHANGED prog

Step ==
  \/ Bind
  \/ StartSweep \/ Return
  \/ SkipTask \/ BeginTask \/ CompleteTask \/ TaskRaises
  \/ NoProgress \/ EndSweep

Next == Step \/ RunAgain

Spec == Init /\ [][Next]_vars

(* run() executes on the caller's thread to its end.                       *)
FairSpec == Spec /\ WF_vars(Step)

-----------------------------------------------------------------------------
(* Types of the oracle's state.                                            *)
TypeOK ==
  /\ phase \in {"bind", "head", "sweep", "exec"} \cup Ended
  /\ cval \in [DOMAIN prog.counters -> Nat]
  /\ done \subseteq TaskIds(prog)
  /\ cursor \in 1 .. Len(prog.tasks) + 1
  /\ progressed \in BOOLEAN
  /\ runs \in Nat

(* A program the contract covers: validate() accepts it and no counter is  *)
(* preset.                                                                 *)
Lawful(p) == Accepted(p) /\ FreshCounters(p)

(* While a task of such a program runs, every other writer of the          *)
(* transient buffers it reads is done: the oracle never computes from a    *)
(* half-written buffer (ir.py "ALL producers of B are ordered before the   *)
(* read").                                                                 *)
ReadsSettled ==
  phase = "exec" /\ Lawful(prog) /\ Len(prog.tasks) <= PROVENANCE_MAX_TASKS =>
    \A b \in prog.tasks[cursor].inputs :
      Transient(prog, b) => Writers(prog, b) \ {cursor} \subseteq done

(* The watchdog never fires on an accepted program, whatever the order of  *)
(* its task list.                                                          *)
NeverStuck == phase = "stuck" => ~ Accepted(prog)

(* The watchdog never cries wolf: the tasks it reports cannot be run in    *)
(* any order by anyone.  Each waits for more increments than the counter's *)
(* initial value and its producers outside the stuck set can give.         *)
StuckIsDeadlock ==
  phase = "stuck" =>
    LET stuck == TaskIds(prog) \ done IN
      /\ stuck # {}
      /\ \A t \in stuck : \E w \in Waits(prog, t) :
           prog.counters[w.counter] + Cardinality(Producers(prog, w.counter) \ stuck) < w.threshold

(* A sweep completes another task or ends the run, so a run takes at      *)
(* most one sweep per task and ends; a deadlocked program ends as well.    *)
RunEnds == phase = "bind" ~> phase \in Ended

(* On such a program the oracle implements the abstract executor the CUDA  *)
(* scheduler implements.  (Any other one is mapped to an executor at rest.)  *)
Executor == INSTANCE TaskGraph WITH
  running <- IF Lawful(prog) /\ phase = "exec" THEN {cursor} ELSE {},
  finished <- IF Lawful(prog) THEN done ELSE {},
  outcome <- IF Lawful(prog) /\ phase = "ok" THEN "ok"
             ELSE IF Lawful(prog) /\ phase \in Ended THEN "raised" ELSE "running"

ImplementsTaskGraph == Executor!Spec
=============================================================================
