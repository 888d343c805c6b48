------------------------------ MODULE Simulators ------------------------------
(***************************************************************************)
(* The two simulations of schedule/ir.py that fire the tasks of a program  *)
(* by counters without computing anything: simulate_counters (in list      *)
(* order, returns the stuck tasks) and simulate_adversarial (in varied     *)
(* orders, reports reads of buffers nobody has written).  Both fire one    *)
(* ready task at a time until none is left; which one is the choice of     *)
(* Fire.  They accept any program whose ids resolve, checked or not, and   *)
(* start the counters at Counter.init.                                     *)
(***************************************************************************)
EXTENDS Schedule

CONSTANT Simulated   \* programs whose buffer and counter ids resolve

ASSUME SimulatedAssumption ==
  \A p \in Simulated : IsProgram(p) /\ \A t \in TaskIds(p) :
    /\ p.tasks[t].inputs \cup p.tasks[t].outputs \subseteq DOMAIN p.buffers
    /\ p.tasks[t].out_counter \in DOMAIN p.counters
    /\ \A w \in Waits(p, t) : w.counter \in DOMAIN p.counters

VARIABLES
  program,
  count,     \* counter -> value
  fired,     \* fired tasks
  written,   \* buffers that count as written
  flagged    \* <<task, buffer>>: a reported read before a write

simvars == <<program, count, fired, written, flagged>>

(* A KV cache no task writes holds the state of earlier steps.             *)
Prewritten(p) ==
  {b \in DOMAIN p.buffers :
     Transient(p, b) => p.buffers[b] = "KV_CACHE" /\ Writers(p, b) = {}}

SimInit ==
  /\ program \in Simulated
  /\ count = program.counters
  /\ fired = {}
  /\ written = Prewritten(program)
  /\ flagged = {}

(* Mutants: the threshold must be met exactly, or exceeded.                *)
MayFireExactly(t) == \A w \in Waits(program, t) : count[w.counter] = w.threshold
MayFireLate(t) == \A w \in Waits(program, t) : count[w.counter] > w.threshold

MayFire(t) == \A w \in Waits(program, t) : count[w.counter] >= w.threshold

(* Mutant: the outputs are not marked.                                     *)
FireForgets(t) ==
  /\ t \notin fired
  /\ MayFire(t)
  /\ flagged' = flagged \cup {<<t, b>> : b \in program.tasks[t].inputs \ written}
  /\ count' = [count EXCEPT ![program.tasks[t].out_counter] = @ + 1]
  /\ fired' = fired \cup {t}
  /\ UNCHANGED <<program, written>>

Fire(t) ==
  /\ t \notin fired
  /\ MayFire(t)
  /\ flagged' = flagged \cup {<<t, b>> : b \in program.tasks[t].inputs \ written}
  /\ written' = written \cup program.tasks[t].outputs
  /\ count' = [count EXCEPT ![program.tasks[t].out_counter] = @ + 1]
  /\ fired' = fired \cup {t}
  /\ UNCHANGED program

SimNext == \E t \in TaskIds(program) : Fire(t)

SimSpec == SimInit /\ [][SimNext]_simvars

AtRest == \A t \in TaskIds(program) \ fired : ~ MayFire(t)

-----------------------------------------------------------------------------
(* Types, and no counter loses an increment.                               *)
SimTypeOK ==
  /\ count \in [DOMAIN program.counters -> Nat]
  /\ fired \subseteq TaskIds(program)
  /\ written \subseteq DOMAIN program.buffers
  /\ flagged \subseteq TaskIds(program) \X DOMAIN program.buffers

(* A set of tasks none of which can be the first of the set to fire.       *)
Blocked(S) ==
  \A t \in S : \E w \in Waits(program, t) :
    program.counters[w.counter]
      + Cardinality((TaskIds(program) \ S) \cap Producers(program, w.counter)) < w.threshold

(* The firing order does not decide what gets stuck: a simulation that     *)
(* ends leaves exactly the tasks that no order can fire ("stuck is         *)
(* non-empty iff some wait is permanently unsatisfiable").                 *)
StuckIsUnavoidable ==
  AtRest =>
    /\ Blocked(TaskIds(program) \ fired)
    /\ \A S \in SUBSET TaskIds(program) : Blocked(S) => S \cap fired = {}

(* An accepted program fires to the end in every order.                    *)
AcceptedNeverStuck ==
  AtRest /\ Accepted(program) => fired = TaskIds(program)

(* On an accepted program whose counters start at 0, the only reads        *)
(* simulate_adversarial reports are those of a task that reads, in place,  *)
(* a buffer only it writes.                                                *)
FlagsOnlyInPlace ==
  Accepted(program) /\ Len(program.tasks) <= PROVENANCE_MAX_TASKS
    /\ (\A c \in DOMAIN program.counters : program.counters[c] = 0) =>
      \A f \in flagged : Writers(program, f[2]) = {f[1]}
=============================================================================
