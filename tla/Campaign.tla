------------------------------ MODULE Campaign ------------------------------
(***************************************************************************)
(* An unattended tuning campaign: the driver of src/autoresearch.py and    *)
(* the bookkeeping of src/amk_orchestrate.py it reports every trial to.    *)
(*                                                                         *)
(* A trial proposes a candidate (schedule and kernel knobs), puts it       *)
(* through the evaluator, and records the verdict: the in-memory campaign  *)
(* `state` is updated, a row is appended to results.tsv, and the state is  *)
(* saved, by writing a temporary file and renaming it.  The process may be *)
(* killed between any two of these steps and started again, on the same    *)
(* campaign or on another one.  Between two runs an agent may evaluate a   *)
(* candidate itself and report it, through the command line or the MCP     *)
(* server (src/amk_mcp.py).                                                *)
(*                                                                         *)
(* What a candidate is does not matter here, only what the evaluator finds *)
(* out about it: whether the validator accepts its program, whether its    *)
(* logits are right, and what the clock reads.  A clock may read anything  *)
(* in Latencies at any time (drift, stale buffers), so every reading is    *)
(* chosen anew.                                                            *)
(***************************************************************************)
EXTENDS Integers, Sequences, FiniteSets

CONSTANTS
  Campaigns,       \* (model, gpu) pairs that share the state path
  Candidates,      \* combined candidates: schedule and kernel knobs
  Default,         \* the default schedule with the default knobs
  Arguments,       \* how a run is called, and whether the evaluator could be built
  WarmStarts,      \* what prior.warm_start_combined may return; <<>> when cold
  Accepted,        \* candidates whose lowered program validates
  Correct,         \* candidates whose logits match the oracle
  Latencies,       \* what a latency measurement may read, in us
  Predicted,       \* the cost model's latency of each candidate
  BoundUs,         \* weight bytes / HBM bandwidth
  FloorUs,         \* 0.995 of it: the evaluator's floor
  SustainedUs,     \* weight bytes / sustained bandwidth: the harness's floor
  MarginPct, GainPct,             \* measured_margin, min_gain
  PlateauAt, NearPct, SpeedupPct, \* MOVE_ON_CRITERIA
  RestartAfter,    \* restart_after
  MaxExperiments, MaxStarts, MaxSkipped,  \* bounds of the model
  None, Corrupt

Modes == [gpu : BOOLEAN, evaluator : BOOLEAN, overnight : BOOLEAN, proposer : BOOLEAN, command : BOOLEAN]

(* A command of the orchestrator: one change of the state, then it ends.   *)
Command == [gpu |-> TRUE, evaluator |-> FALSE, overnight |-> FALSE, proposer |-> FALSE, command |-> TRUE]

ASSUME CampaignAssumption ==
  /\ Default \in Accepted \cap Correct
  /\ Arguments \subseteq {m \in Modes : ~m.command}
  /\ WarmStarts \subseteq Seq(Candidates)
  /\ Latencies \subseteq Nat /\ Predicted \in [Candidates -> Nat]
  /\ {FloorUs, BoundUs, SustainedUs, MaxStarts} \subseteq Nat
  /\ FloorUs <= BoundUs /\ BoundUs <= SustainedUs
  /\ None \notin Latencies \cup Candidates

VARIABLES
  state,     \* the campaign dict in memory, None while no process runs
  file,      \* the state file: None, Corrupt or a saved state
  tmp,       \* state_path + ".tmp"
  log,       \* results.tsv
  skipped,   \* rows of which the console said that they were not written
  mode,      \* the arguments of autoresearch()
  pc,        \* where the iteration is
  first,     \* i = 0
  seeds,     \* the warm seeds not yet tried
  idle,      \* consec_no_improve
  resident,  \* candidate of the evaluator's _best_vm
  best,      \* best_us and best_cfg_dict of this run
  trial,     \* the verdict being recorded
  starts     \* how many processes were started

disk == <<file, tmp, log, skipped>>
vars == <<state, file, tmp, log, skipped, mode, pc, first, seeds, idle, resident, best, trial, starts>>

Readings == Latencies \cup {Predicted[c] : c \in Candidates} \cup {None}
Point == [us : Readings, config : Candidates \cup {None}]
Nowhere == [us |-> None, config |-> None]

Statuses == {"kept", "revert", "rejected", "failed", "crash"}

TrialType == [config : Candidates \cup {None}, status : Statuses, us : Readings]

StateType ==
  [campaign : Campaigns, status : {"optimizing", "done"}, baseline : Readings, best : Point,
   run : Nat, kept : Nat, reverts : Nat]

ASSUME MarksAssumption ==
  /\ None \notin Modes /\ None \notin TrialType /\ None \notin StateType
  /\ Corrupt \notin StateType /\ Corrupt # None

FreshState(c) ==
  [campaign |-> c, status |-> "optimizing", baseline |-> None, best |-> Nowhere,
   run |-> 0, kept |-> 0, reverts |-> 0]

(* load_state: a file that does not parse counts as none at all.           *)
LoadState(f) == IF f = Corrupt THEN None ELSE f

(***************************************************************************)
(* The four criteria of should_move_on.                                    *)
(***************************************************************************)
ShouldMoveOn(s, late) ==
  \/ s.reverts >= PlateauAt
  \/ s.best.us # None /\ s.best.us * 100 <= NearPct * BoundUs
  \/ late
  \/ s.best.us # None /\ s.baseline # None /\ s.baseline * 100 >= SpeedupPct * s.best.us

Better(us, than) == than = None \/ us < than

(***************************************************************************)
(* The bookkeeping of record().  What is reported as kept without any      *)
(* latency counts as a revert.                                             *)
(***************************************************************************)
Counts(t) == t.status = "kept" /\ t.us # None

Account(s, t) ==
  [s EXCEPT
     !.run = @ + 1,
     !.baseline = IF @ = None /\ t.us # None THEN t.us ELSE @,
     !.kept = IF Counts(t) THEN @ + 1 ELSE @,
     !.reverts = IF Counts(t) THEN 0 ELSE @ + 1,
     !.best = IF Counts(t) /\ Better(t.us, @.us)
                THEN [us |-> t.us, config |-> t.config] ELSE @]

Record(s, t, late) ==
  LET a == Account(s, t)
  IN  [a EXCEPT !.status = IF ShouldMoveOn(a, late) THEN "done" ELSE @]

Row(s) == [campaign |-> s.campaign, experiment |-> s.run]

(***************************************************************************)
(* Verdicts of MeasuredCudaEvaluator: the first correct candidate becomes  *)
(* the incumbent, a later one must beat the incumbent measured next to it. *)
(***************************************************************************)
Trial(c, status, us) == [config |-> c, status |-> status, us |-> us]

JudgeFloorOnFirst(c, us, incumbent) ==
  IF resident = None /\ us < FloorUs THEN Trial(c, "rejected", None)
  ELSE IF resident = None \/ us * 100 < incumbent * (100 - MarginPct) THEN Trial(c, "kept", us)
  ELSE Trial(c, "revert", us)

Judge(c, us, incumbent) ==
  IF us < FloorUs THEN Trial(c, "rejected", None)
  ELSE IF resident = None \/ us * 100 < incumbent * (100 - MarginPct) THEN Trial(c, "kept", us)
  ELSE Trial(c, "revert", us)

Interleaved(c) == {Judge(c, us, incumbent) : us, incumbent \in Latencies}

(***************************************************************************)
(* Verdicts of harness.evaluate, which the driver compares with its own    *)
(* best: a latency measured on the GPU if there is one and it can run the  *)
(* program, else the cost model's, and none at all if it is below a floor. *)
(***************************************************************************)
Withhold(us, floor) == IF us < floor THEN None ELSE us

HarnessLatencies(c, gpu) ==
  {Withhold(Predicted[c], BoundUs)} \cup
  (IF gpu THEN {Withhold(us, SustainedUs) : us \in Latencies} ELSE {})

KeepOrRevert(c, us) ==
  IF us # None /\ (best.us = None \/ us * 100 < best.us * (100 - GainPct))
    THEN Trial(c, "kept", us)
    ELSE Trial(c, "revert", us)

(* best_us and best_cfg_dict follow every kept trial, lower or not.        *)
BestIfLower(t) ==
  IF t.status = "kept" /\ Better(t.us, best.us) THEN [us |-> t.us, config |-> t.config] ELSE best

BestAfter(t) == IF t.status = "kept" THEN [us |-> t.us, config |-> t.config] ELSE best

Verdicts(c) ==
  IF c \notin Accepted THEN {Trial(c, "rejected", None)}
  ELSE IF c \notin Correct THEN {Trial(c, "failed", None)}
  ELSE IF mode.evaluator THEN Interleaved(c)
  ELSE {KeepOrRevert(c, us) : us \in HarnessLatencies(c, mode.gpu)}

(***************************************************************************)
(* What is tried next.  Iteration 0 starts from the best warm seed or the  *)
(* default; after a basin hop, and once the seeds are used up, any point   *)
(* of the space may be proposed (mutation, random draw, the prior's        *)
(* ranking), as it may by an external proposer at any time.                *)
(***************************************************************************)
Hops == ~first /\ mode.overnight /\ idle >= RestartAfter

Proposals ==
  IF first THEN {IF seeds = <<>> THEN Default ELSE Head(seeds)}
  ELSE IF Hops \/ mode.proposer \/ seeds = <<>> THEN Candidates
  ELSE {Head(seeds)}

(* A seed that has been tried, in its turn or not, is not tried again.     *)
SeedsAfter(c) == SelectSeq(seeds, LAMBDA w : w # c)

(* A basin hop forgives the reverts so far.                                *)
Forgiven == IF Hops THEN [state EXCEPT !.reverts = 0] ELSE state

-----------------------------------------------------------------------------
Init ==
  /\ state = None /\ file = None /\ tmp = None /\ log = {} /\ skipped = {}
  /\ mode = None /\ pc = "stopped" /\ first = TRUE /\ seeds = <<>> /\ idle = 0
  /\ resident = None /\ best = Nowhere /\ trial = None /\ starts = 0

(***************************************************************************)
(* autoresearch() up to its loop.  A state file of another campaign, or    *)
(* one that does not parse, is replaced by a fresh state at once.          *)
(***************************************************************************)
Start(c) ==
  /\ pc = "stopped" /\ starts < MaxStarts
  /\ starts' = starts + 1
  /\ mode' \in Arguments
  /\ seeds' \in WarmStarts
  /\ LET s == LoadState(file)
         resumes == s # None /\ s.campaign = c
     IN  /\ state' = IF resumes THEN s ELSE FreshState(c)
         /\ file' = IF resumes THEN file ELSE FreshState(c)
         /\ tmp' = IF resumes THEN tmp ELSE None
         /\ best' = state'.best
  /\ pc' = "propose" /\ first' = TRUE /\ idle' = 0 /\ resident' = None /\ trial' = None
  /\ UNCHANGED <<log, skipped>>

(***************************************************************************)
(* Propose, evaluate, keep or revert, and the in-memory half of record().  *)
(***************************************************************************)
Iterate(c) ==
  /\ pc = "propose" /\ state.run < MaxExperiments
  /\ c \in Proposals
  /\ seeds' = SeedsAfter(c)
  /\ \E t \in Verdicts(c), late \in BOOLEAN :
       /\ trial' = t
       /\ state' = Record(Forgiven, t, late)
       /\ resident' = IF mode.evaluator /\ t.status = "kept" THEN c ELSE resident
       /\ best' = BestAfter(t)
  /\ idle' = IF Hops THEN 0 ELSE idle
  /\ pc' = "append"
  /\ UNCHANGED <<disk, mode, first, starts>>

(* An iteration that raises (a build, a launch, a proposer) is recorded    *)
(* as a crash.                                                             *)
Raise(c) ==
  /\ pc = "propose" /\ state.run < MaxExperiments
  /\ c \in Proposals
  /\ seeds' = SeedsAfter(c)
  /\ trial' = Trial(None, "crash", None)
  /\ \E late \in BOOLEAN : state' = Record(Forgiven, trial', late)
  /\ idle' = IF Hops THEN 0 ELSE idle
  /\ pc' = "append"
  /\ UNCHANGED <<disk, mode, first, resident, best, starts>>

AppendTimed ==
  /\ pc = "append"
  /\ log' = IF trial.us = None THEN log ELSE log \cup {Row(state)}
  /\ pc' = "write"
  /\ UNCHANGED <<state, file, tmp, skipped, mode, first, seeds, idle, resident, best, trial, starts>>

AppendResult ==
  /\ pc = "append"
  /\ log' = log \cup {Row(state)}
  /\ pc' = "write"
  /\ UNCHANGED <<state, file, tmp, skipped, mode, first, seeds, idle, resident, best, trial, starts>>

(* "results.tsv write must never break the campaign": it says so and goes on. *)
AppendFails ==
  /\ pc = "append" /\ Cardinality(skipped) < MaxSkipped
  /\ skipped' = skipped \cup {Row(state)}
  /\ pc' = "write"
  /\ UNCHANGED <<state, file, tmp, log, mode, first, seeds, idle, resident, best, trial, starts>>

WriteInPlace ==
  /\ pc = "write"
  /\ tmp' = state /\ file' = Corrupt
  /\ pc' = "replace"
  /\ UNCHANGED <<state, log, skipped, mode, first, seeds, idle, resident, best, trial, starts>>

WriteTmp ==
  /\ pc = "write"
  /\ tmp' = state /\ file' = file
  /\ pc' = "replace"
  /\ UNCHANGED <<state, log, skipped, mode, first, seeds, idle, resident, best, trial, starts>>

Replace ==
  /\ pc = "replace"
  /\ file' = tmp /\ tmp' = None
  /\ pc' = "decide"
  /\ UNCHANGED <<state, log, skipped, mode, first, seeds, idle, resident, best, trial, starts>>

(***************************************************************************)
(* save_state may raise (a full disk): the trial then counts once more, as *)
(* a crash.  If it was the crash that could not be saved, the loop goes    *)
(* on without a checkpoint.                                                *)
(***************************************************************************)
SaveFails ==
  /\ pc \in {"write", "replace"} /\ ~mode.command
  /\ IF trial.status = "crash"
       THEN pc' = "decide" /\ UNCHANGED <<state, trial>>
       ELSE /\ trial' = Trial(None, "crash", None)
            /\ \E late \in BOOLEAN : state' = Record(state, trial', late)
            /\ pc' = "append"
  /\ UNCHANGED <<disk, mode, first, seeds, idle, resident, best, starts>>

(***************************************************************************)
(* The end of an iteration.  A rejected or failed candidate `continue`s    *)
(* past the test that stops a finished campaign.  The plateau count of the *)
(* basin hop moves once the trial is recorded: an iteration that raised,   *)
(* if only in saving its record, leaves it alone.                          *)
(***************************************************************************)
IdleAfter(t) ==
  CASE t.status = "kept" -> 0
    [] t.status = "crash" -> idle
    [] OTHER -> idle + 1

Stops == state.status = "done" /\ ~mode.overnight /\ trial.status \notin {"rejected", "failed"}

NextIteration ==
  /\ pc = "decide"
  /\ pc' = IF Stops \/ mode.command THEN "return" ELSE "propose"
  /\ first' = FALSE /\ trial' = None
  /\ idle' = IF mode.command THEN idle ELSE IdleAfter(trial)
  /\ UNCHANGED <<state, disk, mode, seeds, resident, best, starts>>

(* The budget of iterations or minutes is used up, or the user interrupts. *)
LeaveLoop ==
  /\ pc \in {"propose", "append", "write", "replace"} /\ ~mode.command
  /\ pc' = "return"
  /\ UNCHANGED <<state, disk, mode, first, seeds, idle, resident, best, trial, starts>>

(***************************************************************************)
(* `record`: the state is loaded, whichever campaign it is of; only the    *)
(* command line starts one if there is none.  The agent reports what       *)
(* evaluate() told it; whether it calls a correct candidate kept is its    *)
(* own judgement.  (`next` would mark a campaign done too, but whoever     *)
(* saved the state has put it to the same criteria.)                       *)
(***************************************************************************)
Reports(c) ==
  IF c \notin Accepted THEN {Trial(c, "rejected", None)}
  ELSE IF c \notin Correct THEN {Trial(c, "failed", None)}
  ELSE {Trial(c, "kept", us) : us \in HarnessLatencies(c, TRUE)} \cup
       {Trial(c, "revert", us) : us \in HarnessLatencies(c, TRUE)}

AgentRecords(campaign, c) ==
  /\ pc = "stopped" /\ starts < MaxStarts
  /\ LET s == IF LoadState(file) = None THEN FreshState(campaign) ELSE LoadState(file)
     IN  /\ s.run < MaxExperiments
         /\ \E t \in Reports(c) : trial' = t /\ state' = Record(s, t, FALSE)
         /\ IF LoadState(file) = None THEN file' = s /\ tmp' = None ELSE UNCHANGED <<file, tmp>>
  /\ mode' = Command /\ pc' = "append" /\ starts' = starts + 1
  /\ UNCHANGED <<log, skipped, first, seeds, idle, resident, best>>

(* The process ends: its memory is gone.                                   *)
Forget ==
  /\ state' = None /\ mode' = None /\ pc' = "stopped" /\ first' = TRUE /\ seeds' = <<>>
  /\ idle' = 0 /\ resident' = None /\ best' = Nowhere /\ trial' = None
  /\ UNCHANGED <<disk, starts>>

Return == pc = "return" /\ Forget
Crash == pc \notin {"stopped", "return"} /\ Forget

Next ==
  \/ \E c \in Campaigns : Start(c)
  \/ \E c \in Candidates : Iterate(c) \/ Raise(c)
  \/ \E campaign \in Campaigns, c \in Candidates : AgentRecords(campaign, c)
  \/ AppendResult \/ AppendFails \/ WriteTmp \/ Replace \/ SaveFails
  \/ NextIteration \/ LeaveLoop \/ Return \/ Crash

Spec == Init /\ [][Next]_vars
-----------------------------------------------------------------------------
(* What the variables may hold.                                            *)
TypeOK ==
  /\ state \in StateType \cup {None} /\ file \in StateType \cup {None, Corrupt}
  /\ tmp \in StateType \cup {None}
  /\ log \cup skipped \subseteq [campaign : Campaigns, experiment : Nat]
  /\ mode \in Modes \cup {None}
  /\ pc \in {"stopped", "propose", "append", "write", "replace", "decide", "return"}
  /\ (pc = "stopped") = (state = None) /\ (pc = "stopped") = (mode = None)
  /\ pc \in {"append", "write", "replace", "decide"} => trial # None
  /\ first \in BOOLEAN /\ idle \in Nat
  /\ resident \in Candidates \cup {None} /\ best \in Point
  /\ trial \in TrialType \cup {None}
  /\ starts \in 0 .. MaxStarts

(***************************************************************************)
(* Whatever is killed, interrupted or out of disk space and whenever: the  *)
(* saved state of a campaign never becomes unreadable, never counts fewer  *)
(* experiments and never forgets a better best ("the orchestrator state    *)
(* file is the single source of truth", autoresearch.py).  Only a start    *)
(* on another campaign replaces it.                                        *)
(***************************************************************************)
NoWorse(f, g) ==
  g # None /\ g # Corrupt /\
  (g.campaign = f.campaign =>
     /\ g.run >= f.run /\ g.kept >= f.kept
     /\ f.baseline # None => g.baseline = f.baseline
     /\ f.best.us # None => g.best.us # None /\ g.best.us <= f.best.us
     /\ f.status = "done" => g.status = "done")

ProgressIsDurable == [][file # None => NoWorse(file, file')]_vars

(***************************************************************************)
(* The best that is on disk, in memory or reported by a run is the latency *)
(* of a candidate that validates and computes the right logits, and no     *)
(* reading below the bandwidth floor, over all resumed runs, drifting      *)
(* clocks and fallbacks between evaluators.                                *)
(***************************************************************************)
Honest(p) ==
  p.us # None => p.config \in Accepted \cap Correct /\ p.us >= FloorUs

BestIsHonest ==
  /\ Honest(best)
  /\ state # None => Honest(state.best)
  /\ file \notin {None, Corrupt} => Honest(file.best)

(***************************************************************************)
(* results.tsv holds a row for every experiment the saved state counts,    *)
(* unless the console said that it could not be written: "every experiment *)
(* the orchestrator records is ALSO appended to results.tsv"               *)
(* (amk_orchestrate.py) holds across kills and commands as well.           *)
(***************************************************************************)
EveryExperimentLogged ==
  file \notin {None, Corrupt} =>
    \A n \in 1 .. file.run :
      \E row \in log \cup skipped : row.campaign = file.campaign /\ row.experiment = n

(***************************************************************************)
(* On the GPU evaluator's path the VM that candidates are measured against *)
(* is the one whose configuration the run reports as its best.             *)
(***************************************************************************)
ResidentIsReported == resident # None => best.config = resident

=============================================================================
