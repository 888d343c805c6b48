------------------------------- MODULE Search -------------------------------
(***************************************************************************)
(* The keep/revert schedule search of src/schedule/search.py: search().    *)
(*                                                                         *)
(* A budget of candidate configurations is lowered, validated and scored   *)
(* by the cost model; with a measure_fn some are also measured, either     *)
(* inline when they look promising or, with measure_top_k, in a batch at   *)
(* the end.  A measured latency replaces the prediction as the score of    *)
(* its trial.  A measurement may fail, and may read anything.              *)
(***************************************************************************)
EXTENDS Integers, Sequences, FiniteSetsExt, SequencesExt

CONSTANTS
  Fields, FieldChoices,   \* the knobs of a ScheduleConfig and their choices
  StartConfigs,           \* default_config, or the caller's start_config
  Valid(_),               \* lower_fn and validate() accept the configuration
  PredictedUs(_),         \* CostModel.estimate's predicted_us
  MeasuredUs,             \* what measure_fn may return, in us
  SearchBudgets, TopKs,   \* budget, measure_top_k
  NoValue                 \* None

Configs == {c \in [Fields -> UNION {FieldChoices[k] : k \in Fields}] : \A k \in Fields : c[k] \in FieldChoices[k]}

ASSUME SearchAssumption ==
  /\ StartConfigs \subseteq Configs
  /\ \A c \in Configs : Valid(c) \in BOOLEAN /\ PredictedUs(c) \in Nat
  /\ MeasuredUs \subseteq Nat \ {0} /\ NoValue \notin Nat
  /\ SearchBudgets \subseteq Nat \ {0} /\ TopKs \subseteq Nat

VARIABLES
  args,          \* budget, measure_top_k, n_explore, start_config, is there a measure_fn
  phase,
  trials,        \* the trial list: configuration, measured_us
  best,          \* index of best_trial, 0 for None
  default_score,
  kept,          \* indices of the trials whose `kept` is set
  todo           \* of valid_sorted[:measure_top_k], what is still to be measured

searchvars == <<args, phase, trials, best, default_score, kept, todo>>

IsValid(tr) == Valid(tr.config)
Score(tr) == IF tr.measured # NoValue THEN tr.measured ELSE PredictedUs(tr.config)

ValidTrials == {i \in DOMAIN trials : IsValid(trials[i])}

(***************************************************************************)
(* measure(): what becomes of a trial's measured_us.  Without a measure_fn *)
(* and on failure it stays as it was.                                      *)
(***************************************************************************)
Measured(tr) ==
  {tr} \cup (IF args.measures /\ IsValid(tr) THEN {[tr EXCEPT !.measured = us] : us \in MeasuredUs} ELSE {})

Trial(c) == [config |-> c, measured |-> NoValue]

(* random_config and mutate_config.                                        *)
MutatedConfigs(c) == {[c EXCEPT ![k] = v] : k \in Fields, v \in UNION {FieldChoices[j] : j \in Fields}} \cap Configs

Incumbent == IF best = 0 THEN args.start ELSE trials[best].config

Proposals ==
  IF Len(trials) <= args.explore \/ best = 0 THEN Configs ELSE MutatedConfigs(Incumbent)

(* Only a candidate predicted within 5% of the best is measured inline.    *)
Promising(tr) ==
  args.topk = 0 /\ (best = 0 \/ PredictedUs(tr.config) * 100 <= Score(trials[best]) * 105)

(* Mutant: predictions decide, even against a measured best.               *)
ImprovesPredicted(tr) ==
  IsValid(tr) /\ (best = 0 \/ PredictedUs(tr.config) < PredictedUs(trials[best].config))

Improves(tr) == IsValid(tr) /\ (best = 0 \/ Score(tr) < Score(trials[best]))

-----------------------------------------------------------------------------
SearchInit ==
  /\ args \in [budget : SearchBudgets, topk : TopKs, explore : 0 .. Max(SearchBudgets) - 1,
               start : StartConfigs, measures : BOOLEAN]
  /\ args.explore < args.budget
  /\ phase = "baseline" /\ trials = <<>> /\ best = 0 /\ default_score = NoValue
  /\ kept = {} /\ todo = <<>>

(* The start configuration is the bar; it is always measured.              *)
Baseline ==
  /\ phase = "baseline"
  /\ \E tr \in Measured(Trial(args.start)) :
       /\ trials' = <<tr>>
       /\ default_score' = IF IsValid(tr) THEN Score(tr) ELSE NoValue
       /\ best' = IF IsValid(tr) THEN 1 ELSE 0
       /\ kept' = IF IsValid(tr) THEN {1} ELSE {}
  /\ phase' = "explore"
  /\ UNCHANGED <<args, todo>>

(* Explore, then evolve the incumbent; keep on a strict improvement.       *)
Explore(c) ==
  /\ phase = "explore" /\ Len(trials) < args.budget
  /\ c \in Proposals
  /\ \E tr \in IF Promising(Trial(c)) THEN Measured(Trial(c)) ELSE {Trial(c)} :
       LET i == Len(trials) + 1
       IN  /\ trials' = Append(trials, tr)
           /\ best' = IF Improves(tr) THEN i ELSE best
           /\ kept' = IF Improves(tr) THEN kept \cup {i} ELSE kept
  /\ UNCHANGED <<args, phase, default_score, todo>>

(* valid_sorted[:measure_top_k], without those measured already.           *)
TopK ==
  LET sorted == SortSeq(SetToSortSeq(ValidTrials, <),
                        LAMBDA i, j : \/ PredictedUs(trials[i].config) < PredictedUs(trials[j].config)
                                      \/ PredictedUs(trials[i].config) = PredictedUs(trials[j].config) /\ i < j)
  IN  SelectSeq(SubSeq(sorted, 1, IF Len(sorted) < args.topk THEN Len(sorted) ELSE args.topk),
                LAMBDA i : trials[i].measured = NoValue)

EndExplore ==
  /\ phase = "explore" /\ Len(trials) = args.budget
  /\ phase' = IF args.measures /\ args.topk > 0 THEN "exploit" ELSE "finalize"
  /\ todo' = IF phase' = "exploit" THEN TopK ELSE <<>>
  /\ UNCHANGED <<args, trials, best, default_score, kept>>

MeasureNext ==
  /\ phase = "exploit" /\ todo # <<>>
  /\ \E tr \in Measured(trials[Head(todo)]) : trials' = [trials EXCEPT ![Head(todo)] = tr]
  /\ todo' = Tail(todo)
  /\ UNCHANGED <<args, phase, best, default_score, kept>>

(***************************************************************************)
(* The best is picked again, in list order, by the scores there are now.   *)
(* Each trial that takes over clears the mark of the one before.           *)
(***************************************************************************)
Takeovers ==
  {i \in ValidTrials :
     /\ best # 0 => Score(trials[i]) < Score(trials[best])
     /\ \A j \in ValidTrials : j < i => Score(trials[i]) < Score(trials[j])}

Repick ==
  /\ phase = "exploit" /\ todo = <<>>
  /\ best' = IF Takeovers = {} THEN best ELSE Max(Takeovers)
  /\ kept' = IF Takeovers = {} THEN kept
                               ELSE (kept \ (Takeovers \cup {best})) \cup {best'}
  /\ phase' = "finalize"
  /\ UNCHANGED <<args, trials, default_score, todo>>

(* "the baseline can never lose": with default_score as it was at first.   *)
Finalize ==
  /\ phase = "finalize"
  /\ LET reverts == best # 0 /\ default_score # NoValue /\ Score(trials[best]) > default_score
     IN  /\ best' = IF reverts THEN 1 ELSE best
         /\ kept' = IF reverts THEN {1} ELSE kept
  /\ phase' = "done"
  /\ UNCHANGED <<args, trials, default_score, todo>>

SearchNext ==
  \/ Baseline \/ EndExplore \/ MeasureNext \/ Repick \/ Finalize
  \/ \E c \in Configs : Explore(c)

SearchSpec == SearchInit /\ [][SearchNext]_searchvars
-----------------------------------------------------------------------------
(* The variables, and that the trials carried on were all proposed.        *)
TypeOK ==
  /\ args.budget \in SearchBudgets /\ args.topk \in TopKs
  /\ phase \in {"baseline", "explore", "exploit", "finalize", "done"}
  /\ trials \in Seq([config : Configs, measured : MeasuredUs \cup {NoValue}])
  /\ Len(trials) <= args.budget
  /\ best \in 0 .. Len(trials) /\ kept \subseteq ValidTrials
  /\ default_score \in Nat \cup {NoValue}
  /\ todo \in Seq(ValidTrials)

(***************************************************************************)
(* What search() returns: a validated configuration unless every candidate *)
(* was invalid, marked kept, and the least score of all the trials,        *)
(* whatever order scores came in and changed in, as long as the bar is     *)
(* still the score of the default.                                         *)
(***************************************************************************)
ReturnsTheLeast ==
  phase = "done" =>
    /\ (best = 0) = (ValidTrials = {})
    /\ best # 0 =>
         /\ best \in ValidTrials /\ best \in kept
         /\ (1 \in ValidTrials => default_score = Score(trials[1])) =>
              \A i \in ValidTrials : Score(trials[best]) <= Score(trials[i])

=============================================================================
