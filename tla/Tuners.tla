------------------------------- MODULE Tuners -------------------------------
(***************************************************************************)
(* The tools that try candidates one after the other and leave a trail:    *)
(*   loop         loop() of src/harness.py, over schedules and knobs       *)
(*   instruction  tune_instruction() of src/loop1.py, over the variants of *)
(*                one kernel proposed and timed by src/instructions/gen.py *)
(*   autotune     autotune() of src/vm/autotune.py, over a grid of builds  *)
(*   compile      amk_compile() of src/compile.py, one searched schedule   *)
(*   evaluate     evaluate() of src/harness.py, on an agent's edit         *)
(* The first two and compile append to the same results.tsv and, for the   *)
(* points they keep, loop and compile to the same corpus.  A tool may be   *)
(* killed between any two steps; the two files survive it.                 *)
(*                                                                         *)
(* A clock may read anything in Latencies at any time.                     *)
(***************************************************************************)
EXTENDS Prior

CONSTANTS
  Tools,           \* which of the five run, on which device
  Edits,           \* what agents ask evaluate() for
  Wrong,           \* schedules whose reference logits differ from eager's
  Predicted(_),    \* predict_us of a candidate
  Variants,        \* _proposals of one op; the first is the incumbent
  Grid,            \* _knob_grid; the first point is the default
  Shapes,          \* the model shapes the tools work on
  Asked,           \* the shapes a later run asks seeds for
  Shipped,         \* the records of the corpus the repository ships
  Latencies,       \* what a measurement may read, in us
  Budgets,         \* --budget
  MaxRows, MaxSessions  \* bounds of the model: rows of results.tsv, tools run

ASSUME TunersAssumption ==
  /\ Tools \subseteq {"loop", "instruction", "autotune", "compile", "evaluate"} \X {"cpu", "cuda"}
  /\ Latencies \subseteq Nat \ {0}
  /\ Passes(Default) /\ default_config \notin Wrong
  /\ Variants # <<>> /\ Grid # <<>> /\ Budgets \subseteq 1 .. 30
  /\ Shipped \in Seq(ToSet(Shipped))

VARIABLES
  results,   \* the rows of results.tsv
  corpus,    \* the records of corpus.jsonl
  session,   \* the tool that runs: its arguments and what it keeps in memory
  pc,
  sessions   \* how many tools were started

vars == <<results, corpus, session, pc, sessions>>

Rejected == "REJECTED"

-----------------------------------------------------------------------------
(***************************************************************************)
(* evaluate() of one edit.  A refused one has no correctness and no        *)
(* latency, a wrong one no latency.                                        *)
(***************************************************************************)
Verdict(c, correctness, us, kind) ==
  [config |-> c, correctness |-> correctness, us |-> us, kind |-> kind]

(* Mutant: only the floor of the spec sheet, for measurements too.         *)
WithholdAtSpecFloor(v) ==
  IF BelowBound(v.us) THEN [v EXCEPT !.us = None, !.kind = "none"] ELSE v

(* The two floors: a number below either is dropped, not the verdict.      *)
Withhold(v) ==
  IF BelowBound(v.us) \/ (v.kind = "measured-gpu" /\ BelowSustained(v.us))
    THEN [v EXCEPT !.us = None, !.kind = "none"]
    ELSE v

(* logit_equivalence: close in every element, and the same argmax.         *)
Equivalent(logits) == logits = "eager"

ReferenceLogits(c) == IF c.schedule \in Wrong THEN "other" ELSE "eager"

(* bench times nothing that did not match.                                 *)
Bench(correct) == IF correct THEN Latencies ELSE {None}

(* The megakernel runs and matches, runs and does not, or does not run; it *)
(* cannot if the loader refuses it.                                        *)
GpuLatencies(c) ==
  {None} \cup (IF Loadable(c) THEN UNION {Bench(Equivalent(logits)) : logits \in {"eager", "other"}} ELSE {})

(* Without a measurement, for whichever reason, the prediction.            *)
Timings(c, device) ==
  {IF us = None THEN Verdict(c, "PASS", Predicted(c), "predicted")
                ELSE Verdict(c, "PASS", us, "measured-gpu") :
     us \in IF device = "cuda" THEN GpuLatencies(c) ELSE {None}}

Evaluate(edit, device) ==
  IF ~ Passes(edit) THEN {Verdict(edit, Rejected, None, "none")}
  ELSE LET c == Candidate(edit)
       IN  IF ~ Equivalent(ReferenceLogits(c)) THEN {Verdict(c, "FAIL", None, "none")}
           ELSE {Withhold(v) : v \in Timings(c, device)}

(* _eval_variant: bench_cuda may raise after the variant proved right.     *)
EvaluateVariant(c) ==
  {Verdict(c, "CRASH", None, "none"), Verdict(c, "FAIL", None, "none"),
   Verdict(c, "PASS", None, "none")} \cup
  {Verdict(c, "PASS", us, "measured-gpu") : us \in Latencies}

(* A grid point that does not build, launch or match is only skipped.      *)
EvaluatePoint(c) ==
  {Verdict(c, "FAIL", None, "none")} \cup {Verdict(c, "PASS", us, "measured-gpu") : us \in Latencies}

(* amk_compile reports whatever it has, without a floor.                   *)
EvaluateCompiled(c, device) ==
  IF ~ Equivalent(ReferenceLogits(c)) THEN {Verdict(c, "FAIL", None, "none")} ELSE Timings(c, device)

-----------------------------------------------------------------------------
(***************************************************************************)
(* Keep or revert.                                                         *)
(***************************************************************************)
Gains(us, than) == us * 100 < than * 99
Within(us, than) == us * 100 <= than * 101

KindRank(v) == CASE v.kind = "measured-gpu" -> 0 [] v.kind = "predicted" -> 1 [] OTHER -> 2

(* At about equal latency the hardware beats the model, then the simpler.  *)
TieBreak(v, best) ==
  \/ KindRank(v) < KindRank(best)
  \/ KindRank(v) = KindRank(best) /\ Complexity(v.config) < Complexity(best.config)

(* The verdict of a trial; of the best one so far, if there is any.        *)
Seen(n) == session.seen[n].verdict
Best == Seen(session.best)
HasBest == session.best # 0

(* _better() *)
Better(v) ==
  /\ v.correctness = "PASS"
  /\ \/ ~HasBest
     \/ v.us # None /\ Best.us = None
     \/ /\ v.us # None /\ Best.us # None
        /\ \/ Gains(v.us, Best.us)
           \/ v.us * 100 > Best.us * 99 /\ Within(v.us, Best.us) /\ TieBreak(v, Best)

(* Mutant: any later variant that beats the baseline is kept.              *)
FasterThanBaseline(v) ==
  v.us # None /\ (~HasBest \/ session.baseline = None \/ Gains(v.us, session.baseline))

(* The rule of tune_instruction. *)
Faster(v) == v.us # None /\ (~HasBest \/ Gains(v.us, Best.us))

(* min(results, key=lat): a strictly lower one, the first of equals.       *)
Lower(v) == v.us # None /\ (~HasBest \/ v.us < Best.us)

Keeps(v) ==
  CASE session.tool = "loop" -> Better(v)
    [] session.tool = "instruction" -> Faster(v)
    [] session.tool = "autotune" -> Lower(v)
    [] session.tool = "compile" -> v.correctness = "PASS"
    [] session.tool = "evaluate" -> FALSE

(* The baseline is the first variant if it could be timed, but the first   *)
(* grid point that could be, whichever that is.                            *)
BaselineAfter(v) ==
  IF \/ session.tool = "instruction" /\ session.seen = <<>>
     \/ session.tool = "autotune" /\ session.baseline = None
    THEN v.us ELSE session.baseline

Tag(v, kept) ==
  IF kept THEN "kept"
  ELSE IF v.correctness \in {Rejected, "CRASH"} THEN "rejected"
  ELSE IF v.correctness = "FAIL" THEN "revert"
  ELSE "tried"

-----------------------------------------------------------------------------
Fresh(tool, device, shape, budget) ==
  [tool |-> tool, device |-> device, shape |-> shape, budget |-> budget,
   from |-> Len(results), seen |-> <<>>, best |-> 0, baseline |-> None]

Init ==
  results = <<>> /\ corpus = Shipped /\ session = None /\ pc = "idle" /\ sessions = 0

Launch(tool, device, shape, budget) ==
  /\ pc \in {"idle", "done"} /\ sessions < MaxSessions
  /\ session' = Fresh(tool, device, shape, budget)
  /\ pc' = "try" /\ sessions' = sessions + 1
  /\ UNCHANGED <<results, corpus>>

Trials == Len(session.seen)

(* The trials of loop() that draw afresh rather than mutate its best.      *)
Explored == ((session.budget - 1) * 35 + 50) \div 100

(* What is tried next: the default, then draws, then mutations of the      *)
(* best; the variants and the grid in their order; for amk_compile the     *)
(* schedule its search returns, which validates, or the default.           *)
Candidates ==
  CASE session.tool = "loop" ->
         IF Trials = 0 THEN {Default}
         ELSE IF Trials <= Explored \/ ~HasBest THEN Draws(session.device)
         ELSE Mutations(Best.config, session.device)
    [] session.tool = "instruction" -> {Variants[Trials + 1]}
    [] session.tool = "autotune" -> {Grid[Trials + 1]}
    [] session.tool = "compile" -> {c \in Draws("cpu") \cup {Default} : c.schedule \notin Unsound}
    [] session.tool = "evaluate" -> Edits

TrialsPlanned ==
  CASE session.tool = "loop" -> session.budget
    [] session.tool = "instruction" -> IF session.budget < Len(Variants) THEN session.budget ELSE Len(Variants)
    [] session.tool = "autotune" -> Len(Grid)
    [] session.tool \in {"compile", "evaluate"} -> 1

Verdicts(c) ==
  CASE session.tool = "loop" -> Evaluate(Recorded(c), session.device)
    [] session.tool = "instruction" -> EvaluateVariant(c)
    [] session.tool = "autotune" -> EvaluatePoint(c)
    [] session.tool = "compile" -> EvaluateCompiled(c, session.device)
    [] session.tool = "evaluate" -> Evaluate(c, session.device)

(* autotune and evaluate return what they found and write nothing.         *)
Silent == session.tool \in {"autotune", "evaluate"}

Try ==
  /\ pc = "try" /\ Trials < TrialsPlanned /\ Len(results) < MaxRows
  /\ \E c \in Candidates : \E v \in Verdicts(c) :
       LET kept == Keeps(v)
       IN  session' = [session EXCEPT !.seen = Append(@, [verdict |-> v, kept |-> kept]),
                                      !.best = IF kept THEN Trials + 1 ELSE @,
                                      !.baseline = BaselineAfter(v)]
  /\ pc' = IF Silent THEN "try" ELSE "log"
  /\ UNCHANGED <<results, corpus, sessions>>

Latest == session.seen[Trials]

(* Whether the trial's point is to enter the corpus. *)
Banked ==
  /\ Latest.kept /\ Latest.verdict.us # None
  /\ session.tool \in {"loop", "compile"}

Point ==
  [gpu |-> Gpu, shape |-> session.shape, correctness |-> "PASS", edit |-> Recorded(Latest.verdict.config),
   us |-> Latest.verdict.us, pct |-> PctOfRoofline(Latest.verdict.us)]

Row(n, entry) ==
  [loop |-> IF session.tool = "instruction" THEN "instruction" ELSE "schedule",
   experiment |-> n, correctness |-> entry.verdict.correctness,
   tag |-> Tag(entry.verdict, entry.kept), config |-> entry.verdict.config,
   us |-> entry.verdict.us]

(* Experiments count from 0, those of amk_compile from 1.                  *)
Experiment == IF session.tool = "compile" THEN 1 ELSE Trials - 1

(* Mutant: only what is kept is worth a row.                               *)
LogKept ==
  /\ pc = "log"
  /\ results' = IF Latest.kept THEN Append(results, Row(Experiment, Latest)) ELSE results
  /\ pc' = IF Banked THEN "bank" ELSE "try"
  /\ UNCHANGED <<corpus, session, sessions>>

(* Mutant: the point is banked in the same breath, before its row.         *)
LogBankFirst ==
  /\ pc = "log"
  /\ corpus' = IF Banked THEN Append(corpus, Point) ELSE corpus
  /\ pc' = "row"
  /\ UNCHANGED <<results, session, sessions>>

(* append_result *)
Log ==
  /\ pc = "log"
  /\ results' = Append(results, Row(Experiment, Latest))
  /\ pc' = IF Banked THEN "bank" ELSE "try"
  /\ UNCHANGED <<corpus, session, sessions>>

(* append_corpus; a write that fails is passed over by loop(), and ends    *)
(* amk_compile, which has nothing left to try.                             *)
Bank ==
  /\ pc = "bank"
  /\ corpus' \in {corpus, Append(corpus, Point)}
  /\ pc' = "try"
  /\ UNCHANGED <<results, session, sessions>>

(* autotune raises when no point of its grid passed.                       *)
Return ==
  /\ pc = "try" /\ Trials = TrialsPlanned
  /\ session.tool = "autotune" => HasBest
  /\ pc' = "done"
  /\ UNCHANGED <<results, corpus, session, sessions>>

(* The process dies, or an exception no handler catches ends the tool.     *)
Kill ==
  /\ pc \in {"try", "log", "bank"}
  /\ session' = None /\ pc' = "idle"
  /\ UNCHANGED <<results, corpus, sessions>>

Next ==
  \/ \E t \in Tools, shape \in Shapes, budget \in Budgets : Launch(t[1], t[2], shape, budget)
  \/ Try \/ Log \/ Bank \/ Return \/ Kill

Spec == Init /\ [][Next]_vars
-----------------------------------------------------------------------------
(***************************************************************************)
(* The trail is the run: results.tsv holds one row a trial, in order, with *)
(* its own verdict, so that the row last tagged kept is the best of the    *)
(* run (the agent reads the file to decide, and so does a restart).        *)
(***************************************************************************)
TrailIsTheRun ==
  session # None /\ ~Silent =>
    LET logged == Trials - (IF pc = "log" THEN 1 ELSE 0)
        keeps == {n \in 1 .. logged : results[session.from + n].tag = "kept"}
    IN  /\ Len(results) = session.from + logged
        /\ \A n \in 1 .. logged :
             LET row == results[session.from + n]
                 entry == session.seen[n]
             IN  row.config = entry.verdict.config /\ row.correctness = entry.verdict.correctness
        /\ pc # "log" =>
             IF keeps = {} THEN ~HasBest
             ELSE LET row == results[session.from + Max(keeps)]
                  IN  HasBest /\ row.config = Best.config /\ row.us = Best.us

(***************************************************************************)
(* No latency that was not earned: a row or a record with a latency passed *)
(* the oracle; and one of loop() or evaluate() is no lower than the        *)
(* weights can be streamed, by the sustained bandwidth and from a kernel   *)
(* the loader takes if it claims to be measured.                           *)
(***************************************************************************)
LatencyEarned ==
  /\ \A n \in DOMAIN results :
       results[n].us # None =>
         /\ results[n].correctness = "PASS"
         /\ results[n].loop = "schedule" => results[n].config.schedule \notin Wrong \cup Unsound
  /\ session # None /\ session.tool \in {"loop", "evaluate"} =>
       \A n \in DOMAIN session.seen :
         LET v == session.seen[n].verdict
         IN  v.us # None =>
               /\ v.config.schedule \notin Wrong \cup Unsound
               /\ ~BelowBound(v.us)
               /\ v.kind = "measured-gpu" =>
                    session.device = "cuda" /\ ~BelowSustained(v.us) /\ Loadable(v.config)

(***************************************************************************)
(* Every point the tools add to the corpus has its receipt: a row of       *)
(* results.tsv that was kept, correct and has the same latency.            *)
(***************************************************************************)
PointsHaveReceipts ==
  \A n \in Len(Shipped) + 1 .. Len(corpus) :
    \E m \in DOMAIN results :
      /\ results[m].loop = "schedule" /\ results[m].tag = "kept" /\ results[m].correctness = "PASS"
      /\ Recorded(results[m].config) = corpus[n].edit /\ results[m].us = corpus[n].us

(***************************************************************************)
(* Nothing is left on the table: when the kernel tuner or the autotuner    *)
(* returns, no variant it found right and timed is 1% (autotune: at all)   *)
(* faster than its best, and the best is no slower than the baseline.      *)
(***************************************************************************)
NothingLeft ==
  pc = "done" /\ session.tool \in {"instruction", "autotune"} =>
    /\ \A n \in DOMAIN session.seen :
         LET us == session.seen[n].verdict.us
         IN  us # None => /\ HasBest
                          /\ IF session.tool = "autotune" THEN Best.us <= us ELSE ~Gains(us, Best.us)
    /\ session.baseline # None => HasBest /\ Best.us <= session.baseline

(* The seeds of the next run, from whatever the tools left behind.         *)
SeedsAreSound == pc \in {"idle", "done"} => \A shape \in Asked : SoundSeeds(corpus, Gpu, shape)
=============================================================================
