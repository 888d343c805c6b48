---------------------------- MODULE CampaignProofs ----------------------------
(***************************************************************************)
(* Theorems about Campaign for every set of candidates, readings and       *)
(* campaigns, any number of processes and any criteria for moving on.      *)
(***************************************************************************)
EXTENDS Campaign, TLAPS

(* Only the GPU evaluator has an incumbent, and it is the driver's best.   *)
OneIncumbent ==
  /\ ResidentIsReported
  /\ resident # None => mode # None /\ mode.evaluator

(* Honesty of everything a best may be restored from.                      *)
HonestStates ==
  /\ Honest(best)
  /\ state # None => Honest(state.best)
  /\ file # None => Honest(file.best)

(* While a process runs its state is ahead of the file; what is about to   *)
(* be renamed is that state.                                               *)
AheadOfFile ==
  /\ file # Corrupt
  /\ state # None => file # None /\ NoWorse(file, state)
  /\ pc = "replace" => tmp = state

CInv == TypeOK /\ OneIncumbent /\ HonestStates /\ AheadOfFile

-----------------------------------------------------------------------------
(* record(): what one experiment does to the campaign's state.             *)

LEMMA Numbers == Readings \ {None} \subseteq Nat
BY CampaignAssumption DEF Readings

LEMMA NowhereIsPoint == Nowhere \in Point
BY DEF Nowhere, Point, Readings

LEMMA FreshIsState ==
  ASSUME NEW c \in Campaigns
  PROVE  FreshState(c) \in StateType /\ Honest(FreshState(c).best)
BY NowhereIsPoint DEF FreshState, StateType, Honest, Nowhere, Readings

LEMMA AccountFields ==
  ASSUME NEW s \in StateType, NEW t \in TrialType
  PROVE  LET a == Account(s, t)
         IN  /\ a \in StateType
             /\ a.campaign = s.campaign /\ a.status = s.status
             /\ a.run = s.run + 1 /\ a.kept >= s.kept
             /\ s.baseline # None => a.baseline = s.baseline
             /\ a.best = s.best \/ (/\ Counts(t) /\ Better(t.us, s.best.us)
                                    /\ a.best = [us |-> t.us, config |-> t.config])
<1> DEFINE
      here == [us |-> t.us, config |-> t.config]
      baseline == IF s.baseline = None /\ t.us # None THEN t.us ELSE s.baseline
      kept == IF Counts(t) THEN s.kept + 1 ELSE s.kept
      reverts == IF Counts(t) THEN 0 ELSE s.reverts + 1
      best_ == IF Counts(t) /\ Better(t.us, s.best.us) THEN here ELSE s.best
      a == Account(s, t)
<1>1. here \in Point
  BY DEF TrialType, Point
<1>2. baseline \in Readings /\ (s.baseline # None => baseline = s.baseline)
  BY DEF TrialType, StateType
<1>3. kept \in Nat /\ kept >= s.kept /\ reverts \in Nat
  BY DEF StateType
<1>4. best_ \in Point /\ (best_ = s.best \/ (/\ Counts(t) /\ Better(t.us, s.best.us) /\ best_ = here))
  BY <1>1 DEF StateType
<1>5. s.run + 1 \in Nat
  BY DEF StateType
<1>6. a = [s EXCEPT !.run = s.run + 1, !.baseline = baseline, !.kept = kept,
                    !.reverts = reverts, !.best = best_]
  BY DEF Account
<1> HIDE DEF here, baseline, kept, reverts, best_, a
<1>7. /\ a \in StateType
      /\ a.campaign = s.campaign /\ a.status = s.status
      /\ a.run = s.run + 1 /\ a.kept = kept /\ a.baseline = baseline /\ a.best = best_
  BY <1>2, <1>3, <1>4, <1>5, <1>6 DEF StateType
<1> QED
  BY <1>2, <1>3, <1>4, <1>7 DEF a, here

LEMMA RecordFields ==
  ASSUME NEW s \in StateType, NEW t \in TrialType, NEW late \in BOOLEAN
  PROVE  LET r == Record(s, t, late)
         IN  /\ r \in StateType
             /\ r.campaign = s.campaign /\ (s.status = "done" => r.status = "done")
             /\ r.run = s.run + 1 /\ r.kept >= s.kept
             /\ s.baseline # None => r.baseline = s.baseline
             /\ r.best = s.best \/ (/\ Counts(t) /\ Better(t.us, s.best.us)
                                    /\ r.best = [us |-> t.us, config |-> t.config])
<1> DEFINE a == Account(s, t)
<1>1. /\ a \in StateType
      /\ a.campaign = s.campaign /\ a.status = s.status
      /\ a.run = s.run + 1 /\ a.kept >= s.kept
      /\ s.baseline # None => a.baseline = s.baseline
      /\ a.best = s.best \/ (/\ Counts(t) /\ Better(t.us, s.best.us)
                             /\ a.best = [us |-> t.us, config |-> t.config])
  BY AccountFields
<1>2. Record(s, t, late) = [a EXCEPT !.status = IF ShouldMoveOn(a, late) THEN "done" ELSE @]
  BY DEF Record
<1> HIDE DEF a
<1> QED
  BY <1>1, <1>2 DEF StateType

(* Experiments only add to a state: the order is transitive.               *)
LEMMA RecordNoWorse ==
  ASSUME NEW f \in StateType, NEW s \in StateType, NEW t \in TrialType, NEW late \in BOOLEAN,
         NoWorse(f, s)
  PROVE  NoWorse(f, Record(s, t, late))
<1> DEFINE r == Record(s, t, late)
<1>1. /\ r \in StateType
      /\ r.campaign = s.campaign /\ (s.status = "done" => r.status = "done")
      /\ r.run = s.run + 1 /\ r.kept >= s.kept
      /\ s.baseline # None => r.baseline = s.baseline
      /\ r.best = s.best \/ (/\ Counts(t) /\ Better(t.us, s.best.us)
                             /\ r.best = [us |-> t.us, config |-> t.config])
  BY RecordFields
<1> HIDE DEF r
<1>2. s.best.us # None => r.best.us # None /\ r.best.us <= s.best.us
  <2>1. CASE r.best = s.best
    BY <2>1, Numbers DEF StateType, Point
  <2>2. CASE /\ Counts(t) /\ Better(t.us, s.best.us)
             /\ r.best = [us |-> t.us, config |-> t.config]
    <3>1. t.us # None /\ r.best.us = t.us /\ (s.best.us = None \/ t.us < s.best.us)
      BY <2>2 DEF Counts, Better
    <3>2. t.us \in Nat /\ (s.best.us # None => s.best.us \in Nat)
      BY <3>1, Numbers DEF StateType, Point, TrialType
    <3> QED
      BY <3>1, <3>2
  <2> QED
    BY <1>1, <2>1, <2>2
<1>3. r # None /\ r # Corrupt
  BY <1>1, MarksAssumption
<1>4. f.campaign = r.campaign =>
        /\ r.run >= f.run /\ r.kept >= f.kept
        /\ f.baseline # None => r.baseline = f.baseline
        /\ f.status = "done" => r.status = "done"
  BY <1>1, MarksAssumption DEF NoWorse, StateType
<1>5. f.campaign = r.campaign /\ f.best.us # None => r.best.us # None /\ r.best.us <= f.best.us
  <2>1. SUFFICES ASSUME f.campaign = r.campaign, f.best.us # None
                 PROVE  r.best.us # None /\ r.best.us <= f.best.us
    OBVIOUS
  <2>2. s.best.us # None /\ s.best.us <= f.best.us
    BY <1>1, <2>1 DEF NoWorse
  <2>3. f.best.us \in Nat /\ s.best.us \in Nat /\ (r.best.us # None => r.best.us \in Nat)
    BY <1>1, <2>1, <2>2, Numbers DEF StateType, Point
  <2> QED
    BY <1>2, <2>2, <2>3
<1> QED
  BY <1>3, <1>4, <1>5 DEF NoWorse, r

LEMMA NoWorseReflexive ==
  ASSUME NEW s \in StateType
  PROVE  NoWorse(s, s)
<1>1. s.best.us # None => s.best.us \in Nat
  BY Numbers DEF StateType, Point
<1> QED
  BY <1>1, MarksAssumption DEF NoWorse, StateType

LEMMA RecordHonest ==
  ASSUME NEW s \in StateType, NEW t \in TrialType, NEW late \in BOOLEAN,
         Honest(s.best), t.status = "kept" => Honest(t)
  PROVE  Honest(Record(s, t, late).best)
<1> DEFINE r == Record(s, t, late)
<1>1. \/ r.best = s.best
      \/ Counts(t) /\ r.best = [us |-> t.us, config |-> t.config]
  BY RecordFields
<1> HIDE DEF r
<1>2. CASE r.best = s.best
  BY <1>2 DEF r
<1>3. CASE Counts(t) /\ r.best = [us |-> t.us, config |-> t.config]
  <2>1. r.best.us = t.us /\ r.best.config = t.config /\ Honest(t)
    BY <1>3 DEF Counts
  <2>2. Honest(r.best)
    BY <2>1 DEF Honest
  <2> QED
    BY <2>2 DEF r
<1> QED
  BY <1>1, <1>2, <1>3

-----------------------------------------------------------------------------
(* What an evaluator may say of a candidate.                               *)

LEMMA CrashIsTrial == Trial(None, "crash", None) \in TrialType
BY DEF Trial, TrialType, Statuses, Readings

LEMMA HarnessReadings ==
  ASSUME NEW c \in Candidates, NEW gpu \in BOOLEAN, NEW us \in HarnessLatencies(c, gpu)
  PROVE  us \in Readings /\ (us # None => us >= FloorUs)
BY CampaignAssumption, Numbers DEF HarnessLatencies, Withhold, Readings

LEMMA VerdictsAreTrials ==
  ASSUME NEW c \in Candidates, NEW t \in Verdicts(c), mode \in Modes
  PROVE  /\ t \in TrialType
         /\ t.status = "kept" => Honest(t) /\ t.config = c
<1>1. CASE c \notin Accepted \/ c \notin Correct
  BY <1>1 DEF Verdicts, Trial, TrialType, Statuses, Readings
<1>2. CASE c \in Accepted /\ c \in Correct /\ mode.evaluator
  BY <1>2, CampaignAssumption DEF Verdicts, Interleaved, Judge, Trial, TrialType, Statuses, Readings, Honest
<1>3. CASE c \in Accepted /\ c \in Correct /\ ~mode.evaluator
  <2>1. PICK us \in HarnessLatencies(c, mode.gpu) : t = KeepOrRevert(c, us)
    BY <1>3 DEF Verdicts
  <2>2. us \in Readings /\ (us # None => us >= FloorUs)
    BY <2>1, HarnessReadings DEF Modes
  <2> QED
    BY <1>3, <2>1, <2>2 DEF KeepOrRevert, Trial, TrialType, Statuses, Honest
<1> QED
  BY <1>1, <1>2, <1>3

LEMMA ReportsAreTrials ==
  ASSUME NEW c \in Candidates, NEW t \in Reports(c)
  PROVE  t \in TrialType /\ (t.status = "kept" => Honest(t))
<1>1. CASE c \notin Accepted \/ c \notin Correct
  <2>1. t = Trial(c, "rejected", None) \/ t = Trial(c, "failed", None)
    BY <1>1 DEF Reports
  <2> QED
    BY <2>1 DEF Trial, TrialType, Statuses, Readings
<1>2. CASE c \in Accepted /\ c \in Correct
  <2>1. PICK us \in HarnessLatencies(c, TRUE) : t = Trial(c, "kept", us) \/ t = Trial(c, "revert", us)
    BY <1>2 DEF Reports
  <2>2. us \in Readings /\ (us # None => us >= FloorUs)
    BY <2>1, HarnessReadings
  <2> QED
    BY <1>2, <2>1, <2>2 DEF Trial, TrialType, Statuses, Honest
<1> QED
  BY <1>1, <1>2

(* A basin hop changes nothing that the order or honesty looks at.         *)
LEMMA ForgivenFields ==
  ASSUME state \in StateType
  PROVE  /\ Forgiven \in StateType
         /\ Forgiven.best = state.best /\ Forgiven.run = state.run
         /\ Forgiven.campaign = state.campaign
         /\ \A f : NoWorse(f, state) => NoWorse(f, Forgiven)
<1>1. /\ Forgiven \in StateType
      /\ Forgiven.campaign = state.campaign /\ Forgiven.status = state.status
      /\ Forgiven.baseline = state.baseline /\ Forgiven.best = state.best
      /\ Forgiven.run = state.run /\ Forgiven.kept = state.kept
  BY DEF Forgiven, StateType
<1>2. Forgiven # None /\ Forgiven # Corrupt
  BY <1>1, MarksAssumption
<1> QED
  BY <1>1, <1>2 DEF NoWorse

-----------------------------------------------------------------------------
(* One lemma per operation: it preserves CInv.                             *)

LEMMA StartKeeps ==
  ASSUME CInv, NEW c \in Campaigns, Start(c)
  PROVE  CInv'
<1> USE DEF CInv
<1> DEFINE resumes == file # None /\ file.campaign = c
<1>1. LoadState(file) = file /\ file \in StateType \cup {None} /\ starts' \in 0 .. MaxStarts
  BY CampaignAssumption DEF LoadState, AheadOfFile, TypeOK, Start
<1>2. /\ state' = (IF resumes THEN file ELSE FreshState(c))
      /\ file' = (IF resumes THEN file ELSE FreshState(c))
      /\ tmp' = (IF resumes THEN tmp ELSE None)
  BY <1>1 DEF Start
<1>3. state' \in StateType /\ file' = state' /\ Honest(state'.best) /\ tmp' \in StateType \cup {None}
  <2>1. CASE resumes
    BY <1>1, <1>2, <2>1 DEF HonestStates, TypeOK
  <2>2. CASE ~resumes
    BY <1>2, <2>2, FreshIsState
  <2> QED
    BY <2>1, <2>2
<1>4. best' = state'.best /\ best' \in Point
  BY <1>3 DEF Start, StateType
<1>5. mode' \in Modes /\ mode' # None
  BY CampaignAssumption, MarksAssumption DEF Start
<1>6. /\ pc' = "propose" /\ first' = TRUE /\ idle' = 0 /\ resident' = None /\ trial' = None
      /\ log' = log /\ skipped' = skipped
  BY DEF Start
<1>7. state' # None /\ state' # Corrupt /\ NoWorse(file', state')
  BY <1>3, NoWorseReflexive, MarksAssumption
<1>8. TypeOK'
  BY <1>1, <1>3, <1>4, <1>5, <1>6, <1>7 DEF TypeOK
<1> QED
  BY <1>3, <1>4, <1>6, <1>7, <1>8 DEF OneIncumbent, ResidentIsReported, HonestStates, AheadOfFile

LEMMA IterateKeeps ==
  ASSUME CInv, NEW c \in Candidates, Iterate(c)
  PROVE  CInv'
<1> USE DEF CInv
<1>1. state \in StateType /\ mode \in Modes /\ mode # None /\ idle \in Nat /\ pc = "propose"
  BY DEF TypeOK, Iterate
<1>2. PICK t \in Verdicts(c), late \in BOOLEAN :
        /\ trial' = t
        /\ state' = Record(Forgiven, t, late)
        /\ resident' = IF mode.evaluator /\ t.status = "kept" THEN c ELSE resident
        /\ best' = BestAfter(t)
  BY DEF Iterate
<1>3. t \in TrialType /\ (t.status = "kept" => Honest(t) /\ t.config = c)
  BY <1>1, VerdictsAreTrials
<1>4. /\ Forgiven \in StateType /\ Forgiven.best = state.best
      /\ \A f : NoWorse(f, state) => NoWorse(f, Forgiven)
  BY <1>1, ForgivenFields
<1>5. file \in StateType /\ NoWorse(file, Forgiven) /\ Honest(Forgiven.best)
  BY <1>1, <1>4, MarksAssumption DEF AheadOfFile, HonestStates, TypeOK
<1>6. state' \in StateType /\ NoWorse(file, state') /\ Honest(state'.best)
  BY <1>2, <1>3, <1>4, <1>5, RecordFields, RecordNoWorse, RecordHonest
<1>7. best' \in Point /\ Honest(best')
  <2>1. CASE t.status = "kept"
    BY <1>2, <1>3, <2>1 DEF BestAfter, Point, TrialType, Honest
  <2>2. CASE t.status # "kept"
    BY <1>2, <2>2 DEF BestAfter, TypeOK, HonestStates
  <2> QED
    BY <2>1, <2>2
<1>8. OneIncumbent'
  <2>1. CASE mode.evaluator /\ t.status = "kept"
    BY <1>1, <1>2, <1>3, <2>1 DEF BestAfter, OneIncumbent, ResidentIsReported, Iterate
  <2>2. CASE t.status # "kept"
    BY <1>2, <2>2 DEF BestAfter, OneIncumbent, ResidentIsReported, Iterate
  <2>3. CASE ~mode.evaluator
    BY <1>2, <2>3 DEF OneIncumbent, ResidentIsReported, Iterate
  <2> QED
    BY <2>1, <2>2, <2>3
<1>9. /\ pc' = "append" /\ file' = file /\ tmp' = tmp /\ log' = log /\ skipped' = skipped
      /\ mode' = mode /\ first' = first /\ starts' = starts
  BY DEF Iterate, disk
<1>10. idle' \in Nat /\ resident' \in Candidates \cup {None}
  BY <1>1, <1>2 DEF TypeOK, Iterate
<1>11. state' # None /\ trial' # None
  BY <1>2, <1>3, <1>6, MarksAssumption
<1>12. TypeOK'
  BY <1>1, <1>2, <1>3, <1>6, <1>7, <1>9, <1>10, <1>11 DEF TypeOK
<1> QED
  BY <1>5, <1>6, <1>7, <1>8, <1>9, <1>12, MarksAssumption DEF HonestStates, AheadOfFile

LEMMA RaiseKeeps ==
  ASSUME CInv, NEW c \in Candidates, Raise(c)
  PROVE  CInv'
<1> USE DEF CInv
<1>1. state \in StateType /\ mode # None /\ idle \in Nat /\ pc = "propose"
  BY DEF TypeOK, Raise
<1>2. PICK late \in BOOLEAN : state' = Record(Forgiven, trial', late)
  BY DEF Raise
<1>3. trial' = Trial(None, "crash", None) /\ trial' \in TrialType /\ trial'.status # "kept"
  BY CrashIsTrial DEF Raise, Trial
<1>4. /\ Forgiven \in StateType /\ Forgiven.best = state.best
      /\ \A f : NoWorse(f, state) => NoWorse(f, Forgiven)
  BY <1>1, ForgivenFields
<1>5. file \in StateType /\ NoWorse(file, Forgiven) /\ Honest(Forgiven.best)
  BY <1>1, <1>4, MarksAssumption DEF AheadOfFile, HonestStates, TypeOK
<1>6. state' \in StateType /\ NoWorse(file, state') /\ Honest(state'.best)
  BY <1>2, <1>3, <1>4, <1>5, RecordFields, RecordNoWorse, RecordHonest
<1>7. /\ pc' = "append" /\ file' = file /\ tmp' = tmp /\ log' = log /\ skipped' = skipped
      /\ mode' = mode /\ first' = first /\ starts' = starts /\ resident' = resident /\ best' = best
  BY DEF Raise, disk
<1>8. idle' \in Nat
  BY <1>1 DEF Raise
<1>9. state' # None /\ trial' # None
  BY <1>3, <1>6, MarksAssumption
<1>10. TypeOK'
  BY <1>1, <1>3, <1>6, <1>7, <1>8, <1>9 DEF TypeOK
<1> QED
  BY <1>5, <1>6, <1>7, <1>10, MarksAssumption
  DEF OneIncumbent, ResidentIsReported, HonestStates, AheadOfFile

LEMMA AppendKeeps ==
  ASSUME CInv, AppendResult \/ AppendFails
  PROVE  CInv'
<1> USE DEF CInv
<1>1. state \in StateType /\ pc = "append"
  BY DEF TypeOK, AppendResult, AppendFails
<1>2. Row(state) \in [campaign : Campaigns, experiment : Nat]
  BY <1>1 DEF Row, StateType
<1>3. /\ log' \cup skipped' \subseteq [campaign : Campaigns, experiment : Nat]
      /\ pc' = "write"
      /\ UNCHANGED <<state, file, tmp, mode, first, seeds, idle, resident, best, trial, starts>>
  BY <1>2 DEF TypeOK, AppendResult, AppendFails
<1>4. TypeOK'
  BY <1>1, <1>3 DEF TypeOK
<1> QED
  BY <1>3, <1>4 DEF OneIncumbent, ResidentIsReported, HonestStates, AheadOfFile

LEMMA SaveKeeps ==
  ASSUME CInv, WriteTmp \/ Replace
  PROVE  CInv'
<1> USE DEF CInv
<1>1. CASE WriteTmp
  <2>1. /\ state \in StateType /\ pc = "write" /\ pc' = "replace" /\ tmp' = state /\ file' = file
        /\ UNCHANGED <<state, log, skipped, mode, first, seeds, idle, resident, best, trial, starts>>
    BY <1>1 DEF TypeOK, WriteTmp
  <2>2. TypeOK'
    BY <2>1 DEF TypeOK
  <2> QED
    BY <2>1, <2>2 DEF OneIncumbent, ResidentIsReported, HonestStates, AheadOfFile
<1>2. CASE Replace
  <2>1. /\ state \in StateType /\ pc = "replace" /\ pc' = "decide" /\ tmp' = None /\ file' = state
        /\ UNCHANGED <<state, log, skipped, mode, first, seeds, idle, resident, best, trial, starts>>
    BY <1>2 DEF TypeOK, Replace, AheadOfFile
  <2>2. NoWorse(state, state) /\ state # None /\ state # Corrupt
    BY <2>1, NoWorseReflexive, MarksAssumption
  <2>3. TypeOK'
    BY <2>1 DEF TypeOK
  <2> QED
    BY <2>1, <2>2, <2>3 DEF OneIncumbent, ResidentIsReported, HonestStates, AheadOfFile
<1> QED
  BY <1>1, <1>2

LEMMA SaveFailsKeeps ==
  ASSUME CInv, SaveFails
  PROVE  CInv'
<1> USE DEF CInv
<1>1. /\ state \in StateType /\ pc \in {"write", "replace"} /\ mode # None
      /\ UNCHANGED <<file, tmp, log, skipped, mode, first, seeds, idle, resident, best, starts>>
  BY DEF TypeOK, SaveFails, disk
<1>2. CASE trial.status = "crash"
  <2>1. pc' = "decide" /\ state' = state /\ trial' = trial
    BY <1>2 DEF SaveFails
  <2>2. TypeOK'
    BY <1>1, <2>1 DEF TypeOK
  <2> QED
    BY <1>1, <2>1, <2>2 DEF OneIncumbent, ResidentIsReported, HonestStates, AheadOfFile
<1>3. CASE trial.status # "crash"
  <2>1. pc' = "append" /\ trial' = Trial(None, "crash", None)
    BY <1>3 DEF SaveFails
  <2>2. PICK late \in BOOLEAN : state' = Record(state, trial', late)
    BY <1>3 DEF SaveFails
  <2>3. trial' \in TrialType /\ trial'.status # "kept"
    BY <2>1, CrashIsTrial DEF Trial
  <2>4. file \in StateType /\ NoWorse(file, state) /\ Honest(state.best)
    BY <1>1, MarksAssumption DEF AheadOfFile, HonestStates, TypeOK
  <2>5. state' \in StateType /\ NoWorse(file, state') /\ Honest(state'.best)
    BY <1>1, <2>2, <2>3, <2>4, RecordFields, RecordNoWorse, RecordHonest
  <2>6. state' # None /\ trial' # None
    BY <2>3, <2>5, MarksAssumption
  <2>7. TypeOK'
    BY <1>1, <2>1, <2>3, <2>5, <2>6 DEF TypeOK
  <2> QED
    BY <1>1, <2>1, <2>4, <2>5, <2>7, MarksAssumption
    DEF OneIncumbent, ResidentIsReported, HonestStates, AheadOfFile
<1> QED
  BY <1>2, <1>3

LEMMA LoopKeeps ==
  ASSUME CInv, NextIteration \/ LeaveLoop
  PROVE  CInv'
<1> USE DEF CInv
<1>1. /\ pc # "stopped" /\ pc' \in {"return", "propose"}
      /\ first' \in BOOLEAN /\ trial' \in {trial, None}
      /\ UNCHANGED <<state, file, tmp, log, skipped, mode, seeds, resident, best, starts>>
  BY DEF NextIteration, LeaveLoop, TypeOK, disk
<1>2. idle' \in Nat
  <2>1. idle \in Nat
    BY DEF TypeOK
  <2>2. CASE LeaveLoop
    BY <2>1, <2>2 DEF LeaveLoop
  <2>3. CASE NextIteration
    <3>1. idle' = IF mode.command THEN idle ELSE IdleAfter(trial)
      BY <2>3 DEF NextIteration
    <3>2. IdleAfter(trial) \in Nat
      BY <2>1 DEF IdleAfter
    <3> QED
      BY <2>1, <3>1, <3>2
  <2> QED
    BY <2>2, <2>3
<1>3. TypeOK'
  BY <1>1, <1>2 DEF TypeOK
<1> QED
  BY <1>1, <1>3 DEF OneIncumbent, ResidentIsReported, HonestStates, AheadOfFile

LEMMA AgentKeeps ==
  ASSUME CInv, NEW campaign \in Campaigns, NEW c \in Candidates, AgentRecords(campaign, c)
  PROVE  CInv'
<1> USE DEF CInv
<1> DEFINE s == IF file = None THEN FreshState(campaign) ELSE file
<1>1. LoadState(file) = file /\ file \in StateType \cup {None}
  BY DEF LoadState, AheadOfFile, TypeOK
<1>2. PICK t \in Reports(c) : trial' = t /\ state' = Record(s, t, FALSE)
  BY <1>1 DEF AgentRecords
<1>3. file' = s /\ tmp' \in StateType \cup {None} /\ starts' \in 0 .. MaxStarts
  BY <1>1, CampaignAssumption DEF AgentRecords, TypeOK
<1>4. /\ pc = "stopped" /\ pc' = "append" /\ mode' = Command
      /\ UNCHANGED <<log, skipped, first, seeds, idle, resident, best>>
  BY DEF AgentRecords
<1>5. s \in StateType /\ Honest(s.best)
  <2>1. CASE file = None
    BY <2>1, FreshIsState
  <2>2. CASE file # None
    BY <1>1, <2>2 DEF HonestStates
  <2> QED
    BY <2>1, <2>2
<1> HIDE DEF s
<1>6. t \in TrialType /\ (t.status = "kept" => Honest(t)) /\ NoWorse(s, s)
  BY <1>5, ReportsAreTrials, NoWorseReflexive
<1>7. state' \in StateType /\ NoWorse(s, state') /\ Honest(state'.best)
  BY <1>2, <1>5, <1>6, RecordFields, RecordNoWorse, RecordHonest
<1>8. s # None /\ s # Corrupt /\ state' # None /\ trial' # None
  BY <1>2, <1>5, <1>6, <1>7, MarksAssumption
<1>9. Command \in Modes /\ Command # None
  <2>1. Command \in Modes
    BY DEF Command, Modes
  <2> QED
    BY <2>1, MarksAssumption
<1>10. TypeOK'
  BY <1>2, <1>3, <1>4, <1>5, <1>6, <1>7, <1>8, <1>9 DEF TypeOK
<1>11. OneIncumbent'
  BY <1>4 DEF OneIncumbent, ResidentIsReported, TypeOK
<1> QED
  BY <1>3, <1>4, <1>5, <1>7, <1>8, <1>10, <1>11 DEF HonestStates, AheadOfFile

LEMMA ForgetKeeps ==
  ASSUME CInv, Forget
  PROVE  CInv'
<1> USE DEF CInv
<1>1. /\ state' = None /\ mode' = None /\ pc' = "stopped" /\ first' = TRUE
      /\ idle' = 0 /\ resident' = None /\ best' = Nowhere /\ trial' = None
      /\ UNCHANGED <<file, tmp, log, skipped, starts>>
  BY DEF Forget, disk
<1>2. TypeOK'
  BY <1>1, NowhereIsPoint DEF TypeOK
<1>3. Honest(Nowhere)
  BY DEF Honest, Nowhere
<1> QED
  BY <1>1, <1>2, <1>3 DEF OneIncumbent, ResidentIsReported, HonestStates, AheadOfFile

-----------------------------------------------------------------------------
LEMMA InitCInv == Init => CInv
BY CampaignAssumption, MarksAssumption, NowhereIsPoint
DEF Init, CInv, TypeOK, OneIncumbent, ResidentIsReported, HonestStates, AheadOfFile, Honest, Nowhere

LEMMA NextCInv == CInv /\ [Next]_vars => CInv'
<1> SUFFICES ASSUME CInv, [Next]_vars
             PROVE  CInv'
  OBVIOUS
<1>1. ASSUME NEW c \in Campaigns, Start(c) PROVE CInv'
  BY <1>1, StartKeeps
<1>2. ASSUME NEW c \in Candidates, Iterate(c) \/ Raise(c) PROVE CInv'
  BY <1>2, IterateKeeps, RaiseKeeps
<1>3. ASSUME NEW campaign \in Campaigns, NEW c \in Candidates, AgentRecords(campaign, c) PROVE CInv'
  BY <1>3, AgentKeeps
<1>4. CASE AppendResult \/ AppendFails
  BY <1>4, AppendKeeps
<1>5. CASE WriteTmp \/ Replace
  BY <1>5, SaveKeeps
<1>6. CASE SaveFails
  BY <1>6, SaveFailsKeeps
<1>7. CASE NextIteration \/ LeaveLoop
  BY <1>7, LoopKeeps
<1>8. CASE Return \/ Crash
  BY <1>8, ForgetKeeps DEF Return, Crash
<1>9. CASE UNCHANGED vars
  BY <1>9 DEF vars, CInv, TypeOK, OneIncumbent, ResidentIsReported, HonestStates, AheadOfFile, Honest,
              NoWorse
<1> QED
  BY <1>1, <1>2, <1>3, <1>4, <1>5, <1>6, <1>7, <1>8, <1>9 DEF Next

(* The strengthened invariant holds of every campaign.                     *)
THEOREM CampaignInvariant == Spec => []CInv
BY InitCInv, NextCInv, PTL DEF Spec

(* The driver and the orchestrator keep every variable in its type.        *)
THEOREM CampaignTypes == Spec => []TypeOK
<1>1. CInv => TypeOK
  BY DEF CInv
<1> QED
  BY <1>1, CampaignInvariant, PTL

(***************************************************************************)
(* The evaluator's incumbent is what the run reports, however kept,        *)
(* rejected and crashed trials follow one another.                         *)
(***************************************************************************)
THEOREM IncumbentReported == Spec => []ResidentIsReported
<1>1. CInv => ResidentIsReported
  BY DEF CInv, OneIncumbent
<1> QED
  BY <1>1, CampaignInvariant, PTL

(***************************************************************************)
(* No wrong, unvalidated or sub-floor candidate is ever the best: on disk, *)
(* in memory or reported, over any number of crashes, resumes, commands    *)
(* and changes of evaluator.                                               *)
(***************************************************************************)
THEOREM BestHonest == Spec => []BestIsHonest
<1>1. CInv => BestIsHonest
  BY DEF CInv, HonestStates, BestIsHonest
<1> QED
  BY <1>1, CampaignInvariant, PTL

-----------------------------------------------------------------------------
(* What a step may do to the state file.                                   *)
LEMMA FileSteps ==
  ASSUME CInv, [Next]_vars, file # None
  PROVE  NoWorse(file, file')
<1> USE DEF CInv
<1>1. file \in StateType /\ file # Corrupt /\ NoWorse(file, file)
  BY NoWorseReflexive DEF TypeOK, AheadOfFile
<1>2. CASE file' = file
  BY <1>1, <1>2
<1>3. ASSUME NEW c \in Campaigns, Start(c) PROVE NoWorse(file, file')
  <2>1. LoadState(file) = file
    BY <1>1 DEF LoadState
  <2>2. CASE file.campaign = c
    BY <1>1, <1>2, <1>3, <2>1, <2>2 DEF Start
  <2>3. CASE file.campaign # c
    <3>1. file' = FreshState(c)
      BY <1>3, <2>1, <2>3 DEF Start
    <3>2. file' # None /\ file' # Corrupt /\ file'.campaign = c
      BY <3>1, FreshIsState, MarksAssumption DEF FreshState
    <3> QED
      BY <2>3, <3>2 DEF NoWorse
  <2> QED
    BY <2>2, <2>3
<1>4. ASSUME NEW campaign \in Campaigns, NEW c \in Candidates, AgentRecords(campaign, c)
      PROVE  NoWorse(file, file')
  <2>1. file' = file
    BY <1>1, <1>4 DEF AgentRecords, LoadState
  <2> QED
    BY <1>2, <2>1
<1>5. CASE Replace
  <2>1. file' = state /\ state # None
    BY <1>5 DEF Replace, AheadOfFile, TypeOK
  <2> QED
    BY <2>1 DEF AheadOfFile
<1>6. CASE \/ \E c \in Candidates : Iterate(c) \/ Raise(c)
           \/ AppendResult \/ AppendFails \/ WriteTmp \/ SaveFails \/ NextIteration \/ LeaveLoop
           \/ Return \/ Crash \/ UNCHANGED vars
  <2>1. file' = file
    BY <1>6 DEF Iterate, Raise, AppendResult, AppendFails, WriteTmp, SaveFails, NextIteration,
                LeaveLoop, Return, Crash, Forget, disk, vars
  <2> QED
    BY <1>2, <2>1
<1> QED
  BY <1>3, <1>4, <1>5, <1>6 DEF Next

(***************************************************************************)
(* Whatever is killed whenever, the state file is never unreadable and     *)
(* never goes back on the experiments or the best it has on record.        *)
(***************************************************************************)
THEOREM Durable == Spec => ProgressIsDurable
<1>1. CInv /\ [Next]_vars => [file # None => NoWorse(file, file')]_vars
  BY FileSteps
<1> QED
  BY <1>1, CampaignInvariant, PTL DEF Spec, ProgressIsDurable

-----------------------------------------------------------------------------
(***************************************************************************)
(* Which rows results.tsv has: the state file, and the state between two   *)
(* iterations, count no experiment that was not appended; while a row is   *)
(* being appended it is the only one missing.                              *)
(***************************************************************************)
RowsUpTo(s, n) ==
  \A m \in 1 .. n : \E row \in log \cup skipped : row.campaign = s.campaign /\ row.experiment = m

LoggedSoFar ==
  /\ file # None => RowsUpTo(file, file.run)
  /\ pc \in {"propose", "write", "replace", "decide"} => RowsUpTo(state, state.run)
  /\ pc = "append" => RowsUpTo(state, state.run - 1)

LEMMA FreshIsLogged ==
  ASSUME NEW c \in Campaigns
  PROVE  RowsUpTo(FreshState(c), FreshState(c).run)
BY DEF RowsUpTo, FreshState

LEMMA NextLogged == CInv /\ LoggedSoFar /\ [Next]_vars => LoggedSoFar'
<1> SUFFICES ASSUME CInv, LoggedSoFar, [Next]_vars
             PROVE  LoggedSoFar'
  OBVIOUS
<1> USE DEF CInv, LoggedSoFar
<1>1. /\ file \in StateType \cup {None}
      /\ pc # "stopped" => state \in StateType
      /\ pc = "stopped" => state = None
  BY DEF TypeOK, AheadOfFile
<1>2. ASSUME NEW c \in Campaigns, Start(c) PROVE LoggedSoFar'
  <2>1. LoadState(file) = file /\ pc' = "propose" /\ log' = log /\ skipped' = skipped
    BY <1>2 DEF LoadState, AheadOfFile, Start
  <2>2. CASE file # None /\ file.campaign = c
    <3>1. file' = file /\ state' = file
      BY <1>2, <2>1, <2>2 DEF Start
    <3> QED
      BY <2>1, <2>2, <3>1 DEF RowsUpTo
  <2>3. CASE ~(file # None /\ file.campaign = c)
    <3>1. file' = FreshState(c) /\ state' = FreshState(c)
      BY <1>2, <2>1, <2>3 DEF Start
    <3> QED
      BY <2>1, <3>1 DEF RowsUpTo, FreshState
  <2> QED
    BY <2>2, <2>3
<1>3. ASSUME NEW c \in Candidates, Iterate(c) \/ Raise(c) PROVE LoggedSoFar'
  <2>1. /\ pc = "propose" /\ state \in StateType /\ mode \in Modes
        /\ pc' = "append" /\ file' = file /\ log' = log /\ skipped' = skipped
    BY <1>1, <1>3 DEF Iterate, Raise, disk, TypeOK
  <2>2. PICK t \in TrialType, late \in BOOLEAN : state' = Record(Forgiven, t, late)
    <3>1. CASE Iterate(c)
      BY <2>1, <3>1, VerdictsAreTrials DEF Iterate
    <3>2. CASE Raise(c)
      BY <3>2, CrashIsTrial DEF Raise
    <3> QED
      BY <1>3, <3>1, <3>2
  <2>3. state'.campaign = state.campaign /\ state'.run = state.run + 1 /\ state.run \in Nat
    <3>1. Forgiven \in StateType /\ Forgiven.run = state.run /\ Forgiven.campaign = state.campaign
      BY <2>1, ForgivenFields
    <3>2. /\ Record(Forgiven, t, late).campaign = Forgiven.campaign
          /\ Record(Forgiven, t, late).run = Forgiven.run + 1
      BY <3>1, RecordFields
    <3>3. state.run \in Nat
      BY <2>1 DEF StateType
    <3> QED
      BY <2>2, <3>1, <3>2, <3>3
  <2>4. state'.run - 1 = state.run
    BY <2>3
  <2> QED
    BY <2>1, <2>3, <2>4 DEF RowsUpTo
<1>4. ASSUME NEW campaign \in Campaigns, NEW c \in Candidates, AgentRecords(campaign, c)
      PROVE  LoggedSoFar'
  <2> DEFINE s == IF file = None THEN FreshState(campaign) ELSE file
  <2>1. LoadState(file) = file
    BY DEF LoadState, AheadOfFile
  <2>2. PICK t \in Reports(c) : state' = Record(s, t, FALSE)
    BY <1>4, <2>1 DEF AgentRecords
  <2>3. file' = s /\ pc' = "append" /\ log' = log /\ skipped' = skipped
    BY <1>4, <2>1 DEF AgentRecords
  <2>4. s \in StateType /\ RowsUpTo(s, s.run)
    BY <1>1, FreshIsState, FreshIsLogged
  <2> HIDE DEF s
  <2>5. state'.campaign = s.campaign /\ state'.run = s.run + 1 /\ s.run \in Nat
    BY <2>2, <2>4, ReportsAreTrials, RecordFields DEF StateType
  <2>6. state'.run - 1 = s.run
    BY <2>5
  <2> QED
    BY <2>3, <2>4, <2>5, <2>6 DEF RowsUpTo
<1>5. CASE AppendResult \/ AppendFails
  <2>1. /\ pc = "append" /\ pc' = "write" /\ file' = file /\ state' = state
        /\ log' \cup skipped' = log \cup skipped \cup {Row(state)}
    BY <1>5 DEF AppendResult, AppendFails
  <2>2. state.run \in Nat
    BY <1>1, <2>1 DEF StateType
  <2>3. RowsUpTo(state, state.run)'
    <3>1. SUFFICES ASSUME NEW m \in 1 .. state.run
                   PROVE  \E row \in log' \cup skipped' :
                            row.campaign = state.campaign /\ row.experiment = m
      BY <2>1 DEF RowsUpTo
    <3>2. CASE m = state.run
      <4>1. Row(state).campaign = state.campaign /\ Row(state).experiment = m
        BY <3>2 DEF Row
      <4> QED
        BY <2>1, <4>1
    <3>3. CASE m # state.run
      <4>1. m \in 1 .. (state.run - 1)
        BY <2>2, <3>1, <3>3
      <4>2. \E row \in log \cup skipped : row.campaign = state.campaign /\ row.experiment = m
        BY <2>1, <4>1 DEF RowsUpTo
      <4> QED
        BY <2>1, <4>2
    <3> QED
      BY <3>2, <3>3
  <2>4. file # None => RowsUpTo(file, file.run)'
    BY <2>1 DEF RowsUpTo
  <2> QED
    BY <2>1, <2>3, <2>4
<1>6. CASE SaveFails
  <2>1. /\ pc \in {"write", "replace"} /\ file' = file /\ log' = log /\ skipped' = skipped
        /\ state \in StateType
    BY <1>1, <1>6 DEF SaveFails, disk
  <2>2. CASE state' = state /\ pc' = "decide"
    BY <2>1, <2>2 DEF RowsUpTo
  <2>3. CASE \E t \in TrialType, late \in BOOLEAN : state' = Record(state, t, late) /\ pc' = "append"
    <3>1. PICK t \in TrialType, late \in BOOLEAN : state' = Record(state, t, late) /\ pc' = "append"
      BY <2>3
    <3>2. /\ Record(state, t, late).campaign = state.campaign
          /\ Record(state, t, late).run = state.run + 1
      BY <2>1, RecordFields
    <3>3. state.run \in Nat
      BY <2>1 DEF StateType
    <3>4. state'.campaign = state.campaign /\ state'.run - 1 = state.run
      BY <3>1, <3>2, <3>3
    <3> QED
      BY <2>1, <3>1, <3>4 DEF RowsUpTo
  <2> QED
    BY <1>6, <2>2, <2>3, CrashIsTrial DEF SaveFails
<1>7. CASE Replace
  BY <1>7 DEF Replace, AheadOfFile, RowsUpTo
<1>8. CASE WriteTmp \/ NextIteration \/ LeaveLoop
  BY <1>8 DEF WriteTmp, NextIteration, LeaveLoop, disk, RowsUpTo
<1>9. CASE Return \/ Crash
  BY <1>9 DEF Return, Crash, Forget, disk, RowsUpTo
<1>10. CASE UNCHANGED vars
  BY <1>10 DEF vars, RowsUpTo
<1> QED
  BY <1>2, <1>3, <1>4, <1>5, <1>6, <1>7, <1>8, <1>9, <1>10 DEF Next

(***************************************************************************)
(* Every experiment that the state file counts has its row in results.tsv, *)
(* or the console said that it could not be written.                       *)
(***************************************************************************)
THEOREM Logged == Spec => []EveryExperimentLogged
<1>1. Init => LoggedSoFar
  BY DEF Init, LoggedSoFar
<1>2. LoggedSoFar => EveryExperimentLogged
  BY DEF LoggedSoFar, RowsUpTo, EveryExperimentLogged
<1> QED
  BY <1>1, <1>2, NextLogged, CampaignInvariant, PTL DEF Spec
=============================================================================
