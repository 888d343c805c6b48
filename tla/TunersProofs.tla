----------------------------- MODULE TunersProofs -----------------------------
(***************************************************************************)
(* Theorems about what tries candidates and keeps the best: Tuners, for    *)
(* every list of variants, grid, set of edits, model, GPU and clock and    *)
(* any number of tools and rows; and the search for a schedule (Search),   *)
(* for every space of configurations, cost model, clock and budget.        *)
(***************************************************************************)
EXTENDS Tuners, Search, FiniteSetTheorems, WellFoundedInduction, TLAPS

ToolNames == {"loop", "instruction", "autotune", "compile", "evaluate"}
Devices == {"cpu", "cuda"}
Readings == Latencies \cup {None}

IsList(s) == s \in Seq({s[n] : n \in DOMAIN s})

(* The session has the fields Launch gave it while a tool runs, and its    *)
(* best is one of the trials.                                              *)
Shape ==
  /\ IsList(results) /\ IsList(corpus)
  /\ pc \in {"idle", "try", "log", "bank", "done"}
  /\ pc = "idle" => session = None
  /\ pc # "idle" =>
       /\ session \in [tool : ToolNames, device : Devices, shape : Shapes, budget : Budgets,
                       from : Nat, seen : {session.seen}, best : Nat, baseline : {session.baseline}]
       /\ IsList(session.seen)
       /\ session.best \in 0 .. Trials
       /\ pc \in {"log", "bank"} => Trials >= 1 /\ ~Silent

(* Every trial is kept or not, and the best is the last one kept.          *)
LastKept ==
  pc # "idle" =>
    /\ \A n \in 1 .. Trials : session.seen[n].kept \in BOOLEAN
    /\ HasBest => session.seen[session.best].kept
    /\ \A n \in 1 .. Trials : n > session.best => ~session.seen[n].kept

-----------------------------------------------------------------------------
LEMMA ListGrows ==
  ASSUME NEW s, IsList(s), NEW e
  PROVE  /\ Len(s) \in Nat /\ DOMAIN s = 1 .. Len(s)
         /\ IsList(Append(s, e)) /\ Len(Append(s, e)) = Len(s) + 1
         /\ DOMAIN Append(s, e) = 1 .. Len(s) + 1
         /\ \A n \in 1 .. Len(s) : Append(s, e)[n] = s[n]
         /\ Append(s, e)[Len(s) + 1] = e
<1> DEFINE t == Append(s, e)
<1>1. PICK S : S = {s[n] : n \in DOMAIN s}
  OBVIOUS
<1>2. s \in Seq(S) /\ s \in Seq(S \cup {e})
  BY <1>1 DEF IsList
<1>3. t \in Seq(S \cup {e}) /\ Len(s) \in Nat /\ DOMAIN s = 1 .. Len(s) /\ Len(t) = Len(s) + 1
  BY <1>2
<1>4. (\A n \in 1 .. Len(s) : t[n] = s[n]) /\ t[Len(s) + 1] = e
  BY <1>2
<1> HIDE DEF t
<1>5. t \in Seq({t[n] : n \in DOMAIN t})
  <2> DEFINE T == {t[n] : n \in DOMAIN t}
             l == Len(t)
  <2>1. l \in Nat /\ t = [n \in 1 .. l |-> t[n]] /\ DOMAIN t = 1 .. l
    BY <1>3
  <2>2. \A n \in 1 .. l : t[n] \in T
    BY <2>1
  <2> HIDE DEF T, l
  <2>3. t \in [1 .. l -> T]
    BY <2>1, <2>2
  <2> QED
    BY <2>1, <2>3 DEF T
<1> QED
  BY <1>3, <1>4, <1>5 DEF t, IsList

LEMMA ShippedIsList == IsList(Shipped) /\ Len(Shipped) \in Nat
BY TunersAssumption DEF IsList, ToSet

LEMMA NumbersAreNotNone == None \notin Latencies /\ \A us \in Latencies : us \in Nat /\ us > 0
<1>1. Latencies \subseteq Nat \ {0} /\ None \notin Int
  BY TunersAssumption, HarnessAssumption
<1>2. \A us \in Latencies : us \in Nat /\ us # 0
  BY <1>1
<1>3. \A us \in Latencies : us \in Int /\ us > 0
  BY <1>2
<1> QED
  BY <1>1, <1>2, <1>3

LEMMA ToolsAreKnown == \A t \in Tools : t[1] \in ToolNames /\ t[2] \in Devices
BY TunersAssumption DEF ToolNames, Devices

-----------------------------------------------------------------------------
(* What Try does to the session.                                           *)

LEMMA TryFacts ==
  ASSUME Shape, Try
  PROVE  /\ pc = "try" /\ pc' = (IF Silent THEN "try" ELSE "log") /\ UNCHANGED <<results, corpus>>
         /\ Trials \in Nat /\ Trials' = Trials + 1 /\ DOMAIN session.seen = 1 .. Trials
         /\ DOMAIN session'.seen = 1 .. Trials + 1 /\ IsList(session'.seen)
         /\ session'.tool = session.tool /\ session'.device = session.device
         /\ session'.from = session.from /\ (Silent' <=> Silent)
         /\ session' \in [tool : ToolNames, device : Devices, shape : Shapes, budget : Budgets,
                          from : Nat, seen : {session'.seen}, best : Nat, baseline : {session'.baseline}]
         /\ session'.best \in 0 .. Trials + 1
         /\ \A n \in 1 .. Trials : session'.seen[n] = session.seen[n]
         /\ \E c \in Candidates : \E v \in Verdicts(c) :
              /\ session'.seen[Trials + 1] = [verdict |-> v, kept |-> Keeps(v)]
              /\ session'.best = (IF Keeps(v) THEN Trials + 1 ELSE session.best)
              /\ session'.baseline = BaselineAfter(v)
<1>1. /\ pc = "try" /\ pc' = (IF Silent THEN "try" ELSE "log") /\ UNCHANGED <<results, corpus>>
  BY DEF Try
<1>8. PICK c \in Candidates : \E v \in Verdicts(c) :
        session' = [session EXCEPT !.seen = Append(@, [verdict |-> v, kept |-> Keeps(v)]),
                                   !.best = IF Keeps(v) THEN Trials + 1 ELSE @,
                                   !.baseline = BaselineAfter(v)]
  BY DEF Try
<1>2. PICK v \in Verdicts(c) :
        session' = [session EXCEPT !.seen = Append(@, [verdict |-> v, kept |-> Keeps(v)]),
                                   !.best = IF Keeps(v) THEN Trials + 1 ELSE @,
                                   !.baseline = BaselineAfter(v)]
  BY <1>8
<1> DEFINE e == [verdict |-> v, kept |-> Keeps(v)]
<1>3. /\ session \in [tool : ToolNames, device : Devices, shape : Shapes, budget : Budgets,
                      from : Nat, seen : {session.seen}, best : Nat, baseline : {session.baseline}]
      /\ IsList(session.seen) /\ session.best \in 0 .. Trials
  BY <1>1 DEF Shape
<1>4. /\ session'.seen = Append(session.seen, e)
      /\ session'.best = (IF Keeps(v) THEN Trials + 1 ELSE session.best)
      /\ session'.baseline = BaselineAfter(v)
      /\ session'.tool = session.tool /\ session'.device = session.device /\ session'.from = session.from
  BY <1>2, <1>3
<1> HIDE DEF e
<1>5. /\ Trials \in Nat /\ DOMAIN session.seen = 1 .. Trials /\ Trials' = Trials + 1
      /\ IsList(session'.seen) /\ session'.seen[Trials + 1] = e
      /\ \A n \in 1 .. Trials : session'.seen[n] = session.seen[n]
  BY <1>3, <1>4, ListGrows DEF Trials
<1>6. DOMAIN session'.seen = 1 .. Trials + 1
  BY <1>3, <1>4, ListGrows DEF Trials
<1>7. Silent' <=> Silent
  BY <1>4 DEF Silent
<1>9. session'.best \in 0 .. Trials + 1
  BY <1>3, <1>4, <1>5
<1>10. session' \in [tool : ToolNames, device : Devices, shape : Shapes, budget : Budgets,
                     from : Nat, seen : {session'.seen}, best : Nat, baseline : {session'.baseline}]
  <2>1. PICK x, y, z : session' = [session EXCEPT !.seen = x, !.best = y, !.baseline = z]
    BY <1>2
  <2>2. session'.seen = x /\ session'.best = y /\ session'.baseline = z
    BY <1>3, <2>1
  <2>3. y \in Nat
    BY <1>5, <1>9, <2>2
  <2> QED
    BY <1>3, <2>1, <2>2, <2>3
<1> QED
  BY <1>1, <1>4, <1>5, <1>6, <1>7, <1>9, <1>10 DEF e

LEMMA KeepsIsBoolean ==
  ASSUME Shape, pc = "try", NEW v
  PROVE  Keeps(v) \in BOOLEAN
<1>1. session.tool \in ToolNames
  BY DEF Shape
<1>2. Better(v) \in BOOLEAN /\ Faster(v) \in BOOLEAN /\ Lower(v) \in BOOLEAN
  BY DEF Better, Faster, Lower
<1> QED
  BY <1>1, <1>2 DEF Keeps, ToolNames

LEMMA InitShape == Init => Shape /\ LastKept
<1> SUFFICES ASSUME Init PROVE Shape /\ LastKept
  OBVIOUS
<1>1. IsList(<<>>)
  BY DEF IsList
<1> QED
  BY <1>1, ShippedIsList DEF Init, Shape, LastKept

LEMMA LaunchFacts ==
  ASSUME Shape, NEW t \in Tools, NEW shape \in Shapes, NEW budget \in Budgets,
         Launch(t[1], t[2], shape, budget)
  PROVE  /\ pc' = "try" /\ UNCHANGED <<results, corpus>>
         /\ session'.tool = t[1] /\ session'.device = t[2] /\ session'.from = Len(results)
         /\ session'.seen = <<>> /\ session'.best = 0 /\ session'.baseline = None
         /\ Trials' = 0 /\ Len(results) \in Nat
         /\ Shape'
<1>1. /\ pc' = "try" /\ UNCHANGED <<results, corpus>>
      /\ session' = [tool |-> t[1], device |-> t[2], shape |-> shape, budget |-> budget,
                     from |-> Len(results), seen |-> <<>>, best |-> 0, baseline |-> None]
  BY DEF Launch, Fresh
<1>2. /\ session'.tool = t[1] /\ session'.device = t[2] /\ session'.from = Len(results)
      /\ session'.seen = <<>> /\ session'.best = 0 /\ session'.baseline = None
  BY <1>1
<1>3. Len(results) \in Nat /\ t[1] \in ToolNames /\ t[2] \in Devices
  BY ListGrows, ToolsAreKnown DEF Shape
<1>4. session' \in [tool : ToolNames, device : Devices, shape : Shapes, budget : Budgets,
                    from : Nat, seen : {session'.seen}, best : Nat, baseline : {session'.baseline}]
  BY <1>1, <1>3
<1>5. IsList(<<>>) /\ Trials' = 0
  BY <1>2 DEF IsList, Trials
<1>6. Shape'
  BY <1>1, <1>2, <1>4, <1>5 DEF Shape, IsList
<1> QED
  BY <1>1, <1>2, <1>3, <1>5, <1>6

LEMMA NextShape ==
  ASSUME Shape, LastKept, [Next]_vars
  PROVE  Shape' /\ LastKept'
<1>1. ASSUME NEW t \in Tools, NEW shape \in Shapes, NEW budget \in Budgets,
             Launch(t[1], t[2], shape, budget)
      PROVE  Shape' /\ LastKept'
  BY <1>1, LaunchFacts DEF LastKept, HasBest
<1>2. CASE Try
  <2>1. /\ pc = "try" /\ pc' = (IF Silent THEN "try" ELSE "log") /\ UNCHANGED <<results, corpus>>
        /\ Trials \in Nat /\ Trials' = Trials + 1 /\ IsList(session'.seen)
        /\ Silent' <=> Silent
        /\ \A n \in 1 .. Trials : session'.seen[n] = session.seen[n]
    BY <1>2, TryFacts
  <2>2. PICK c, v :
              /\ session'.seen[Trials + 1] = [verdict |-> v, kept |-> Keeps(v)]
              /\ session'.best = (IF Keeps(v) THEN Trials + 1 ELSE session.best)
    BY <1>2, TryFacts
  <2>3. Keeps(v) \in BOOLEAN
    BY <2>1, KeepsIsBoolean
  <2>4. session \in [tool : ToolNames, device : Devices, shape : Shapes, budget : Budgets,
                     from : Nat, seen : {session.seen}, best : Nat, baseline : {session.baseline}]
        /\ session.best \in 0 .. Trials /\ IsList(results) /\ IsList(corpus)
    BY <2>1 DEF Shape
  <2>5. session' \in [tool : ToolNames, device : Devices, shape : Shapes, budget : Budgets,
                      from : Nat, seen : {session'.seen}, best : Nat, baseline : {session'.baseline}]
        /\ session'.best \in 0 .. Trials + 1
    BY <1>2, TryFacts
  <2>6. Shape'
    BY <2>1, <2>4, <2>5 DEF Shape
  <2>7. LastKept'
    BY <2>1, <2>2, <2>3, <2>4 DEF LastKept, HasBest
  <2> QED
    BY <2>6, <2>7
<1>3. CASE Log \/ Bank \/ Return
  <2>1. /\ UNCHANGED session /\ pc # "idle" /\ pc' \in {"try", "bank", "done"}
        /\ pc' = "bank" => pc = "log"
        /\ IsList(results') /\ IsList(corpus')
    <3>1. IsList(results) /\ IsList(corpus)
      BY DEF Shape
    <3>2. /\ UNCHANGED session /\ pc \in {"try", "log", "bank"} /\ pc' \in {"try", "bank", "done"}
          /\ pc' = "bank" => pc = "log"
      BY <1>3 DEF Log, Bank, Return
    <3>3. results' = results \/ \E e : results' = Append(results, e)
      BY <1>3 DEF Log, Bank, Return
    <3>4. corpus' = corpus \/ \E e : corpus' = Append(corpus, e)
      BY <1>3 DEF Log, Bank, Return
    <3>5. IsList(results') /\ IsList(corpus')
      <4>1. \A e : IsList(Append(results, e)) /\ IsList(Append(corpus, e))
        BY <3>1, ListGrows
      <4>2. (results' = results => IsList(results')) /\ (corpus' = corpus => IsList(corpus'))
        BY <3>1
      <4> QED
        BY <3>3, <3>4, <4>1, <4>2
    <3> QED
      BY <3>2, <3>5
  <2>2. Trials' = Trials /\ (Silent' <=> Silent) /\ (HasBest' <=> HasBest)
    BY <2>1 DEF Trials, Silent, HasBest
  <2> QED
    BY <2>1, <2>2 DEF Shape, LastKept
<1>4. CASE Kill
  BY <1>4 DEF Kill, Shape, LastKept
<1>5. CASE UNCHANGED vars
  BY <1>5 DEF vars, Shape, LastKept, Trials, Silent, HasBest
<1> QED
  BY <1>1, <1>2, <1>3, <1>4, <1>5 DEF Next

(* A running tool keeps a list of trials of which the best is the last kept. *)
THEOREM TunersShape == Spec => [](Shape /\ LastKept)
<1> QED
  BY InitShape, NextShape, PTL DEF Spec

-----------------------------------------------------------------------------
(***************************************************************************)
(* results.tsv is the trail of the run.                                    *)
(***************************************************************************)

Logged == Trials - (IF pc = "log" THEN 1 ELSE 0)

(* The row of a trial, up to its number.                                   *)
IsRowOf(row, entry) ==
  /\ row.loop = IF session.tool = "instruction" THEN "instruction" ELSE "schedule"
  /\ row.tag = Tag(entry.verdict, entry.kept)
  /\ row.config = entry.verdict.config
  /\ row.correctness = entry.verdict.correctness
  /\ row.us = entry.verdict.us

Trail ==
  pc # "idle" /\ ~Silent =>
    /\ Len(results) = session.from + Logged
    /\ \A n \in 1 .. Logged : IsRowOf(results[session.from + n], session.seen[n])

LEMMA LogFacts ==
  ASSUME Shape, Log
  PROVE  /\ pc = "log" /\ pc' = (IF Banked THEN "bank" ELSE "try") /\ UNCHANGED <<corpus, session>>
         /\ Trials \in Nat /\ Trials >= 1 /\ ~Silent
         /\ IsList(results) /\ Len(results) \in Nat /\ DOMAIN results = 1 .. Len(results)
         /\ Len(results') = Len(results) + 1 /\ DOMAIN results' = 1 .. Len(results) + 1
         /\ \A n \in 1 .. Len(results) : results'[n] = results[n]
         /\ results'[Len(results) + 1] = Row(Experiment, Latest)
<1>1. /\ pc = "log" /\ pc' = (IF Banked THEN "bank" ELSE "try") /\ UNCHANGED <<corpus, session>>
      /\ results' = Append(results, Row(Experiment, Latest))
  BY DEF Log
<1>2. IsList(results) /\ IsList(session.seen) /\ Trials >= 1 /\ ~Silent
  BY <1>1 DEF Shape
<1> HIDE DEF Log
<1> QED
  BY <1>1, <1>2, ListGrows DEF Trials

LEMMA NextTrail ==
  ASSUME Shape, Trail, [Next]_vars
  PROVE  Trail'
<1>1. ASSUME NEW t \in Tools, NEW shape \in Shapes, NEW budget \in Budgets,
             Launch(t[1], t[2], shape, budget)
      PROVE  Trail'
  BY <1>1, LaunchFacts DEF Trail, Logged
<1>2. CASE Try
  <2>1. /\ pc = "try" /\ UNCHANGED results /\ Trials \in Nat /\ Trials' = Trials + 1
        /\ pc' = (IF Silent THEN "try" ELSE "log") /\ (Silent' <=> Silent)
        /\ session'.from = session.from /\ session'.tool = session.tool
        /\ \A n \in 1 .. Trials : session'.seen[n] = session.seen[n]
    BY <1>2, TryFacts
  <2>2. ~Silent => Logged' = Trials /\ Logged = Trials
    BY <2>1 DEF Logged
  <2>3. \A row, entry : IsRowOf(row, entry)' <=> IsRowOf(row, entry)
    BY <2>1 DEF IsRowOf
  <2> QED
    BY <2>1, <2>2, <2>3 DEF Trail
<1>3. CASE Log
  <2>1. /\ pc = "log" /\ pc' \in {"bank", "try"} /\ session' = session
        /\ Trials \in Nat /\ Trials >= 1 /\ ~Silent /\ Len(results) \in Nat
        /\ Len(results') = Len(results) + 1
        /\ \A n \in 1 .. Len(results) : results'[n] = results[n]
        /\ results'[Len(results) + 1] = Row(Experiment, Latest)
    BY <1>3, LogFacts
  <2>2. Logged = Trials - 1 /\ Logged' = Trials /\ (Silent' <=> Silent)
    <3>1. Trials' = Trials /\ (Silent' <=> Silent)
      BY <2>1 DEF Trials, Silent
    <3> QED
      BY <2>1, <3>1 DEF Logged
  <2>3. session.from \in Nat /\ Len(results) = session.from + Logged
    BY <2>1 DEF Shape, Trail
  <2>4. IsRowOf(results'[session.from + Trials], session.seen[Trials])
    <3>1. session.from + Trials = Len(results) + 1
      BY <2>1, <2>2, <2>3
    <3>2. IsRowOf(Row(Experiment, Latest), Latest)
      BY DEF IsRowOf, Row
    <3> QED
      BY <2>1, <3>1, <3>2 DEF Latest
  <2>5. \A n \in 1 .. Trials - 1 : IsRowOf(results'[session.from + n], session.seen[n])
    <3>1. \A n \in 1 .. Trials - 1 : session.from + n \in 1 .. Len(results)
      BY <2>1, <2>2, <2>3
    <3> QED
      BY <2>1, <2>2, <3>1 DEF Trail
  <2>6. \A n \in 1 .. Trials : n = Trials \/ n \in 1 .. Trials - 1
    BY <2>1
  <2>7. \A row, entry : IsRowOf(row, entry)' <=> IsRowOf(row, entry)
    BY <2>1 DEF IsRowOf
  <2> QED
    <3>1. \A n \in 1 .. Trials : IsRowOf(results'[session.from + n], session.seen[n])
      BY <2>4, <2>5, <2>6
    <3>2. Len(results') = session.from + Trials
      BY <2>1, <2>2, <2>3
    <3> QED
      BY <2>1, <2>2, <2>7, <3>1, <3>2 DEF Trail
<1>4. CASE Bank \/ Return
  <2>1. pc \in {"try", "bank"} /\ pc' \in {"try", "done"} /\ UNCHANGED <<results, session>>
    BY <1>4 DEF Bank, Return
  <2>2. Logged' = Logged /\ (Silent' <=> Silent)
    BY <2>1 DEF Logged, Trials, Silent
  <2> QED
    BY <2>1, <2>2 DEF Trail, IsRowOf
<1>5. CASE Kill
  BY <1>5 DEF Kill, Trail
<1>6. CASE UNCHANGED vars
  BY <1>6 DEF vars, Trail, IsRowOf, Logged, Trials, Silent
<1> QED
  BY <1>1, <1>2, <1>3, <1>4, <1>5, <1>6 DEF Next

(* results.tsv tells the run as it was, and its last kept row is the best. *)
THEOREM ResultsTellTheRun == Spec => []TrailIsTheRun
<1>1. Init => Trail
  BY DEF Init, Trail
<1>2. Shape /\ LastKept /\ Trail => TrailIsTheRun
  <2> SUFFICES ASSUME Shape, LastKept, Trail, session # None, ~Silent
               PROVE  TrailIsTheRun
    BY DEF TrailIsTheRun
  <2> DEFINE keeps == {n \in 1 .. Logged : results[session.from + n].tag = "kept"}
  <2>1. /\ pc # "idle" /\ Trials \in Nat /\ session.best \in 0 .. Trials
        /\ Len(results) = session.from + Logged
        /\ \A n \in 1 .. Logged : IsRowOf(results[session.from + n], session.seen[n])
    BY ListGrows DEF Shape, Trail, Trials
  <2>2. ASSUME pc # "log"
        PROVE  IF keeps = {} THEN ~HasBest
               ELSE LET row == results[session.from + Max(keeps)]
                    IN  HasBest /\ row.config = Best.config /\ row.us = Best.us
    <3>1. Logged = Trials
      BY <2>1, <2>2 DEF Logged
    <3>2. \A n \in 1 .. Trials : n \in keeps <=> session.seen[n].kept
      <4> SUFFICES ASSUME NEW n \in 1 .. Trials
                   PROVE  n \in keeps <=> session.seen[n].kept
        OBVIOUS
      <4>1. results[session.from + n].tag = Tag(session.seen[n].verdict, session.seen[n].kept)
        BY <2>1, <3>1 DEF IsRowOf
      <4>2. session.seen[n].kept \in BOOLEAN
        BY <2>1 DEF LastKept
      <4>3. \A v, k : k \in BOOLEAN => (Tag(v, k) = "kept" <=> k)
        BY DEF Tag
      <4> QED
        BY <3>1, <4>1, <4>2, <4>3
    <3>3. CASE session.best = 0
      <4>1. \A n \in 1 .. Trials : ~session.seen[n].kept
        BY <2>1, <3>3 DEF LastKept
      <4>2. keeps = {}
        BY <3>1, <3>2, <4>1
      <4> QED
        BY <3>3, <4>2 DEF HasBest
    <3>4. CASE session.best # 0
      <4>1. /\ session.best \in keeps /\ keeps \subseteq 1 .. Trials
            /\ \A n \in keeps : n <= session.best
        BY <2>1, <3>1, <3>2, <3>4 DEF LastKept, HasBest
      <4>2. Max(keeps) = session.best
        <5>1. \A n \in keeps : n \in Int
          BY <2>1, <4>1
        <5> HIDE DEF keeps
        <5>2. \E x \in keeps : \A y \in keeps : x >= y
          BY <4>1, <5>1
        <5> DEFINE m == Max(keeps)
        <5>3. m \in keeps /\ \A y \in keeps : m >= y
          BY <5>2 DEF Max
        <5> HIDE DEF m
        <5>4. m \in Int /\ session.best \in Int /\ m >= session.best /\ m <= session.best
          BY <4>1, <5>1, <5>3
        <5>5. m = session.best
          BY <5>4
        <5> QED
          BY <5>5 DEF m
      <4>3. IsRowOf(results[session.from + session.best], session.seen[session.best])
        BY <2>1, <3>1, <3>4
      <4> QED
        BY <3>4, <4>1, <4>2, <4>3 DEF HasBest, Best, Seen, IsRowOf
    <3> QED
      BY <3>3, <3>4
  <2> HIDE DEF keeps
  <2> QED
    BY <2>1, <2>2 DEF TrailIsTheRun, IsRowOf, Logged, keeps
<1>3. Shape /\ Trail /\ [Next]_vars => Trail'
  BY NextTrail
<1> QED
  BY <1>1, <1>2, <1>3, TunersShape, PTL DEF Spec

-----------------------------------------------------------------------------
(***************************************************************************)
(* Latencies are earned.                                                   *)
(***************************************************************************)

(* What a verdict's latency says, by the tool that reports it.             *)
Earned(v) ==
  v.us # None =>
    /\ v.correctness = "PASS"
    /\ session.tool \in {"loop", "compile", "evaluate"} => v.config.schedule \notin Wrong \cup Unsound
    /\ session.tool \in {"loop", "evaluate"} =>
         /\ ~BelowBound(v.us)
         /\ v.kind = "measured-gpu" =>
              session.device = "cuda" /\ ~BelowSustained(v.us) /\ Loadable(v.config)
    /\ session.tool \in {"instruction", "autotune"} => v.us \in Latencies

LEMMA TimingsAreEarned ==
  ASSUME NEW c, NEW device, NEW v \in Timings(c, device)
  PROVE  /\ v.config = c /\ v.correctness = "PASS"
         /\ v.kind = "measured-gpu" => device = "cuda" /\ Loadable(c)
<1>1. PICK us \in IF device = "cuda" THEN GpuLatencies(c) ELSE {None} :
        v = IF us = None THEN Verdict(c, "PASS", Predicted(c), "predicted")
                         ELSE Verdict(c, "PASS", us, "measured-gpu")
  BY DEF Timings
<1>2. us # None => device = "cuda" /\ Loadable(c)
  BY <1>1 DEF GpuLatencies
<1> QED
  BY <1>1, <1>2 DEF Verdict

LEMMA EvaluateIsEarned ==
  ASSUME NEW edit, NEW device, NEW v \in Evaluate(edit, device), v.us # None
  PROVE  /\ v.correctness = "PASS" /\ v.config.schedule \notin Wrong \cup Unsound
         /\ ~BelowBound(v.us)
         /\ v.kind = "measured-gpu" => device = "cuda" /\ ~BelowSustained(v.us) /\ Loadable(v.config)
<1> DEFINE c == Candidate(edit)
<1>1. Passes(edit) /\ Equivalent(ReferenceLogits(c)) /\ \E t \in Timings(c, device) : v = Withhold(t)
  BY DEF Evaluate, Verdict
<1>2. c.schedule \notin Unsound
  BY <1>1 DEF Passes, Candidate
<1>3. c.schedule \notin Wrong
  BY <1>1 DEF Equivalent, ReferenceLogits
<1>4. PICK t \in Timings(c, device) : v = Withhold(t)
  BY <1>1
<1> HIDE DEF c
<1>5. /\ t.config = c /\ t.correctness = "PASS"
      /\ t.kind = "measured-gpu" => device = "cuda" /\ Loadable(c)
  BY TimingsAreEarned
<1>6. PICK k, us : t = Verdict(c, "PASS", us, k)
  BY DEF Timings
<1>7. v = t /\ ~(BelowBound(t.us) \/ (t.kind = "measured-gpu" /\ BelowSustained(t.us)))
  <2>1. [t EXCEPT !.us = None, !.kind = "none"].us = None
    BY <1>6 DEF Verdict
  <2> QED
    BY <1>4, <2>1 DEF Withhold
<1> QED
  BY <1>2, <1>3, <1>5, <1>7

LEMMA VerdictsAreEarned ==
  ASSUME Shape, pc = "try", NEW c \in Candidates, NEW v \in Verdicts(c)
  PROVE  Earned(v)
<1> SUFFICES ASSUME v.us # None PROVE Earned(v)
  BY DEF Earned
<1>1. session.tool \in ToolNames
  BY DEF Shape
<1>2. CASE session.tool = "loop"
  <2>1. v \in Evaluate(Recorded(c), session.device)
    BY <1>2 DEF Verdicts
  <2> QED
    BY <1>2, <2>1, EvaluateIsEarned DEF Earned
<1>3. CASE session.tool = "evaluate"
  <2>1. v \in Evaluate(c, session.device)
    BY <1>3 DEF Verdicts
  <2> QED
    BY <1>3, <2>1, EvaluateIsEarned DEF Earned
<1>4. CASE session.tool = "compile"
  <2>1. v \in EvaluateCompiled(c, session.device) /\ c.schedule \notin Unsound
    BY <1>4 DEF Verdicts, Candidates
  <2>2. Equivalent(ReferenceLogits(c)) /\ v \in Timings(c, session.device)
    BY <2>1 DEF EvaluateCompiled, Verdict
  <2>3. c.schedule \notin Wrong
    BY <2>2 DEF Equivalent, ReferenceLogits
  <2> QED
    BY <1>4, <2>1, <2>2, <2>3, TimingsAreEarned DEF Earned
<1>5. CASE session.tool = "instruction"
  BY <1>5 DEF Verdicts, EvaluateVariant, Verdict, Earned
<1>6. CASE session.tool = "autotune"
  BY <1>6 DEF Verdicts, EvaluatePoint, Verdict, Earned
<1> QED
  BY <1>1, <1>2, <1>3, <1>4, <1>5, <1>6 DEF ToolNames

EarnedTrials == pc # "idle" => \A n \in 1 .. Trials : Earned(session.seen[n].verdict)

EarnedRow(row) ==
  row.us # None =>
    /\ row.correctness = "PASS"
    /\ row.loop = "schedule" => row.config.schedule \notin Wrong \cup Unsound

EarnedRows == \A n \in DOMAIN results : EarnedRow(results[n])

LEMMA NextEarnedTrials ==
  ASSUME Shape, EarnedTrials, [Next]_vars
  PROVE  EarnedTrials'
<1>1. ASSUME NEW t \in Tools, NEW shape \in Shapes, NEW budget \in Budgets,
             Launch(t[1], t[2], shape, budget)
      PROVE  EarnedTrials'
  BY <1>1, LaunchFacts DEF EarnedTrials
<1>2. CASE Try
  <2>1. /\ pc = "try" /\ Trials \in Nat /\ Trials' = Trials + 1
        /\ session'.tool = session.tool /\ session'.device = session.device
        /\ \A n \in 1 .. Trials : session'.seen[n] = session.seen[n]
    BY <1>2, TryFacts
  <2>2. PICK c \in Candidates : \E v \in Verdicts(c) : session'.seen[Trials + 1] = [verdict |-> v, kept |-> Keeps(v)]
    BY <1>2, TryFacts
  <2>3. PICK v \in Verdicts(c) : session'.seen[Trials + 1] = [verdict |-> v, kept |-> Keeps(v)]
    BY <2>2
  <2>4. \A u : Earned(u)' <=> Earned(u)
    BY <2>1 DEF Earned
  <2>5. Earned(v)
    BY <2>1, VerdictsAreEarned
  <2>6. \A n \in 1 .. Trials + 1 : Earned(session'.seen[n].verdict)
    <3> SUFFICES ASSUME NEW n \in 1 .. Trials + 1 PROVE Earned(session'.seen[n].verdict)
      OBVIOUS
    <3>1. CASE n = Trials + 1
      BY <2>3, <2>5, <3>1
    <3>2. CASE n \in 1 .. Trials
      BY <2>1, <3>2 DEF EarnedTrials
    <3> QED
      BY <2>1, <3>1, <3>2
  <2>7. \A n \in 1 .. Trials' : Earned(session.seen[n].verdict)'
    BY <2>1, <2>4, <2>6
  <2> QED
    BY <2>7 DEF EarnedTrials
<1>3. CASE UNCHANGED session /\ pc # "idle"
  BY <1>3 DEF EarnedTrials, Earned, Trials
<1>4. CASE Kill
  BY <1>4 DEF Kill, EarnedTrials
<1>5. CASE UNCHANGED vars
  BY <1>5 DEF vars, EarnedTrials, Earned, Trials
<1>6. Log \/ Bank \/ Return => UNCHANGED session /\ pc # "idle"
  BY DEF Log, Bank, Return
<1> QED
  BY <1>1, <1>2, <1>3, <1>4, <1>5, <1>6 DEF Next

LEMMA NextEarnedRows ==
  ASSUME Shape, EarnedTrials, EarnedRows, [Next]_vars
  PROVE  EarnedRows'
<1>1. CASE Log
  <2>1. /\ pc = "log" /\ Trials \in Nat /\ Trials >= 1 /\ ~Silent
        /\ Len(results) \in Nat /\ DOMAIN results = 1 .. Len(results)
        /\ DOMAIN results' = 1 .. Len(results) + 1
        /\ \A n \in 1 .. Len(results) : results'[n] = results[n]
        /\ results'[Len(results) + 1] = Row(Experiment, Latest)
    BY <1>1, LogFacts
  <2>2. Earned(Latest.verdict) /\ session.tool \in ToolNames
    BY <2>1 DEF EarnedTrials, Latest, Shape
  <2>3. EarnedRow(Row(Experiment, Latest))
    BY <2>1, <2>2 DEF Earned, EarnedRow, Row, Silent, ToolNames
  <2>4. \A n \in 1 .. Len(results) + 1 : EarnedRow(results'[n])
    <3> SUFFICES ASSUME NEW n \in 1 .. Len(results) + 1 PROVE EarnedRow(results'[n])
      OBVIOUS
    <3>1. CASE n = Len(results) + 1
      BY <2>1, <2>3, <3>1
    <3>2. CASE n \in 1 .. Len(results)
      BY <2>1, <3>2 DEF EarnedRows
    <3> QED
      BY <2>1, <3>1, <3>2
  <2> QED
    BY <2>1, <2>4 DEF EarnedRows, EarnedRow
<1>2. CASE UNCHANGED results
  BY <1>2 DEF EarnedRows, EarnedRow
<1>3. Next => Log \/ UNCHANGED results
  BY DEF Next, Launch, Try, Bank, Return, Kill
<1> QED
  BY <1>1, <1>2, <1>3 DEF vars

(* No row of results.tsv has the latency of a candidate that failed its    *)
(* check, whichever tool wrote it; one of loop() or evaluate() is above the *)
(* bandwidth floors of the harness besides.                                *)
THEOREM LatenciesAreEarned == Spec => []LatencyEarned
<1>1. Init => EarnedTrials /\ EarnedRows
  BY DEF Init, EarnedTrials, EarnedRows
<1>2. Shape /\ EarnedTrials /\ EarnedRows => LatencyEarned
  <2> SUFFICES ASSUME Shape, EarnedTrials, EarnedRows PROVE LatencyEarned
    OBVIOUS
  <2>1. session # None => pc # "idle" /\ DOMAIN session.seen = 1 .. Trials
    BY ListGrows DEF Shape, Trials
  <2> QED
    BY <2>1 DEF LatencyEarned, EarnedTrials, EarnedRows, EarnedRow, Earned
<1>3. Shape /\ EarnedTrials /\ EarnedRows /\ [Next]_vars => EarnedTrials' /\ EarnedRows'
  BY NextEarnedTrials, NextEarnedRows
<1> QED
  BY <1>1, <1>2, <1>3, TunersShape, PTL DEF Spec

-----------------------------------------------------------------------------
(***************************************************************************)
(* Points have receipts.                                                   *)
(***************************************************************************)

HasReceipt(point) ==
  \E m \in DOMAIN results :
    /\ results[m].loop = "schedule" /\ results[m].tag = "kept" /\ results[m].correctness = "PASS"
    /\ Recorded(results[m].config) = point.edit /\ results[m].us = point.us

Receipts ==
  /\ Len(corpus) >= Len(Shipped)
  /\ \A n \in Len(Shipped) + 1 .. Len(corpus) : HasReceipt(corpus[n])

(* What loop and compile keep has passed, and only that is banked.         *)
KeptPassed ==
  /\ pc # "idle" /\ session.tool \in {"loop", "compile"} =>
       \A n \in 1 .. Trials : session.seen[n].kept => session.seen[n].verdict.correctness = "PASS"
  /\ pc = "bank" => Banked

LEMMA NextKeptPassed ==
  ASSUME Shape, KeptPassed, [Next]_vars
  PROVE  KeptPassed'
<1>1. ASSUME NEW t \in Tools, NEW shape \in Shapes, NEW budget \in Budgets,
             Launch(t[1], t[2], shape, budget)
      PROVE  KeptPassed'
  BY <1>1, LaunchFacts DEF KeptPassed
<1>2. CASE Try
  <2>1. /\ pc = "try" /\ pc' \in {"try", "log"} /\ Trials \in Nat /\ Trials' = Trials + 1
        /\ session'.tool = session.tool
        /\ \A n \in 1 .. Trials : session'.seen[n] = session.seen[n]
    BY <1>2, TryFacts
  <2>2. PICK c, v : session'.seen[Trials + 1] = [verdict |-> v, kept |-> Keeps(v)]
    BY <1>2, TryFacts
  <2>3. session.tool \in {"loop", "compile"} => (Keeps(v) => v.correctness = "PASS")
    BY DEF Keeps, Better
  <2>4. ASSUME session.tool \in {"loop", "compile"}, NEW n \in 1 .. Trials + 1, session'.seen[n].kept
        PROVE  session'.seen[n].verdict.correctness = "PASS"
    <3>1. CASE n = Trials + 1
      BY <2>2, <2>3, <2>4, <3>1
    <3>2. CASE n \in 1 .. Trials
      BY <2>1, <2>4, <3>2 DEF KeptPassed
    <3> QED
      BY <2>1, <3>1, <3>2
  <2> QED
    BY <2>1, <2>4 DEF KeptPassed
<1>3. CASE Log
  <2>1. pc = "log" /\ UNCHANGED session /\ pc' = (IF Banked THEN "bank" ELSE "try")
    BY <1>3 DEF Log
  <2> QED
    BY <2>1 DEF KeptPassed, Banked, Latest, Trials
<1>4. CASE Bank \/ Return
  BY <1>4 DEF Bank, Return, KeptPassed, Trials
<1>5. CASE Kill
  BY <1>5 DEF Kill, KeptPassed
<1>6. CASE UNCHANGED vars
  BY <1>6 DEF vars, KeptPassed, Banked, Latest, Trials
<1> QED
  BY <1>1, <1>2, <1>3, <1>4, <1>5, <1>6 DEF Next

LEMMA NextReceipts ==
  ASSUME Shape, Trail, KeptPassed, Receipts, [Next]_vars
  PROVE  Receipts'
<1>1. \A point : HasReceipt(point) => HasReceipt(point)'
  <2>1. CASE Log
    <3>1. /\ DOMAIN results = 1 .. Len(results) /\ Len(results) \in Nat
          /\ DOMAIN results' = 1 .. Len(results) + 1
          /\ \A n \in 1 .. Len(results) : results'[n] = results[n]
      BY <2>1, LogFacts
    <3> QED
      BY <3>1 DEF HasReceipt
  <2>2. CASE UNCHANGED results
    BY <2>2 DEF HasReceipt
  <2>3. Next => Log \/ UNCHANGED results
    BY DEF Next, Launch, Try, Bank, Return, Kill
  <2> QED
    BY <2>1, <2>2, <2>3 DEF vars
<1>2. CASE UNCHANGED corpus
  BY <1>1, <1>2 DEF Receipts
<1>3. CASE Bank
  <2>1. pc = "bank" /\ Banked /\ UNCHANGED results /\ (corpus' = corpus \/ corpus' = Append(corpus, Point))
    BY <1>3 DEF Bank, KeptPassed
  <2>2. HasReceipt(Point)
    <3>1. /\ Trials \in Nat /\ Trials >= 1 /\ ~Silent /\ session.from \in Nat /\ Logged = Trials
          /\ DOMAIN results = 1 .. Len(results) /\ Len(results) = session.from + Trials
      BY <2>1, ListGrows DEF Shape, Trail, Logged, Trials
    <3>2. IsRowOf(results[session.from + Trials], Latest)
      BY <2>1, <3>1 DEF Trail, Latest
    <3>3. Latest.kept /\ session.tool \in {"loop", "compile"} /\ Latest.verdict.correctness = "PASS"
      BY <2>1, <3>1 DEF Banked, KeptPassed, Latest
    <3>4. LET row == results[session.from + Trials]
          IN  /\ row.loop = "schedule" /\ row.tag = "kept" /\ row.correctness = "PASS"
              /\ Recorded(row.config) = Point.edit /\ row.us = Point.us
      BY <3>2, <3>3 DEF IsRowOf, Tag, Point
    <3>5. session.from + Trials \in DOMAIN results
      BY <3>1
    <3> QED
      BY <3>4, <3>5 DEF HasReceipt
  <2>3. CASE corpus' = Append(corpus, Point)
    <3>1. /\ Len(corpus) \in Nat /\ Len(corpus') = Len(corpus) + 1
          /\ \A n \in 1 .. Len(corpus) : corpus'[n] = corpus[n]
          /\ corpus'[Len(corpus) + 1] = Point
      BY <2>3, ListGrows DEF Shape
    <3>2. Len(Shipped) \in Nat
      BY ShippedIsList
    <3>3. \A n \in Len(Shipped) + 1 .. Len(corpus) + 1 : HasReceipt(corpus'[n])
      <4> SUFFICES ASSUME NEW n \in Len(Shipped) + 1 .. Len(corpus) + 1 PROVE HasReceipt(corpus'[n])
        OBVIOUS
      <4>1. CASE n = Len(corpus) + 1
        BY <2>2, <3>1, <4>1
      <4>2. CASE n \in Len(Shipped) + 1 .. Len(corpus)
        <5>1. n \in 1 .. Len(corpus)
          BY <3>1, <3>2, <4>2
        <5> QED
          BY <3>1, <4>2, <5>1 DEF Receipts
      <4> QED
        BY <3>1, <3>2, <4>1, <4>2
    <3>4. Len(corpus') >= Len(Shipped)
      BY <3>1, <3>2 DEF Receipts
    <3> QED
      BY <1>1, <3>1, <3>3, <3>4 DEF Receipts
  <2> QED
    BY <1>2, <2>1, <2>3
<1>4. Next => Bank \/ UNCHANGED corpus
  BY DEF Next, Launch, Try, Log, Return, Kill
<1> QED
  BY <1>2, <1>3, <1>4 DEF vars

(* Every point the tools append to the corpus repeats a kept row of        *)
(* results.tsv that passed: the prior learns from nothing that has no      *)
(* experiment behind it.                                                   *)
THEOREM EveryPointHasReceipt == Spec => []PointsHaveReceipts
<1>1. Init => Trail /\ KeptPassed /\ Receipts
  BY ShippedIsList DEF Init, Trail, KeptPassed, Receipts
<1>2. Shape /\ Trail /\ KeptPassed /\ Receipts /\ [Next]_vars => Trail' /\ KeptPassed' /\ Receipts'
  BY NextTrail, NextKeptPassed, NextReceipts
<1>3. Receipts => PointsHaveReceipts
  BY DEF Receipts, HasReceipt, PointsHaveReceipts
<1> QED
  BY <1>1, <1>2, <1>3, TunersShape, PTL DEF Spec

-----------------------------------------------------------------------------
(***************************************************************************)
(* Nothing is left on the table.                                           *)
(***************************************************************************)

(* Against a best latency: none is one percent, or at all, better.         *)
NotBeaten(us, bar) == IF session.tool = "autotune" THEN bar <= us ELSE ~Gains(us, bar)

Bar ==
  pc # "idle" /\ session.tool \in {"instruction", "autotune"} =>
    /\ HasBest => Best.us \in Latencies
    /\ \A n \in 1 .. Trials : Seen(n).us # None => HasBest /\ NotBeaten(Seen(n).us, Best.us)
    /\ session.baseline # None => HasBest /\ session.baseline \in Latencies /\ Best.us <= session.baseline

(* A bar moves down only by the rule of its tool, so what did not beat the *)
(* old one does not beat the new one.                                      *)
LEMMA BarMovesDown ==
  ASSUME NEW old \in Latencies, NEW new \in Latencies, NEW us \in Latencies,
         NotBeaten(us, old),
         IF session.tool = "autotune" THEN new < old ELSE Gains(new, old)
  PROVE  NotBeaten(us, new) /\ new < old
<1>1. old \in Nat /\ old > 0 /\ new \in Nat /\ us \in Nat
  BY NumbersAreNotNone
<1> QED
  BY <1>1 DEF NotBeaten, Gains

LEMMA NextBar ==
  ASSUME Shape, EarnedTrials, Bar, [Next]_vars
  PROVE  Bar'
<1>1. ASSUME NEW t \in Tools, NEW shape \in Shapes, NEW budget \in Budgets,
             Launch(t[1], t[2], shape, budget)
      PROVE  Bar'
  BY <1>1, LaunchFacts DEF Bar, HasBest
<1>2. ASSUME Try, session.tool \in {"instruction", "autotune"}
      PROVE  Bar'
  <2>1. /\ pc = "try" /\ Trials \in Nat /\ Trials' = Trials + 1 /\ DOMAIN session.seen = 1 .. Trials
        /\ session'.tool = session.tool
        /\ \A n \in 1 .. Trials : session'.seen[n] = session.seen[n]
    BY <1>2, TryFacts
  <2>2. PICK c \in Candidates : \E v \in Verdicts(c) :
              /\ session'.seen[Trials + 1] = [verdict |-> v, kept |-> Keeps(v)]
              /\ session'.best = (IF Keeps(v) THEN Trials + 1 ELSE session.best)
              /\ session'.baseline = BaselineAfter(v)
    BY <1>2, TryFacts
  <2>3. PICK v \in Verdicts(c) :
              /\ session'.seen[Trials + 1] = [verdict |-> v, kept |-> Keeps(v)]
              /\ session'.best = (IF Keeps(v) THEN Trials + 1 ELSE session.best)
              /\ session'.baseline = BaselineAfter(v)
    BY <2>2
  <2>4. v.us \in Readings
    BY <1>2, <2>1, VerdictsAreEarned DEF Earned, Readings
  <2>5. /\ Keeps(v) <=> IF session.tool = "autotune" THEN Lower(v) ELSE Faster(v)
        /\ session.best \in 0 .. Trials
    BY <1>2, <2>1 DEF Keeps, Shape
  <2> DEFINE now(n) == session'.seen[n].verdict
  <2>6. /\ \A n \in 1 .. Trials : now(n) = Seen(n)
        /\ now(Trials + 1) = v
        /\ HasBest => session.best \in 1 .. Trials
        /\ Keeps(v) => HasBest' /\ Best' = v
        /\ ~Keeps(v) => (HasBest' <=> HasBest) /\ (HasBest => Best' = Best)
    <3>1. (\A n \in 1 .. Trials : now(n) = Seen(n)) /\ now(Trials + 1) = v
      BY <2>1, <2>3 DEF Seen
    <3>2. HasBest => session.best \in 1 .. Trials
      BY <2>1, <2>5 DEF HasBest
    <3>3. Best' = now(session'.best) /\ (HasBest' <=> session'.best # 0)
      BY DEF Best, Seen, HasBest
    <3> HIDE DEF now
    <3>4. Keeps(v) => HasBest' /\ Best' = v
      BY <2>1, <2>3, <3>1, <3>3
    <3>5. ~Keeps(v) => (HasBest' <=> HasBest) /\ (HasBest => Best' = Best)
      BY <2>3, <3>1, <3>2, <3>3 DEF Best, HasBest
    <3> QED
      BY <3>1, <3>2, <3>4, <3>5
  <2> HIDE DEF now
  <2>7. HasBest => Best.us \in Latencies
    BY <1>2, <2>1 DEF Bar
  <2>8. \A us, bar : NotBeaten(us, bar)' <=> NotBeaten(us, bar)
    BY <2>1 DEF NotBeaten
  <2>9. \A n \in 1 .. Trials : Seen(n).us \in Readings /\ (Seen(n).us # None => HasBest /\ NotBeaten(Seen(n).us, Best.us))
    BY <1>2, <2>1 DEF EarnedTrials, Earned, Seen, Bar, Readings
  <2>10. session.baseline # None => HasBest /\ session.baseline \in Latencies /\ Best.us <= session.baseline
    BY <1>2, <2>1 DEF Bar
  <2>11. CASE Keeps(v)
    <3>1. v.us \in Latencies /\ (HasBest => IF session.tool = "autotune" THEN v.us < Best.us ELSE Gains(v.us, Best.us))
      BY <2>4, <2>5, <2>11, NumbersAreNotNone DEF Lower, Faster, Readings
    <3>2. NotBeaten(v.us, v.us)
      BY <3>1, NumbersAreNotNone DEF NotBeaten, Gains
    <3>3. \A n \in 1 .. Trials : Seen(n).us # None => NotBeaten(Seen(n).us, v.us)
      BY <2>7, <2>9, <3>1, BarMovesDown DEF Readings
    <3>4. HasBest => v.us < Best.us
      <4>1. HasBest => NotBeaten(Best.us, Best.us)
        BY <2>7, NumbersAreNotNone DEF NotBeaten, Gains
      <4> QED
        BY <2>7, <3>1, <4>1, BarMovesDown
    <3>5. session'.baseline # None => session'.baseline \in Latencies /\ v.us <= session'.baseline
      <4>1. CASE session'.baseline = v.us
        BY <3>1, <4>1, NumbersAreNotNone
      <4>2. CASE session'.baseline = session.baseline
        <5>1. ASSUME session.baseline # None PROVE v.us <= session.baseline
          <6>1. v.us \in Nat /\ Best.us \in Nat /\ session.baseline \in Nat /\ v.us < Best.us /\ Best.us <= session.baseline
            BY <2>7, <2>10, <3>1, <3>4, <5>1, NumbersAreNotNone
          <6> QED
            BY <6>1
        <5> QED
          BY <2>10, <4>2, <5>1
      <4> QED
        BY <2>3, <4>1, <4>2 DEF BaselineAfter
    <3>6. /\ HasBest' /\ Best' = v
          /\ \A n \in 1 .. Trials + 1 : now(n).us # None => NotBeaten(now(n).us, v.us)
      <4> SUFFICES ASSUME NEW n \in 1 .. Trials + 1, now(n).us # None PROVE NotBeaten(now(n).us, v.us)
        BY <2>6, <2>11
      <4>1. CASE n = Trials + 1
        BY <2>6, <3>2, <4>1
      <4>2. CASE n \in 1 .. Trials
        BY <2>6, <3>3, <4>2
      <4> QED
        BY <2>1, <4>1, <4>2
    <3>7. /\ Best'.us \in Latencies /\ Trials' = Trials + 1 /\ \A n : Seen(n)' = now(n)
          /\ session'.baseline # None => session'.baseline \in Latencies /\ Best'.us <= session'.baseline
      BY <2>1, <3>1, <3>5, <3>6 DEF Seen, now
    <3> QED
      BY <2>8, <3>6, <3>7 DEF Bar
  <2>12. CASE ~Keeps(v)
    <3>1. v.us # None => HasBest /\ NotBeaten(v.us, Best.us)
      <4>1. v.us # None => HasBest /\ (IF session.tool = "autotune" THEN ~(v.us < Best.us) ELSE ~Gains(v.us, Best.us))
        BY <2>5, <2>12 DEF Lower, Faster
      <4>2. v.us # None => v.us \in Nat
        BY <2>4, NumbersAreNotNone DEF Readings
      <4>3. HasBest => Best.us \in Nat
        BY <2>7, NumbersAreNotNone
      <4> QED
        BY <4>1, <4>2, <4>3 DEF NotBeaten
    <3>2. (HasBest' <=> HasBest) /\ (HasBest => Best' = Best)
      BY <2>6, <2>12
    <3>3. \A n \in 1 .. Trials + 1 : now(n).us # None => HasBest /\ NotBeaten(now(n).us, Best.us)
      <4> SUFFICES ASSUME NEW n \in 1 .. Trials + 1, now(n).us # None
                   PROVE  HasBest /\ NotBeaten(now(n).us, Best.us)
        OBVIOUS
      <4>1. CASE n = Trials + 1
        BY <2>6, <3>1, <4>1
      <4>2. CASE n \in 1 .. Trials
        BY <2>6, <2>9, <4>2
      <4> QED
        BY <2>1, <4>1, <4>2
    <3>4. session'.baseline # None => HasBest /\ session'.baseline \in Latencies /\ Best.us <= session'.baseline
      <4>1. CASE session.tool = "instruction" /\ session.seen = <<>>
        <5>1. Trials = 0
          BY <4>1 DEF Trials
        <5>2. ~HasBest
          BY <2>5, <5>1 DEF HasBest
        <5>3. v.us = None
          BY <3>1, <5>2
        <5> QED
          BY <2>3, <4>1, <5>3 DEF BaselineAfter
      <4>2. CASE session.tool = "autotune" /\ session.baseline = None
        <5>1. session'.baseline = v.us
          BY <2>3, <4>2 DEF BaselineAfter
        <5> QED
          BY <2>4, <3>1, <4>2, <5>1 DEF NotBeaten, Readings
      <4>3. CASE session'.baseline = session.baseline
        BY <2>10, <4>3
      <4> QED
        BY <2>3, <4>1, <4>2, <4>3 DEF BaselineAfter
    <3>5. Trials' = Trials + 1 /\ \A n : Seen(n)' = now(n)
      BY <2>1 DEF Seen, now
    <3> QED
      BY <2>7, <2>8, <3>2, <3>3, <3>4, <3>5 DEF Bar
  <2> QED
    BY <2>11, <2>12
<1>3. ASSUME Try, session.tool \notin {"instruction", "autotune"}
      PROVE  Bar'
  BY <1>3, TryFacts DEF Bar
<1>4. CASE Log \/ Bank \/ Return
  <2>1. pc # "idle" /\ UNCHANGED session
    BY <1>4 DEF Log, Bank, Return
  <2> QED
    BY <2>1 DEF Bar, HasBest, Best, Seen, Trials, NotBeaten
<1>5. CASE Kill
  BY <1>5 DEF Kill, Bar
<1>6. CASE UNCHANGED vars
  BY <1>6 DEF vars, Bar, HasBest, Best, Seen, Trials, NotBeaten
<1> QED
  BY <1>1, <1>2, <1>3, <1>4, <1>5, <1>6 DEF Next

(* Neither gen.tune nor autotune returns a variant when it has timed one   *)
(* that is better by its own rule, for any list of variants or grid.       *)
THEOREM BestIsReturned == Spec => []NothingLeft
<1>1. Init => EarnedTrials /\ Bar
  BY DEF Init, EarnedTrials, Bar
<1>2. Shape /\ EarnedTrials /\ Bar /\ [Next]_vars => EarnedTrials' /\ Bar'
  BY NextEarnedTrials, NextBar
<1>3. Shape /\ Bar => NothingLeft
  <2> SUFFICES ASSUME Shape, Bar, pc = "done", session.tool \in {"instruction", "autotune"}
               PROVE  NothingLeft
    BY DEF NothingLeft
  <2>1. DOMAIN session.seen = 1 .. Trials
    BY ListGrows DEF Shape, Trials
  <2> QED
    BY <2>1 DEF Bar, NothingLeft, NotBeaten, Seen
<1> QED
  BY <1>1, <1>2, <1>3, TunersShape, PTL DEF Spec

-----------------------------------------------------------------------------
(***************************************************************************)
(* The seeds of a later run.                                               *)
(***************************************************************************)

(* A relation that puts the elements of S one after the other.             *)
StrictOrder(S, before) ==
  /\ \A m \in S : <<m, m>> \notin before
  /\ \A m, n \in S : m # n => <<m, n>> \in before \/ <<n, m>> \in before
  /\ \A l, m, n \in S : <<l, m>> \in before /\ <<m, n>> \in before => <<l, n>> \in before

(* InOrder then lists every element of S once, earlier ones first.         *)
LEMMA InOrderIs ==
  ASSUME NEW S, IsFiniteSet(S), NEW before, StrictOrder(S, before)
  PROVE  LET f == InOrder(S, before)
             n == Cardinality(S)
         IN  /\ n \in Nat /\ f \in [1 .. n -> S] /\ Len(f) = n
             /\ \A s \in S : \E k \in 1 .. n : f[k] = s
             /\ \A k, l \in 1 .. n : k < l => <<f[k], f[l]>> \in before
<1> DEFINE f == InOrder(S, before)
           n == Cardinality(S)
           B(s) == {r \in S : <<r, s>> \in before}
           place(k) == CHOOSE s \in S : Cardinality(B(s)) = k - 1
           rank == [s \in S |-> Cardinality(B(s)) + 1]
<1>1. n \in Nat
  BY FS_CardinalityType
<1>2. f = [k \in 1 .. n |-> place(k)]
  BY DEF InOrder
<1>3. \A s \in S : B(s) \in SUBSET S /\ s \notin B(s)
  BY DEF StrictOrder
<1>4. \A s \in S : IsFiniteSet(B(s)) /\ Cardinality(B(s)) \in Nat /\ Cardinality(B(s)) < n
  <2> SUFFICES ASSUME NEW s \in S PROVE IsFiniteSet(B(s)) /\ Cardinality(B(s)) \in Nat /\ Cardinality(B(s)) < n
    OBVIOUS
  <2> HIDE DEF B
  <2>1. IsFiniteSet(B(s)) /\ Cardinality(B(s)) <= n /\ (n = Cardinality(B(s)) => S = B(s))
    BY <1>3, FS_Subset
  <2>2. Cardinality(B(s)) \in Nat
    BY <2>1, FS_CardinalityType
  <2> QED
    BY <1>1, <1>3, <2>1, <2>2
<1>5. ASSUME NEW r \in S, NEW s \in S, <<r, s>> \in before
      PROVE  Cardinality(B(r)) < Cardinality(B(s))
  <2>1. B(r) \in SUBSET B(s) /\ r \in B(s)
    BY <1>5 DEF StrictOrder
  <2> HIDE DEF B
  <2>2. Cardinality(B(r)) <= Cardinality(B(s)) /\ (Cardinality(B(s)) = Cardinality(B(r)) => B(s) = B(r))
    BY <1>4, <2>1, FS_Subset
  <2> QED
    BY <1>3, <1>4, <2>1, <2>2
<1> HIDE DEF B, f
<1>6. rank \in [S -> 1 .. n] /\ \A s \in S : rank[s] = Cardinality(B(s)) + 1
  <2>1. \A s \in S : Cardinality(B(s)) + 1 \in 1 .. n
    BY <1>1, <1>4
  <2> HIDE DEF n
  <2> QED
    BY <2>1
<1> HIDE DEF rank
<1>7. \A r, s \in S : <<r, s>> \in before => rank[r] < rank[s]
  BY <1>4, <1>5, <1>6
<1>8. \A r, s \in S : rank[r] = rank[s] => r = s
  <2> SUFFICES ASSUME NEW r \in S, NEW s \in S, rank[r] = rank[s], r # s PROVE FALSE
    OBVIOUS
  <2>1. <<r, s>> \in before \/ <<s, r>> \in before
    BY DEF StrictOrder
  <2>2. rank[r] < rank[s] \/ rank[s] < rank[r]
    BY <1>7, <2>1
  <2>3. rank[r] \in 1 .. n /\ rank[s] \in 1 .. n
    BY <1>6
  <2> QED
    BY <1>1, <2>2, <2>3
<1>9. \A k \in 1 .. n : \E s \in S : rank[s] = k
  <2>1. rank \in Injection(S, 1 .. n)
    BY <1>6, <1>8 DEF Injection, IsInjective
  <2>2. IsFiniteSet(1 .. n) /\ Cardinality(1 .. n) = n
    BY <1>1, FS_Interval
  <2>3. rank \in Surjection(S, 1 .. n)
    BY <2>1, <2>2, FS_Injection
  <2> QED
    BY <2>3 DEF Surjection
<1>10. \A k \in 1 .. n : place(k) \in S /\ rank[place(k)] = k
  <2> SUFFICES ASSUME NEW k \in 1 .. n PROVE place(k) \in S /\ rank[place(k)] = k
    OBVIOUS
  <2>1. PICK s \in S : rank[s] = k
    BY <1>9
  <2>2. Cardinality(B(s)) = k - 1
    BY <1>1, <1>4, <1>6, <2>1
  <2>3. place(k) \in S /\ Cardinality(B(place(k))) = k - 1
    BY <2>2
  <2> HIDE DEF place
  <2>4. rank[place(k)] = k - 1 + 1
    BY <1>6, <2>3
  <2> QED
    BY <1>1, <2>3, <2>4
<1> HIDE DEF place
<1>11. f \in [1 .. n -> S] /\ \A k \in 1 .. n : rank[f[k]] = k
  BY <1>2, <1>10
<1>12. Len(f) = n
  BY <1>1, <1>11
<1>13. \A s \in S : \E k \in 1 .. n : f[k] = s
  <2> SUFFICES ASSUME NEW s \in S PROVE \E k \in 1 .. n : f[k] = s
    OBVIOUS
  <2>1. PICK k \in 1 .. n : k = rank[s]
    BY <1>6
  <2>2. f[k] \in S /\ rank[f[k]] = rank[s]
    BY <1>11, <2>1
  <2> QED
    BY <1>8, <2>2
<1>14. \A k, l \in 1 .. n : k < l => <<f[k], f[l]>> \in before
  <2> SUFFICES ASSUME NEW k \in 1 .. n, NEW l \in 1 .. n, k < l PROVE <<f[k], f[l]>> \in before
    OBVIOUS
  <2>1. PICK r \in S : r = f[k]
    BY <1>11
  <2>2. PICK s \in S : s = f[l]
    BY <1>11
  <2>3. rank[r] = k /\ rank[s] = l
    BY <1>11, <2>1, <2>2
  <2>4. r # s /\ ~ (rank[s] < rank[r])
    BY <1>1, <2>3
  <2>5. <<r, s>> \in before
    BY <1>7, <2>4 DEF StrictOrder
  <2> QED
    BY <2>1, <2>2, <2>5
<1> QED
  BY <1>1, <1>11, <1>12, <1>13, <1>14 DEF f

(* A record is nearer than another, or as near and as close to the floor.  *)
NoWorse(shape, r, q) ==
  \/ InThousandths(shape, r.shape) < InThousandths(shape, q.shape)
  \/ InThousandths(shape, r.shape) = InThousandths(shape, q.shape) /\ r.pct <= q.pct

(* What the ranks of the records are compared by are numbers.              *)
Comparable(records, shape) ==
  \A r \in ToSet(records) : Distance(shape, r.shape) \in Int /\ r.pct \in Int

LEMMA ThousandthsAreInt ==
  ASSUME NEW records, NEW shape, Comparable(records, shape), NEW r \in ToSet(records)
  PROVE  InThousandths(shape, r.shape) \in Int
<1>1. PICK d \in Int : d = Distance(shape, r.shape)
  BY DEF Comparable
<1>2. (d + 500) \div 1000 \in Int
  OBVIOUS
<1> QED
  BY <1>1, <1>2 DEF InThousandths

(* The sort compares places of records that can be compared.               *)
LEMMA BeforeIsOrder ==
  ASSUME NEW records, NEW shape, Comparable(records, shape),
         NEW points \in SUBSET DOMAIN records, points \subseteq Nat
  PROVE  LET before == Before(records, points, shape)
         IN  /\ StrictOrder(points, before)
             /\ \A m, n \in points : <<m, n>> \in before => NoWorse(shape, records[m], records[n])
<1> DEFINE before == Before(records, points, shape)
<1>1. ASSUME NEW l \in points, NEW m \in points, NEW n \in points
      PROVE  /\ <<l, l>> \notin before
             /\ l # m => <<l, m>> \in before \/ <<m, l>> \in before
             /\ <<l, m>> \in before /\ <<m, n>> \in before => <<l, n>> \in before
             /\ <<l, m>> \in before => NoWorse(shape, records[l], records[m])
  <2>0. /\ records[l] \in ToSet(records) /\ records[m] \in ToSet(records) /\ records[n] \in ToSet(records)
        /\ l \in Int /\ m \in Int /\ n \in Int
    BY DEF ToSet
  <2>1. PICK a \in Int : a = InThousandths(shape, records[l].shape)
    BY <2>0, ThousandthsAreInt
  <2>2. PICK b \in Int : b = InThousandths(shape, records[m].shape)
    BY <2>0, ThousandthsAreInt
  <2>3. PICK c \in Int : c = InThousandths(shape, records[n].shape)
    BY <2>0, ThousandthsAreInt
  <2>4. PICK x \in Int : x = records[l].pct
    BY <2>0 DEF Comparable
  <2>5. PICK y \in Int : y = records[m].pct
    BY <2>0 DEF Comparable
  <2>6. PICK z \in Int : z = records[n].pct
    BY <2>0 DEF Comparable
  <2>7. /\ <<l, l>> \in before <=> a < a \/ (a = a /\ x < x) \/ (l < l /\ ~(a < a \/ (a = a /\ x < x)))
        /\ <<l, m>> \in before <=> a < b \/ (a = b /\ x < y) \/ (l < m /\ ~(b < a \/ (b = a /\ y < x)))
        /\ <<m, l>> \in before <=> b < a \/ (b = a /\ y < x) \/ (m < l /\ ~(a < b \/ (a = b /\ x < y)))
        /\ <<m, n>> \in before <=> b < c \/ (b = c /\ y < z) \/ (m < n /\ ~(c < b \/ (c = b /\ z < y)))
        /\ <<l, n>> \in before <=> a < c \/ (a = c /\ x < z) \/ (l < n /\ ~(c < a \/ (c = a /\ z < x)))
    BY <2>1, <2>2, <2>3, <2>4, <2>5, <2>6 DEF Before, SeedOrder
  <2> HIDE DEF before
  <2>8. <<l, l>> \notin before
    BY <2>0, <2>7
  <2>9. l # m => <<l, m>> \in before \/ <<m, l>> \in before
    BY <2>0, <2>7
  <2>10. <<l, m>> \in before /\ <<m, n>> \in before => <<l, n>> \in before
    BY <2>0, <2>7
  <2>11. <<l, m>> \in before => a < b \/ (a = b /\ x <= y)
    BY <2>0, <2>7
  <2>12. <<l, m>> \in before => NoWorse(shape, records[l], records[m])
    BY <2>1, <2>2, <2>4, <2>5, <2>11 DEF NoWorse
  <2> QED
    BY <2>8, <2>9, <2>10, <2>12
<1> HIDE DEF before
<1>2. StrictOrder(points, before)
  BY <1>1 DEF StrictOrder
<1> QED
  BY <1>1, <1>2 DEF before

(* The worse of two is never nearer to a third.                            *)
LEMMA NoWorseIsTransitive ==
  ASSUME NEW records, NEW shape, Comparable(records, shape), NEW r \in ToSet(records),
         NEW p \in ToSet(records), NEW q \in ToSet(records), NoWorse(shape, r, p), NoWorse(shape, p, q)
  PROVE  NoWorse(shape, r, r) /\ NoWorse(shape, r, q)
<1>1. PICK a \in Int : a = InThousandths(shape, r.shape)
  BY ThousandthsAreInt
<1>2. PICK b \in Int : b = InThousandths(shape, p.shape)
  BY ThousandthsAreInt
<1>3. PICK c \in Int : c = InThousandths(shape, q.shape)
  BY ThousandthsAreInt
<1>4. PICK x \in Int : x = r.pct
  BY DEF Comparable
<1>5. PICK y \in Int : y = p.pct
  BY DEF Comparable
<1>6. PICK z \in Int : z = q.pct
  BY DEF Comparable
<1>7. (a < b \/ (a = b /\ x <= y)) /\ (b < c \/ (b = c /\ y <= z))
  BY <1>1, <1>2, <1>3, <1>4, <1>5, <1>6 DEF NoWorse
<1>8. (a < c \/ (a = c /\ x <= z)) /\ x <= x
  BY <1>7
<1> QED
  BY <1>1, <1>3, <1>4, <1>6, <1>8 DEF NoWorse

(* Of the places with one edit the first one is not unseen.                *)
LEMMA FirstSpelling ==
  ASSUME NEW records, NEW points, IsFiniteSet(points), NEW before, StrictOrder(points, before),
         NEW a \in points, Readable(records[a].edit.schedule)
  PROVE  \E b \in Unseen(records, points, before) :
           records[b].edit = records[a].edit /\ (b = a \/ <<b, a>> \in before)
<1> DEFINE E == {n \in points : records[n].edit = records[a].edit}
           f == InOrder(E, before)
           n == Cardinality(E)
<1>1. IsFiniteSet(E) /\ a \in E /\ E \subseteq points
  BY FS_Subset
<1>2. StrictOrder(E, before)
  BY <1>1 DEF StrictOrder
<1>3. n \in Nat /\ f \in [1 .. n -> E] /\ (\A s \in E : \E k \in 1 .. n : f[k] = s)
      /\ \A k, l \in 1 .. n : k < l => <<f[k], f[l]>> \in before
  <2> HIDE DEF E
  <2> QED
    BY <1>1, <1>2, InOrderIs
<1>4. \A s \in E : records[s].edit = records[a].edit /\ s \in points
  OBVIOUS
<1>5. \A s \in points : records[s].edit = records[a].edit => s \in E
  OBVIOUS
<1> HIDE DEF E, f, n
<1>6. PICK i \in 1 .. n : f[i] = a
  BY <1>1, <1>3
<1>7. 1 \in 1 .. n
  BY <1>3, <1>6
<1>8. PICK b \in E : b = f[1]
  BY <1>3, <1>7
<1>9. \A s \in E : s = b \/ <<b, s>> \in before
  <2> SUFFICES ASSUME NEW s \in E PROVE s = b \/ <<b, s>> \in before
    OBVIOUS
  <2>1. PICK k \in 1 .. n : f[k] = s
    BY <1>3
  <2>2. k = 1 \/ 1 < k
    BY <1>3
  <2> QED
    BY <1>3, <1>7, <1>8, <2>1, <2>2
<1>10. \A s \in E : <<s, b>> \notin before
  BY <1>2, <1>9 DEF StrictOrder
<1>11. b \in Unseen(records, points, before)
  <2>1. Readable(records[b].edit.schedule) /\ b \in points
    BY <1>4, <1>8
  <2>2. \A s \in points : records[s].edit = records[b].edit => <<s, b>> \notin before
    BY <1>4, <1>5, <1>8, <1>10
  <2> QED
    BY <2>1, <2>2 DEF Unseen
<1> QED
  BY <1>1, <1>4, <1>8, <1>9, <1>11

(* Whatever was recorded, the seeds are sound.                             *)
LEMMA SeedsSound ==
  ASSUME NEW records, IsList(records), NEW gpu, NEW shape, Comparable(records, shape)
  PROVE  SoundSeeds(records, gpu, shape)
<1> DEFINE usable == LoadPoints(records, gpu)
           points == Pool(records, usable, shape)
           before == Before(records, points, shape)
           U == Unseen(records, points, before)
           places == InOrder(U, before)
           N == Cardinality(U)
           K == Min({SeedsWanted, Len(places)})
           edit(k) == records[k].edit
           seeds == WarmStart(records, gpu, shape)
           good == {r \in ToSet(records) : Usable(r, gpu)}
           near == {r \in good : Distance(shape, r.shape) <= Radius}
           read == {r \in IF near = {} THEN good ELSE near : Readable(r.edit.schedule)}
           of(i) == {r \in read : Seed(r.edit) = seeds[i]}
<1>1. DOMAIN records = 1 .. Len(records) /\ Len(records) \in Nat
  BY ListGrows
<1>2. usable \subseteq DOMAIN records /\ points \subseteq usable /\ IsFiniteSet(points) /\ points \subseteq Nat
  <2>1. usable \subseteq DOMAIN records /\ points \subseteq usable
    BY DEF LoadPoints, Pool
  <2> HIDE DEF usable, points
  <2>2. IsFiniteSet(1 .. Len(records))
    BY <1>1, FS_Interval
  <2>3. IsFiniteSet(points)
    BY <1>1, <2>1, <2>2, FS_Subset
  <2> QED
    BY <1>1, <2>1, <2>3
<1>3. \A n \in DOMAIN records : records[n] \in ToSet(records)
      /\ (n \in usable <=> Usable(records[n], gpu))
  BY DEF LoadPoints, ToSet
<1>4. \A q \in ToSet(records) : \E a \in DOMAIN records : q = records[a]
  BY DEF ToSet
(* The pool holds the places of the records that read draws from.          *)
<1>5. \A a \in DOMAIN records : a \in points /\ Readable(edit(a).schedule) <=> records[a] \in read
  <2> DEFINE close == {n \in usable : Distance(shape, records[n].shape) <= Radius}
  <2>1. points = IF close = {} THEN usable ELSE close
    BY DEF Pool
  <2> HIDE DEF usable, points
  <2>2. \A a \in DOMAIN records : (a \in usable <=> records[a] \in good) /\ (a \in close <=> records[a] \in near)
    BY <1>3
  <2>3. close = {} <=> near = {}
    BY <1>2, <1>4, <2>2
  <2> HIDE DEF close, good, near
  <2> QED
    BY <2>1, <2>2, <2>3
<1> HIDE DEF usable
<1>6. /\ StrictOrder(points, before)
      /\ \A m, n \in points : <<m, n>> \in before => NoWorse(shape, records[m], records[n])
  <2> HIDE DEF points
  <2> QED
    BY <1>2, BeforeIsOrder
<1>7. U \subseteq points /\ IsFiniteSet(U) /\ StrictOrder(U, before)
      /\ \A k \in U : Readable(edit(k).schedule)
  <2> HIDE DEF points, before
  <2>1. U \subseteq points /\ \A k \in U : Readable(edit(k).schedule)
    BY DEF Unseen
  <2> HIDE DEF U
  <2>2. IsFiniteSet(U)
    BY <1>2, <2>1, FS_Subset
  <2> QED
    BY <1>6, <2>1, <2>2 DEF StrictOrder
<1>8. /\ N \in Nat /\ places \in [1 .. N -> U] /\ Len(places) = N
      /\ \A s \in U : \E k \in 1 .. N : places[k] = s
      /\ \A k, l \in 1 .. N : k < l => <<places[k], places[l]>> \in before
  <2> HIDE DEF U, before
  <2> QED
    BY <1>7, InOrderIs
<1>9. seeds = [k \in 1 .. K |-> Seed(edit(places[k]))]
  BY DEF WarmStart, usable
(* Every readable record of the pool is spelt as an unseen one before it.  *)
<1>10. \A a \in points : Readable(edit(a).schedule) =>
         \E h \in 1 .. N : edit(places[h]) = edit(a) /\ NoWorse(shape, records[places[h]], records[a])
  <2> SUFFICES ASSUME NEW a \in points, Readable(edit(a).schedule)
               PROVE  \E h \in 1 .. N : edit(places[h]) = edit(a) /\ NoWorse(shape, records[places[h]], records[a])
    OBVIOUS
  <2> HIDE DEF points, before
  <2>1. PICK b \in U : edit(b) = edit(a) /\ (b = a \/ <<b, a>> \in before)
    BY <1>2, <1>6, FirstSpelling
  <2> HIDE DEF U
  <2>2. PICK h \in 1 .. N : places[h] = b
    BY <1>8
  <2>3. b \in points /\ records[b] \in ToSet(records)
    BY <1>2, <1>3, <1>7
  <2>4. NoWorse(shape, records[b], records[a])
    <3>1. CASE b = a
      <4>1. PICK x \in Int : x = InThousandths(shape, records[b].shape)
        BY <2>3, ThousandthsAreInt
      <4>2. PICK y \in Int : y = records[b].pct
        BY <2>3 DEF Comparable
      <4>3. y <= y
        OBVIOUS
      <4> QED
        BY <3>1, <4>1, <4>2, <4>3 DEF NoWorse
    <3>2. CASE <<b, a>> \in before
      BY <1>6, <2>3, <3>2
    <3> QED
      BY <2>1, <3>1, <3>2
  <2> QED
    BY <2>1, <2>2, <2>4
<1>11. K \in Nat /\ K <= SeedsWanted /\ K <= N /\ (K = SeedsWanted \/ K = N)
  <2> HIDE DEF places, N
  <2>1. PICK x \in Nat : x = SeedsWanted
    BY PriorAssumption
  <2>2. PICK y \in Nat : y = N
    BY <1>8
  <2>3. \E m \in {x, y} : \A l \in {x, y} : m <= l
    OBVIOUS
  <2>4. Min({x, y}) \in {x, y} /\ \A l \in {x, y} : Min({x, y}) <= l
    BY <2>3 DEF Min
  <2>5. K = Min({x, y})
    BY <1>8, <2>1, <2>2
  <2> QED
    BY <2>1, <2>2, <2>4, <2>5
<1>12. DOMAIN seeds = 1 .. K /\ Len(seeds) = K /\ (\A k \in 1 .. K : seeds[k] = Seed(edit(places[k])))
  <2> HIDE DEF K, places
  <2>1. \A k \in 1 .. K : seeds[k] = Seed(edit(places[k]))
    BY <1>9
  <2>2. DOMAIN seeds = 1 .. K
    BY <1>9
  <2>3. Len(seeds) = K
    BY <1>9, <1>11
  <2> QED
    BY <2>1, <2>2, <2>3
<1>13. \A i \in 1 .. K : /\ i \in 1 .. N /\ places[i] \in points /\ records[places[i]] \in of(i)
                         /\ records[places[i]] \in ToSet(records)
  <2> HIDE DEF K, places, U, N, points, seeds
  <2> SUFFICES ASSUME NEW i \in 1 .. K
               PROVE  /\ i \in 1 .. N /\ places[i] \in points /\ records[places[i]] \in of(i)
                      /\ records[places[i]] \in ToSet(records)
    OBVIOUS
  <2>1. i \in 1 .. N
    BY <1>8, <1>11
  <2>2. PICK p \in U : p = places[i]
    BY <1>8, <2>1
  <2>3. p \in points /\ p \in usable /\ Readable(edit(p).schedule) /\ p \in DOMAIN records
    BY <1>2, <1>7
  <2>4. records[p] \in read
    BY <1>5, <2>3
  <2>5. Seed(records[p].edit) = seeds[i]
    BY <1>12, <2>2
  <2> QED
    BY <2>1, <2>2, <2>3, <2>4, <2>5
<1> HIDE DEF U, N, K, places, before, points, seeds
(* A record of the pool is a seed, or no better than any seed before h.    *)
<1>14. \A q \in read : \E h \in 1 .. N :
         /\ h \in 1 .. K => seeds[h] = Seed(q.edit)
         /\ \A i \in 1 .. K : i < h => NoWorse(shape, records[places[i]], q)
  <2> SUFFICES ASSUME NEW q \in read
               PROVE  \E h \in 1 .. N :
                        /\ h \in 1 .. K => seeds[h] = Seed(q.edit)
                        /\ \A i \in 1 .. K : i < h => NoWorse(shape, records[places[i]], q)
    OBVIOUS
  <2>0. q \in ToSet(records)
    OBVIOUS
  <2>1. PICK a \in DOMAIN records : q = records[a]
    BY <1>4, <2>0
  <2>2. a \in points /\ Readable(edit(a).schedule)
    BY <1>5, <2>1
  <2> HIDE DEF read
  <2>3. PICK h \in 1 .. N : edit(places[h]) = edit(a) /\ NoWorse(shape, records[places[h]], records[a])
    BY <1>10, <2>2
  <2>4. h \in 1 .. K => seeds[h] = Seed(q.edit)
    BY <1>12, <2>1, <2>3
  <2>5. places[h] \in points /\ records[places[h]] \in ToSet(records)
    BY <1>2, <1>3, <1>7, <1>8
  <2>6. \A i \in 1 .. K : i < h => NoWorse(shape, records[places[i]], q)
    <3> SUFFICES ASSUME NEW i \in 1 .. K, i < h PROVE NoWorse(shape, records[places[i]], q)
      OBVIOUS
    <3>1. NoWorse(shape, records[places[i]], records[places[h]])
      BY <1>6, <1>8, <1>13, <2>5
    <3> QED
      BY <1>13, <2>0, <2>1, <2>3, <2>5, <3>1, NoWorseIsTransitive
  <2> QED
    BY <2>4, <2>6
<1>15. \A i \in DOMAIN seeds : of(i) # {}
  BY <1>12, <1>13
<1>16. \A q \in read :
         \/ Seed(q.edit) \in ToSet(seeds)
         \/ /\ Len(seeds) = SeedsWanted
            /\ \A i \in DOMAIN seeds : \E r \in of(i) : NoWorse(shape, r, q)
  <2> SUFFICES ASSUME NEW q \in read, Seed(q.edit) \notin ToSet(seeds)
               PROVE  /\ Len(seeds) = SeedsWanted
                      /\ \A i \in DOMAIN seeds : \E r \in of(i) : NoWorse(shape, r, q)
    OBVIOUS
  <2>1. PICK h \in 1 .. N :
          /\ h \in 1 .. K => seeds[h] = Seed(q.edit)
          /\ \A i \in 1 .. K : i < h => NoWorse(shape, records[places[i]], q)
    BY <1>14
  <2>2. h \notin 1 .. K
    BY <1>12, <2>1 DEF ToSet
  <2>4. K = SeedsWanted /\ \A i \in 1 .. K : i < h
    BY <1>8, <1>11, <2>2
  <2>5. \A i \in 1 .. K : NoWorse(shape, records[places[i]], q)
    BY <2>1, <2>4
  <2> HIDE DEF of
  <2> QED
    BY <1>12, <1>13, <2>4, <2>5
<1>17. \A i, j \in DOMAIN seeds : i < j =>
         \/ \E h \in 1 .. i : seeds[h] = seeds[j]
         \/ \E r \in of(i) : \A q \in of(j) : NoWorse(shape, r, q)
  <2> SUFFICES ASSUME NEW i \in 1 .. K, NEW j \in 1 .. K, i < j, ~ \E h \in 1 .. i : seeds[h] = seeds[j]
               PROVE  \E r \in of(i) : \A q \in of(j) : NoWorse(shape, r, q)
    BY <1>12
  <2>1. \A q \in of(j) : NoWorse(shape, records[places[i]], q)
    <3> SUFFICES ASSUME NEW q \in of(j) PROVE NoWorse(shape, records[places[i]], q)
      OBVIOUS
    <3>1. q \in read /\ Seed(q.edit) = seeds[j]
      OBVIOUS
    <3>2. PICK h \in 1 .. N :
            /\ h \in 1 .. K => seeds[h] = Seed(q.edit)
            /\ \A l \in 1 .. K : l < h => NoWorse(shape, records[places[l]], q)
      BY <1>14, <3>1
    <3>3. h \notin 1 .. i
      BY <1>11, <3>1, <3>2
    <3>4. i < h
      BY <1>8, <1>11, <3>3
    <3> QED
      BY <3>2, <3>4
  <2> HIDE DEF of
  <2> QED
    BY <1>13, <2>1
<1> QED
  BY <1>11, <1>12, <1>15, <1>16, <1>17 DEF SoundSeeds, NoWorse, seeds

(* The distances of the shapes that are asked for and the percentages of   *)
(* the records are numbers, as ModelShape.distance and float() make them.  *)
Ranked == \A shape \in Asked : Comparable(corpus, shape)

(* Whatever the tools have put in the corpus, for whichever shape and for  *)
(* every radius and k: the seeds of a later run are made of records that   *)
(* passed on its GPU, within the radius if there is any there, no more     *)
(* than k; such a record is passed over only for k seeds that are no       *)
(* farther (rounded) and no farther from the floor; and the seeds are in   *)
(* that order, up to edits that mean a candidate that is a seed by then.   *)
THEOREM WarmStartsAreSound == Spec => [](Ranked => SeedsAreSound)
<1>1. Shape /\ Ranked => SeedsAreSound
  BY SeedsSound DEF Shape, Ranked, SeedsAreSound
<1>2. Shape => (Ranked => SeedsAreSound)
  BY <1>1
<1> QED
  BY <1>2, TunersShape, PTL

-----------------------------------------------------------------------------
(***************************************************************************)
(* The schedule search.                                                    *)
(***************************************************************************)

LEMMA LeastNatural ==
  ASSUME NEW S \in SUBSET Nat, S # {}
  PROVE  \E m \in S : \A n \in S : m <= n
<1> DEFINE R == {p \in Nat \X Nat : p[1] < p[2]}
<1>1. R = OpToRel(<,Nat)
  BY DEF OpToRel
<1>2. IsWellFoundedOn(R, Nat)
  BY <1>1, NatLessThanWellFounded
<1>3. \A x, y \in Nat : <<x, y>> \in R <=> x < y
  OBVIOUS
<1> HIDE DEF R
<1>4. PICK m \in S : \A n \in S : ~ (<<n, m>> \in R)
  BY <1>2, WFMin
<1>5. \A n \in S : ~ (n < m)
  BY <1>3, <1>4
<1> QED
  BY <1>5

(* The trials, their scores and marks.                                     *)
TrialRecords == [config : Configs, measured : MeasuredUs \cup {NoValue}]

TrialsTyped ==
  /\ args.start \in Configs /\ args.budget \in Nat
  /\ phase \in {"baseline", "explore", "exploit", "finalize", "done"}
  /\ trials \in Seq(TrialRecords)
  /\ phase = "baseline" => trials = <<>>
  /\ phase # "baseline" => Len(trials) >= 1
  /\ best \in Nat /\ default_score \in Nat \cup {NoValue}
  /\ default_score # NoValue => 1 \in ValidTrials

(* Until scores change the best is the least; whenever there is a valid    *)
(* trial there is a best, and it is marked.                                *)
BestIsLeast ==
  /\ (best = 0) = (ValidTrials = {})
  /\ best # 0 => best \in ValidTrials /\ best \in kept

Least == best # 0 => \A i \in ValidTrials : Score(trials[best]) <= Score(trials[i])

SearchInv ==
  /\ TrialsTyped /\ BestIsLeast
  /\ phase \in {"baseline", "explore", "finalize"} => Least
  /\ phase = "done" => ReturnsTheLeast

LEMMA ScoresAreNumbers ==
  ASSUME TrialsTyped
  PROVE  /\ \A tr \in TrialRecords : Score(tr) \in Nat /\ IsValid(tr) \in BOOLEAN
         /\ Len(trials) \in Nat /\ DOMAIN trials = 1 .. Len(trials)
         /\ \A i \in DOMAIN trials : trials[i] \in TrialRecords
         /\ ValidTrials \subseteq DOMAIN trials
<1>1. MeasuredUs \subseteq Nat /\ \A c \in Configs : Valid(c) \in BOOLEAN /\ PredictedUs(c) \in Nat
  BY SearchAssumption
<1>2. \A tr \in TrialRecords : Score(tr) \in Nat /\ IsValid(tr) \in BOOLEAN
  BY <1>1 DEF TrialRecords, Score, IsValid
<1>3. Len(trials) \in Nat /\ DOMAIN trials = 1 .. Len(trials) /\ \A i \in DOMAIN trials : trials[i] \in TrialRecords
  BY DEF TrialsTyped
<1> QED
  BY <1>2, <1>3 DEF ValidTrials

(* A measured trial keeps its configuration.                               *)
LEMMA MeasuringKeepsConfig ==
  ASSUME NEW tr \in TrialRecords, NEW m \in Measured(tr)
  PROVE  m \in TrialRecords /\ m.config = tr.config
BY DEF Measured, TrialRecords

LEMMA InitSearch == SearchInit => SearchInv
<1> SUFFICES ASSUME SearchInit PROVE SearchInv
  OBVIOUS
<1>1. /\ phase = "baseline" /\ trials = <<>> /\ best = 0 /\ default_score = NoValue
      /\ args.start \in StartConfigs /\ args.budget \in SearchBudgets
  BY DEF SearchInit
<1>2. StartConfigs \subseteq Configs /\ SearchBudgets \subseteq Nat
  BY SearchAssumption
<1>3. ValidTrials = {}
  BY <1>1 DEF ValidTrials
<1>4. TrialsTyped
  <2>1. args.start \in Configs /\ args.budget \in Nat
    BY <1>1, <1>2
  <2>2. <<>> \in Seq(TrialRecords)
    OBVIOUS
  <2> QED
    BY <1>1, <2>1, <2>2 DEF TrialsTyped
<1>5. BestIsLeast /\ Least
  BY <1>1, <1>3 DEF BestIsLeast, Least
<1> QED
  BY <1>1, <1>4, <1>5 DEF SearchInv

LEMMA BaselineSearch ==
  ASSUME SearchInv, Baseline
  PROVE  SearchInv'
<1>1. /\ phase = "baseline" /\ phase' = "explore" /\ UNCHANGED <<args, todo>>
      /\ TrialsTyped
  BY DEF Baseline, SearchInv
<1>2. PICK tr \in Measured(Trial(args.start)) :
       /\ trials' = <<tr>>
       /\ default_score' = IF IsValid(tr) THEN Score(tr) ELSE NoValue
       /\ best' = IF IsValid(tr) THEN 1 ELSE 0
       /\ kept' = IF IsValid(tr) THEN {1} ELSE {}
  BY DEF Baseline
<1>3. tr \in TrialRecords
  <2>1. Trial(args.start) \in TrialRecords
    BY <1>1 DEF Trial, TrialsTyped, TrialRecords
  <2> QED
    BY <2>1, MeasuringKeepsConfig
<1>4. /\ trials' \in Seq(TrialRecords) /\ Len(trials') = 1 /\ DOMAIN trials' = {1} /\ trials'[1] = tr
  BY <1>2, <1>3
<1>5. ValidTrials' = IF IsValid(tr) THEN {1} ELSE {}
  BY <1>4 DEF ValidTrials
<1>6. Score(tr) \in Nat
  BY <1>1, <1>3, ScoresAreNumbers
<1>7. TrialsTyped'
  BY <1>1, <1>2, <1>4, <1>5, <1>6 DEF TrialsTyped
<1>8. BestIsLeast' /\ Least'
  <2>1. Score(tr) <= Score(tr)
    BY <1>6
  <2> QED
    BY <1>2, <1>4, <1>5, <2>1 DEF BestIsLeast, Least
<1> QED
  BY <1>1, <1>7, <1>8 DEF SearchInv


LEMMA ExploreSearch ==
  ASSUME SearchInv, NEW c \in Configs, Explore(c)
  PROVE  SearchInv'
<1>1. /\ phase = "explore" /\ phase' = "explore" /\ UNCHANGED <<args, default_score>>
      /\ TrialsTyped /\ BestIsLeast /\ Least
  BY DEF Explore, SearchInv
<1> DEFINE n == Len(trials)
<1>2. PICK tr \in IF Promising(Trial(c)) THEN Measured(Trial(c)) ELSE {Trial(c)} :
        /\ trials' = Append(trials, tr)
        /\ best' = IF Improves(tr) THEN n + 1 ELSE best
        /\ kept' = IF Improves(tr) THEN kept \cup {n + 1} ELSE kept
  BY DEF Explore
<1>3. tr \in TrialRecords
  <2>1. Trial(c) \in TrialRecords
    BY DEF Trial, TrialRecords
  <2> QED
    BY <2>1, MeasuringKeepsConfig
<1>4. n \in Nat /\ trials \in Seq(TrialRecords) /\ DOMAIN trials = 1 .. n
  BY <1>1, ScoresAreNumbers DEF TrialsTyped
<1>5. /\ trials' \in Seq(TrialRecords) /\ Len(trials') = n + 1 /\ DOMAIN trials' = 1 .. n + 1
      /\ trials'[n + 1] = tr /\ \A i \in 1 .. n : trials'[i] = trials[i]
  BY <1>2, <1>3, <1>4
<1> HIDE DEF n
<1>6. ValidTrials' = ValidTrials \cup (IF IsValid(tr) THEN {n + 1} ELSE {}) /\ ValidTrials \subseteq 1 .. n
  BY <1>4, <1>5 DEF ValidTrials
<1>7. n + 1 \notin ValidTrials /\ n + 1 \in Nat /\ n + 1 # 0
  BY <1>4, <1>6
<1>8. /\ Score(tr) \in Nat /\ \A i \in ValidTrials : Score(trials[i]) \in Nat
      /\ best # 0 => best \in ValidTrials /\ best \in kept /\ Score(trials[best]) \in Nat
  BY <1>1, <1>3, ScoresAreNumbers DEF BestIsLeast
<1>9. TrialsTyped'
  BY <1>1, <1>2, <1>4, <1>5, <1>6, <1>7 DEF TrialsTyped
<1>10. BestIsLeast'
  <2>1. CASE Improves(tr)
    BY <1>2, <1>6, <1>7, <2>1 DEF BestIsLeast, Improves
  <2>2. CASE ~Improves(tr)
    BY <1>1, <1>2, <1>6, <2>2 DEF BestIsLeast, Improves
  <2> QED
    BY <2>1, <2>2
<1>11. Least'
  <2> SUFFICES ASSUME best' # 0, NEW i \in ValidTrials'
               PROVE  Score(trials'[best']) <= Score(trials'[i])
    BY DEF Least
  <2>1. \A j \in ValidTrials : trials'[j] = trials[j]
    BY <1>5, <1>6
  <2>2. best # 0 => \A j \in ValidTrials : Score(trials[best]) <= Score(trials[j])
    BY <1>1 DEF Least
  <2>3. (i = n + 1 /\ IsValid(tr)) \/ i \in ValidTrials
    BY <1>6
  <2>4. CASE Improves(tr)
    <3>1. trials'[best'] = tr
      BY <1>2, <1>5, <2>4
    <3>2. CASE i = n + 1
      BY <1>5, <1>8, <3>1, <3>2
    <3>3. CASE i \in ValidTrials
      <4>1. best # 0
        BY <1>1, <3>3 DEF BestIsLeast
      <4>2. Score(tr) < Score(trials[best])
        BY <2>4, <4>1 DEF Improves
      <4> QED
        BY <1>8, <2>1, <2>2, <3>1, <3>3, <4>1, <4>2
    <3> QED
      BY <2>3, <3>2, <3>3
  <2>5. CASE ~Improves(tr)
    <3>1. best' = best /\ best \in ValidTrials /\ trials'[best'] = trials[best]
      BY <1>2, <1>8, <2>1, <2>5
    <3>2. CASE i = n + 1 /\ IsValid(tr)
      <4>1. ~ (Score(tr) < Score(trials[best]))
        BY <2>5, <3>1, <3>2 DEF Improves
      <4> QED
        BY <1>5, <1>8, <3>1, <3>2, <4>1
    <3>3. CASE i \in ValidTrials
      BY <2>1, <2>2, <3>1, <3>3
    <3> QED
      BY <2>3, <3>2, <3>3
  <2> QED
    BY <2>4, <2>5
<1> QED
  BY <1>1, <1>9, <1>10, <1>11 DEF SearchInv

(* Measuring changes scores, but not which trials are valid.               *)
LEMMA MeasureNextSearch ==
  ASSUME SearchInv, MeasureNext
  PROVE  SearchInv'
<1> DEFINE h == Head(todo)
<1>1. /\ phase = "exploit" /\ phase' = "exploit" /\ UNCHANGED <<args, best, default_score, kept>>
      /\ TrialsTyped /\ BestIsLeast
  BY DEF MeasureNext, SearchInv
<1>2. PICK tr \in Measured(trials[h]) : trials' = [trials EXCEPT ![h] = tr]
  BY DEF MeasureNext
<1> HIDE DEF h
<1>3. h \in DOMAIN trials => tr \in TrialRecords /\ tr.config = trials[h].config
  BY <1>1, ScoresAreNumbers, MeasuringKeepsConfig
<1>4. /\ trials \in Seq(TrialRecords) /\ Len(trials) \in Nat /\ DOMAIN trials = 1 .. Len(trials)
  BY <1>1, ScoresAreNumbers DEF TrialsTyped
<1>5. /\ trials' \in Seq(TrialRecords) /\ Len(trials') = Len(trials) /\ DOMAIN trials' = DOMAIN trials
      /\ \A i \in DOMAIN trials : trials'[i].config = trials[i].config
  <2>1. CASE h \in DOMAIN trials
    <3>1. tr \in TrialRecords /\ tr.config = trials[h].config
      BY <1>3, <2>1
    <3>2. trials' \in Seq(TrialRecords) /\ Len(trials') = Len(trials) /\ DOMAIN trials' = DOMAIN trials
      BY <1>2, <1>4, <2>1, <3>1
    <3>3. \A i \in DOMAIN trials : trials'[i] = IF i = h THEN tr ELSE trials[i]
      BY <1>2, <1>4
    <3> QED
      BY <3>1, <3>2, <3>3
  <2>2. CASE h \notin DOMAIN trials
    <3>1. trials = [i \in 1 .. Len(trials) |-> trials[i]]
      BY <1>4
    <3>2. trials' = trials
      BY <1>2, <1>4, <2>2, <3>1
    <3> QED
      BY <1>4, <3>2
  <2> QED
    BY <2>1, <2>2
<1>6. ValidTrials' = ValidTrials
  BY <1>5 DEF ValidTrials, IsValid
<1> QED
  BY <1>1, <1>5, <1>6 DEF SearchInv, TrialsTyped, BestIsLeast


(* A valid trial of the least score, the first of them.                    *)
LEMMA FirstOfTheLeast ==
  ASSUME TrialsTyped, ValidTrials # {}
  PROVE  \E m \in ValidTrials : \A j \in ValidTrials :
           /\ Score(trials[m]) <= Score(trials[j])
           /\ j < m => Score(trials[m]) < Score(trials[j])
<1> DEFINE score(i) == Score(trials[i])
           scores == {score(i) : i \in ValidTrials}
<1>1. ValidTrials \subseteq Nat /\ \A i \in ValidTrials : score(i) \in Nat
  BY ScoresAreNumbers
<1> HIDE DEF score
<1>2. scores \in SUBSET Nat /\ scores # {}
  BY <1>1
<1>3. PICK s \in scores : \A n \in scores : s <= n
  BY <1>2, LeastNatural
<1> DEFINE tied == {i \in ValidTrials : score(i) = s}
<1>4. tied \in SUBSET Nat /\ tied # {}
  BY <1>1, <1>3
<1>5. PICK m \in tied : \A j \in tied : m <= j
  BY <1>4, LeastNatural
<1>6. ASSUME NEW j \in ValidTrials
      PROVE  score(m) <= score(j) /\ (j < m => score(m) < score(j))
  <2>1. score(m) = s /\ s <= score(j) /\ s \in Nat /\ score(j) \in Nat /\ m \in Nat /\ j \in Nat
    BY <1>1, <1>2, <1>3, <1>5
  <2>2. j < m => score(j) # s
    BY <1>5, <2>1
  <2> QED
    BY <2>1, <2>2
<1> QED
  BY <1>5, <1>6 DEF score

LEMMA RepickSearch ==
  ASSUME SearchInv, Repick
  PROVE  SearchInv'
<1>1. /\ phase = "exploit" /\ phase' = "finalize" /\ UNCHANGED <<args, trials, default_score>>
      /\ best' = IF Takeovers = {} THEN best ELSE Max(Takeovers)
      /\ kept' = IF Takeovers = {} THEN kept ELSE (kept \ (Takeovers \cup {best})) \cup {best'}
      /\ TrialsTyped /\ BestIsLeast
  BY DEF Repick, SearchInv
<1>2. /\ ValidTrials \subseteq Nat /\ 0 \notin ValidTrials
      /\ \A i \in ValidTrials : Score(trials[i]) \in Nat
  BY <1>1, ScoresAreNumbers
<1>3. ValidTrials' = ValidTrials /\ Takeovers \subseteq ValidTrials
  BY <1>1 DEF ValidTrials, Takeovers
<1>4. CASE ValidTrials = {}
  BY <1>1, <1>3, <1>4 DEF SearchInv, TrialsTyped, BestIsLeast, Least
<1>5. CASE ValidTrials # {}
  <2>1. PICK m \in ValidTrials : \A j \in ValidTrials :
           /\ Score(trials[m]) <= Score(trials[j])
           /\ j < m => Score(trials[m]) < Score(trials[j])
    BY <1>1, <1>5, FirstOfTheLeast
  <2>2. best # 0 /\ best \in ValidTrials /\ best \in kept
    BY <1>1, <1>5 DEF BestIsLeast
  <2>3. CASE Score(trials[m]) < Score(trials[best])
    <3>1. m \in Takeovers
      BY <2>1, <2>3 DEF Takeovers
    <3>2. ASSUME NEW i \in Takeovers PROVE i <= m
      <4>1. i \in ValidTrials /\ (m < i => Score(trials[i]) < Score(trials[m]))
        BY <2>1 DEF Takeovers
      <4> QED
        BY <1>2, <2>1, <4>1
    <3>3. Max(Takeovers) = m
      <4>1. \A i \in Takeovers : i \in Nat
        BY <1>2, <1>3
      <4> DEFINE x == Max(Takeovers)
      <4>2. x \in Takeovers /\ \A i \in Takeovers : x >= i
        BY <3>1, <3>2, <4>1 DEF Max
      <4> HIDE DEF x
      <4>3. x \in Nat /\ m \in Nat /\ x >= m /\ x <= m
        BY <3>1, <3>2, <4>1, <4>2
      <4>4. x = m
        BY <4>3
      <4> QED
        BY <4>4 DEF x
    <3>4. best' = m /\ m \in kept'
      BY <1>1, <3>1, <3>3
    <3> QED
      BY <1>1, <1>2, <1>3, <1>5, <2>1, <3>4 DEF SearchInv, TrialsTyped, BestIsLeast, Least
  <2>4. CASE ~ (Score(trials[m]) < Score(trials[best]))
    <3>1. \A j \in ValidTrials : Score(trials[best]) <= Score(trials[j])
      BY <1>2, <2>1, <2>2, <2>4
    <3>2. Takeovers = {}
      <4> SUFFICES ASSUME NEW i \in Takeovers PROVE FALSE
        OBVIOUS
      <4>1. i \in ValidTrials /\ Score(trials[i]) < Score(trials[best])
        BY <2>2 DEF Takeovers
      <4> QED
        BY <1>2, <2>2, <3>1, <4>1
    <3>3. best' = best /\ kept' = kept
      BY <1>1, <3>2
    <3> QED
      BY <1>1, <1>3, <2>2, <3>1, <3>3 DEF SearchInv, TrialsTyped, BestIsLeast, Least
  <2> QED
    BY <2>3, <2>4
<1> QED
  BY <1>4, <1>5

LEMMA FinalizeSearch ==
  ASSUME SearchInv, Finalize
  PROVE  SearchInv'
<1> DEFINE reverts == best # 0 /\ default_score # NoValue /\ Score(trials[best]) > default_score
<1>1. /\ phase = "finalize" /\ phase' = "done" /\ UNCHANGED <<args, trials, default_score>>
      /\ best' = (IF reverts THEN 1 ELSE best) /\ kept' = (IF reverts THEN {1} ELSE kept)
      /\ TrialsTyped /\ BestIsLeast /\ Least
  BY DEF Finalize, SearchInv
<1>2. ValidTrials' = ValidTrials /\ 0 \notin ValidTrials /\ \A i \in ValidTrials : Score(trials[i]) \in Nat
  BY <1>1, ScoresAreNumbers DEF ValidTrials
<1>3. CASE reverts
  <2>1. 1 \in ValidTrials /\ best' = 1 /\ kept' = {1} /\ best \in ValidTrials
    BY <1>1, <1>3 DEF TrialsTyped, BestIsLeast
  <2>2. default_score # Score(trials[1])
    <3>1. Score(trials[best]) <= Score(trials[1]) /\ Score(trials[best]) > default_score /\ default_score \in Nat
      BY <1>1, <1>3, <2>1 DEF Least, TrialsTyped
    <3> QED
      BY <1>2, <2>1, <3>1
  <2>3. BestIsLeast' /\ TrialsTyped'
    BY <1>1, <1>2, <2>1 DEF BestIsLeast, TrialsTyped
  <2>4. ReturnsTheLeast'
    BY <1>1, <1>2, <2>1, <2>2, <2>3 DEF ReturnsTheLeast, BestIsLeast
  <2> QED
    BY <1>1, <2>3, <2>4 DEF SearchInv
<1>4. CASE ~reverts
  <2>1. best' = best /\ kept' = kept
    BY <1>1, <1>4
  <2>2. BestIsLeast' /\ TrialsTyped'
    BY <1>1, <1>2, <2>1 DEF BestIsLeast, TrialsTyped
  <2>3. ReturnsTheLeast'
    BY <1>1, <1>2, <2>1, <2>2 DEF ReturnsTheLeast, BestIsLeast, Least
  <2> QED
    BY <1>1, <2>2, <2>3 DEF SearchInv
<1> QED
  BY <1>3, <1>4

LEMMA NextSearch == SearchInv /\ [SearchNext]_searchvars => SearchInv'
<1> SUFFICES ASSUME SearchInv, [SearchNext]_searchvars PROVE SearchInv'
  OBVIOUS
<1>1. CASE EndExplore
  BY <1>1 DEF EndExplore, SearchInv, TrialsTyped, BestIsLeast, Least, ValidTrials
<1>2. CASE UNCHANGED searchvars
  BY <1>2 DEF searchvars, SearchInv, TrialsTyped, BestIsLeast, Least, ValidTrials, ReturnsTheLeast
<1> QED
  BY <1>1, <1>2, BaselineSearch, ExploreSearch, MeasureNextSearch, RepickSearch, FinalizeSearch DEF SearchNext

(* search() returns a least configuration, in whatever order scores came   *)
(* in and changed.                                                         *)
THEOREM SearchReturnsTheLeast == SearchSpec => []ReturnsTheLeast
<1>1. SearchInv => ReturnsTheLeast
  BY DEF SearchInv, ReturnsTheLeast
<1> QED
  BY <1>1, InitSearch, NextSearch, PTL DEF SearchSpec

=============================================================================
