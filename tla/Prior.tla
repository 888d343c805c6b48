-------------------------------- MODULE Prior --------------------------------
(***************************************************************************)
(* What a later run learns from the corpus of kept points: load_points and *)
(* warm_start_combined of src/flywheel/prior.py, over the records that     *)
(* src/flywheel/log.py keeps in corpus.jsonl.  A seed is a schedule with   *)
(* its knobs; warm_start sorts the same way and then drops the knobs.      *)
(*                                                                         *)
(* A record names the GPU, the shape of the model, the edit it ran (with   *)
(* the fields and the knobs its writer knew of), its latency and           *)
(* pct_of_roofline, 100 * latency / floor: lower is better.                *)
(***************************************************************************)
EXTENDS Harness, Sequences, SequencesExt

CONSTANTS
  Distance(_, _),  \* ModelShape.distance, in millionths
  Radius,          \* shape_radius, likewise
  SeedsWanted      \* k

ASSUME PriorAssumption == Radius \in Nat /\ SeedsWanted \in Nat \ {0}

(* pct_of_roofline of a record that has none: float("inf").                *)
Unranked == 100000

(* Records without a latency, failed ones and other GPUs' are left out.    *)
Usable(r, gpu) == r.correctness = "PASS" /\ r.gpu = gpu /\ r.us >= 0

(* Their places in the corpus.                                             *)
LoadPoints(corpus, gpu) == {n \in DOMAIN corpus : Usable(corpus[n], gpu)}

(* round(distance, 3), in thousandths.                                     *)
InThousandths(shape, other) == (Distance(shape, other) + 500) \div 1000

(* The shapes within the radius if there are any, else all of them; the    *)
(* radius is put to the distance itself, the order below to the rounded one. *)
Pool(corpus, points, shape) ==
  LET near == {n \in points : Distance(shape, corpus[n].shape) <= Radius}
  IN  IF near = {} THEN points ELSE near

(* Mutant: the roofline decides before the shape does.                     *)
SeedOrderRooflineFirst(shape, p, q) ==
  \/ p.pct < q.pct
  \/ p.pct = q.pct /\ InThousandths(shape, p.shape) < InThousandths(shape, q.shape)

(* The nearest shape first, then the least pct_of_roofline.                *)
SeedOrder(shape, p, q) ==
  \/ InThousandths(shape, p.shape) < InThousandths(shape, q.shape)
  \/ InThousandths(shape, p.shape) = InThousandths(shape, q.shape) /\ p.pct < q.pct

(* The order of the sort, a stable one, as a relation on the places.       *)
Before(corpus, points, shape) ==
  {p \in points \X points :
     \/ SeedOrder(shape, corpus[p[1]], corpus[p[2]])
     \/ p[1] < p[2] /\ ~SeedOrder(shape, corpus[p[2]], corpus[p[1]])}

(* The places whose edit can still be read and is not spelt like an earlier*)
(* one.  An edit counts as another one as soon as it is spelt differently, *)
(* with the default knobs or without any.                                  *)
Unseen(corpus, points, before) ==
  {n \in points :
     /\ Readable(corpus[n].edit.schedule)
     /\ \A m \in points : corpus[m].edit = corpus[n].edit => <<m, n>> \notin before}

(* The elements of a finite set: the k-th has k - 1 others before it.      *)
InOrder(S, before) ==
  [k \in 1 .. Cardinality(S) |-> CHOOSE s \in S : Cardinality({r \in S : <<r, s>> \in before}) = k - 1]

(* The knobs of a seed: numbers over the defaults, those included that the *)
(* defaults do not name (the loop that is handed the seed drops them).     *)
SeedKnobs(asked) ==
  LET given == {k \in DOMAIN asked : asked[k] # Malformed}
  IN  [k \in DOMAIN KNOB_DEFAULTS \cup given |-> IF k \in given THEN asked[k] ELSE KNOB_DEFAULTS[k]]

Seed(edit) ==
  [schedule |-> FromDict(edit.schedule),
   knobs |-> IF edit.knobs \in {None, Malformed} THEN KNOB_DEFAULTS ELSE SeedKnobs(edit.knobs)]

(* One seed an unseen edit, in their order, up to SeedsWanted.             *)
WarmStart(corpus, gpu, shape) ==
  LET points == Pool(corpus, LoadPoints(corpus, gpu), shape)
      before == Before(corpus, points, shape)
      places == InOrder(Unseen(corpus, points, before), before)
  IN  [k \in 1 .. Min({SeedsWanted, Len(places)}) |-> Seed(corpus[places[k]].edit)]

(***************************************************************************)
(* What warm_start promises, said without its sort: seeds of usable        *)
(* records only, within the radius if there is any there, and never more   *)
(* than SeedsWanted; such a record is passed over only for SeedsWanted     *)
(* seeds, each of them recorded for a nearer shape or, rounded, as near    *)
(* and as close to the floor; and so is every earlier seed before a later  *)
(* one, unless that is a seed by then: two edits may be spelt differently  *)
(* and make one seed.                                                      *)
(***************************************************************************)
SoundSeeds(corpus, gpu, shape) ==
  LET seeds == WarmStart(corpus, gpu, shape)
      usable == {r \in ToSet(corpus) : Usable(r, gpu)}
      near == {r \in usable : Distance(shape, r.shape) <= Radius}
      records == {r \in IF near = {} THEN usable ELSE near : Readable(r.edit.schedule)}
      upTo(r, q) == \/ InThousandths(shape, r.shape) < InThousandths(shape, q.shape)
                    \/ InThousandths(shape, r.shape) = InThousandths(shape, q.shape) /\ r.pct <= q.pct
      of == [i \in DOMAIN seeds |-> {r \in records : Seed(r.edit) = seeds[i]}]
  IN  /\ Len(seeds) <= SeedsWanted
      /\ \A i \in DOMAIN seeds : of[i] # {}
      /\ \A q \in records :
           \/ Seed(q.edit) \in ToSet(seeds)
           \/ /\ Len(seeds) = SeedsWanted
              /\ \A i \in DOMAIN seeds : \E r \in of[i] : upTo(r, q)
      /\ \A i, j \in DOMAIN seeds : i < j =>
           \/ \E h \in 1 .. i : seeds[h] = seeds[j]
           \/ \E r \in of[i] : \A q \in of[j] : upTo(r, q)
=============================================================================
