----------------------------- MODULE GemvPipeline -----------------------------
(***************************************************************************)
(* One projection tile inside a thread block (vm/ops.cuh): the columns of  *)
(* the tile are dealt to the warps in runs of CPC, the K axis to the lanes *)
(* of a warp.  The pipelined kernels stream the weights through a ring of  *)
(* STAGES slots in shared memory with cp.async copies that land whenever   *)
(* they do; the others load them directly.  The threads interleave freely  *)
(* between the barriers of the block and of the warp.                      *)
(*                                                                         *)
(* A tile's kind is "fp" (amk_gemv_tile_cpasync), "quant" (the int8        *)
(* ring of amk_inst_gemv_tile_quant), "wmma" (the staged ring of           *)
(* amk_gemm_tile_wmma) or "sync" (the register paths).  A chunk has one    *)
(* granule per lane.  A row of a wmma tile stands for a tile of 16 rows.   *)
(* A value is what was multiplied to get it: the index k, the row of x and *)
(* the column run and index of W.                                          *)
(***************************************************************************)
EXTENDS Provisioning, Sequences

CONSTANTS
  Tiles, CPC, None,
  Launches         \* of Provisioning: what a process may build and launch

ASSUME TilesAssumption ==
  Tiles \subseteq
    [kind : {"fp", "quant", "wmma", "sync"}, warps : Nat \ {0}, lanes : Nat \ {0}, M : Nat \ {0},
     K : Nat \ {0}, N_tile : Nat \ {0}, n_off : Nat, stages : Nat \ {0}, smem : BOOLEAN,
     shortRows : BOOLEAN]   \* wmma: the last row tile ends outside the batch
ASSUME RunAssumption == CPC \in Nat \ {0} /\ None \notin [m : Nat, t : Nat, k : Nat]
(* The fp ring caches row 0 of x for every row: "M==1 decode".  The wmma   *)
(* kernel runs from 16 rows on, so the first row tile is full.             *)
ASSUME PathsAssumption ==
  \A r \in Tiles : /\ r.kind = "fp" => r.M = 1
                   /\ r.kind \in {"fp", "quant"} => r.smem
                   /\ r.kind = "wmma" => ~ r.smem
                   /\ r.shortRows => r.kind = "wmma" /\ r.M > 1
(* int() makes every knob a number.  No axis is empty, attention tasks     *)
(* carry no qdtype, and quantised weights are integers, not halves.        *)
ASSUME LaunchesAssumption ==
  \A l \in Launches :
    /\ l \in [knobs : {l.knobs}, tasks : {l.tasks}, threads : Nat, smem : Nat, cap : Nat,
              capability : Nat, scalar : BOOLEAN, noinline : BOOLEAN]
    /\ \A n \in DOMAIN l.knobs : l.knobs[n] \in Int
    /\ IsFiniteSet(l.tasks)
    /\ \A t \in l.tasks :
         /\ t \in [op : {"gemv", "gemm", "attention"}, qdtype : {"fp", "int8", "int4"}, K : Nat \ {0},
                   M : Nat, half : BOOLEAN, unitStride : BOOLEAN]
         /\ t.op = "attention" \/ (t.op = "gemm" /\ t.half) => t.qdtype = "fp"

VARIABLES
  req,
  th,     \* <<warp, lane>> -> pc, row m, column t, chunk ci, copies in flight, accumulator
  xs,     \* the x cache: k -> the row it was loaded from
  ring,   \* <<warp, stage, granule>> -> what it holds
  out     \* <<row, column>> -> the values stored to it

tilevars == <<req, th, xs, ring, out>>

STAGES == req.stages
Warps == 0 .. req.warps - 1
Lanes == 0 .. req.lanes - 1
Threads == Warps \X Lanes
Ks == 0 .. req.K - 1
Columns == req.n_off .. req.n_off + req.N_tile - 1

Chunks == req.K \div req.lanes
AHEAD == STAGES - 1      \* chunks requested ahead of the one consumed

(* Which column runs of which row go through the ring: the wmma kernel     *)
(* stages full tiles only (mfull, nfull and no ragged end of K).           *)
Staged(m, t) ==
  CASE req.kind = "wmma" -> /\ m + 1 < req.M \/ ~ req.shortRows
                            /\ t + CPC <= req.N_tile
                            /\ req.K % req.lanes = 0
    [] req.kind \in {"fp", "quant"} -> req.K >= req.lanes
    [] OTHER -> FALSE

TileInit ==
  /\ req \in Tiles
  /\ th = [wl \in Threads |-> [pc |-> "cache", m |-> 0, t |-> wl[1] * CPC, ci |-> 0, flight |-> <<>>, acc |-> <<>>]]
  /\ xs = [k \in Ks |-> None]
  /\ ring = [slot \in Warps \X (0 .. STAGES - 1) \X Lanes |-> None]
  /\ out = [mn \in (0 .. req.M - 1) \X Columns |-> <<>>]

Moves(wl, lane) == th' = [th EXCEPT ![wl] = lane]

-----------------------------------------------------------------------------
(* The x row is cached by the whole block, each thread a share.            *)
CacheRow(wl) ==
  /\ th[wl].pc = "cache"
  /\ IF req.smem
     THEN /\ xs' = [k \in Ks |-> IF k % (req.warps * req.lanes) = wl[1] * req.lanes + wl[2]
                                 THEN th[wl].m ELSE xs[k]]
          /\ Moves(wl, [th[wl] EXCEPT !.pc = "cached"])
     ELSE UNCHANGED xs /\ Moves(wl, [th[wl] EXCEPT !.pc = "run"])
  /\ UNCHANGED <<req, ring, out>>

(* __syncthreads(): after the cache is filled, and before it is reused.    *)
SyncCached ==
  /\ \A wl \in Threads : th[wl].pc = "cached"
  /\ th' = [wl \in Threads |-> [th[wl] EXCEPT !.pc = "run"]]
  /\ UNCHANGED <<req, xs, ring, out>>

NextRow(wl) ==
  IF req.kind # "wmma" /\ th[wl].m + 1 < req.M
  THEN [th[wl] EXCEPT !.pc = "cache", !.m = @ + 1, !.t = wl[1] * CPC]
  ELSE [th[wl] EXCEPT !.pc = "done"]

SyncRow ==
  /\ \A wl \in Threads : th[wl].pc = "finished"
  /\ th' = [wl \in Threads |-> NextRow(wl)]
  /\ UNCHANGED <<req, xs, ring, out>>

(* Mutant: a run cut short by the end of the tile is skipped.              *)
StartRunWhole(wl) ==
  /\ th[wl].pc = "run"
  /\ Moves(wl, IF th[wl].t + CPC <= req.N_tile
               THEN [th[wl] EXCEPT !.pc = "issue", !.ci = 0, !.acc = <<>>,
                       !.flight = [i \in 1 .. IF Staged(th[wl].m, th[wl].t) THEN AtMost(AHEAD, Chunks) ELSE 0 |-> FALSE]]
               ELSE IF req.smem THEN [th[wl] EXCEPT !.pc = "finished"] ELSE NextRow(wl))
  /\ UNCHANGED <<req, xs, ring, out>>

(* The next column run: the pipeline is primed, one group per chunk.       *)
StartRun(wl) ==
  /\ th[wl].pc = "run"
  /\ Moves(wl, IF th[wl].t < req.N_tile
               THEN [th[wl] EXCEPT !.pc = "issue", !.ci = 0, !.acc = <<>>,
                       !.flight = [i \in 1 .. IF Staged(th[wl].m, th[wl].t) THEN AtMost(AHEAD, Chunks) ELSE 0 |-> FALSE]]
               ELSE IF req.smem THEN [th[wl] EXCEPT !.pc = "finished"] ELSE NextRow(wl))
  /\ UNCHANGED <<req, xs, ring, out>>

(* The copy of chunk i - 1 into its slot completes, in any order.          *)
Land(wl) ==
  /\ \E i \in DOMAIN th[wl].flight :
       /\ ~ th[wl].flight[i]
       /\ ring' = [ring EXCEPT ![<<wl[1], (i - 1) % STAGES, wl[2]>>] =
                     [m |-> th[wl].m, t |-> th[wl].t, k |-> (i - 1) * req.lanes + wl[2]]]
       /\ Moves(wl, [th[wl] EXCEPT !.flight[i] = TRUE])
  /\ UNCHANGED <<req, xs, out>>

(* Before chunk ci is consumed the chunk AHEAD of it is requested.         *)
Issue(wl) ==
  /\ th[wl].pc = "issue" /\ th[wl].ci < Chunks
  /\ Moves(wl, [th[wl] EXCEPT !.pc = "wait",
                  !.flight = IF Staged(th[wl].m, th[wl].t) /\ th[wl].ci + AHEAD < Chunks THEN Append(@, FALSE) ELSE @])
  /\ UNCHANGED <<req, xs, ring, out>>

(* Mutant: the fixed wait_prior(STAGES - 1) the comment warns of.          *)
LandedFixed(wl) ==
  \A i \in 1 .. Len(th[wl].flight) - (STAGES - 1) : th[wl].flight[i]

(* __pipeline_wait_prior(committed - ci - 1).                              *)
Landed(wl) ==
  \A i \in 1 .. AtMost(th[wl].ci + 1, Len(th[wl].flight)) : th[wl].flight[i]

(* The product of x[k] and W[t, k], as read from the cache and the ring.   *)
Direct(wl, k) ==
  [k |-> k, x |-> IF req.smem THEN xs[k] ELSE th[wl].m, w |-> <<th[wl].t, k>>]

Product(wl) ==
  LET k == th[wl].ci * req.lanes + wl[2]
      held == ring[<<wl[1], th[wl].ci % STAGES, wl[2]>>]
  IN  IF ~ Staged(th[wl].m, th[wl].t) THEN Direct(wl, k)
      ELSE IF held = None THEN [k |-> k, x |-> None, w |-> None]
      ELSE [k |-> k, x |-> IF req.smem THEN xs[k] ELSE held.m, w |-> <<held.t, held.k>>]

Consumed(wl) ==
  [th[wl] EXCEPT !.pc = "issue", !.ci = @ + 1, !.acc = Append(@, Product(wl))]

(* A lane consumes the granules it copied itself.                          *)
Consume(wl) ==
  /\ req.kind # "wmma" /\ th[wl].pc = "wait" /\ Landed(wl)
  /\ Moves(wl, Consumed(wl))
  /\ UNCHANGED <<req, xs, ring, out>>

(* The fragments span the granules of all lanes: __syncwarp() on each side. *)
ConsumeWarp(w) ==
  /\ req.kind = "wmma"
  /\ \A l \in Lanes : th[<<w, l>>].pc = "wait" /\ Landed(<<w, l>>)
  /\ th' = [wl \in Threads |-> IF wl[1] = w THEN Consumed(wl) ELSE th[wl]]
  /\ UNCHANGED <<req, xs, ring, out>>

(* The ring is drained, then the ragged end of K is loaded directly.       *)
RaggedEnd(wl) ==
  /\ th[wl].pc = "issue" /\ th[wl].ci = Chunks /\ Landed(wl)
  /\ LET k == Chunks * req.lanes + wl[2]
     IN  Moves(wl, [th[wl] EXCEPT !.pc = "reduce",
                      !.acc = IF k \in Ks THEN Append(@, Direct(wl, k)) ELSE @])
  /\ UNCHANGED <<req, xs, ring, out>>

(* The warp shuffle adds up the lanes; the columns of the run are stored.  *)
Reduce(w) ==
  /\ \A l \in Lanes : th[<<w, l>>].pc = "reduce"
  /\ LET t == th[<<w, 0>>].t
         m == th[<<w, 0>>].m
         sums == [l \in Lanes |-> th[<<w, l>>].acc]
         inner == req.kind = "wmma" /\ m + 1 < req.M
     IN  /\ out' = [mn \in DOMAIN out |->
                      IF mn[1] = m /\ mn[2] - req.n_off \in t .. AtMost(t + CPC, req.N_tile) - 1
                      THEN Append(out[mn], sums) ELSE out[mn]]
         /\ th' = [wl \in Threads |->
                     IF wl[1] # w THEN th[wl]
                     ELSE [th[wl] EXCEPT !.pc = "run", !.flight = <<>>,
                             !.m = IF inner THEN m + 1 ELSE IF req.kind = "wmma" THEN 0 ELSE m,
                             !.t = IF inner THEN t ELSE t + req.warps * CPC]]
  /\ UNCHANGED <<req, xs, ring>>

Finished == \A wl \in Threads : th[wl].pc = "done"

Terminated == Finished /\ UNCHANGED tilevars

TileNext ==
  \/ SyncCached \/ SyncRow \/ Terminated
  \/ \E wl \in Threads : CacheRow(wl) \/ StartRun(wl) \/ Land(wl) \/ Issue(wl) \/ Consume(wl) \/ RaggedEnd(wl)
  \/ \E w \in Warps : ConsumeWarp(w) \/ Reduce(w)

TileSpec == TileInit /\ [][TileNext]_tilevars

(* What _EXT_CACHE may hold under the key of a launch: the kernel of any   *)
(* launch of the process with that key, on the one device it runs on.      *)
Built == {[device |-> l.capability, key |-> Variant(l), flags |-> Flags(l)] : l \in Launches}

Extensions(l) == {b.flags : b \in {c \in Built : c.device = l.capability /\ c.key = Variant(l)}}

-----------------------------------------------------------------------------
(***************************************************************************)
(* What is stored is the dot product: every k once, each with the row of x *)
(* the value is for and with the weight of its own column run, never what  *)
(* a slot held before, never a row cached too early or too late; and it is *)
(* stored once, by one warp.                                               *)
(***************************************************************************)
Run(n) == ((n - req.n_off) \div CPC) * CPC

Terms(v) == UNION {{l} \X DOMAIN v[l] : l \in DOMAIN v}

IsDot(v, m, n) ==
  /\ {v[p[1]][p[2]] : p \in Terms(v)} = {[k |-> k, x |-> m, w |-> <<Run(n), k>>] : k \in Ks}
  /\ \A p, q \in Terms(v) : v[p[1]][p[2]] = v[q[1]][q[2]] => p = q

StoredDots ==
  \A mn \in DOMAIN out : Len(out[mn]) <= 1 /\ (Len(out[mn]) = 1 => IsDot(out[mn][1], mn[1], mn[2]))

(* When every thread has left the tile, every column of every row is       *)
(* stored, those of a run cut short by the end of the tile included.       *)
TileComplete == Finished => \A mn \in DOMAIN out : Len(out[mn]) = 1

(***************************************************************************)
(* No block enters a tile without the memory its caches and rings need,    *)
(* whichever knobs, element types and sizes meet in the program and        *)
(* whichever kernel the extension cache has for them: neither in a launch  *)
(* the loader lets through, nor in the persistent kernel.                  *)
(***************************************************************************)
Enters == \A wl \in Threads : th[wl].pc = "cache" /\ th[wl].m = 0

SmemSuffices ==
  Enters => \A l \in Launches : Fits(l, Extensions(l), req.kind) /\ Fits(Borrowed(l), {{}}, req.kind)
=============================================================================
