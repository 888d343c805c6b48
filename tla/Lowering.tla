------------------------------- MODULE Lowering -------------------------------
(***************************************************************************)
(* schedule/lower.py: the graph of one decode step (schedule/graph.py      *)
(* _build_decoder_graph) becomes a megakernel program, one node at a time. *)
(* Each handler allocates the output buffer, waits on the ready edges of   *)
(* what it reads, emits tasks under a new counter and publishes the ready  *)
(* edge of its output.  The finished program goes to validate() and to the *)
(* cost model, whatever the batch, the position, the tile widths, the      *)
(* split of the KV window and the quantised weights.                       *)
(*                                                                         *)
(* A tensor is <<layer, name>>; layer 0 holds what belongs to no layer.    *)
(***************************************************************************)
EXTENDS CostModel

CONSTANTS
  Requests,      \* lower()'s arguments: see RequestType
  Dims,          \* hidden, q, kv, inter and vocab: the widths of the projections
  DEFAULT_WIDTH, MIN_AUTO_TILE, MAX_TILES,   \* of the GEMV tile sizing
  ATTN_PMAX, ATTN_MIN_KV_PER_SHARD,          \* of the split of the KV window
  ABI_MAX_INPUTS, None

WeightNames == {"embed", "in_norm", "q_proj", "k_proj", "v_proj", "o_proj", "post_norm",
                "gate", "up", "down", "final_norm", "lm_head"}

RequestType ==
  [layers : Nat, B : Nat \ {0}, pos : Nat, num_sms : Nat \ {0}, n_partitions : Int,
   N_tile : Int \cup {None}, base_width : Int, quant : SUBSET WeightNames, zeros : BOOLEAN, tied : BOOLEAN]

ASSUME RequestsAssumption == Requests \subseteq RequestType
ASSUME LimitsAssumption ==
  /\ Dims \in [{"hidden", "q", "kv", "inter", "vocab"} -> Nat \ {0}]
  /\ {DEFAULT_WIDTH, MIN_AUTO_TILE, MAX_TILES, ATTN_PMAX, ATTN_MIN_KV_PER_SHARD} \subseteq Nat \ {0}
  /\ ABI_MAX_INPUTS \in Nat
  /\ ATTN_PMAX <= ABI_MAX_INPUTS /\ ATTN_PMAX <= ABI_MAX_WAITS /\ 3 <= ABI_MAX_WAITS
ASSUME NoneAssumption == None \notin Nat \X WeightNames

VARIABLES
  args,    \* the request
  node,    \* index of the next node
  self     \* the _Lowerer: program p, and its maps buf, ready and wbuf

lowervars == <<args, node, self>>

Minimum(S) == CHOOSE x \in S : \A y \in S : x <= y
Maximum(S) == CHOOSE x \in S : \A y \in S : y <= x
CeilDiv(a, b) == (a + b - 1) \div b

(* dict.update: f with the entries of g.                                   *)
Updated(f, g) == [x \in DOMAIN f \cup DOMAIN g |-> IF x \in DOMAIN g THEN g[x] ELSE f[x]]

kv_len == args.pos + 1
-----------------------------------------------------------------------------
(* The decoder template.                                                   *)

Node(op, inputs, output, weight, N) ==
  [op |-> op, inputs |-> inputs, output |-> output, weight |-> weight, N |-> N]

LAYER_NODES == 17

LayerNodes(L) ==
  LET T(name) == <<L, name>>
      resid == IF L = 1 THEN <<0, "h0">> ELSE <<L - 1, "h_mlp">>
      Linear(x, out, w, width) == Node("linear", <<x>>, T(out), T(w), Dims[width])
  IN << Node("rmsnorm", <<resid>>, T("an"), T("in_norm"), 0),
        Linear(T("an"), "q", "q_proj", "q"),
        Linear(T("an"), "k", "k_proj", "kv"),
        Linear(T("an"), "v", "v_proj", "kv"),
        Node("rope", <<T("q")>>, T("qr"), None, 0),
        Node("rope", <<T("k")>>, T("kr"), None, 0),
        Node("kv_append", <<T("kr")>>, T("kcache"), None, 0),
        Node("kv_append", <<T("v")>>, T("vcache"), None, 0),
        Node("attention", <<T("qr"), T("kcache"), T("vcache")>>, T("attn"), None, 0),
        Linear(T("attn"), "o", "o_proj", "hidden"),
        Node("add", <<resid, T("o")>>, T("h_attn"), None, 0),
        Node("rmsnorm", <<T("h_attn")>>, T("mn"), T("post_norm"), 0),
        Linear(T("mn"), "gate", "gate", "inter"),
        Linear(T("mn"), "up", "up", "inter"),
        Node("swiglu", <<T("gate"), T("up")>>, T("act"), None, 0),
        Linear(T("act"), "d", "down", "hidden"),
        Node("add", <<T("h_attn"), T("d")>>, T("h_mlp"), None, 0) >>

Graph ==
  <<Node("embed", <<<<0, "token_id">>>>, <<0, "h0">>, <<0, "embed">>, 0)>>
    \o [i \in 1 .. args.layers * LAYER_NODES |->
          LayerNodes((i - 1) \div LAYER_NODES + 1)[((i - 1) % LAYER_NODES) + 1]]
    \o <<Node("rmsnorm", <<IF args.layers = 0 THEN <<0, "h0">> ELSE <<args.layers, "h_mlp">>>>,
              <<0, "hf">>, <<0, "final_norm">>, 0),
         Node("linear", <<<<0, "hf">>>>, <<0, "logits">>,
              <<0, IF args.tied THEN "embed" ELSE "lm_head">>, Dims["vocab"])>>

-----------------------------------------------------------------------------
(* The builder.                                                            *)

NewBuffer(s, t, kind) ==
  [s EXCEPT !.p.buffers = Append(@, kind), !.buf = Updated(@, [x \in {t} |-> Len(s.p.buffers) + 1])]

(* A weight is emitted once; a quantised projection has scales, and may    *)
(* have zeros, beside its packed form, which is not the form embed reads.  *)
Quantised(n) == n.op = "linear" /\ n.weight[2] \in args.quant

WeightKey(n) == <<n.weight, Quantised(n)>>

Weight(s, n) ==
  IF n.weight = None \/ WeightKey(n) \in DOMAIN s.wbuf THEN s
  ELSE LET at == Len(s.p.buffers)
           count == IF ~ Quantised(n) THEN 1 ELSE IF args.zeros THEN 3 ELSE 2
       IN  [s EXCEPT !.p.buffers = @ \o [j \in 1 .. count |-> "WEIGHT"],
                     !.wbuf = Updated(@, [x \in {WeightKey(n)} |-> (at + 1) .. (at + count)])]

(* Mutant: only the last operand is awaited.                               *)
WaitsForLast(s, tensors) ==
  LET awaited == SelectSeq(tensors, LAMBDA t : t \in DOMAIN s.ready /\ t = tensors[Len(tensors)])
  IN  [i \in DOMAIN awaited |-> s.ready[awaited[i]]]

WaitsFor(s, tensors) ==
  LET waits[i \in 0 .. Len(tensors)] ==
        IF i = 0 THEN <<>>
        ELSE IF tensors[i] \in DOMAIN s.ready THEN Append(waits[i - 1], s.ready[tensors[i]])
        ELSE waits[i - 1]
  IN  waits[Len(tensors)]

Whole == [n_off |-> 0, N_tile |-> 0, m_off |-> -1, M_tile |-> 0]
WholeWindow == [start |-> 0, len |-> kv_len]

(***************************************************************************)
(* Tasks of one opcode under a new counter, one per tile, that read the    *)
(* tensors and the weights and write out, which is ready when all are done. *)
(***************************************************************************)
Emit(s, op, tensors, weights, out, tiles, window, sm) ==
  LET c == Len(s.p.counters) + 1
      Task(tile) ==
        [op |-> op, inputs |-> {s.buf[t] : t \in ToSet(tensors)} \cup weights, outputs |-> {s.buf[out]},
         out_counter |-> c, waits |-> WaitsFor(s, tensors), tile |-> tile, window |-> window, sm |-> sm]
  IN  [s EXCEPT !.p.counters = Append(@, 0),
                !.p.tasks = @ \o [i \in DOMAIN tiles |-> Task(tiles[i])],
                !.ready = Updated(@, [x \in {out} |-> [counter |-> c, threshold |-> Len(tiles)]])]

EmitOne(s, op, tensors, weights, out) ==
  Emit(NewBuffer(s, out, "ACTIVATION"), op, tensors, weights, out, <<Whole>>, WholeWindow, NoSM)

(* _gemv_n_tile: an explicit width, or the automatic one, kept to at most  *)
(* MAX_TILES tiles.                                                        *)
TileWidth(N) ==
  LET wanted == IF args.N_tile # None THEN args.N_tile ELSE Maximum({MIN_AUTO_TILE, args.base_width})
      clamped == Maximum({1, Minimum({wanted, N})})
  IN  IF CeilDiv(N, clamped) > MAX_TILES THEN CeilDiv(N, MAX_TILES) ELSE clamped

(* Mutant: the columns left over by whole tiles get no tile.               *)
TilesFloor(N) ==
  LET w == TileWidth(N)
  IN  [i \in 1 .. N \div w |-> [n_off |-> (i - 1) * w, N_tile |-> w, m_off |-> -1, M_tile |-> args.B]]

Tiles(N) ==
  LET w == TileWidth(N)
  IN  [i \in 1 .. CeilDiv(N, w) |->
         [n_off |-> (i - 1) * w, N_tile |-> Minimum({w, N - (i - 1) * w}), m_off |-> -1, M_tile |-> args.B]]

(* The split of the KV window: P shards at most, none empty.               *)
Parts ==
  IF args.B > 1 \/ args.n_partitions <= 1 THEN 1
  ELSE Maximum({1, Minimum({ATTN_PMAX, args.num_sms, args.n_partitions,
                            CeilDiv(kv_len, ATTN_MIN_KV_PER_SHARD)})})

(* Mutant: the shards are rounded down.                                    *)
ShardsFloor ==
  LET each == kv_len \div Parts
  IN  [i \in 1 .. Parts |-> [start |-> (i - 1) * each, len |-> each]]

Shards ==
  LET each == CeilDiv(kv_len, Parts)
  IN  [i \in {j \in 1 .. Parts : (j - 1) * each < kv_len} |->
         [start |-> (i - 1) * each, len |-> Minimum({each, kv_len - (i - 1) * each})]]

Part(n, i) == <<n.output[1], n.output[2], "part", i>>

(* One task per shard, each pinned to an SM of its own and under a counter *)
(* of its own, each writing a buffer of its own.                           *)
EmitShards(s, n) ==
  LET b == Len(s.p.buffers)
      c == Len(s.p.counters)
      parts == {Part(n, i) : i \in DOMAIN Shards}
      Task(i) ==
        [op |-> "ATTENTION_TILE", inputs |-> {s.buf[t] : t \in ToSet(n.inputs)}, outputs |-> {b + i},
         out_counter |-> c + i, waits |-> WaitsFor(s, n.inputs), tile |-> Whole, window |-> Shards[i],
         sm |-> (i - 1) % args.num_sms]
  IN  [s EXCEPT !.p.buffers = @ \o [i \in DOMAIN Shards |-> "ACTIVATION"],
                !.p.counters = @ \o [i \in DOMAIN Shards |-> 0],
                !.p.tasks = @ \o [i \in DOMAIN Shards |-> Task(i)],
                !.buf = Updated(@, [x \in parts |-> b + x[4]]),
                !.ready = Updated(@, [x \in parts |-> [counter |-> c + x[4], threshold |-> 1]])]

-----------------------------------------------------------------------------
(* lower(): the three inputs, then one handler per node.                   *)
IoInputs == {0} \X {"token_id", "pos", "reshape_id"}

LowerInit ==
  /\ args \in Requests
  /\ node = IF args.B > 1 /\ args.quant # {} THEN 0 ELSE 1   \* NotImplementedError
  /\ self = [p |-> [buffers |-> <<"IO_INPUT", "IO_INPUT", "IO_INPUT">>, counters |-> <<>>,
                    tasks |-> <<>>, num_sms |-> args.num_sms],
             buf |-> [x \in IoInputs |-> IF x[2] = "token_id" THEN 1 ELSE IF x[2] = "pos" THEN 2 ELSE 3],
             ready |-> <<>>, wbuf |-> <<>>]

At(op) == node \in DOMAIN Graph /\ Graph[node].op = op

Done == /\ node' = node + 1
        /\ UNCHANGED args

Lowered == node > Len(Graph)

(* embed, rmsnorm, swiglu and add: one task.                               *)
OpSingle(op, opcode) ==
  /\ At(op)
  /\ LET n == Graph[node]
         s == Weight(self, n)
     IN  self' = EmitOne(s, opcode, n.inputs, IF n.weight = None THEN {} ELSE s.wbuf[WeightKey(n)], n.output)
  /\ Done

(* linear: GEMV tiles, or GEMM tiles for a batch.                          *)
OpLinear ==
  /\ At("linear")
  /\ LET n == Graph[node]
         s == NewBuffer(Weight(self, n), n.output, IF n.output = <<0, "logits">> THEN "IO_OUTPUT" ELSE "ACTIVATION")
     IN  self' = Emit(s, IF args.B > 1 THEN "GEMM_TILE" ELSE "GEMV_TILE", n.inputs, s.wbuf[WeightKey(n)],
                      n.output, Tiles(n.N), WholeWindow, NoSM)
  /\ Done

(* rope: the flat projection is reshaped by a gather, then rotated.        *)
OpRope ==
  /\ At("rope")
  /\ LET n == Graph[node]
         hs == <<n.output[1], n.output[2], "hs">>
     IN  self' = EmitOne(EmitOne(self, "EMBED", n.inputs \o <<<<0, "reshape_id">>>>, {}, hs),
                         "ROPE", <<hs, <<0, "pos">>>>, {}, n.output)
  /\ Done

(* kv_append: in place in a cache that holds the steps before.             *)
OpKvAppend ==
  /\ At("kv_append")
  /\ LET n == Graph[node]
         s == NewBuffer(self, n.output, "KV_CACHE")
     IN  self' = Emit(s, "KV_APPEND", n.inputs \o <<n.output>>, {}, n.output, <<Whole>>, WholeWindow, NoSM)
  /\ Done

(* attention over the whole window: one tile.                              *)
OpAttention ==
  /\ At("attention") /\ Parts = 1
  /\ self' = EmitOne(self, "ATTENTION_TILE", Graph[node].inputs, {}, Graph[node].output)
  /\ Done

(* split-KV attention: the shards, and one task that joins them.           *)
OpAttentionSplit ==
  /\ At("attention") /\ Parts > 1
  /\ LET n == Graph[node]
     IN  self' = EmitOne(EmitShards(self, n), "ATTENTION_COMBINE", [i \in DOMAIN Shards |-> Part(n, i)], {}, n.output)
  /\ Done

LowerNext ==
  \/ OpSingle("embed", "EMBED") \/ OpSingle("rmsnorm", "RMSNORM")
  \/ OpSingle("swiglu", "SILU_MUL") \/ OpSingle("add", "ADD")
  \/ OpLinear \/ OpRope \/ OpKvAppend \/ OpAttention \/ OpAttentionSplit

LowerSpec == LowerInit /\ [][LowerNext]_lowervars

-----------------------------------------------------------------------------
p == self.p

(* OP_REGISTRY, the instructions lower() emits: fewest and most operands.  *)
(* Every one of them has a single output.                                  *)
OP_REGISTRY ==
  [EMBED |-> <<2, 2>>, RMSNORM |-> <<2, 2>>, GEMV_TILE |-> <<2, 3>>, GEMM_TILE |-> <<2, 3>>,
   ROPE |-> <<2, 2>>, KV_APPEND |-> <<2, 2>>, ATTENTION_TILE |-> <<3, 4>>,
   ATTENTION_COMBINE |-> <<2, ABI_MAX_INPUTS>>, SILU_MUL |-> <<2, 2>>, ADD |-> <<2, 2>>]

ArityOk(task) ==
  LET arity == OP_REGISTRY[task.op]
  IN  /\ Cardinality(task.inputs) \in arity[1] .. arity[2]
      /\ Cardinality(task.outputs) = 1

(* The ancestors validate() collects in topological order: the table of    *)
(* the first k tasks, for a program that is listed in such an order.       *)
Provenance ==
  LET anc[k \in 0 .. Len(p.tasks)] ==
        IF k = 0 THEN <<>>
        ELSE LET before == anc[k - 1]
             IN  Append(before, Pred(p, k) \cup UNION {before[u] : u \in Pred(p, k)})
  IN  anc[Len(p.tasks)]

Columns(s, t) == LET tile == s.p.tasks[t].tile IN tile.n_off .. tile.n_off + tile.N_tile - 1
Window(s, t) == LET window == s.p.tasks[t].window IN window.start .. window.start + window.len - 1

(* The ready edge of x, whose writers are those of its buffer.             *)
EdgeIsWhole(s, x) ==
  LET edge == s.ready[x]
      writers == Writers(s.p, s.buf[x])
  IN  /\ Producers(s.p, edge.counter) = writers
      /\ edge.threshold = Cardinality(writers)
      /\ \A n \in ToSet(Graph) : n.op = "linear" /\ n.output = x =>
           /\ Cardinality(writers) <= MAX_TILES
           /\ UNION {Columns(s, u) : u \in writers} = 0 .. n.N - 1
           /\ \A u, v \in writers : u # v => Columns(s, u) \cap Columns(s, v) = {}

(***************************************************************************)
(* A published ready edge says that the whole tensor is written: its       *)
(* counter counts the tasks that write the tensor and nothing else, its    *)
(* threshold is all of them, and the tiles of a projection cover every     *)
(* column once, whatever the tile width asked for.  (_tiled_linear:        *)
(* "Registers out's ready edge"; _MAX_TILES: "safety cap".)                *)
(***************************************************************************)
ReadyMeansWritten == \A x \in DOMAIN self.ready : EdgeIsWhole(self, x)

(***************************************************************************)
(* "The result is guaranteed to pass schedule.ir.validate": every check of *)
(* validate(), on every program lower() returns, unless a quantised weight *)
(* has zero points: their GEMV tiles have four operands, one more than     *)
(* OP_REGISTRY allows, and validate() rejects the program.  What it does   *)
(* not look at, and the executors rely on, holds as well: tiles split      *)
(* columns only, counters start at 0, nothing writes a weight or an input. *)
(***************************************************************************)
LoweredIsAccepted ==
  Lowered /\ ~(args.zeros /\ \E n \in ToSet(Graph) : Quantised(n)) =>
    LET anc == Provenance IN
      /\ WellFormed(p) /\ WaitsAreJoins(p) /\ PinnedInListOrder(p) /\ OutputsProduced(p)
      /\ ColumnTiled(p) /\ FreshCounters(p)
      /\ \A t \in TaskIds(p) :
           /\ ArityOk(p.tasks[t])
           /\ \A b \in p.tasks[t].outputs : Transient(p, b)
           /\ \A u \in Pred(p, t) : u < t
           /\ \A b \in p.tasks[t].inputs : Transient(p, b) =>
                /\ p.buffers[b] # "KV_CACHE" => Writers(p, b) # {}
                /\ Writers(p, b) \ {t} \subseteq anc[t]
      /\ \A b \in DOMAIN p.buffers : Transient(p, b) =>
           \/ DisjointTiles(p, Writers(p, b))
           \/ \A u, v \in Writers(p, b) : u # v => u \in anc[v] \/ v \in anc[u]

(* The tasks that attend with the query of node n.                         *)
Attended(s, n) ==
  LET tiles == {t \in TaskIds(s.p) : s.p.tasks[t].op = "ATTENTION_TILE" /\ s.buf[n.inputs[1]] \in s.p.tasks[t].inputs}
  IN  /\ UNION {Window(s, t) : t \in tiles} = 0 .. args.pos
      /\ \A t \in tiles : Window(s, t) # {}
      /\ \A t, u \in tiles : t # u => Window(s, t) \cap Window(s, u) = {} /\ s.p.tasks[t].sm # s.p.tasks[u].sm

(***************************************************************************)
(* Attention sees the keys 0 .. pos once each, the one just appended       *)
(* included, whether its window is split or not, and the shards of a split *)
(* run on SMs of their own.                                                *)
(***************************************************************************)
ShardsCoverWindow ==
  \A i \in DOMAIN Graph : i < node /\ Graph[i].op = "attention" => Attended(self, Graph[i])

(***************************************************************************)
(* The prediction is between what the hardware cannot beat and the serial  *)
(* sum: no chain of dependent tasks takes longer, and on a program without *)
(* pins num_sms workers need at least as long for the work.                *)
(***************************************************************************)
PredictionInBounds ==
  Lowered =>
    LET finish == Finish(p)
        predicted == Predicted(p)
    IN  /\ predicted <= TotalWork(p) * p.num_sms
        /\ \A t \in TaskIds(p) : \A u \in Pred(p, t) :
             predicted >= (finish[u] + TaskTime(p.tasks[t])) * p.num_sms
        /\ PinnedTasks(p) = {} => predicted >= TotalWork(p)

=============================================================================
