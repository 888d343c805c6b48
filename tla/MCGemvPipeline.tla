---------------------------- MODULE MCGemvPipeline ----------------------------
(***************************************************************************)
(* Model checking GemvPipeline: two warps of one lane, one warp of two and *)
(* two of two, over K axes shorter, equal and longer than the ring, with   *)
(* and without a ragged end, rings of one to three slots, and tiles that   *)
(* end within a run; and the sizing of Provisioning over knobs, block      *)
(* sizes and pairs of tasks.                                               *)
(***************************************************************************)
EXTENDS GemvPipeline

Request(kind, warps, lanes, M, K, N) ==
  [kind |-> kind, warps |-> warps, lanes |-> lanes, M |-> M, K |-> K, N_tile |-> N, n_off |-> 1,
   stages |-> 3, smem |-> kind # "wmma", shortRows |-> FALSE]

Shapes == {<<2, 1, 3>>, <<2, 1, 4>>, <<2, 1, 5>>, <<1, 2, 1>>, <<1, 2, 5>>, <<1, 2, 6>>, <<1, 2, 8>>}

MCTiles ==
  {Request("fp", s[1], s[2], 1, s[3], N) : s \in Shapes, N \in {1, 3, 4}}
  \cup {Request(kind, s[1], s[2], 2, s[3], 3) : kind \in {"quant", "wmma"}, s \in {<<2, 1, 3>>, <<1, 2, 5>>, <<1, 2, 6>>, <<2, 2, 3>>}}
  \cup {[Request(kind, s[1], s[2], 1, s[3], 3) EXCEPT !.stages = d] :
          kind \in {"fp", "quant"}, s \in {<<2, 1, 3>>, <<1, 2, 5>>}, d \in {1, 2}}
  \cup {[Request("wmma", s[1], s[2], 2, s[3], N) EXCEPT !.shortRows = TRUE] :
          s \in {<<2, 1, 3>>, <<1, 2, 6>>}, N \in {3, 4}}
  \cup {[Request("sync", s[1], s[2], 2, s[3], 3) EXCEPT !.smem = c] : s \in {<<2, 1, 3>>, <<1, 2, 3>>}, c \in BOOLEAN}

Task(op, qdtype, K) == [op |-> op, qdtype |-> qdtype, K |-> K, M |-> 16, half |-> TRUE, unitStride |-> TRUE]

MCTasks ==
  {Task("gemv", "fp", K) : K \in {100, 256, 5633}} \cup {Task("gemv", "int8", K) : K \in {96, 5000, 16400}}
  \cup {Task("gemv", "int4", 4096), Task("gemm", "fp", 64), Task("attention", "fp", 128)}

MCKnobs ==
  {[cpasync |-> a, qcpasync |-> q, cpa_cols |-> c, cpa_stages |-> s] :
     a \in {0, 1}, q \in {0, 1}, c \in {2, 4}, s \in {1, 4}}
  \cup {[gemm_wmma |-> w, cpa_vpl |-> v] : w \in {0, 1, 2}, v \in {1, 2}}
  \cup {[gemv_max_k |-> 64], [qc |-> 8], [qfastdeq |-> 1], [lb_maxthreads |-> 128, lb_minblocks |-> 2],
        [lb_minblocks |-> 2], [cpa_stages |-> 17]}

MCLaunches ==
  {[knobs |-> k, tasks |-> {t, u}, threads |-> n, smem |-> 0, cap |-> 101376, capability |-> a,
    scalar |-> FALSE, noinline |-> FALSE] :
     k \in MCKnobs, t \in MCTasks, u \in MCTasks, n \in {48, 256}, a \in {7, 12}}
  \cup {[knobs |-> k, tasks |-> {Task("gemv", "fp", 256)}, threads |-> 256, smem |-> 16384, cap |-> 101376,
         capability |-> 12, scalar |-> z, noinline |-> ~ z] : k \in MCKnobs, z \in BOOLEAN}
=============================================================================
