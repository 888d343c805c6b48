------------------------------ MODULE MCLowering ------------------------------
(***************************************************************************)
(* Model checking Lowering: up to two decoder layers at scaled-down widths *)
(* and limits, every tile width asked for from 0 to past the projection,   *)
(* and every split of every window up to eight keys.                       *)
(***************************************************************************)
EXTENDS Lowering

MCDims == [hidden |-> 3, q |-> 4, kv |-> 2, inter |-> 5, vocab |-> 7]

Plain == [layers |-> 1, B |-> 1, pos |-> 0, num_sms |-> 2, n_partitions |-> 1, N_tile |-> None,
          base_width |-> DEFAULT_WIDTH, quant |-> {}, zeros |-> FALSE, tied |-> FALSE]

TileRequests ==
  {[Plain EXCEPT !.layers = L, !.B = B, !.N_tile = N, !.tied = tied] :
     L \in {0, 1}, B \in {1, 3}, N \in {None} \cup -1 .. 8, tied \in BOOLEAN}
  \cup {[Plain EXCEPT !.base_width = w] : w \in -1 .. 8}

SplitRequests ==
  {[Plain EXCEPT !.layers = L, !.B = B, !.pos = pos, !.n_partitions = P, !.num_sms = sms] :
     L \in {1}, B \in {1, 2}, pos \in 0 .. 7, P \in {1, 2, 3, 5}, sms \in {1, 2, 4}}
  \cup {[Plain EXCEPT !.layers = 2, !.pos = pos, !.n_partitions = P, !.num_sms = 3] : pos \in {0, 4}, P \in {1, 3}}

QuantRequests ==
  {[Plain EXCEPT !.B = B, !.quant = Q, !.zeros = z, !.tied = tied] :
     B \in {1, 2}, Q \in {{"q_proj", "down"}, {"embed", "gate"}}, z \in BOOLEAN, tied \in BOOLEAN}

MCRequests == TileRequests \cup SplitRequests \cup QuantRequests
MCOpcodes == {"EMBED", "RMSNORM", "GEMV_TILE", "GEMM_TILE", "ROPE", "KV_APPEND", "ATTENTION_TILE",
              "ATTENTION_COMBINE", "SILU_MUL", "ADD"}
MCIds == Nat
MCTaskTime(task) == IF task.op \in TiledOps THEN 3 + 2 * task.tile.N_tile
                    ELSE IF task.op = "ATTENTION_TILE" THEN 2 + task.window.len ELSE 2
=============================================================================
