--------------------------- MODULE MCPersistDecode ---------------------------
(***************************************************************************)
(* Model checking PersistDecode: a decode step of two layers, with a       *)
(* residual and two tiles of the logits, on two grids.                     *)
(*                                                                         *)
(* A value tells the tokens it was computed from and the position it was   *)
(* rotated by: seen is the last token alone before the first attention,    *)
(* and all tokens after it.  Operands that do not fit together give        *)
(* Garbage.                                                                *)
(***************************************************************************)
EXTENDS PersistDecode, Functions, TLC

NoTile == [n_off |-> -1, N_tile |-> 0, m_off |-> -1, M_tile |-> 0]

StepTask(op, ins, outs, c, wait) ==
  [op |-> op, inputs |-> ins, outputs |-> outs, out_counter |-> c,
   waits |-> IF wait = 0 THEN <<>> ELSE <<[counter |-> wait, threshold |-> 1]>>,
   tile |-> NoTile, sm |-> NoSM]

LogitsTile(n_off) ==
  [StepTask("GEMV_TILE", {"att2", "w"}, {"logits"}, 8, 7) EXCEPT !.tile.n_off = n_off, !.tile.N_tile = 1]

MCStepProgram ==
  [buffers |-> [x \in {"h1", "att1", "h2", "k2", "att2"} |-> "ACTIVATION"] @@
               [x \in {"kv1", "kv2"} |-> "KV_CACHE"] @@ [x \in {"token", "pos"} |-> "IO_INPUT"] @@
               [w |-> "WEIGHT", logits |-> "IO_OUTPUT"],
   counters |-> [c \in 1 .. 8 |-> 0],
   num_sms |-> 3,
   tasks |-> <<StepTask("EMBED", {"token", "w"}, {"h1"}, 1, 0),
               StepTask("KV_APPEND", {"h1", "kv1"}, {"kv1"}, 2, 1),
               StepTask("ATTENTION_TILE", {"h1", "kv1"}, {"att1"}, 3, 2),
               StepTask("ADD", {"h1", "att1"}, {"h2"}, 4, 3),
               StepTask("ROPE", {"h2", "pos"}, {"k2"}, 5, 4),
               StepTask("KV_APPEND", {"k2", "kv2"}, {"kv2"}, 6, 5),
               StepTask("ATTENTION_TILE", {"k2", "kv2"}, {"att2"}, 7, 6),
               LogitsTile(0), LogitsTile(1)>>]

(* With Regrids a launch runs on the narrow grid, without it on the wide   *)
(* one; its block 2 reaches the barriers long before the others.           *)
MCWide == (0 :> <<1, 3, 5, 7, 8>>) @@ (1 :> <<2, 4, 6>>) @@ (2 :> <<9>>)
MCNarrow == (0 :> <<1, 3, 4, 5, 7, 8>>) @@ (1 :> <<2, 6, 9>>)

MCTokens == 0 .. 4
MCPrompts == {<<4, 3>>, <<4, 3, 2>>}
MCTwoCaches == {<<2, 3>>, <<4, 3>>}
MCBufferIds == DOMAIN MCStepProgram.buffers
MCOpcodes == {"EMBED", "ROPE", "KV_APPEND", "ATTENTION_TILE", "ADD", "GEMV_TILE"}

MCRight(x, s) ==
  CASE x \in {"h1", "kv1"} -> [seen |-> <<Last(s)>>, at |-> -1]
    [] x \in {"att1", "h2"} -> [seen |-> s, at |-> -1]
    [] OTHER -> [seen |-> s, at |-> Len(s) - 1]

MCArgmax(logits) ==
  IF logits = Garbage THEN Garbage
  ELSE FoldFunction(LAMBDA x, y : x + y, 1, [i \in DOMAIN logits.seen |-> i * logits.seen[i]]) % 5

MCKeys(t, p) == 0 .. p

(* Attention of the last row over all: the rows are those of a cache after *)
(* the tokens they come from.                                              *)
Attended(row, rows, cache, out) ==
  LET n == Cardinality(DOMAIN rows)
      tokens == [i \in 1 .. n |-> Last(rows[i - 1].seen)]
  IN  IF /\ \A i \in DOMAIN rows : rows[i] # Garbage
         /\ \A i \in DOMAIN rows : rows[i] = MCRight(cache, SubSeq(tokens, 1, i + 1))
         /\ row = rows[n - 1]
      THEN MCRight(out, tokens) ELSE Garbage

MCResult(t, v) ==
  IF \E x \in DOMAIN v : v[x] = Garbage THEN Garbage
  ELSE CASE t = 1 -> [seen |-> <<v["token"]>>, at |-> -1]
         [] t = 3 -> Attended(v["h1"], v["kv1"], "kv1", "att1")
         [] t = 4 -> IF v["h1"].seen = <<Last(v["att1"].seen)>> THEN v["att1"] ELSE Garbage
         [] t = 5 -> [v["h2"] EXCEPT !.at = v["pos"]]
         [] t = 7 -> Attended(v["k2"], v["kv2"], "kv2", "att2")
         [] OTHER -> v["att2"]

ASSUME WholeWindow == Unsplit
=============================================================================
