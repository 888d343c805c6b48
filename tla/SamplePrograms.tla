---------------------------- MODULE SamplePrograms ----------------------------
(***************************************************************************)
(* Small programs for the model checker: shapes validate() accepts (a      *)
(* chain, tiles joined by a reader, a KV append before attention, two      *)
(* chains side by side, an in-place rewrite, a list out of order) and, for *)
(* its checks, programs it must reject.                                    *)
(***************************************************************************)
EXTENDS Schedule

NoTile == [n_off |-> -1, N_tile |-> 0, m_off |-> -1, M_tile |-> 0]

Task(op, ins, outs, c, waits) ==
  [op |-> op, inputs |-> ins, outputs |-> outs, out_counter |-> c, waits |-> waits,
   tile |-> NoTile, sm |-> NoSM]

Tile(op, ins, outs, c, waits, n_off, n_tile) ==
  [Task(op, ins, outs, c, waits) EXCEPT !.tile =
     [n_off |-> n_off, N_tile |-> n_tile, m_off |-> -1, M_tile |-> 0]]

RowTile(ins, outs, c, waits, m_off) ==
  [Task("GEMM_TILE", ins, outs, c, waits) EXCEPT !.tile =
     [n_off |-> 0, N_tile |-> 2, m_off |-> m_off, M_tile |-> 1]]

Wait(c, k) == [counter |-> c, threshold |-> k]

Kinds == [x |-> "IO_INPUT", w |-> "WEIGHT", h |-> "ACTIVATION", g |-> "ACTIVATION",
          kv |-> "KV_CACHE", out |-> "IO_OUTPUT"]
Program(tasks) ==
  [buffers |-> Kinds, counters |-> [c \in 1 .. 4 |-> 0], tasks |-> tasks, num_sms |-> 3]

(* x -> h -> g -> out, with the last read of h after g was written.        *)
Chain == Program(<<
  Task("RMSNORM", {"x", "w"}, {"h"}, 1, <<>>),
  Task("SILU_MUL", {"h"}, {"g"}, 2, <<Wait(1, 1)>>),
  Task("ADD", {"h", "g"}, {"out"}, 3, <<Wait(2, 1)>>)>>)

(* Two tiles of h under one counter, joined by a reader.                   *)
Tiles(hi) == Program(<<
  Tile("GEMV_TILE", {"x", "w"}, {"h"}, 1, <<>>, 0, 1),
  Tile("GEMV_TILE", {"x", "w"}, {"h"}, 1, <<>>, hi, 1),
  Task("ADD", {"h", "x"}, {"out"}, 2, <<Wait(1, 2)>>)>>)

PartialJoin == [Tiles(1) EXCEPT !.tasks[3].waits = <<Wait(1, 1)>>]

(* A KV append that attention must follow; it also waits on a tile pair.   *)
Decode == Program(<<
  Tile("GEMV_TILE", {"x", "w"}, {"h"}, 1, <<>>, 0, 1),
  Tile("GEMV_TILE", {"x", "w"}, {"h"}, 1, <<>>, 1, 1),
  Task("KV_APPEND", {"h", "kv"}, {"kv"}, 2, <<Wait(1, 2)>>),
  Task("ATTENTION_TILE", {"h", "kv"}, {"out"}, 3, <<Wait(1, 2), Wait(2, 1)>>)>>)

StaleKv == [Decode EXCEPT !.tasks[4].waits = <<Wait(1, 2)>>]

(* Attention over the cache of earlier steps: no task writes it.           *)
PriorKv == Program(<<
  Task("COPY", {"x"}, {"h"}, 1, <<>>),
  Task("ATTENTION_TILE", {"h", "kv"}, {"out"}, 2, <<Wait(1, 1)>>)>>)

(* Two chains across two blocks: h-then-g interleaved the wrong way round  *)
(* blocks both queues.                                                     *)
TwoChains == Program(<<
  Task("COPY", {"x"}, {"h"}, 1, <<>>),
  Tile("GEMV_TILE", {"h", "w"}, {"kv"}, 2, <<Wait(1, 1)>>, 0, 2),
  Task("COPY", {"x"}, {"g"}, 3, <<>>),
  Task("ADD", {"g"}, {"out"}, 4, <<Wait(3, 1)>>)>>)

(* Rope rewrites h in place; the second writer of h is ordered behind it.  *)
InPlace == Program(<<
  Task("COPY", {"x"}, {"h"}, 1, <<>>),
  Task("ROPE", {"h"}, {"h"}, 2, <<Wait(1, 1)>>),
  Task("ADD", {"h"}, {"out"}, 3, <<Wait(2, 1)>>)>>)

UnorderedWriters == [InPlace EXCEPT !.tasks[2].inputs = {"x"}, !.tasks[2].waits = <<>>,
                                    !.tasks[3].waits = <<Wait(1, 1), Wait(2, 1)>>]

(* A task list that is not in topological order.                           *)
Backwards == Program(<<
  Task("ADD", {"g", "x"}, {"out"}, 3, <<Wait(2, 1)>>),
  Task("SILU_MUL", {"h", "x"}, {"g"}, 2, <<Wait(1, 1)>>),
  Task("COPY", {"x"}, {"h"}, 1, <<>>)>>)

(* GELU is a registered opcode amk_dispatch has no case for.               *)
Trap == Program(<<
  Task("COPY", {"x"}, {"h"}, 1, <<>>),
  Task("GELU", {"x"}, {"g"}, 2, <<>>),
  Task("ADD", {"h", "g"}, {"out"}, 3, <<Wait(1, 1), Wait(2, 1)>>)>>)

(* One wait more than the instruction record holds.                        *)
ManyWaits == Program(<<
  Task("COPY", {"x"}, {"h"}, 1, <<>>),
  Task("COPY", {"x"}, {"g"}, 2, <<>>),
  Task("COPY", {"x"}, {"kv"}, 3, <<>>),
  Task("ADD", {"h", "g", "kv"}, {"out"}, 4, <<Wait(1, 1), Wait(2, 1), Wait(3, 1)>>)>>)

Cycle == Program(<<
  Task("COPY", {"g"}, {"h"}, 1, <<Wait(2, 1)>>),
  Task("COPY", {"h"}, {"g"}, 2, <<Wait(1, 1)>>),
  Task("ADD", {"h"}, {"out"}, 3, <<Wait(1, 1)>>)>>)

(* Two GEMM tiles that split the rows of h; see ColumnTiled.               *)
RowTiles == Program(<<
  RowTile({"x", "w"}, {"h"}, 1, <<>>, 0),
  RowTile({"x", "w"}, {"h"}, 1, <<>>, 1),
  Task("ADD", {"h", "x"}, {"out"}, 2, <<Wait(1, 2)>>)>>)

(* A task overwrites the input another task reads.                         *)
WritesInput == Program(<<
  Task("COPY", {"x"}, {"out"}, 1, <<>>),
  Task("COPY", {"w"}, {"x"}, 2, <<>>)>>)

Loadable == {Chain, Tiles(1), Decode, PriorKv, TwoChains, InPlace, Backwards, Trap, RowTiles, WritesInput}
Rejected == {Tiles(0), PartialJoin, StaleKv, UnorderedWriters, ManyWaits, Cycle}

SampleBufferIds == DOMAIN Kinds
SampleCounterIds == 1 .. 4
SampleOpcodes == {"COPY", "RMSNORM", "GEMV_TILE", "GEMM_TILE", "ROPE", "ATTENTION_TILE",
                  "KV_APPEND", "ADD", "SILU_MUL", "GELU"}
=============================================================================
