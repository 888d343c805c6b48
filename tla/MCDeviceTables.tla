---------------------------- MODULE MCDeviceTables ----------------------------
(***************************************************************************)
(* Model checking DeviceTables: a program with two inputs and a KV cache,  *)
(* and callers that repeat a request, swap its tensors, change a shape or  *)
(* a dtype, pass, omit or refresh the cache, forget an input, or keep      *)
(* their tensors on the device.                                            *)
(***************************************************************************)
EXTENDS DeviceTables, TLC

MCNames == <<"x", "y", "k">>
MCTensors == {"a", "b", "half", "wide", "d1", "d2", "cache1", "cache2"}
MCResident == {"d1", "d2"}
MCShape == [t \in MCTensors |-> CASE t = "wide" -> "8" [] t \in {"cache1", "cache2"} -> "kv" [] OTHER -> "4"]
MCDtype == [t \in MCTensors |-> IF t = "half" THEN "f16" ELSE "f32"]

Ask(x, y) == [inputs |-> ("x" :> x @@ "y" :> y), kv |-> <<>>]
AskWith(x, y, k) == [inputs |-> ("x" :> x @@ "y" :> y), kv |-> ("k" :> k)]

MCRequests ==
  {Ask("a", "b"), Ask("b", "a"), Ask("half", "b"), Ask("wide", "b"),
   AskWith("a", "b", "cache1"), AskWith("a", "b", "cache2"),
   [inputs |-> ("x" :> "a"), kv |-> <<>>],
   Ask("d1", "d2"), Ask("d2", "d1"), Ask("d1", "a")}
=============================================================================
