------------------------------ MODULE MCTuners ------------------------------
(***************************************************************************)
(* Model checking Tuners: a model of 358 MB on an RTX 5090, whose floors   *)
(* are 400 us and, sustained, 491 us; two tile widths, of which one is     *)
(* computed wrong, two pipelining depths, and a kernel knob whose larger   *)
(* value asks for more shared memory than a block may have; agents' edits  *)
(* of every way to be refused; three kernel variants and two grid points;  *)
(* two model shapes within the radius of each other and a third beyond it, *)
(* from one of them by less than what the sort rounds away.                *)
(* The shipped corpus has the default of an older writer, of a newer one   *)
(* that spells out its knobs and of one with a knob of its own, a record   *)
(* of another GPU and an edit that can no longer be read.                  *)
(***************************************************************************)
EXTENDS Tuners

CONSTANTS builtin, wide, narrow, small, large, tiny

MCSearched ==
  [N_tile |-> {64, 128}, pipelining_depth |-> {1, 2}, threads_per_block |-> {256},
   smem_bytes_per_block |-> {0}, sm_assignment |-> {"policy"}]
MCSearchedKnobs == [cols_per_warp |-> {1}, cpasync |-> {1}, cpa_stages |-> {4}, cpa_cols |-> {2, 4}]
MCModelTasks ==
  {[op |-> "gemv", qdtype |-> "fp", K |-> 11008, M |-> 1, half |-> TRUE, unitStride |-> TRUE],
   [op |-> "attention", qdtype |-> "fp", K |-> 128, M |-> 1, half |-> TRUE, unitStride |-> TRUE]}

MCWrong == {s \in Schedules : s.N_tile = 128}
MCUnsound == {[ScheduleConfig EXCEPT !.N_tile = 512]}
MCPredicted(c) == CASE c.schedule.smem_bytes_per_block > 0 -> 360
                    [] c.schedule.pipelining_depth = 1 -> 503
                    [] OTHER -> 500

Edit(schedule, knobs) == [schedule |-> schedule, knobs |-> knobs]
MCEdits ==
  {Edit(s, None) : s \in {<<>>, [N_tile |-> 512], [N_tile |-> 0], [N_tile |-> Malformed],
                          [sm_assignment |-> "unreadable"], [pipelining_depth |-> -1],
                          [smem_bytes_per_block |-> 16384], [smem_bytes_per_block |-> 101376],
                          [smem_bytes_per_block |-> 101377]}}
  \cup {Edit([threads_per_block |-> n], None) : n \in {16, 48, 256, 512, 1024, 2048}}
  \cup {Edit([sm_assignment |-> "map"], k) :
          k \in {Malformed, [cpa_stages |-> 17], [cpa_cols |-> Malformed], [cpasync |-> 0]}}

MCVariants == <<builtin, wide, narrow>>
MCGrid == <<builtin, wide>>
MCDistance(s, t) ==
  IF s = t THEN 0 ELSE IF tiny \notin {s, t} THEN 700000 ELSE IF small \in {s, t} THEN 1000300 ELSE 2200000
MCTools == {<<"loop", "cpu">>, <<"loop", "cuda">>, <<"instruction", "cuda">>,
            <<"autotune", "cuda">>, <<"compile", "cuda">>, <<"evaluate", "cuda">>}
MCRecord(gpu, edit, us) ==
  [gpu |-> gpu, shape |-> small, correctness |-> "PASS", edit |-> edit,
   us |-> us, pct |-> PctOfRoofline(us)]
MCShipped ==
  <<MCRecord("t4", Edit([N_tile |-> 64], None), 401),
    MCRecord(Gpu, Edit([N_tile |-> 64, sm_assignment |-> "unreadable"], None), 402),
    MCRecord(Gpu, Edit([N_tile |-> 64, pipelining_depth |-> 2], None), 480),
    MCRecord(Gpu, Edit(default_config, KNOB_DEFAULTS), 480),
    MCRecord(Gpu, Edit(default_config, [qcpasync |-> 0, cpa_cols |-> Malformed]), 495)>>
=============================================================================
