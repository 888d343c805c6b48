------------------------------- MODULE Harness -------------------------------
(***************************************************************************)
(* The edit surface of the schedule tools (src/harness.py): what an agent  *)
(* may ask for, the gates its edit meets before anything runs, and the     *)
(* points the harness proposes by itself.                                  *)
(*                                                                         *)
(* An edit has some fields of a ScheduleConfig and, unless they are None,  *)
(* some kernel knobs; a candidate has all of them.  The fields no other    *)
(* part consumes (kv_block, page_allocation, fusion_grouping) are left     *)
(* out.  Malformed stands for a value of a wrong type; sm_assignment is a  *)
(* policy, a map, or a map whose entries are not numbers.                  *)
(***************************************************************************)
EXTENDS Provisioning

CONSTANTS
  Gpu,           \* the target: a key of TARGETS
  ModelTasks,    \* the tasks of the model, as Provisioning sees them
  WeightKB,      \* the bytes of its weights, in thousands
  Searched,       \* per field, what is searched: a bound of the model
  SearchedKnobs,   \* per knob, likewise
  Unsound,       \* schedules whose lowered program validate() rejects
  Malformed, None

(* GpuTarget: compute capability, opt-in cap of a block, spec and measured *)
(* bandwidth in GB/s, 0 if not measured.                                   *)
GpuTarget(capability, optin, spec, measured) ==
  [capability |-> capability, optin |-> optin, spec |-> spec, measured |-> measured]

TARGETS ==
  [rtx5090 |-> GpuTarget(12, 101376, 896, 731), b200 |-> GpuTarget(10, 232448, 8000, 0),
   h100 |-> GpuTarget(9, 232448, 3350, 3089), a100 |-> GpuTarget(8, 166912, 1555, 1382),
   l4 |-> GpuTarget(8, 101376, 300, 0), t4 |-> GpuTarget(7, 65536, 320, 0),
   a10g |-> GpuTarget(8, 101376, 600, 0), l40s |-> GpuTarget(8, 101376, 864, 0)]

target == TARGETS[Gpu]

(* us is less than streaming the weights takes: at the bandwidth of the    *)
(* spec sheet, and at the sustained one, 85% of it when not measured.      *)
BelowBound(us) == us * target.spec < WeightKB

BelowSustained(us) ==
  IF target.measured > 0 THEN us * target.measured < WeightKB ELSE us * target.spec * 85 < WeightKB * 100

PctOfRoofline(us) == (us * 100 * target.spec) \div WeightKB

-----------------------------------------------------------------------------
(* The surface and its defaults.                                           *)

ScheduleConfig ==
  [N_tile |-> None, pipelining_depth |-> 2, threads_per_block |-> 256, smem_bytes_per_block |-> 0,
   sm_assignment |-> "policy"]

default_config == [ScheduleConfig EXCEPT !.N_tile = 64]

KNOB_DEFAULTS == [cols_per_warp |-> 1, cpasync |-> 1, cpa_stages |-> 4, cpa_cols |-> 2]

search_space ==
  [N_tile |-> {64, 128, 256, 512}, pipelining_depth |-> 0 .. 4, threads_per_block |-> {128, 256},
   smem_bytes_per_block |-> {AtMost(n, target.optin) : n \in {0, 16384, 49152}}, sm_assignment |-> {"policy"}]

KNOB_CHOICES ==
  [cols_per_warp |-> {1, 2, 4}, cpasync |-> {0, 1}, cpa_stages |-> {2, 3, 4}, cpa_cols |-> {2, 4}]

ASSUME HarnessAssumption ==
  /\ Gpu \in DOMAIN TARGETS /\ WeightKB \in Nat \ {0}
  /\ DOMAIN Searched = DOMAIN search_space /\ DOMAIN SearchedKnobs = DOMAIN KNOB_CHOICES
  /\ \A f \in DOMAIN Searched : Searched[f] \subseteq search_space[f]
  /\ \A k \in DOMAIN SearchedKnobs : SearchedKnobs[k] \subseteq KNOB_CHOICES[k]
  /\ None \notin Int /\ Malformed \notin Int

Default == [schedule |-> default_config, knobs |-> KNOB_DEFAULTS]

-----------------------------------------------------------------------------
(***************************************************************************)
(* What becomes of an edit.                                                *)
(***************************************************************************)

(* _normalize_kernel_knobs: what is not a number gives way to the default; *)
(* a number is not checked against the choices.                            *)
KernelKnobs(asked) ==
  [k \in DOMAIN KNOB_DEFAULTS |->
     IF k \in DOMAIN asked /\ asked[k] # Malformed THEN asked[k] ELSE KNOB_DEFAULTS[k]]

(* _config_from_dict *)
FromDict(asked) ==
  [f \in DOMAIN ScheduleConfig |-> IF f \in DOMAIN asked THEN asked[f] ELSE ScheduleConfig[f]]

(* Otherwise _config_from_dict raises. *)
Readable(asked) == FromDict(asked).sm_assignment # "unreadable"

Candidate(edit) ==
  [schedule |-> FromDict(edit.schedule),
   knobs |-> IF edit.knobs = None THEN KNOB_DEFAULTS ELSE KernelKnobs(edit.knobs)]

(* _config_type_errors *)
TypesOk(s) ==
  /\ \A f \in {"N_tile", "pipelining_depth", "threads_per_block", "smem_bytes_per_block"} : s[f] # Malformed
  /\ s.N_tile # None => s.N_tile >= 1
  /\ s.pipelining_depth >= 0

(* _launch_config_errors *)
LaunchOk(s) ==
  /\ s.threads_per_block \in 32 .. 1024 /\ s.threads_per_block % 32 = 0
  /\ s.smem_bytes_per_block \in 0 .. target.optin

(* The gates, in their order.                                              *)
Passes(edit) ==
  /\ edit.knobs # Malformed
  /\ Readable(edit.schedule)
  /\ LET s == FromDict(edit.schedule)
     IN  TypesOk(s) /\ s \notin Unsound /\ LaunchOk(s)

(* Whether the loader, whose limits are not the gates', takes a candidate. *)
Loadable(c) ==
  Loads([knobs |-> c.knobs, tasks |-> ModelTasks, threads |-> c.schedule.threads_per_block,
         smem |-> c.schedule.smem_bytes_per_block, cap |-> target.optin, capability |-> target.capability,
         scalar |-> FALSE, noinline |-> FALSE])

-----------------------------------------------------------------------------
(***************************************************************************)
(* What the harness proposes.                                              *)
(***************************************************************************)
Schedules ==
  [N_tile : Searched.N_tile, pipelining_depth : Searched.pipelining_depth,
   threads_per_block : Searched.threads_per_block, smem_bytes_per_block : Searched.smem_bytes_per_block,
   sm_assignment : Searched.sm_assignment]

Knobs ==
  [cols_per_warp : SearchedKnobs.cols_per_warp, cpasync : SearchedKnobs.cpasync,
   cpa_stages : SearchedKnobs.cpa_stages, cpa_cols : SearchedKnobs.cpa_cols]

(* random_config and _random_kernel_knobs; knobs only on the GPU.          *)
Draws(device) ==
  {[schedule |-> s, knobs |-> k] : s \in Schedules, k \in IF device = "cuda" THEN Knobs ELSE {KNOB_DEFAULTS}}

(* mutate_config or _mutate_kernel_knobs: one field, or one knob.          *)
Mutations(c, device) ==
  UNION {{[c EXCEPT !.schedule[f] = v] : v \in Searched[f]} : f \in DOMAIN Searched} \cup
  (IF device = "cuda" THEN UNION {{[c EXCEPT !.knobs[k] = v] : v \in SearchedKnobs[k]} : k \in DOMAIN SearchedKnobs}
                      ELSE {})

(* _config_complexity *)
Complexity(c) ==
  c.schedule.pipelining_depth + (IF c.schedule.smem_bytes_per_block # 0 THEN 1 ELSE 0)
  + (IF c.schedule.sm_assignment = "map" THEN 1 ELSE 0)

(* A candidate names its knobs only if they are not the defaults.          *)
Recorded(c) == [schedule |-> c.schedule, knobs |-> IF c.knobs = KNOB_DEFAULTS THEN None ELSE c.knobs]
=============================================================================
