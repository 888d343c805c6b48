----------------------------- MODULE Provisioning -----------------------------
(***************************************************************************)
(* What the host decides before a launch, and what the device then relies  *)
(* on: MegakernelVM.__init__ of vm/loader.py normalises the build knobs,   *)
(* sizes the dynamic shared memory of a block for the worst of its tasks   *)
(* and builds, or takes from its cache, the extension compiled for them;   *)
(* the instructions of vm/ops.cuh carve their caches and rings out of that *)
(* memory by their own arithmetic, from the macros they were compiled      *)
(* with.  Nothing checks one side against the other.                       *)
(*                                                                         *)
(* A launch asks for knobs (those it sets), tasks, threads per block and   *)
(* smem_bytes_per_block, on a device with a compute capability and a cap.  *)
(***************************************************************************)
EXTENDS Integers, FiniteSets, FiniteSetsExt

KnobDefaults ==
  [cols_per_warp |-> 1, kunroll |-> 1, lb_maxthreads |-> 0, lb_minblocks |-> 0, gemv_max_k |-> 0,
   cpasync |-> 1, cpa_cols |-> 2, cpa_stages |-> 4, cpa_vpl |-> 1, qc |-> 4, qcpasync |-> 0,
   gemm_wmma |-> 0, qfastdeq |-> 0]

KnobNames == DOMAIN KnobDefaults

KnobRanges ==
  [cols_per_warp |-> 1 .. 16, kunroll |-> 1 .. 64, gemv_max_k |-> 0 .. 65536,
   cpa_cols |-> 1 .. 16, cpa_stages |-> 1 .. 16, cpa_vpl |-> 1 .. 8]

Normalized(asked) == [n \in KnobNames |-> IF n \in DOMAIN asked THEN asked[n] ELSE KnobDefaults[n]]

(* Otherwise _normalize_knobs raises.                                      *)
KnobsAccepted(asked) ==
  LET k == Normalized(asked)
  IN  /\ DOMAIN asked \subseteq KnobNames
      /\ \A n \in DOMAIN KnobRanges : k[n] \in KnobRanges[n]
      /\ (k.lb_maxthreads > 0) = (k.lb_minblocks > 0)

-----------------------------------------------------------------------------
(***************************************************************************)
(* The host: bytes of dynamic shared memory, the worst task of each kind.  *)
(***************************************************************************)
WarpCount(threads) == (threads + 31) \div 32
Rounded(K) == 4 * ((K + 3) \div 4)
AtMost(K, cap) == IF K <= cap THEN K ELSE cap
Worst(S) == IF S = {} THEN 0 ELSE Max(S)

QGEMV_SMEM_MAX_K == 16384
SAFE_MAX_TPB == 256

WorstK(tasks, op, qdtypes) == Worst({t.K : t \in {u \in tasks : u.op = op /\ u.qdtype \in qdtypes}})

RingBytes(k, threads) == WarpCount(threads) * k.cpa_stages * k.cpa_cols * (k.cpa_vpl * 32 * 16)

(* Mutant: the ring of a block, without the cache of x in front of it.     *)
GemvRingOnly(k, tasks, threads) ==
  IF k.cpasync = 0 \/ WorstK(tasks, "gemv", {"fp"}) = 0 THEN 0 ELSE RingBytes(k, threads)

(* _gemv_cpasync_smem *)
GemvSmem(k, tasks, threads) ==
  LET K == WorstK(tasks, "gemv", {"fp"})
  IN  IF k.cpasync = 0 \/ K = 0 THEN 0 ELSE Rounded(K) * 4 + RingBytes(k, threads)

(* _qgemv_cpasync_smem *)
QGemvSmem(k, tasks, threads) ==
  LET K == WorstK(tasks, "gemv", {"int8"})
  IN  IF k.qcpasync = 0 \/ K = 0 THEN 0
      ELSE Rounded(AtMost(K, QGEMV_SMEM_MAX_K)) * 4 + RingBytes(k, threads)

(* _gemm_wmma_smem *)
WmmaSmem(k, tasks, threads) ==
  IF k.gemm_wmma = 0 \/ ~ \E t \in tasks : t.op = "gemm" /\ t.qdtype = "fp" THEN 0
  ELSE WarpCount(threads) * (IF k.gemm_wmma >= 2 THEN 3 * 1024 + 1024 ELSE 2048)

AttentionSmem(tasks, threads) == WarpCount(threads) * 2 * WorstK(tasks, "attention", {"fp"}) * 4

QuantCacheSmem(tasks) == AtMost(WorstK(tasks, "gemv", {"int8", "int4"}), QGEMV_SMEM_MAX_K) * 4

(* dyn_smem_bytes: the kinds share the memory, as a block runs one at a time. *)
DynSmem(l) ==
  LET k == Normalized(l.knobs)
  IN  Max({l.smem, AttentionSmem(l.tasks, l.threads), QuantCacheSmem(l.tasks)} \cup
          (IF l.capability < 8 THEN {}
           ELSE {GemvSmem(k, l.tasks, l.threads), QGemvSmem(k, l.tasks, l.threads),
                 WmmaSmem(k, l.tasks, l.threads)}))

(* The launches the constructor does not refuse.                           *)
Loads(l) == KnobsAccepted(l.knobs) /\ l.threads <= SAFE_MAX_TPB /\ DynSmem(l) <= l.cap

-----------------------------------------------------------------------------
(***************************************************************************)
(* The build: the -D flags, and the key under which it is kept.            *)
(***************************************************************************)
Values(k, names) == {<<n, k[n]>> : n \in {m \in names : k[m] # KnobDefaults[m]}}
Switches(k, names) == {<<n, k[n]>> : n \in {m \in names : k[m] # 0}}

Flags(l) ==
  LET k == Normalized(l.knobs)
  IN  Values(k, {"cols_per_warp", "kunroll", "gemv_max_k", "cpa_cols", "cpa_stages", "cpa_vpl", "qc"})
      \cup (IF l.capability >= 8 THEN Switches(k, {"cpasync", "qcpasync", "gemm_wmma"}) ELSE {})
      \cup (IF l.capability >= 6 THEN Switches(k, {"qfastdeq"}) ELSE {})
      \cup (IF k.lb_minblocks > 0 THEN Switches(k, {"lb_maxthreads", "lb_minblocks"}) ELSE {})
      \cup (IF l.scalar THEN {<<"scalar", 1>>} ELSE {})
      \cup (IF l.noinline THEN {<<"noinline", 1>>} ELSE {})

(* _knob_suffix *)
KnobSuffix(k) == Values(k, KnobNames)

Variant(l) == <<l.scalar, KnobSuffix(Normalized(l.knobs)), l.noinline>>

(* What a macro that no flag sets is in ops.cuh; a switch is not defined.  *)
MacroDefaults ==
  [cols_per_warp |-> 1, kunroll |-> 1, gemv_max_k |-> 8192, cpa_cols |-> 2, cpa_stages |-> 4,
   cpa_vpl |-> 1, qc |-> 4]

Macro(flags, n) ==
  IF \E f \in flags : f[1] = n THEN (CHOOSE f \in flags : f[1] = n)[2] ELSE MacroDefaults[n]

Defined(flags, n) == \E f \in flags : f[1] = n

-----------------------------------------------------------------------------
(***************************************************************************)
(* The device: bytes a task addresses in a block of so many threads.  A    *)
(* granule is 16 bytes whatever the type of the weights.                   *)
(***************************************************************************)
Ring(flags, threads) ==
  WarpCount(threads) * Macro(flags, "cpa_stages") * Macro(flags, "cpa_cols") * (32 * Macro(flags, "cpa_vpl") * 16)

ChunkElements(flags, bytesPerElement) == 32 * Macro(flags, "cpa_vpl") * (16 \div bytesPerElement)

(* amk_inst_gemv_tile: the pipelined path, else the register path, whose   *)
(* cache of x is static unless the pipelined path is compiled in.          *)
GemvNeed(t, flags, threads) ==
  IF Defined(flags, "scalar") \/ ~ Defined(flags, "cpasync") \/ ~ t.unitStride THEN 0
  ELSE IF t.K >= ChunkElements(flags, 4) THEN Rounded(t.K) * 4 + Ring(flags, threads)
  ELSE IF t.K <= Macro(flags, "gemv_max_k") THEN t.K * 4
  ELSE 0

(* amk_inst_gemv_tile_quant *)
QuantNeed(t, flags, threads) ==
  IF ~ (t.unitStride /\ t.K <= QGEMV_SMEM_MAX_K) THEN 0
  ELSE IF Defined(flags, "qcpasync") /\ t.qdtype = "int8" /\ t.K % 16 = 0
       THEN Rounded(t.K) * 4 + Ring(flags, threads)
       ELSE t.K * 4

(* amk_gemm_tile_wmma: per warp a ring, or one stage, and the scratch of C. *)
WmmaNeed(t, flags, threads) ==
  IF ~ (Defined(flags, "gemm_wmma") /\ t.M >= 16 /\ t.unitStride /\ t.half) THEN 0
  ELSE WarpCount(threads) * ((IF Macro(flags, "gemm_wmma") >= 2 THEN 3 * 256 * 2 ELSE 256 * 2) * 2 + 256 * 4)

Need(t, flags, threads) ==
  CASE t.op = "gemv" /\ t.qdtype = "fp" -> GemvNeed(t, flags, threads)
    [] t.op = "gemv" /\ t.qdtype # "fp" -> QuantNeed(t, flags, threads)
    [] t.op = "gemm" -> WmmaNeed(t, flags, threads)
    [] t.op = "attention" -> WarpCount(threads) * 2 * t.K * 4

(* Which kernel a task runs in: with a ring of its own kind, or without.   *)
Kernel(t, flags) ==
  CASE t.op = "gemv" /\ t.qdtype = "fp" /\ Defined(flags, "cpasync") -> "fp"
    [] t.op = "gemv" /\ t.qdtype = "int8" /\ Defined(flags, "qcpasync") -> "quant"
    [] t.op = "gemm" /\ Defined(flags, "gemm_wmma") -> "wmma"
    [] OTHER -> "sync"

(* PersistentDecodeVM borrows the tables of a VM with cp.async off; its    *)
(* own kernel is compiled without any flag.                                *)
Borrowed(l) == [l EXCEPT !.knobs = [cpasync |-> 0], !.scalar = FALSE, !.noinline = FALSE]

(* The tasks of a launch that run in kernels of a kind find the memory.    *)
Fits(l, extensions, kind) ==
  Loads(l) =>
    \A flags \in extensions : \A t \in l.tasks :
      Kernel(t, flags) = kind => Need(t, flags, l.threads) <= DynSmem(l)
=============================================================================
