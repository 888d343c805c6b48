# AutoMegaKernel: TLA+ models, checks and proofs

AutoMegaKernel (AMK) compiles a transformer's forward pass into one persistent
GPU kernel. The pass is a DAG of tasks synchronised by counters; a static
validator decides whether a DAG may be loaded, a host loader deals its tasks to
one queue per thread block, and the blocks run their queues, waiting for each
other only through the counters. A CPU oracle executes the same DAG, a second
kernel decodes K tokens in one launch, and a set of tools, one of which runs for
hours unattended, changes the schedule and keeps what is faster. AMK makes two
claims: that a schedule is *statically checked* (one the validator accepts
cannot deadlock and cannot race, whatever an agent made of it), and that the
numbers its campaigns report are *earned* (no latency without correctness, no
best that is not on record). Those claims are what this directory models,
model-checks and, where it can be, proves.

    tlc -workers 2 -config MegakernelVM.cfg MCMegakernelVM     # a run
    tlapm MegakernelVMProofs.tla                               # the proofs of a module

## 1. The system: parts, state, operations

| part | source | state it keeps | operations | hard behaviour |
|---|---|---|---|---|
| Schedule IR, validator | `schedule/ir.py` | none (a program record) | `validate`, `topological_order`, the derived relations | acceptance must imply what concurrent executors rely on |
| Counter simulations | `schedule/ir.py` | counters, done set, written set | `simulate_counters`, `simulate_adversarial` | the verdict must not depend on the firing order |
| Block scheduler and sync | `vm/scheduler.cu`, `vm/sync.cuh`, `vm/abi.h`, `vm/vm_ext.cpp` | counters, abort flag, queue positions | wait, dispatch, fence, signal, trap, barriers, launch | interleaving of blocks, memory order, deadlock, traps, launch timeout |
| Host loader, construction | `vm/loader.py` `__init__`, `_assign_sms`, knobs | topological order, SM of each task, queues, cache of built extensions | validate, sort, size the grid and the shared memory, pick the build, assign, fill | queues on different blocks must agree on one order; two sides compute the shared memory apart |
| Host loader, `run()` | `vm/loader.py` `run` and below | device tables, fingerprint, counters, abort flag | full build, steady state, relaunch | a failed step leaving tables that a later call trusts |
| CPU oracle | `vm/reference_vm.py` | counters, done flags | `run` | termination for any list order; agreement with the device |
| Persistent K-token decode | `vm/scheduler_persist.cu`, `vm/loader_persist.py` | as the scheduler, plus token and position cells, KV rows, tables that outlive a call | K steps in one launch, in-kernel sampling and reset; build, reset, regrid | steps must not overlap; a trap in step k; what a second call starts from |
| Generation loop | `generate.py` | KV tensors, position | one launch per token | KV handed from launch to launch |
| Lowerer | `schedule/lower.py`, `schedule/graph.py` | the program being emitted, maps of buffers and ready edges | one method per graph node | every emitted program must be accepted, cover every column and every key |
| Cost model | `schedule/cost_model.py` | none | longest path with serial queues | predictions rank candidates nobody measures |
| Schedule search | `schedule/search.py` | trials, incumbent | propose, evaluate, measure, keep or revert, top-K pass | predicted and measured scores mixed; a failing measurement |
| Orchestrator | `amk_orchestrate.py` | campaign state file | `record`, `should_move_on`, `next` | a crash between the results log and the state; sticky DONE |
| Autoresearch driver | `autoresearch.py` | incumbent, plateau counter, resident VM | propose, evaluate, keep/revert/crash, basin hop, resume | resume after a crash; what the incumbent is compared with |
| Evaluation harness | `harness.py` | best so far, kept points | `evaluate`, `loop` | no latency without correctness; two bandwidth floors |
| Flywheel log, prior | `flywheel/` | results.tsv, corpus.jsonl | append, read, rank | what later runs start from |
| Kernel search, autotune, compile | `loop1.py`, `vm/autotune.py`, `instructions/gen.py`, `compile.py` | best variant, rows | enumerate, check, time, keep | the same trail written by different tools |
| Device operators | `vm/ops.cuh` | shared-memory rings | one function per opcode | cp.async pipelines; ragged ends |
| Quantiser, forge, benchmarks, CLI, MCP | the rest | none of interest | | numerics, measurement and I/O |

Interaction. The lowerer emits a program; `validate` gates it at the oracle, at
the loader and in the searches; the loader turns it into queues and device
tables and decides how much shared memory a block gets; `amk_launch` starts the
kernel, one block per queue, and blocks until the stream synchronises; the
loader reads the abort flag and either raises or returns the outputs. Blocks
share the counters, the abort flag and the buffers, nothing else. The persistent
kernel runs on tables it borrows from a loader's build. The searches and tools
call lower, validate, the cost model and the executors; the driver reports each
trial to the orchestrator, which writes a row of `results.tsv` and the campaign
state; the harness, Loop 1 and the compile pipeline write the same
`results.tsv`, and a corpus from which later runs take their seeds.

What makes each part correct is stated as properties below (section 3); what is
left out of a part is said in section 8.

## 2. Modules

| module | models | source (under `src/`) |
|---|---|---|
| `Schedule` | program record, dependency graph, `validate()`, launch contract, targets and configuration | `schedule/ir.py`, `vm/abi.h` |
| `TaskGraph` | abstract executor: what any executor promises | contract in `vm/abi.h` |
| `MegakernelVM` | block scheduler, sync primitives, host pass | `vm/scheduler.cu`, `vm/sync.cuh`, `vm/ops.cuh` (dispatch), `vm/vm_ext.cpp`, `vm/loader.py` |
| `Loader` | construction of the queues | `vm/loader.py`, `schedule/ir.py` `topological_order` |
| `DeviceTables` | `run()` and `relaunch()` over many calls: full build, steady state, what a failure leaves behind | `vm/loader.py` |
| `Provisioning` | knobs, shared memory, the extension a launch gets, and what the kernels carve out of it | `vm/loader.py`, `vm/ops.cuh` |
| `GemvPipeline` | one projection tile inside a block, thread by thread | `vm/ops.cuh` |
| `ReferenceVM` | CPU oracle | `vm/reference_vm.py` |
| `Simulators` | the two simulations | `schedule/ir.py` |
| `GreedyDecode` | abstract decoder: what any decoder promises | contract in `generate.py`, `vm/loader_persist.py` |
| `PersistDecode` | both decoders: K steps in one launch, and one launch per token | `vm/scheduler_persist.cu`, `vm/loader_persist.py`, `generate.py` |
| `CostModel` | predicted latency of a program | `schedule/cost_model.py` |
| `Lowering` | graph to program, node by node | `schedule/lower.py`, `schedule/graph.py` |
| `Search` | `search()` | `schedule/search.py` |
| `Campaign` | driver, orchestrator and its commands, over one state file | `autoresearch.py`, `amk_orchestrate.py`, `amk_mcp.py` |
| `Harness` | what an edit may be, the gates, the floors | `harness.py`, `vm/loader.py` |
| `Prior` | corpus records to seeds | `flywheel/prior.py`, `flywheel/log.py` |
| `Tuners` | five tools over one trail | `harness.py`, `loop1.py`, `instructions/gen.py`, `vm/autotune.py`, `compile.py`, `flywheel/log.py` |
| `SamplePrograms` | programs for model checking | |
| `MC...` | an instance for TLC of the module of that name | |
| `ScheduleFacts` | lemmas about programs and their graphs | |
| `MegakernelVMProofs`, `CampaignProofs`, `PersistDecodeProofs` | theorems about the module of that name | |
| `ProgramProofs` | theorems about `Lowering` and `Loader`: a program as it is emitted, and as it is sorted and dealt to the blocks | |
| `FiringLoopProofs` | theorems about `ReferenceVM` and `Simulators`, the two loops that fire tasks on the CPU | |
| `DeviceMemoryProofs` | theorems about `DeviceTables`, `GemvPipeline` and `Provisioning`: what a kernel finds in global and in shared memory | |
| `TunersProofs` | theorems about `Tuners` and `Search`, which try candidates and keep the best | |

Composition. `Schedule` is extended by every module about programs. `Loader`
establishes `LaunchContract(prog, queues)` (`LoadedTablesKeepContract`);
`MegakernelVM` starts from any launch that `Accepted` and `LaunchContract` admit,
so the two meet at a contract and neither needs the other's state. `Lowering`
meets the same contract from the other side: what it emits satisfies the
conjuncts of `Accepted` (`LoweredIsAccepted`), and the hypotheses the theorems
about `MegakernelVM` have besides (`LowerOrdered`). `MegakernelVM` and `ReferenceVM`
both implement `TaskGraph`, which is why the oracle may judge the kernel: they
run the same tasks under the same precedences. `DeviceTables` is the layer
above: it takes a launch as one step that either computes a pass from what the
buffers hold (which `ResultsCompleteHolds` justifies) or fails, and asks whose
buffers those are. `PersistDecode` is the layer above that for decoding: it
takes a task as one step, because waits, fences and races of one pass are the
subject of `MegakernelVM`, and keeps the barriers, which are not. `GemvPipeline`
is the layer below: what a task does between two block barriers, on the shared
memory that `Provisioning` gave it. Modules whose machines are proved about
together (`Simulators` with `ReferenceVM`, `Search` with `Tuners`,
`GemvPipeline` with `DeviceTables`, `Lowering` with `Loader`) do not share
state; one of the two names its variables and formulas apart (`SimSpec`,
`SearchSpec`, `TileSpec`, `LowerSpec`). `Tuners` extends `Prior`, which extends
`Harness`, which extends `Provisioning`: a candidate is judged by the same knob
rules the loader applies.

### How state and actions correspond to the code

*Programs.* A task's id is its list position (`add_task`). Operands are sets,
waits a sequence. A tile keeps `n_off`, `N_tile`, `m_off`, `M_tile`, the
parameters `_write_region` reads. Ids that do not resolve are representable, so
check 1 is not vacuous. `anc[t]`, a bitmask accumulated along the topological
order, is given as the least predecessor-closed set; acyclicity as "no set of
tasks waits only on itself". Both are definitions a prover can use; that Kahn's
loop decides the second is `KahnIsSound`, proved as `KahnSoundness`.

*Kernel.* `pc[b]` is where block b is: `start` and `entry` around the first
`grid.sync`, `wait`, `dispatch`, `fence`, `add` inside the queue loop, `exit` and
`done` around the second. The threads of a block are one actor: thread 0 polls
and signals between `__syncthreads`. A pass of `amk_wait_all` over the counters
is one step although the code reads them one after another: counters only grow
during a launch, so a pass that saw each counter reach its threshold also holds
at its end. Polling the abort flag every 2^n spins is abstracted to "a block
whose counters are not ready may poll". The window from the end of the wait to
the end of `amk_dispatch` (`pc[b] = "dispatch"`) is where a task touches
buffers; a race is two overlapping windows. The release fence is its own step,
and `visible` records whose stores it has ordered.

*Host.* `host` is what `run()` is doing; `CheckAbort` is the check after the
launch, `LaunchTimeout` the driver's kill, `Relaunch` the next `run()`. Only the
steady-state relaunch is modelled here; a full build starts from the same
counters and flag, so the first launch of a behaviour stands for it.

*Loader.* One action per loop iteration: seeding the deque, popping, releasing
one successor, placing one task, filling one queue slot. A job carries
everything the constructor is given, and what the device reports (occupancy).

*Device tables.* Each attribute `run()` keeps is a variable: the persistent
tensors (`bound`), `_keepalive` (`kept`, the build whose references it holds),
`_launch_args` (`args`, with the addresses in the buffer table), `_buf_tensor`
(`outputs`) and `_built_fp` (`built`). They are assigned at different moments of
a build and nothing resets them on failure, which is the point of the module. A
build is named by the number of its call. A cell of device memory is a caller's
tensor or one a build allocated, and holds the name of the tensor whose values
it has; what a pass computes is the contents its kernel read, so a result equals
the expected one only if it was computed from this call's values. Copying and
binding go tensor by tensor, and may raise at each. A shape `copy_` does not
accept is one that differs: broadcasting is not modelled. When `args.gen # kept`
the launched tables are no longer referenced, and the launch may compute
anything. `Torn` names the states in which the attributes belong to different
builds, `Aliased` those in which a persistent tensor is the caller's own.

*Oracle.* A sweep visits one list position per step. The reference operator may
raise; the clock may have run out at the end of any sweep.

*Decoders.* `pc[b]` is where block b of the persistent kernel is: setup, its
queue, sampling and the reset of its share of the counters, a grid barrier
behind each. A barrier is counted, not named (`bar[b]` is how many b has
arrived at), because the device does not name them either: blocks that took
different ways through the loop would meet at different ones, and
`BarriersAligned` says that they do not. `cells` are the token and position
words block 0 rewrites every step, `content` the rows of each cache tensor. What
the instructions compute is left open: `Right(x, s)` is what the eager model has
in buffer x after the tokens s, `Result(t, operands)` what task t makes of its
operands, and a step program is one whose tasks make right outputs of right
operands, over any number of layers with a cache each. Attention reads the rows
`Keys(t, p)` of a program lowered for position p; the persistent kernel, which
runs one program at every position, patches the length of that window and the
row `KV_APPEND` writes, and leaves the start (`KvStart`) where the lowerer put it
(`WindowRows`). Whatever is not right is `Garbage` or a value of the wrong tokens,
and its token is not the model's choice. The host side is one action per
statement that can fail or that matters to the next call: `seed`, the regrid
gate, launch, collection (where a `-1` raises). `generate()` is in the same
module, over the same step program, because both decoders promise the same
thing; a call of either kind may follow a call of either kind.

*Lowering.* One action per node handler: `_op_rmsnorm`, `_op_linear` and so on
allocate the output, wait on the ready edges of what they read, emit tasks under
a new counter and publish the ready edge of the output. A tensor is
`<<layer, name>>`. Tile widths, the SM-count-driven width, batches, the split of
the KV window with its combine task, quantised and tied weights are arithmetic
of the code, kept as it is. `CostModel` is the longest-path table over the result;
latencies are multiplied by `num_sms` so that integers suffice. The loops that
fill a list from front to back (`_waits_for`, the ancestors of the validator, the
finish times) are functions on how far the loop has come, `f[k]` what it has
after k turns.

*One tile.* `th` has a program counter per thread, not per block: between two
barriers of the warp or the block the threads interleave freely. A cp.async copy
is issued, is in flight, and lands in its slot at any moment before the wait
that covers it; `ring` is the slots of shared memory with what they hold, which
after the first round is the chunk of an earlier one. A row stands for one row
of x, on the wmma path for a tile of 16; only a full tile of rows is staged
through the ring (`Staged`). `Provisioning` holds both
computations of the shared memory: what the loader provisions (`DynSmem`) and
what each kernel carves (`Need`), with the macros of the build that
`_EXT_CACHE` has under the launch's key.

*Search.* `trials` is the list of the code; `best` an index; the bar is
`default_score`, which the code captures once. Each proposal is one action, with
any configuration the proposer could return.

*Campaign.* A trial runs through `propose` (evaluate, decide, update the state
in memory), `append` (the row), `write` (temporary file), `replace` (rename) and
`decide` (the stop criteria); the process may be killed or raise at each, each
write may fail, and the next start reads what is on disk. `AgentRecords` is the
command of an agent between runs. The evaluator's reading is chosen anew at each
trial, so drift is included.

*Tools.* `session` is the running tool and what it keeps in memory, `results`
and `corpus` the two files. Every row and every point is one append, and a kill
is possible between any two. A candidate is a schedule with its knobs; a row
keeps the fields the tool writes, which is how what a row loses is visible.

*Seeds.* `warm_start_combined` is a function of the corpus. Its lists are given by
the places of the records: the pool is a set of places, the key of the sort and
its stability an order on them (`Before`), the loop with `seen` the places whose
edit is not spelt like one before (`Unseen`), the first k of which become seeds.

## 3. Runs

| run | bounds | shows |
|---|---|---|
| `kernel` | ten accepted shapes of 2 to 4 tasks (plus those the checks must filter out), every layout over 2 and over 3 queues that keeps the contract, 2 launches | reads settled; no data race; no circular wait; results complete; every launch ends; refinement of `TaskGraph` |
| `loader` | all 512 graphs on 3 tasks, all pinnings of 3 programs with both assignment modes, all 4^4 costs of 4 tasks on 2 or 3 SMs, refused configurations | Kahn's loop is sound; tables keep the contract; cost balance; construction ends |
| `tables` | 3 calls (and any relaunches) of 10 requests over 8 tensors, two inputs and one KV cache; a failure at any step | unless `Torn` or `Aliased`, a result is the forward of this call's tensors; a steady-state call never fails in its copies |
| `oracle` | every order of every sample program's list, accepted, rejected and deadlocking ones, 2 runs | reads settled; the watchdog reports only tasks nobody could run; the run ends; refinement of `TaskGraph` |
| `simulators` | sample programs, rejected ones too, counter graphs of 3 tasks with thresholds 0 to 3, counters preset to 0 or 1 | the verdict is independent of the order; an accepted program is never stuck; only in-place reads are flagged |
| `persist` | a decode step of two layers in 9 tasks (a residual, two tiles of logits), a grid of 3 blocks that the launches regrid to 2, caches of 3 rows, 2 prompts, 1 or 2 tokens, 2 calls, a trap in any task, a failure of any host step | barriers aligned; steps isolated; calls end; both decoders implement `GreedyDecode` |
| `persist_on_device` | as `persist`, no regrid, caches on the device, 3 calls | violation: a call does not start from its own prompt's cache |
| `lowering` | 0 to 2 layers, batches, positions up to a window of 8 keys, partitions, SM counts, tile widths from -1 to 8 and automatic, quantised subsets, zero points, tied embeddings | ready edges mean written; every program is accepted; shards cover the window; predictions stay in bounds |
| `gemv` | up to 4 threads (2 warps of 2 lanes), K shorter than, equal to and longer than the ring, ragged ends, 1 to 3 slots, batches, full and short tiles of rows, short tiles of columns; and the launches and builds of a process | stored values are the dot products; the tile is complete; shared memory suffices; no deadlock |
| `search` | 4 configurations, one invalid start, measurements in {80, 95, 120} or failing, budgets {1, 3, 4}, top-K {0, 1, 2}, with and without a clock | the least score is returned, or nothing if nothing validates |
| `campaign` | 2 campaigns on one state path, 4 candidates (default, seed, one rejected, one wrong), readings {300, 430, 500} around the floor 398, 3 experiments, 2 starts, 1 row the disk refused | the best is honest; every experiment is logged; the resident VM is the one reported; progress is durable |
| `tuners` | 2 sessions of any of the five tools, a budget of 3, 4 rows, readings {300, 450, 503}, edits refused in every way the code refuses one, 3 variants, 2 grid points, a corpus with old records, k = 3 seeds for a shape with records of its own and for one beyond the radius | the trail is the run; latencies are earned; points have receipts; nothing faster is left; seeds are sound |

*Why the bounds are enough.* The kernel hazards need: a producer and a consumer
on different blocks, a task two edges away from its ancestor, two writers of a
buffer with and without a common counter, a join of two, an in-place rewrite,
two independent chains crossing two queues in opposite order (the smallest
circular wait), a trap before a waiting consumer, and a second launch. The
sample programs contain each, with two and three blocks and all layouts;
rejected variants of them (`PartialJoin`, `StaleKv`, `UnorderedWriters`,
overlapping tiles, too many waits, a cycle) are in the constants so that a
validator check that goes missing lets them in and a property fails. The
theorems then drop the bounds. For `tables`, a reuse needs two calls, and every
history that matters (a good build, a failed or different one, a reuse of the
first) needs three; the requests differ in each thing the fingerprint looks at
and in the values it does not.

For `persist`, two steps are the least in which one can leak into the next, two
calls the least in which one can leak into the next, and two layers the least in
which a key is made of what was attended before. The second prompt is longer than the
position the program was lowered for and as long as the cache, so that every
patch counts and `generate()` rejects two more tokens. For `gemv`, the ring wraps
(K longer than the slots), ends in a partial chunk and is shorter than its
prologue; two lanes and two warps suffice for the warp barrier and the block
barrier to matter separately. For `lowering`, every division in the code leaves and does not leave a rest. For `campaign`, a resume
needs two starts, a basin hop one experiment without gain (`RestartAfter` = 1),
and the three readings lie below the floor, near it and far above it. For
`tuners`, two sessions are the least in which one tool reads what another wrote,
and the readings lie below the floor (400), between it and the sustained floor
(491), and above both. k is the default of the code; it takes three seeds for one
of them to come back (two edits that are spelt differently and mean the same),
which is why the order in `SeedsAreSound` is up to such a repetition.

*Deadlock checking* is on in `gemv`, where a finished tile loops in `Terminated`.
It is off elsewhere: every behaviour of those components ends (a bounded number
of launches, one construction, a simulation, a budget). That a kernel does not
stop early is `SomeBlockCanMove`, `LaunchEnds` and `CallEnds`.

*Fairness.* `MegakernelVM` and `PersistDecode`: weak fairness of each block,
because a cooperative launch keeps every block resident and the hardware
scheduler runs resident blocks (`abi.h`: "all blocks are co-resident and make
forward progress"), and of the host's next statement (`CheckAbort`, `HostStep`),
because the host thread waits in `cudaStreamSynchronize` and then goes on. No
fairness for timeouts, failures or further calls. `Loader` and `ReferenceVM`:
weak fairness of the whole (sequential) step, that is, the caller's thread runs.
The other modules have no liveness property: a campaign may be killed for good.

## 4. What is proved

TLAPS proves the following for every value of the constants: any programs, any
number of blocks, tasks, counters, launches, tokens, experiments and restarts.

| theorem | says |
|---|---|
| `TypeCorrect`, `CountersCorrect`, `OrderedExecutionHolds`, `ReadsSettledHolds`, `RaceFreedom`, `DeadlockFreedom`, `ResultsCompleteHolds`, `Refinement` | the safety properties of run `kernel`, its types, and the two facts they rest on (counters count retired producers; ancestors retire first) |
| `LoaderTypes`, `KahnSoundness`, `LoadedTablesContract`, `LoadsBalanced` | the safety properties of run `loader` and its types |
| `LowerReady`, `LowerAttends`, `LowerAccepted`, `PredictionBounds` | all four properties of run `lowering`, for any layers, dimensions, batch, position, tile width, number of SMs, split and set of quantised weights; the last one for any durations of the tasks |
| `LowerOrdered` | every lowered program is `Accepted`, `ColumnTiled` and `FreshCounters`, and its reads and writes are ordered even above `PROVENANCE_MAX_TASKS` and with zero points: the hypotheses of `RaceFreedom`, `DeadlockFreedom`, `OracleReadsSettled` and `AcceptedFires` hold of what `lower()` returns |
| `DeviceTypes`, `ResultsFresh`, `CopiesFit` | the properties of run `tables` and its types, for any buffers, tensors, requests and number of calls |
| `OracleTypes`, `WatchdogSilent`, `WatchdogExact`, `OracleReadsSettled`, `OracleRefinement` | the safety properties of run `oracle` and its types; the last two assume that counters start at 0 |
| `SimulatorTypes`, `StuckUnavoidable`, `AcceptedFires`, `OnlyInPlaceReadsFlagged` | the properties of run `simulators` and its types |
| `CampaignTypes`, `IncumbentReported`, `BestHonest`, `Durable`, `Logged` | all four properties of run `campaign` and its types, for any number of campaigns, candidates, processes and kills |
| `BlocksAligned`, `OneStepAtATime` | `BarriersAligned` of run `persist`, and that no two blocks work on the queues of different decode steps, for any grid, step program and number of tokens |
| `StepsAreIsolated` | `StepIsolation` of run `persist`: a running task sees the token, the position and the counts of its own step, under the same generality, traps included |
| `DecodersAreGreedy` | `ImplementsGreedyDecode` of run `persist`: `decode()` and `generate()` both implement `GreedyDecode`, for any decode step of any number of layers, grid, prompt and length, if attention is one task over the whole window (`Unsplit`) and the caches are copied (`~ Resident`) |
| `StoresAreDots`, `TilesAreComplete`, `MemorySuffices` | the three properties of run `gemv`: any number of warps, lanes and ring slots, any K and tile; any knobs, tasks and block size |
| `ResultsTellTheRun`, `LatenciesAreEarned`, `EveryPointHasReceipt`, `BestIsReturned`, `WarmStartsAreSound` | the five properties of run `tuners`, for any variants, grids, edits, clock, sessions and rows; the last for any radius, k and corpus whose distances and percentages are numbers |
| `SearchReturnsTheLeast` | the property of run `search`, for any configurations, cost model, budget, clock and failures |

Assumptions: the named ASSUMEs of the modules, all of which TLC evaluates on the
instances. Most say that constants are well-formed records. Those that say more:

- `CampaignAssumption`: a campaign's default candidate validates and is correct,
  and its three bandwidth bounds are ordered as the code computes them;
  `MarksAssumption`: "none" and "corrupt" are neither a state nor a trial.
- `DecodeAssumption` (`PersistDecode`): `Wide` and `Narrow` are queues of one
  accepted step program that keep the launch contract, as `LoadedTablesContract`
  shows of the loader's. `StepAssumption`: each task of that program, given the
  right operands, computes the right outputs, and a `KV_APPEND` copies the right
  row (`ComputesRight`, `AppendsRight`); what a task reads is covered by the tiles
  of others, an attention task reads keys up to the position. Nothing is said
  of how many layers there are or what they compute. `ModelAssumption`: the
  model's choice is a token. `Decode` starts a call that builds tables only with
  a program lowered for its first position, as the docstring of the class asks.
  `DecodersAreGreedy` has two hypotheses besides, `Unsplit` and `~ Resident`;
  findings 1 and 2 are what happens without them. `BlocksAligned` and
  `StepsAreIsolated` use none of these.
- `TunersAssumption`: the shipped corpus is a sequence of records, and the
  default configuration passes. `PriorAssumption`: the radius is a natural, and k
  at least 1 (for k = 0 the code returns one seed). `SearchAssumption`: scores are
  naturals, which is what they are compared as.
- `LimitsAssumption`: the constants of the lowerer are positive, a combine task
  may have `ATTN_PMAX` operands and waits, and any task three waits: `abi.h` has 8
  of each, `_ATTN_PMAX` is 8. `NoneAssumption`: "no residual" is not a tensor.
- `PredictionBounds` and `WarmStartsAreSound` say in their statements what has to be
  a number (`TimesAreNatural`, `Ranked`); it holds in every state of the runs.
- `TilesAssumption`, `RunAssumption`: a block has a warp, a warp a lane, the
  ring a slot, no axis is empty. `PathsAssumption`: which caller uses which
  path, the fp ring for one row only (finding 14). `LaunchesAssumption`: knobs
  are ints, as `_build_extension` makes them; attention carries no `qdtype`; a
  weight of halves is not quantised.

*Kernel.* The inductive invariant `IInv` conjoins types, `CountersCountRetired`,
"what retired was fenced", `OrderedExecution` extended to retired tasks, and the
facts about traps that `ResultsComplete` needs. None of the properties is
inductive alone: that a wait implies its producers retired needs the counter to
count exactly the retired producers *and* the validator's join rule
(`WaitsAreJoins`: threshold = number of producers), lemma by lemma. From
`OrderedExecution`, `RaceFreedom` follows by cases on who writes: a writer and a
reader are ordered by `ReadsOrdered`, two writers are ordered or disjoint by
`WritesOrdered`, and two tasks that compute at once cannot be ordered.
`DeadlockFreedom` takes the set of unfinished tasks and applies the launch
contract to it: some member waits neither for a counter nor for a turn, so its
block can move.

*Loader.* The invariant of Kahn's loop says that `indeg[t]` is the number of
unpopped predecessors (with the successors the cursor has passed already
discounted), that the deque holds exactly the unpopped tasks with none left, and
that each task was popped after its predecessors. If the loop stops short, the
unpopped tasks are a set without a source. Balance is the invariant that every
SM's load, less one of the tasks it holds, is at most every other SM's: placing
on the least loaded SM keeps it.

*Lowering.* `LowerInv` says of the builder's state before each node (`LoweredTo`)
that its maps are of the program built so far, one buffer per tensor (`Built`),
that every edge is whole (`EdgesWhole`), that the outputs of the nodes before
have buffers, and that every attention tile reads the operands of *one* of them,
each of which is attended. A new task takes a counter no edge has and writes a
buffer nothing wrote, so old edges stay whole (`EdgeKept`); that the output is
new is where the graph comes in: no two nodes write one tensor (`OutputsApart`),
by their places in the layers. That an attention node's tiles are its own, and a
later node's do not join them, is that two nodes do not share a query
(`QueriesApart`). `TilesCover` and `ShardsSplit` are the arithmetic, both from
one lemma: steps of one width from 0, the last one cut short, partition an
interval (`SpansPartition`). Shards are given SMs modulo their number, which
keeps them apart because there are no more shards than SMs (`PartsAre`), and
tiles obey `_MAX_TILES` because the width is raised until they do (`TileWidths`).
The code's loop over the shards is written as functions on the shards' numbers,
because a fold could not be reasoned about; each iteration allocates one buffer
and one counter, so the numbers are the loop's.

`LoweredIsAccepted` needs more: `AcceptInv` adds `Sound`, what the validator's checks
say of each task of the program so far, and `Known`, what the builder's maps
promise to the handlers to come. The point is `OperandsSound`, a part of `Sound`: the
other writers of what a task reads are its *direct* predecessors, producers of a
counter it waits on. That a handler cannot forget one is `Known`: a tensor of an
earlier node has a ready edge, and `_waits_for` puts the ready edge of everything
a node reads into its waits (`WaitsForIs`). A later node adds tasks that write
no old buffer and count in no old counter (`Extended`), so what was sound stays
sound. Direct predecessors are ancestors in any table, whether `validate()` builds
it or not, which is why nothing depends on the size of the program and
`LowerOrdered` has no cap.

`PredictionBounds` follows from `Pred(p, t)` lying before t in the list: by induction
along it, a finish time is at most the sum of the tasks so far and at least that
of each predecessor plus its own. An induction over a list is written out here
and in the lemmas on `_waits_for` and the ancestors: the function on prefixes
exists (`Counted`, induction on 0 .. n from the least natural number of a set),
and what it holds after k turns follows from k - 1.

*Device tables.* The result is a fact about the present call, the tables one
about some earlier call; what joins them is `Whole`: while the attributes are of
one build, that build was made for *some* request of the recorded fingerprint,
each tensor it bound has that request's shape, and a cache that request did not
pass still holds zeros. Equal fingerprints pass the same names with the same
shapes (`FingerprintFacts`), so the present request fits those tensors
(`SameFingerprintFits`, hence `CopiesFit`). `Copying` then says that the tensors
before the cursor hold this call's values; that the next copy disturbs none of
them, nor its own source, is where `~ Aliased` is used, and that an omitted
cache is still zero is where the KV part of the fingerprint is. `Ages` orders
the builds by number, so a build under way cannot be taken for a finished one.

*Oracle.* A sweep without progress found no ready task behind its cursor, so at
the end of the list none is ready at all. Because counters count the tasks that
are done, each stuck task then has a wait its remaining producers cannot meet
(`WatchdogExact`, for any program); on an accepted program some undone task has
all its predecessors done and would be ready (`WatchdogSilent`).

*Simulations.* `simulate_adversarial` also reports the in-place KV append of
every decode program, which is no race; `OnlyInPlaceReadsFlagged` proves that
there are no other false reports. The invariant is confluence: no member of a
set that is blocked from the outset has fired.

*Persistent decode.* Where a block stands and how many barriers it has arrived
at determine each other (`Place`), counts differ by at most one (`Apart`), and
the abort flag does not change while any block may still read it to decide
whether to leave the loop (`FlagKnown`). The last is the point: the flag can
only be set by a task of a queue, and every block that reads it is behind a
barrier that every queue has passed. Equal counts then mean equal lines, and
two blocks inside queues have equal counts, hence equal steps (`PInv`).

`StepIsolation` needs the reset: each block zeroes its share of the counters
between two barriers, so there is no moment at which all of them change. `SInv`
says of each counter separately that from the reset by its owner (`Active` of
the owner) to the next it counts the producers that retired in the owner's step
(`Counted`), and of the cells that block 0 has published those of its step. For
a reader to be behind the owner's reset and ahead of the next is what `PInv`
gives.

`ImplementsGreedyDecode` adds `DInv`: the cache rows before the current position
are those of the tokens fed so far (`Caches`, over launches, kept caches,
regrids and the loop of `generate()`), what has retired is closed under
predecessors (`Ordered`), and each task that has retired stored what the model
has in its outputs after the tokens of this step (`RightValues`). A task that
computes has its predecessors behind it, so its operands are right and, by
`StepAssumption`, its outputs are. Then the logits a sample reads are the
model's, and each step of either decoder is a step of `GreedyDecode` or a
stutter. `Caches` is where `~ Resident` is used; that the patched window is the
one the step asks for (`WindowIsRight`) is where `Unsplit` is.

*One tile.* `TileInv` has a part for each thing the columns depend on: which runs
a warp works on (`Turns`), that with a shared cache the block is on one row
(`InStep`), that a thread past its share has cached it (`ShareCached`), what is
in the slots and in the accumulator (`Pipelines`), where a thread has ended
(`Ended`), and what is stored (`Stored`: exactly the columns behind their warp,
with every lane's share of the products). A value is right only if the cached
row is right, and the whole row is only cached because *all* threads are past
their share (`RowCached`, from `ShareCached` and `InStep`). That a slot still
holds its chunk when it is consumed is arithmetic: fewer than `STAGES` chunks are
in flight, and numbers less than `STAGES` apart have different remainders
(`FlightFits`, `RemaindersApart`). The copies of a warp's other lanes are in
slots of their own, and the lanes agree on row and run when they reduce
(`LanesAgree`). `DotIsDot` then says that the lanes' shares partition K, the
ragged end included; `PastTheEnd`, that a warp beyond the tile has every run of
its residue behind it.

*Shared memory.* The loader takes maxima over tasks and sums over what a build
may use, the device adds up what one kernel does use. `NeedFits` compares them
kernel by kernel; it needs the macros of the build to be those of the launch's
own knobs, and since a process may find an extension built for another launch,
that equal keys of `_EXT_CACHE` mean equal macros (`VariantFlags`), also for the
knobs the persistent loader borrows (`BorrowedIsAsked`).

*Tools.* `Shape` and `LastKept` say what a running tool remembers; `Trail` that
the rows it has written are its trials, in order, whatever an earlier tool left
in the file (`TrailIsTheRun`). `EarnedTrials` and `EarnedRows` follow a latency
from the verdict to the row. `Receipts` says of each point of the corpus that a
kept row stands behind it, which is preserved because rows are only appended and
the row is written before the point (`KeptPassed`). `Bar`: what a tool has timed
does not beat its best by the tool's own rule. The rule of
`tune_instruction` (one percent) is not an order, but a bar only moves down, so what did not beat the
old one does not beat the new one (`BarMovesDown`).

*Seeds.* The order of the sort is a strict one on the places of the pool, because
distances and percentages are numbers (`BeforeIsOrder`), so every place of a
finite set has a rank of its own and the ranks are 1 .. n (`InOrderIs`, by
counting). A record that is no seed either was spelt first by a place before it
(`FirstSpelling`) that came too late, behind k seeds that are no worse
(`SeedsSound`). The radius compares the distance itself and the sort its rounding
to three decimals, so the two are kept apart (`Distance`, `InThousandths`). The property was first
stated with "an earlier seed is as good or the same": the proof fails when A, B
and A again are the seeds, and with k = 3 TLC finds the corpus. The code does
return such seeds (finding 22), so the statement was wrong and now names them.

*Search.* Until the top-K measurements change scores, the best is the least of
the valid trials (`Least`); while they change it, `BestIsLeast` keeps only that
the best is a valid, marked trial if there is one; `Repick` makes it the least
again.

*Campaign.* `CInv` conjoins types, `OneIncumbent` (the resident VM is the
configuration reported, and only the GPU evaluator has one), `HonestStates` (the
run's best and the best of the state in memory and on disk are honest) and
`AheadOfFile` (the file is never corrupt, the state in memory is `NoWorse` than
it, and what is about to be renamed is that state). `Durable`
follows because the file only changes to a state in memory; `Logged` needs
`LoggedSoFar` besides: the rows reach up to the experiment the state in memory
counts, except the one being appended.

## 5. What is only model-checked

- Liveness (`LaunchEnds`, `LoadEnds`, `RunEnds`, `CallEnds`): fairness and ENABLED
  are beyond the prover.
- That a constant of an instance satisfies its ASSUME. Two theorems have a hypothesis
  about the state (`Ranked`, `TimesAreNatural`), and those about the device tables
  exclude the states named `Torn` and `Aliased`; each exclusion is a part of the
  theorem's statement, not something it shows.

Induction over data needs an induction theorem with an operator parameter, which
the provers cannot instantiate; where a theorem depends on what a loop computes
the induction is proved by hand, on the numbers of its turns.

Everything else the runs check is proved as well. The type invariants that are
proved are not repeated as invariants of the runs; those of `PersistDecode` and
`Search` are stated in the modules, hold on the instances (add `TypeOK` to the
configuration) and are not proved as they stand: the invariants of their proofs
have types of their own (`Shapes`, `Session`, `TrialsTyped`), without the order
of the sorted top-K list.

## 6. Where code and documents disagree

The first disagreement has a run that expects a violation, with the quotation in
`PROJECT.json`:

1. *Caches that stay on the device* (run `persist_on_device`,
   `vm/loader_persist.py:178`). `decode()` restores the prefill by copying the
   caller's cache into the persistent tensor; the build binds the caller's own
   tensor when it is on the device already (`vm/loader.py:647`). After
   `decode(A)`, `decode(B)`, the next `decode(A)` copies a tensor that B's
   prefill overwrote onto itself. The comment at line 162 says that each decode
   starts from the clean prefill.

The others were met while modelling. Where a property would be false because of
one, its statement excludes exactly those states, as said here.

*Split attention*

2. The persistent kernel sets `kv_len = abs_pos + 1` on every `ATTENTION_TILE` and
   leaves `kv_start` (`vm/scheduler_persist.cu:152`). Where `lower.py` (489-514) splits
   the window, each shard has its own start and length; patched, the shards
   attend to windows that overlap and run past the rows written so far.
   `loader_persist.py:24` says that the tokens are "token-for-token identical to
   the baseline", and nothing refuses such a program. The model patches as the
   kernel does; `ShardsMispatched` proves that a shard with a start other than 0
   never attends to the keys it should, and `DecodersAreGreedy` has the hypothesis
   `Unsplit` (`lower.py` splits only where `n_partitions` asks for it).

*Validator and executors*

3. Row tiles (`schedule/ir.py:1009`, `vm/ops.cuh:1082`): the validator treats GEMM
   tiles with disjoint `m_off` ranges as disjoint; the kernel and the oracle
   ignore `m_off`. `RaceFree` and `RaceFreedom` carry the hypothesis
   `ColumnTiled`, which `LoweredIsAccepted` shows of every lowered program.
4. Read-only buffers (`schedule/ir.py:1004`): "not written by the schedule" is
   assumed, not checked. `LoweredIsAccepted` shows it of every lowered program.
5. Queue order (`schedule/ir.py:1059`, `vm/loader.py:621`): check 6 assumes list
   order, the loader uses topological order. The loader is right either way
   (`LoadedTablesKeepContract`).
6. `Counter.init` (`vm/reference_vm.py:101`): never checked, honoured by the oracle
   and the simulations, ignored by the device. With a preset counter the oracle
   runs a consumer before its producer; `ReadsSettled` and `ImplementsTaskGraph`
   of the oracle are about programs whose counters start at 0.
7. `simulate_adversarial` reports the in-place KV append of every decode program
   as a hazard (`FlagsOnlyInPlace`).
8. Above `PROVENANCE_MAX_TASKS` tasks the data-hazard checks are skipped and the
   program is accepted (`schedule/ir.py:957`); `RaceFree` carries the bound. Lowered
   programs do not need it (`LowerOrdered`).

*Device tables*

9. A build that fails leaves the fingerprint of the build before in place
   (`vm/loader.py:731`, `865`, `889`). If it raised while binding, it has dropped
   the persistent tensors and the references to the tables that the next call of
   the old fingerprint copies to and launches; if its launch failed, that call
   launches the new tables and reads the old outputs. `ForwardOfThisCall` and
   `ResultsFresh` therefore exclude `Torn`.
10. Tensors already on the device are bound, not copied (`vm/loader.py:644`, `697`):
    the next call overwrites the first caller's tensors, and its own when they
    are the same. The theorem excludes `Aliased`; finding 1 is what it does to
    the persistent decoder.

*Persistent decode*

11. `decode()` does not check `base_pos + K <= max_seq`, as `generate()` does; a
    regrid with the caches omitted zeroes them, against the docstring at
    150-151; `loader_persist.py` passes `base_vm.num_sms` where the grid is meant;
    the abort flag is not checked after a persistent launch, only the `-1`
    tokens are (262-263).

*Lowering, cost model, kernels*

12. Asymmetric quantisation never validates: its GEMV tiles have four operands
    (`schedule/lower.py:243`), `OP_REGISTRY` allows three (`schedule/ir.py:198`), and
    the docstring at `lower.py:587` promises a program that passes.
    `LoweredIsAccepted` excludes these requests.
13. `cost_model.py:462` applies the work bound only if no task is pinned; the
    comment at 460-461 says otherwise. `PredictionInBounds` checks it for
    programs without pins.
14. The fp cp.async kernel caches row 0 of x for every row; the comment says
    "M==1 decode", and nothing checks it. `PathsAssumption` of `GemvPipeline`
    takes the comment's word. The comment at `ops.cuh` 714-718 speaks of memory
    that was not provisioned, without a check; `SmemSuffices` shows that the
    loader provisions enough for the operators modelled. `FUSED` tasks are not
    provisioned for and trap in cp.async builds, so the residual of the cp.async
    kernel (951-975) is always absent and `GemvPipeline` has none; `lower.py` emits no
    `FUSED` task. In other builds a `FUSED` GEMV_ADD with a quantised weight drops
    the residual (`ops.cuh` 1809-1821).
15. `_EXT_CACHE` has no compute capability in its key; one process on two kinds
    of device would reuse a build. `SmemSuffices` is about one device.

*Search*

16. `search()` captures `default_score` before the top-K measurement
    (`schedule/search.py:351`, `405-410`) where its docstring (275-277) compares with the
    default's score; `ReturnsTheLeast` has the clause "as long as the bar is
    still the score of the default". A predicted candidate that was never
    measured can replace a measured best (264-269).

*Campaign*

17. `campaign_plateau`'s `continue` (`autoresearch.py:729`, `740`) skips the stop
    check, against the comment at 845-846 (not modelled). The baseline is the
    first recorded PASS, not the default (`amk_orchestrate.py:192`). A row that is
    appended before a save that is lost gets its number twice. Predicted and
    measured latencies compete for one best. Crashes do not count toward a basin hop;
    DONE is never taken back; `record` and `next` ignore `--model` and `--gpu`
    when a state file exists. After a resume with a drifting clock, the driver
    may report a best worse than the state's; the state's is never lost
    (`Durable`).

*Harness, tools, flywheel*

18. `HARNESS.md` section 5: "A GPU mismatch never produces a latency". On a
    mismatch `harness.py` (487-500) falls back to the predicted latency, PASS, and
    may keep it. `LatencyEarned` therefore speaks of the candidate's
    correctness against the oracle, and of measured latencies from loadable
    kernels.
19. The keep rule's tie-break is not transitive (500, 505, 510 may follow one
    another), and an exact 1 % gain is rejected. `amk_compile` has no floor; a
    prediction below the bandwidth bound ranks first among the seeds.
20. `log.py:33` promises a latency in PASS rows; `gen._eval_variant` sets
    correctness before the bench, so a failed bench leaves a PASS row without
    one, and rows with predictions are written as well.
    `pct_of_roofline` of Loop 1 is the inverse of the harness's in the same
    column (`log.py:34`). `gen.tune` writes all its rows at the end: a kill loses
    the session's trail. Two processes that find no file both write the header.
21. The harness accepts up to 1024 threads ("mirror vm/loader.py",
    `harness.py:221`), the loader refuses more than 256; such candidates, and rings
    beyond the cap, get a predicted latency. Kernel knobs are unconstrained in
    the harness and constrained in `autoresearch._norm_knobs`. The description
    of `N_tile` says its default is 256 (`harness.py:269`), `default_config` has 64.
22. `warm_start` drops the knobs, so a configuration comes back several times;
    `warm_start_combined` compares raw records, so explicit default knobs and
    none are different seeds, and one candidate may take two of the k places. A
    seed keeps knobs nobody knows, which `autoresearch._norm_knobs` drops (672).
    The docstrings (`prior.py:228`, `306`) call the seeds "best-first" by
    `pct_of_roofline`, which decides among equally near shapes only (316). `autotune`'s baseline is its first passing point
    (comment at `autotune.py:119`); `tune_instruction` has no baseline if variant 0
    fails. The comment at `vm/loader.py:180` gives ring defaults that are not the
    code's.

## 7. Plan

Done: every module of section 2; theorems for every safety property of the runs.

Next, most important first:

1. The decode step of `PersistDecode` from the lowerer: that a lowered graph
   has the shape `StepAssumption` asks for (what is read is covered, each cache has
   a `KV_APPEND` ready before its readers), as `LowerOrdered` shows it to satisfy
   `Accepted`.
2. `campaign_plateau`, and a command of the orchestrator concurrent with a
   running driver (a lost update of the state file).
3. Checks 5b and 7 of the validator (on-chip placement, page aliasing).

## 8. Not modelled, and why

- Numerics: the values operators compute, packing of quantised weights, the
  roofline time of a task, the learned ranker, perplexity. What a wrong value
  would do to a decision is modelled (`Correct`, `Wrong`, readings of a clock).
- Measurement and I/O: benchmarks and baselines of other frameworks, the forge
  profiler and advisor, reports, artifact emission, argument parsing. No state
  of theirs outlives a call, and nothing branches on it.
- The torch importer's recognition of a module's parts is string matching; the
  graph it produces is modelled in `Lowering`. The LLM proposer's prompt and
  parsing: its proposals are arbitrary candidates.
- `campaign_plateau`, and two processes writing one campaign state at a time:
  the code has no lock and claims none; processes in `Campaign` follow one
  another.
- `flywheel`'s `record_datacenter` replays recorded numbers through the two
  appends that are modelled.
- Of the validator: parameter types, which do not bear on ordering; on-chip
  buffers and pages, which no program the lowerer emits uses (planned).
- Memory-model subtleties below the granularity of "fence, then increment" are
  taken from `abi.h`, which calls the pair a release/acquire pair on the
  supported architectures.
- `dynamism/` is a package without code.
