---------------------------- MODULE PersistDecode ----------------------------
(***************************************************************************)
(* Multi-token decoding, both ways the code does it: generate() of         *)
(* generate.py launches once per token and threads the KV cache through    *)
(* the host; PersistentDecodeVM.decode (vm/loader_persist.py) runs K steps *)
(* inside one cooperative launch of vm/scheduler_persist.cu, over tables   *)
(* and a cache that outlive the call.                                      *)
(*                                                                         *)
(* In the launch every block runs, step after step, setup (A), its queue   *)
(* of the step's task graph (B), sampling (C) and the reset of the         *)
(* counters (D), with a grid barrier behind each.  A barrier is counted,   *)
(* not named: blocks that took different ways through the loop would meet  *)
(* at different ones, as they would on the device.                         *)
(*                                                                         *)
(* What the instructions compute is left open: Result gives a task's       *)
(* output from its operands, Right what the eager model has in a buffer    *)
(* after a sequence of tokens, and a step program is one whose tasks,      *)
(* given the right operands, compute the right outputs, over any number    *)
(* of layers.  One launch's waits, fences and races are the subject of     *)
(* MegakernelVM; here a task computes in one step.                         *)
(***************************************************************************)
EXTENDS Schedule

CONSTANTS
  Tokens,
  Right(_, _),    \* what the eager model has in a buffer after a sequence of tokens
  Argmax(_),      \* the token a row of logits favours
  Result(_, _),   \* what a task computes from its operands
  Keys(_, _),     \* positions a task attends to in a program lowered for a position
  LoweredAt,      \* the position StepProgram was lowered for
  TokenCell, PosCell,   \* the IO_INPUT buffers the loop drives, found by their names
  Garbage,        \* a value or token id nobody may rely on
  Nothing,        \* the -1 that `generated` is filled with
  MaxSeq,         \* rows of the cache (config.max_seq)
  StepProgram,    \* the per-step decode program
  Wide, Narrow,   \* its queues on base_vm's grid and on the persistent kernel's
  Regrids,        \* the persistent kernel's occupancy is the lower one
  Resident,       \* the caller's caches are on the device already
  Prompts,        \* prompts the caller prefilled a cache for
  Lengths,        \* numbers of tokens asked for
  MaxCalls        \* bound on the calls of one behaviour

ASSUME DecodeAssumption ==
  /\ IsProgram(StepProgram) /\ Accepted(StepProgram)
  /\ DOMAIN StepProgram.counters \subseteq Nat
  /\ \A queues \in {Wide, Narrow} :
       /\ IsFiniteSet(DOMAIN queues) /\ DOMAIN queues # {}
       /\ DOMAIN queues = 0 .. Cardinality(DOMAIN queues) - 1
       /\ \A b \in DOMAIN queues : queues[b] \in Seq(TaskIds(StepProgram))
       /\ LaunchContract(StepProgram, queues)
  /\ DOMAIN Narrow \subseteq DOMAIN Wide
  /\ Prompts \subseteq Seq(Tokens) \ {<<>>} /\ Lengths \subseteq Nat \ {0}
  /\ Garbage \notin Tokens /\ Nothing \notin Tokens \cup {Garbage}
  /\ MaxSeq \in Nat /\ LoweredAt \in 0 .. MaxSeq - 1 /\ MaxCalls \in Nat
  /\ Cols # {}

(* Where a step leaves its logits, and the key and value caches.           *)
LogitsBuffer == CHOOSE x \in DOMAIN StepProgram.buffers : StepProgram.buffers[x] = "IO_OUTPUT"
KVCaches == {x \in DOMAIN StepProgram.buffers : StepProgram.buffers[x] = "KV_CACHE"}

Last(s) == s[Len(s)]

(* What the cache can hold; the model's choice after it is a token.        *)
Contexts == UNION {[1 .. k -> Tokens] : k \in 1 .. MaxSeq}
NextToken(s) == Argmax(Right(LogitsBuffer, s))

ASSUME ModelAssumption == \A s \in Contexts : NextToken(s) \in Tokens

(* The row of every cache at a position, by the tokens up to it.           *)
KVRow(s) == [x \in KVCaches |-> Right(x, s)]
NoRow == [x \in KVCaches |-> Garbage]

(* What task t computes from: the two cells, buffers computed earlier in   *)
(* the step, rows of the caches.  Weights and constants belong to t.       *)
Reads(t) == {x \in StepProgram.tasks[t].inputs : Transient(StepProgram, x) \/ x \in {TokenCell, PosCell}}

Operands(t, token, pos, value, rows) ==
  [x \in Reads(t) |-> CASE x = TokenCell -> token
                       [] x = PosCell -> pos
                       [] x \in KVCaches -> rows[x]
                       [] OTHER -> value[x]]

RightOperands(t, s) ==
  Operands(t, Last(s), Len(s) - 1, [x \in DOMAIN StepProgram.buffers |-> Right(x, s)],
           [x \in KVCaches |-> [i \in Keys(t, Len(s) - 1) |-> Right(x, SubSeq(s, 1, i + 1))]])

(* The row a KV_APPEND copies into its cache.                              *)
Source(t) == CHOOSE x \in Reads(t) : x \notin KVCaches

(* All columns of x are stored, by other tasks than t.                     *)
Covered(x, t) ==
  \A c \in Cols : \E u \in Writers(StepProgram, x) \ {t} : c \in Footprint(StepProgram.tasks[u])

(* t copies the right row into its caches.                                 *)
AppendsRight(t) ==
  LET x == Source(t) IN
  /\ x \in Reads(t) \ KVCaches /\ Transient(StepProgram, x) /\ Covered(x, t)
  /\ StepProgram.tasks[t].outputs \subseteq KVCaches
  /\ \A y \in StepProgram.tasks[t].outputs, s \in Contexts : Right(y, s) = Right(x, s)

(* t computes the right outputs from the right operands.                   *)
ComputesRight(t) ==
  LET task == StepProgram.tasks[t] IN
  /\ task.outputs \cap KVCaches = {}
  /\ \A x \in Reads(t) \ KVCaches : Transient(StepProgram, x) => Covered(x, t)
  /\ \A x \in Reads(t) \cap KVCaches : task.op = "ATTENTION_TILE"
  /\ \A p \in 0 .. MaxSeq - 1 : Keys(t, p) \subseteq 0 .. p
  /\ \A y \in task.outputs, s \in Contexts : Result(t, RightOperands(t, s)) = Right(y, s)

ASSUME StepAssumption ==
  /\ Len(StepProgram.tasks) <= PROVENANCE_MAX_TASKS
  /\ LogitsBuffer \in DOMAIN StepProgram.buffers \ KVCaches /\ Covered(LogitsBuffer, 0)
  /\ \A x \in {TokenCell, PosCell} : x \in DOMAIN StepProgram.buffers /\ StepProgram.buffers[x] = "IO_INPUT"
  /\ \A x \in KVCaches : \E t \in Writers(StepProgram, x) : StepProgram.tasks[t].op = "KV_APPEND"
  /\ \A t \in TaskIds(StepProgram) :
       IF StepProgram.tasks[t].op = "KV_APPEND" THEN AppendsRight(t) ELSE ComputesRight(t)

(* Attention is lowered as one task over the whole window, the default of  *)
(* lower.py: its split into shards is what the persistent kernel's patch   *)
(* of kv_len alone does not carry from one position to the next.           *)
Unsplit ==
  \A t \in TaskIds(StepProgram), p \in 0 .. MaxSeq - 1 :
    StepProgram.tasks[t].op = "ATTENTION_TILE" => Keys(t, p) = 0 .. p

VARIABLES
  pc, bar,    \* block -> where it is; grid barriers it has arrived at
  regs,       \* block -> [step, qi (queue slot), cur (cur_token), aborted]
  counters, abort,
  cells,      \* the token and pos IO_INPUT cells: [token, pos]
  mem,        \* transient buffer -> column -> value
  generated,  \* 1 .. n -> sampled token or Nothing
  content,    \* cache tensors -> position -> row of every cache
  bound,      \* the tensor the tables point to
  built,      \* base_vm has tables (_built_fp)
  queues,     \* block -> queue
  host,       \* where the caller's thread is
  call,       \* the current call: [prompt, n, kv], kv "given", "none", "kept"
              \* (of the last decode()) or "threaded" (generate())
  passes      \* generate(): forward passes made; calls so far

device == <<counters, abort, cells, mem, generated, content>>
session == <<bound, built, queues, host, call, passes>>
vars == <<pc, bar, regs, device, session>>

Blocks == DOMAIN queues
Zeros == [i \in 0 .. MaxSeq - 1 |-> NoRow]
NoCells == [token |-> Garbage, pos |-> -1]

(* The caller's caches after prefilling all of p but its last token.       *)
Prefilled(p) == [i \in 0 .. MaxSeq - 1 |-> IF i < Len(p) - 1 THEN KVRow(SubSeq(p, 1, i + 1)) ELSE NoRow]

BasePos == Len(call.prompt) - 1

AbsPos(b) == BasePos + regs[b].step

Current(b) == queues[b][regs[b].qi]
CurrentTask(b) == StepProgram.tasks[Current(b)]
InQueue(b) == regs[b].qi \in DOMAIN queues[b]

(* The caller's prefilled caches, the one base_vm allocates, the one       *)
(* generate() hands on.                                                    *)
CallerCache(p) == [owner |-> "caller", prompt |-> p]
VmCache == [owner |-> "vm", prompt |-> <<>>]
LoopCache == [owner |-> "loop", prompt |-> <<>>]
Tensors == {CallerCache(p) : p \in Prompts} \cup {VmCache, LoopCache}

Idle == {"idle", "ok", "raised"}

AtRest == [b \in DOMAIN Wide |-> [step |-> 0, qi |-> 1, cur |-> Garbage, aborted |-> FALSE]]
Rubbish == [x \in DOMAIN StepProgram.buffers |-> [c \in Cols |-> Garbage]]

(* The registers and barriers of a launch are gone when it ends; the       *)
(* buffers of the arena hold something nobody may rely on.                 *)
EndLaunch ==
  /\ pc' = [b \in DOMAIN Wide |-> "done"] /\ bar' = [b \in DOMAIN Wide |-> 0]
  /\ regs' = AtRest
  /\ mem' = Rubbish /\ cells' = NoCells

Init ==
  /\ queues = Wide
  /\ pc = [b \in DOMAIN Wide |-> "done"] /\ bar = [b \in DOMAIN Wide |-> 0]
  /\ regs = AtRest
  /\ counters = [c \in DOMAIN StepProgram.counters |-> 0] /\ abort = FALSE
  /\ cells = NoCells
  /\ mem = Rubbish
  /\ generated = <<>>
  /\ content = [t \in Tensors |->
                  IF t.owner = "caller" THEN Prefilled(t.prompt) ELSE Zeros]
  /\ bound = VmCache /\ built = FALSE
  /\ host = "idle" /\ call = [prompt |-> <<>>, n |-> 0, kv |-> "none"]
  /\ passes = [forward |-> 0, calls |-> 0]

-----------------------------------------------------------------------------
(* The kernel.  Arrive(b, at): the next thing b does is grid.sync() at.    *)
Arrive(b, at) == pc' = [pc EXCEPT ![b] = at] /\ bar' = [bar EXCEPT ![b] = @ + 1]
Goto(b, from, to) == pc[b] = from /\ pc' = [pc EXCEPT ![b] = to] /\ UNCHANGED bar

After == [entry |-> "loop", A |-> "queue", B |-> "check", C |-> "reset", D |-> "loop", exit |-> "done"]

PassBarrier(b) ==
  /\ pc[b] \in DOMAIN After
  /\ \A c \in Blocks : bar[c] >= bar[b]
  /\ Goto(b, pc[b], After[pc[b]])
  /\ UNCHANGED <<regs, device>>

(* (A) block 0 publishes the step's input token and position.              *)
Setup(b) ==
  /\ pc[b] = "loop" /\ regs[b].step < call.n
  /\ Arrive(b, "A")
  /\ cells' = IF b = 0 THEN [token |-> regs[b].cur, pos |-> AbsPos(b)] ELSE cells
  /\ UNCHANGED <<regs, counters, abort, mem, generated, content>>

LeaveLoop(b) ==
  /\ pc[b] = "loop" /\ regs[b].step >= call.n
  /\ Arrive(b, "exit")
  /\ UNCHANGED <<regs, device>>

(* (B) the queue.                                                          *)
WaitsReady(b) ==
  \A w \in {CurrentTask(b).waits[i] : i \in DOMAIN CurrentTask(b).waits} :
    counters[w.counter] >= w.threshold

BeginTask(b) ==
  /\ InQueue(b) /\ WaitsReady(b)
  /\ Goto(b, "queue", "task")
  /\ UNCHANGED <<regs, device>>

DrainQueue(b) ==
  /\ pc[b] = "queue" /\ ~ InQueue(b)
  /\ Arrive(b, "B")
  /\ UNCHANGED <<regs, device>>

AbandonQueue(b) ==
  /\ pc[b] = "queue" /\ InQueue(b) /\ ~ WaitsReady(b) /\ abort
  /\ Arrive(b, "B")
  /\ regs' = [regs EXCEPT ![b].aborted = TRUE]
  /\ UNCHANGED device

(* The columns of x; a reader that finds halves of two values reads rubbish. *)
Value(x) == IF \A c, d \in Cols : mem[x][c] = mem[x][d]
            THEN mem[x][CHOOSE c \in Cols : TRUE] ELSE Garbage

(* Mutant: the position the program was lowered at.                        *)
LoweredPos(b) == LoweredAt

(* KV_APPEND.pos and the length of the attention window are patched to the *)
(* step; the window starts where the program was lowered to start it.      *)
PatchedPos(b) == AbsPos(b)

KvStart(t) == CHOOSE k \in Keys(t, LoweredAt) : \A j \in Keys(t, LoweredAt) : k <= j

WindowRows(b, t) ==
  [x \in KVCaches |-> [i \in KvStart(t) .. KvStart(t) + PatchedPos(b) |->
                         IF i < MaxSeq THEN content[bound][i][x] ELSE Garbage]]

Stored(b, t) ==
  Result(t, Operands(t, cells.token, cells.pos, [x \in DOMAIN mem |-> Value(x)], WindowRows(b, t)))

StoreRow(b) ==
  LET row == content[bound][PatchedPos(b)]
      new == [x \in KVCaches |-> IF x \in CurrentTask(b).outputs THEN Value(Source(Current(b))) ELSE row[x]]
  IN  /\ CurrentTask(b).op = "KV_APPEND"
      /\ content' = [content EXCEPT ![bound][PatchedPos(b)] = new]
      /\ UNCHANGED <<mem, abort>>

Store(b) ==
  LET task == CurrentTask(b) IN
  /\ task.op # "KV_APPEND"
  /\ mem' = [x \in DOMAIN mem |-> IF x \notin task.outputs THEN mem[x] ELSE
               [c \in Cols |-> IF c \in Footprint(task) THEN Stored(b, Current(b)) ELSE mem[x][c]]]
  /\ UNCHANGED <<content, abort>>

Trap == abort' = TRUE /\ UNCHANGED <<mem, content>>

(* amk_dispatch; an instruction the device cannot run traps.               *)
Compute(b) ==
  /\ Goto(b, "task", "signal")
  /\ StoreRow(b) \/ Store(b) \/ Trap
  /\ UNCHANGED <<regs, counters, cells, generated>>

Signal(b) ==
  /\ Goto(b, "signal", "queue")
  /\ counters' = [counters EXCEPT ![CurrentTask(b).out_counter] = @ + 1]
  /\ regs' = [regs EXCEPT ![b].qi = @ + 1]
  /\ UNCHANGED <<abort, cells, mem, generated, content>>

(* Mutant: only a block that gave up its queue leaves the loop.            *)
SeesAbortLocally(b) == regs[b].aborted

(* (C) every block reads the flag; block 0 samples the complete logits.    *)
SeesAbort(b) == regs[b].aborted \/ abort

BreakOut(b) ==
  /\ pc[b] = "check" /\ SeesAbort(b)
  /\ Arrive(b, "exit")
  /\ UNCHANGED <<regs, device>>

(* The id a row of logits favours; that of a row nobody may rely on is not *)
(* the model's choice.                                                     *)
Sampled(logits) == IF Argmax(logits) \in Tokens THEN Argmax(logits) ELSE Garbage

Logits == Value(LogitsBuffer)

Sample(b) ==
  /\ pc[b] = "check" /\ ~ SeesAbort(b)
  /\ Arrive(b, "C")
  /\ generated' = IF b = 0 THEN [generated EXCEPT ![regs[b].step + 1] = Sampled(Logits)]
                  ELSE generated
  /\ UNCHANGED <<regs, counters, abort, cells, mem, content>>

(* Mutant: block 0's share only.                                           *)
FirstShare(b) == {c \in DOMAIN counters : b = 0 /\ c % Cardinality(Blocks) = 0}

(* (D) the blocks share out the counters; block 0 also clears the flag.    *)
Share(b) == {c \in DOMAIN counters : c % Cardinality(Blocks) = b}

Reset(b) ==
  /\ pc[b] = "reset"
  /\ Arrive(b, "D")
  /\ counters' = [c \in DOMAIN counters |-> IF c \in Share(b) THEN 0 ELSE counters[c]]
  /\ abort' = (abort /\ b # 0)
  /\ regs' = [regs EXCEPT ![b].step = @ + 1, ![b].qi = 1,
                          ![b].cur = generated[regs[b].step + 1]]
  /\ UNCHANGED <<cells, mem, generated, content>>

BlockStep(b) ==
  /\ host = "launched"
  /\ \/ PassBarrier(b) \/ Setup(b) \/ LeaveLoop(b)
     \/ BeginTask(b) \/ DrainQueue(b) \/ AbandonQueue(b) \/ Compute(b) \/ Signal(b)
     \/ BreakOut(b) \/ Sample(b) \/ Reset(b)
  /\ UNCHANGED session

-----------------------------------------------------------------------------
(* PersistentDecodeVM.decode.                                              *)

Begin(c, at) ==
  /\ host \in Idle /\ passes.calls < MaxCalls
  /\ call' = c
  /\ host' = at
  /\ generated' = [i \in 1 .. c.n |-> Nothing]
  /\ passes' = [forward |-> 0, calls |-> passes.calls + 1]
  /\ UNCHANGED <<pc, bar, regs, counters, abort, cells, mem, content, bound, built, queues>>

(* A fresh sequence, with the cache prefilled for its prompt (none for a   *)
(* prompt of one token: an empty dict restores nothing); or the next       *)
(* tokens of the last one, with the cache left as it is.  decode() does    *)
(* not check that the sequence fits the cache, nor that the program whose  *)
(* tables it builds was lowered for the position; its callers do.          *)
WillBuild == ~ built \/ (Regrids /\ queues = Wide)

Decode ==
  \E n \in Lengths :
    \/ \E p \in Prompts :
         /\ Len(p) - 1 + n <= MaxSeq
         /\ WillBuild => Len(p) - 1 = LoweredAt
         /\ Begin([prompt |-> p, n |-> n, kv |-> IF Len(p) > 1 THEN "given" ELSE "none"], "seed")
    \/ /\ host = "ok" /\ call.kv # "threaded"
       /\ LET p == call.prompt \o generated IN
            /\ Len(p) - 1 + n <= MaxSeq
            /\ Begin([prompt |-> p, n |-> n, kv |-> "kept"], "seed")

(* The cache's rows are those of the tokens before the last one of s.      *)
Follows(cache, s) ==
  \A i \in 0 .. Len(s) - 2, x \in KVCaches : cache[i][x] = Right(x, SubSeq(s, 1, i + 1))

(* One pass over the last token of s in a launch of its own, by a program  *)
(* lowered for its position: the cache and the logits it leaves.           *)
Pass(cache, s) == [cache EXCEPT ![Len(s) - 1] = IF Follows(cache, s) THEN KVRow(s) ELSE NoRow]
PassLogits(cache, s) == IF Follows(cache, s) THEN Right(LogitsBuffer, s) ELSE Garbage

(* base_vm.run() that builds the tables: binds the caller's cache (or a    *)
(* copy, or zeros) and makes one pass at base_pos.                         *)
BuildTables ==
  LET t == IF call.kv = "given" /\ Resident THEN CallerCache(call.prompt) ELSE VmCache
      given == IF call.kv = "given" THEN content[CallerCache(call.prompt)] ELSE Zeros
  IN  /\ bound' = t
      /\ content' = [content EXCEPT ![t] = Pass(given, call.prompt)]
      /\ built' = TRUE

RunFails ==
  /\ host \in {"seed", "gate", "launched", "loop"}
  /\ host = "seed" => ~ built
  /\ host = "gate" => Regrids /\ queues = Wide
  /\ host' = "raised"
  /\ EndLaunch
  /\ built' = (built /\ host # "gate")
  /\ queues' = IF host = "gate" THEN Narrow ELSE queues
  /\ UNCHANGED <<counters, abort, generated, content, bound, call, passes>>

SeedByBuild ==
  /\ host = "seed" /\ ~ built
  /\ BuildTables
  /\ host' = "gate"
  /\ UNCHANGED <<pc, bar, regs, counters, abort, cells, mem, generated, queues, call, passes>>

(* The cheap reset: restore the caller's cache, if it passed one.          *)
SeedByCopy ==
  /\ host = "seed" /\ built
  /\ content' = IF call.kv = "given" THEN [content EXCEPT ![bound] = content[CallerCache(call.prompt)]] ELSE content
  /\ host' = "gate"
  /\ UNCHANGED <<pc, bar, regs, counters, abort, cells, mem, generated, bound, built, queues,
                 call, passes>>

(* pgrid < grid_dim: assign the tasks again and rebuild the tables.        *)
Regrid ==
  /\ host = "gate" /\ Regrids /\ queues = Wide
  /\ queues' = Narrow
  /\ BuildTables
  /\ UNCHANGED <<pc, bar, regs, counters, abort, cells, mem, generated, host, call, passes>>

Launch ==
  /\ host = "gate" /\ ~ (Regrids /\ queues = Wide)
  /\ host' = "launched"
  /\ pc' = [b \in DOMAIN Wide |-> IF b \in Blocks THEN "entry" ELSE "done"]
  /\ bar' = [b \in DOMAIN Wide |-> 1]
  /\ regs' = [b \in DOMAIN Wide |-> [step |-> 0, qi |-> 1, cur |-> Last(call.prompt), aborted |-> FALSE]]
  /\ counters' = [c \in DOMAIN counters |-> 0] /\ abort' = FALSE
  /\ UNCHANGED <<cells, mem, generated, content, bound, built, queues, call, passes>>

(* "kernel did not fill all tokens" raises.                                *)
Collect ==
  /\ host = "launched" /\ \A b \in Blocks : pc[b] = "done"
  /\ host' = IF \E i \in DOMAIN generated : generated[i] = Nothing THEN "raised" ELSE "ok"
  /\ EndLaunch
  /\ UNCHANGED <<counters, abort, generated, content, bound, built, queues, call, passes>>

-----------------------------------------------------------------------------
(* generate(): one launch per token, on a VM of its own, the cache handed  *)
(* from one to the next.                                                   *)
Generate ==
  \E n \in Lengths, p \in Prompts : Begin([prompt |-> p, n |-> n, kv |-> "threaded"], "loop")

TotalPositions == Len(call.prompt) + call.n - 1

RejectLength ==
  /\ host = "loop" /\ TotalPositions > MaxSeq
  /\ host' = "raised"
  /\ UNCHANGED <<pc, bar, regs, device, bound, built, queues, call, passes>>

(* Prompt tokens are fed without looking at the logits.                    *)
ForwardPass ==
  /\ host = "loop" /\ passes.forward < TotalPositions /\ TotalPositions <= MaxSeq
  /\ LET p == passes.forward
         given == IF p = 0 THEN Zeros ELSE content[LoopCache]
         fed == SubSeq(call.prompt \o generated, 1, p + 1)
     IN  /\ content' = [content EXCEPT ![LoopCache] = Pass(given, fed)]
         /\ generated' = IF p < BasePos THEN generated
                         ELSE [generated EXCEPT ![p - BasePos + 1] = Sampled(PassLogits(given, fed))]
         /\ passes' = [passes EXCEPT !.forward = p + 1]
  /\ UNCHANGED <<pc, bar, regs, counters, abort, cells, mem, bound, built, queues, host, call>>

GenerateReturns ==
  /\ host = "loop" /\ passes.forward = TotalPositions
  /\ host' = "ok"
  /\ UNCHANGED <<pc, bar, regs, device, bound, built, queues, call, passes>>

HostStep ==
  \/ SeedByBuild \/ SeedByCopy \/ Regrid \/ Launch \/ Collect
  \/ RejectLength \/ ForwardPass \/ GenerateReturns

Next ==
  \/ Decode \/ Generate
  \/ HostStep \/ RunFails
  \/ \E b \in Blocks : BlockStep(b)

Spec == Init /\ [][Next]_vars

(* The launch is cooperative, so every block is resident and running; the  *)
(* host thread waits for it and goes on.  Nothing forces a call, a failure *)
(* or a timeout.                                                           *)
Fairness ==
  /\ \A b \in DOMAIN Wide : WF_vars(b \in Blocks /\ BlockStep(b))
  /\ WF_vars(HostStep)

FairSpec == Spec /\ Fairness

-----------------------------------------------------------------------------
(* Types of the state; the position of a step is a row of the cache.       *)
TypeOK ==
  /\ pc \in [DOMAIN Wide -> DOMAIN After \cup {"loop", "queue", "task", "signal", "check", "reset", "done"}]
  /\ bar \in [DOMAIN Wide -> Nat]
  /\ regs \in [DOMAIN Wide -> [step : Nat, qi : Nat \ {0}, aborted : BOOLEAN,
                              cur : Tokens \cup {Garbage, Nothing}]]
  /\ \A b \in DOMAIN Wide : host = "launched" => regs[b].step <= call.n
  /\ counters \in [DOMAIN StepProgram.counters -> Nat]
  /\ abort \in BOOLEAN /\ built \in BOOLEAN
  /\ cells.token \in Tokens \cup {Garbage, Nothing} /\ cells.pos \in -1 .. MaxSeq - 1
  /\ generated \in [1 .. call.n -> Tokens \cup {Garbage, Nothing}]
  /\ bound \in DOMAIN content
  /\ queues \in {Wide, Narrow}
  /\ host \in Idle \cup {"seed", "gate", "launched", "loop"}
  /\ call.prompt \in Seq(Tokens \cup {Garbage}) /\ call.n \in Nat
  /\ passes \in [forward : Nat, calls : Nat]

(* Blocks that have arrived at the same grid barrier stand at the same     *)
(* line of the kernel, also when a trap made some of them abandon their    *)
(* queues: nobody leaves the loop while another block goes on.             *)
BarriersAligned ==
  \A b, c \in Blocks :
    host = "launched" /\ bar[b] = bar[c] /\ pc[b] \in DOMAIN After /\ pc[c] \in DOMAIN After =>
      pc[b] = pc[c]

Feeds(i) == (call.prompt \o generated)[Len(call.prompt) + i]

RetiredThisStep(s) ==
  {t \in TaskIds(StepProgram) : \E b \in Blocks : \E i \in DOMAIN queues[b] :
     regs[b].step = s /\ i < regs[b].qi /\ queues[b][i] = t}

(* While a task of a step runs, the cells hold that step's position and    *)
(* the token sampled by the step before, and a counter counts the          *)
(* producers that retired in this step, none of an earlier one.            *)
StepIsolation ==
  host = "launched" =>
    \A b \in Blocks : pc[b] \in {"task", "signal"} =>
      /\ cells = [token |-> Feeds(regs[b].step), pos |-> AbsPos(b)]
      /\ \A c \in DOMAIN counters :
           counters[c] = Cardinality(RetiredThisStep(regs[b].step) \cap Producers(StepProgram, c))

(* Every call returns or raises: no block waits at a barrier or a counter  *)
(* for ever, with and without a trap.                                      *)
CallEnds == host \notin Idle ~> host \in Idle

Produced == SubSeq(generated, 1, Cardinality({i \in DOMAIN generated : generated[i] # Nothing}))

(* Each call, of either kind, whatever the calls before it did or how they *)
(* ended, produces the tokens eager greedy decoding produces               *)
(* (loader_persist.py "token-for-token identical").                        *)
Decoder == INSTANCE GreedyDecode WITH
  prompt <- call.prompt, n <- call.n, produced <- Produced,
  outcome <- IF host \in Idle THEN host ELSE "decoding"

ImplementsGreedyDecode == Decoder!Spec

(* loader_persist.py: each decode() "must start from the clean prefill KV  *)
(* (positions 0..base_pos-1), uncontaminated".                             *)
StartsFromCleanPrefill ==
  host = "launched" /\ call.kv = "given" /\ (\A b \in Blocks : pc[b] = "entry") =>
    \A i \in 0 .. BasePos - 1 : content[bound][i] = Prefilled(call.prompt)[i]
=============================================================================
