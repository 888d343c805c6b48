------------------------- MODULE PersistDecodeProofs -------------------------
(***************************************************************************)
(* Theorems about both decoders, for every decode step program, grid,      *)
(* prompt, length and interleaving, with and without a trap.               *)
(*                                                                         *)
(* PInv, the grid barriers: a block counts its arrivals, so where it       *)
(* stands follows from its step and its count, four barriers to a step.    *)
(* A barrier lets nobody through before everybody has arrived, so the      *)
(* counts differ by at most one; this keeps the abort flag still while the *)
(* blocks decide by it whether to leave the loop.                          *)
(*                                                                         *)
(* SInv, the steps: the cells and the counters belong to the step block 0  *)
(* is in, because the block that resets a counter does so when every       *)
(* producer of the last step has signalled and none of the next has begun. *)
(*                                                                         *)
(* DInv, the values: a task that has retired stored what the model has in  *)
(* its outputs after the tokens fed, and the rows of the cache are those   *)
(* of these tokens; so the token sampled is the model's own choice, and    *)
(* both decoders implement GreedyDecode.                                   *)
(***************************************************************************)
EXTENDS PersistDecode, ScheduleFacts

Lines == DOMAIN After \cup {"loop", "queue", "task", "signal", "check", "reset", "done"}
Registers == {"step", "qi", "cur", "aborted"}

Shapes ==
  /\ queues \in {Wide, Narrow}
  /\ call.n \in Nat
  /\ abort \in BOOLEAN
  /\ pc \in [DOMAIN Wide -> Lines] /\ bar \in [DOMAIN Wide -> Nat]
  /\ regs = [b \in DOMAIN Wide |-> regs[b]]
  /\ \A b \in DOMAIN Wide : /\ DOMAIN regs[b] = Registers
                            /\ regs[b].step \in Nat /\ regs[b].aborted \in BOOLEAN

(* Where a block stands, by its step and its arrivals.                     *)
Place(at, step, arrivals) ==
  /\ at = "entry" => step = 0 /\ arrivals = 1
  /\ at = "loop" => arrivals = 4 * step + 1 /\ step <= call.n
  /\ at \in {"A", "queue", "task", "signal"} => arrivals = 4 * step + 2 /\ step < call.n
  /\ at \in {"B", "check"} => arrivals = 4 * step + 3 /\ step < call.n
  /\ at \in {"C", "reset"} => arrivals = 4 * step + 4 /\ step < call.n
  /\ at = "D" => arrivals = 4 * step + 1 /\ 1 <= step /\ step <= call.n
  /\ at \in {"exit", "done"} => \/ arrivals = 4 * call.n + 2
                                \/ arrivals = 4 * step + 4 /\ step < call.n /\ abort

(* Whoever gave up its queue saw the flag; who sampled did not.            *)
FlagKnown(b) ==
  /\ regs[b].aborted => abort
  /\ pc[b] \in {"C", "reset", "D"} => ~ abort

Apart(b, c) ==
  /\ bar[c] >= bar[b] - 1
  /\ pc[b] \notin DOMAIN After => bar[c] >= bar[b]

PInv ==
  /\ Shapes
  /\ host = "launched" =>
       \A b \in Blocks : /\ Place(pc[b], regs[b].step, bar[b]) /\ FlagKnown(b)
                         /\ \A c \in Blocks : Apart(b, c)

-----------------------------------------------------------------------------
LEMMA BlocksInWide ==
  ASSUME queues \in {Wide, Narrow}
  PROVE  Blocks \subseteq DOMAIN Wide
BY DecodeAssumption DEF Blocks

LEMMA BarrierLines == DOMAIN After = {"entry", "A", "B", "C", "D", "exit"}
BY DEF After

(***************************************************************************)
(* The counting argument: who is inside a task, and who has sampled and    *)
(* not yet begun the next step, cannot be there together.                  *)
(***************************************************************************)
LEMMA NoTaskAfterSampling ==
  ASSUME NEW s \in Nat, NEW t \in Nat, NEW j \in Nat, NEW k \in Nat, NEW at, call.n \in Nat,
         Place("task", s, j), Place(at, t, k), at \in {"C", "reset", "D"}, k >= j, j >= k - 1
  PROVE  FALSE
BY DEF Place

(* A block's own move, told by what it does to its line and its count.     *)
LEMMA MoveKeeps ==
  ASSUME PInv, host = "launched", host' = host, UNCHANGED <<queues, call>>,
         NEW b \in Blocks, NEW at \in Lines, NEW k \in Nat, NEW r,
         pc' = [pc EXCEPT ![b] = at], bar' = [bar EXCEPT ![b] = k],
         regs' = [regs EXCEPT ![b] = r],
         DOMAIN r = Registers, r.step \in Nat, r.aborted \in BOOLEAN,
         abort' = abort,
         Place(at, r.step, k),
         r.aborted => abort, at \in {"C", "reset", "D"} => ~ abort,
         k >= bar[b],
         \A c \in Blocks : c # b => bar[c] >= k - 1 /\ (at \notin DOMAIN After => bar[c] >= k)
  PROVE  PInv'
<1>1. Blocks \subseteq DOMAIN Wide /\ Blocks' = Blocks
  BY BlocksInWide DEF PInv, Shapes, Blocks
<1>2. /\ pc'[b] = at /\ bar'[b] = k /\ regs'[b] = r
      /\ \A c \in DOMAIN Wide : c # b => pc'[c] = pc[c] /\ bar'[c] = bar[c] /\ regs'[c] = regs[c]
  BY <1>1 DEF PInv, Shapes
<1>3. Shapes'
  BY <1>1, <1>2 DEF PInv, Shapes
<1>4. ASSUME NEW c \in Blocks
      PROVE  Place(pc[c], regs[c].step, bar[c])' /\ FlagKnown(c)'
  <2>1. CASE c = b
    BY <1>2, <2>1 DEF Place, FlagKnown
  <2>2. CASE c # b
    BY <1>1, <1>2, <2>2 DEF Place, FlagKnown, PInv
  <2> QED
    BY <2>1, <2>2
<1>5. ASSUME NEW c \in Blocks, NEW d \in Blocks
      PROVE  Apart(c, d)'
  <2>1. bar[c] \in Nat /\ bar[d] \in Nat /\ bar[b] \in Nat /\ Apart(c, d)
    BY <1>1 DEF PInv, Shapes
  <2>2. CASE c = b /\ d = b
    BY <1>2, <2>2 DEF Apart
  <2>3. CASE c = b /\ d # b
    BY <1>1, <1>2, <2>3 DEF Apart
  <2>4. CASE c # b /\ d = b
    BY <1>1, <1>2, <2>1, <2>4 DEF Apart
  <2>5. CASE c # b /\ d # b
    BY <1>1, <1>2, <2>1, <2>5 DEF Apart
  <2> QED
    BY <2>2, <2>3, <2>4, <2>5
<1> QED
  BY <1>1, <1>3, <1>4, <1>5 DEF PInv

(* The facts about one block that its steps start from.                    *)
LEMMA BlockFacts ==
  ASSUME PInv, host = "launched", NEW b \in Blocks
  PROVE  /\ b \in DOMAIN Wide /\ pc[b] \in Lines /\ bar[b] \in Nat /\ call.n \in Nat
         /\ DOMAIN regs[b] = Registers /\ regs[b].step \in Nat /\ regs[b].aborted \in BOOLEAN
         /\ Place(pc[b], regs[b].step, bar[b]) /\ FlagKnown(b)
         /\ \A c \in Blocks : bar[c] \in Nat /\ Apart(b, c) /\ Apart(c, b)
         /\ pc = [pc EXCEPT ![b] = pc[b]] /\ bar = [bar EXCEPT ![b] = bar[b]]
         /\ regs = [regs EXCEPT ![b] = regs[b]]
<1>1. Blocks \subseteq DOMAIN Wide
  BY BlocksInWide DEF PInv, Shapes
<1>2. /\ pc \in [DOMAIN Wide -> Lines] /\ bar \in [DOMAIN Wide -> Nat]
      /\ regs = [c \in DOMAIN Wide |-> regs[c]]
  BY DEF PInv, Shapes
<1>3. regs = [regs EXCEPT ![b] = regs[b]]
  BY <1>2
<1> QED
  BY <1>1, <1>2, <1>3 DEF PInv, Shapes

LEMMA PassBarrierKeeps ==
  ASSUME PInv, host = "launched", UNCHANGED session, NEW b \in Blocks, PassBarrier(b)
  PROVE  PInv'
<1> DEFINE at == After[pc[b]]
<1>1. /\ pc[b] \in DOMAIN After
      /\ pc' = [pc EXCEPT ![b] = at] /\ bar' = bar /\ regs' = regs /\ abort' = abort
      /\ \A c \in Blocks : bar[c] >= bar[b]
  BY DEF PassBarrier, Goto, device
<1>2. host' = host /\ queues' = queues /\ call' = call
  BY DEF session
<1>3. \/ (pc[b] = "entry" /\ at = "loop")
      \/ (pc[b] = "A" /\ at = "queue")
      \/ (pc[b] = "B" /\ at = "check")
      \/ (pc[b] = "C" /\ at = "reset")
      \/ (pc[b] = "D" /\ at = "loop")
      \/ (pc[b] = "exit" /\ at = "done")
  BY <1>1 DEF After
<1> HIDE DEF at
<1>4. at \in Lines
  BY <1>3 DEF Lines
<1>5. Place(at, regs[b].step, bar[b]) /\ (at \in {"C", "reset", "D"} => ~ abort)
  BY <1>3, BlockFacts DEF Place, FlagKnown
<1>6. bar' = [bar EXCEPT ![b] = bar[b]] /\ regs' = [regs EXCEPT ![b] = regs[b]]
  BY <1>1, BlockFacts
<1>7. /\ bar[b] \in Nat /\ bar[b] >= bar[b]
      /\ \A c \in Blocks : bar[c] >= bar[b] - 1 /\ bar[c] >= bar[b]
  BY <1>1, BlockFacts
<1>8. /\ DOMAIN regs[b] = Registers /\ regs[b].step \in Nat
      /\ regs[b].aborted \in BOOLEAN /\ (regs[b].aborted => abort)
  BY BlockFacts DEF FlagKnown
<1> QED
  BY <1>1, <1>2, <1>4, <1>5, <1>6, <1>7, <1>8, MoveKeeps

(* Arrivals at a barrier, by a block that had passed the one before it.    *)
LEMMA ArriveKeeps ==
  ASSUME PInv, host = "launched", UNCHANGED session, NEW b \in Blocks, NEW at \in DOMAIN After,
         NEW r, pc[b] \notin DOMAIN After, Arrive(b, at), abort' = abort,
         regs' = [regs EXCEPT ![b] = r],
         DOMAIN r = Registers, r.step \in Nat, r.aborted \in BOOLEAN,
         Place(at, r.step, bar[b] + 1),
         r.aborted => abort, at \in {"C", "reset", "D"} => ~ abort
  PROVE  PInv'
<1>1. /\ pc' = [pc EXCEPT ![b] = at] /\ bar' = [bar EXCEPT ![b] = bar[b] + 1]
  BY DEF Arrive
<1>2. host' = host /\ queues' = queues /\ call' = call
  BY DEF session
<1>3. bar[b] \in Nat /\ bar[b] + 1 \in Nat /\ bar[b] + 1 >= bar[b]
  BY BlockFacts
<1>4. \A c \in Blocks : bar[c] \in Nat /\ bar[c] >= bar[b]
  BY BlockFacts DEF Apart
<1>5. \A c \in Blocks : bar[c] >= (bar[b] + 1) - 1
  BY <1>3, <1>4
<1>6. at \in Lines
  BY DEF Lines
<1> QED
  BY <1>1, <1>2, <1>3, <1>5, <1>6, MoveKeeps

LEMMA LoopKeeps ==
  ASSUME PInv, host = "launched", UNCHANGED session, NEW b \in Blocks, Setup(b) \/ LeaveLoop(b)
  PROVE  PInv'
<1>1. /\ pc[b] = "loop" /\ regs' = regs /\ abort' = abort /\ regs[b].step \in Nat /\ call.n \in Nat
      /\ Place("loop", regs[b].step, bar[b]) /\ bar[b] \in Nat
  BY BlockFacts DEF Setup, LeaveLoop, device
<1>2. "loop" \notin DOMAIN After
  BY BarrierLines
<1>3. CASE Setup(b)
  <2>1. Arrive(b, "A") /\ Place("A", regs[b].step, bar[b] + 1) /\ "A" \in DOMAIN After
    BY <1>1, <1>3, BarrierLines DEF Setup, Place
  <2> QED
    BY <1>1, <1>2, <2>1, BlockFacts, ArriveKeeps DEF FlagKnown
<1>4. CASE LeaveLoop(b)
  <2>1. Arrive(b, "exit") /\ Place("exit", regs[b].step, bar[b] + 1) /\ "exit" \in DOMAIN After
    BY <1>1, <1>4, BarrierLines DEF LeaveLoop, Place
  <2> QED
    BY <1>1, <1>2, <2>1, BlockFacts, ArriveKeeps DEF FlagKnown
<1> QED
  BY <1>3, <1>4

LEMMA QueueKeeps ==
  ASSUME PInv, host = "launched", UNCHANGED session, NEW b \in Blocks, DrainQueue(b) \/ AbandonQueue(b)
  PROVE  PInv'
<1>1. pc[b] = "queue" /\ abort' = abort /\ Arrive(b, "B")
  BY DEF DrainQueue, AbandonQueue, device
<1>2. "queue" \notin DOMAIN After /\ "B" \in DOMAIN After
  BY BarrierLines
<1>3. Place("B", regs[b].step, bar[b] + 1)
  BY <1>1, BlockFacts DEF Place
<1>4. CASE DrainQueue(b)
  BY <1>1, <1>2, <1>3, <1>4, BlockFacts, ArriveKeeps DEF DrainQueue, FlagKnown
<1>5. CASE AbandonQueue(b)
  <2> DEFINE r == [regs[b] EXCEPT !.aborted = TRUE]
  <2>1. regs' = [regs EXCEPT ![b] = r] /\ abort
    BY <1>5 DEF AbandonQueue
  <2>2. DOMAIN r = Registers /\ r.step = regs[b].step /\ r.aborted = TRUE
    BY BlockFacts DEF Registers
  <2> HIDE DEF r
  <2>3. r.step \in Nat /\ r.aborted \in BOOLEAN
    BY <2>2, BlockFacts
  <2> QED
    BY <1>1, <1>2, <1>3, <2>1, <2>2, <2>3, ArriveKeeps
<1> QED
  BY <1>4, <1>5

LEMMA CheckKeeps ==
  ASSUME PInv, host = "launched", UNCHANGED session, NEW b \in Blocks, BreakOut(b) \/ Sample(b)
  PROVE  PInv'
<1>1. pc[b] = "check" /\ regs' = regs /\ abort' = abort
  BY DEF BreakOut, Sample, device
<1>2. "check" \notin DOMAIN After /\ {"C", "exit"} \subseteq DOMAIN After
  BY BarrierLines
<1>3. CASE BreakOut(b)
  <2>1. Arrive(b, "exit") /\ abort
    BY <1>3, BlockFacts DEF BreakOut, SeesAbort, FlagKnown
  <2>2. Place("exit", regs[b].step, bar[b] + 1)
    BY <1>1, <2>1, BlockFacts DEF Place
  <2> QED
    BY <1>1, <1>2, <2>1, <2>2, BlockFacts, ArriveKeeps DEF FlagKnown
<1>4. CASE Sample(b)
  <2>1. Arrive(b, "C") /\ ~ abort
    BY <1>4 DEF Sample, SeesAbort
  <2>2. Place("C", regs[b].step, bar[b] + 1)
    BY <1>1, BlockFacts DEF Place
  <2> QED
    BY <1>1, <1>2, <2>1, <2>2, BlockFacts, ArriveKeeps DEF FlagKnown
<1> QED
  BY <1>3, <1>4

LEMMA ResetKeeps ==
  ASSUME PInv, host = "launched", UNCHANGED session, NEW b \in Blocks, Reset(b)
  PROVE  PInv'
<1> DEFINE r == [regs[b] EXCEPT !.step = regs[b].step + 1, !.qi = 1, !.cur = generated[regs[b].step + 1]]
<1>1. pc[b] = "reset" /\ Arrive(b, "D") /\ (abort' <=> (abort /\ b # 0))
  BY Zenon DEF Reset
<1>2. regs' = [regs EXCEPT ![b] = r]
  BY BlockFacts DEF Reset
<1>8. ~ abort /\ abort' = abort
  <2>1. ~ abort
    BY <1>1, BlockFacts DEF FlagKnown
  <2>2. abort' \in BOOLEAN /\ abort \in BOOLEAN
    BY Zenon DEF Reset, PInv, Shapes
  <2> QED
    BY <1>1, <2>1, <2>2
<1>3. DOMAIN r = Registers /\ r.step = regs[b].step + 1 /\ r.aborted = regs[b].aborted
  BY BlockFacts DEF Registers
<1>4. regs[b].step \in Nat /\ call.n \in Nat /\ bar[b] \in Nat /\ Place("reset", regs[b].step, bar[b])
  BY <1>1, BlockFacts
<1> HIDE DEF r
<1>5. Place("D", r.step, bar[b] + 1) /\ r.step \in Nat
  BY <1>3, <1>4 DEF Place
<1>6. "reset" \notin DOMAIN After /\ "D" \in DOMAIN After
  BY BarrierLines
<1>7. r.aborted \in BOOLEAN /\ (r.aborted => abort)
  BY <1>3, BlockFacts DEF FlagKnown
<1> QED
  BY <1>1, <1>2, <1>3, <1>5, <1>6, <1>7, <1>8, ArriveKeeps

(* Inside the queue a block neither arrives nor passes.                    *)
LEMMA TaskKeeps ==
  ASSUME PInv, host = "launched", UNCHANGED session, NEW b \in Blocks, BeginTask(b) \/ Signal(b)
  PROVE  PInv'
<1> DEFINE at == IF pc[b] = "queue" THEN "task" ELSE "queue"
           r == IF pc[b] = "queue" THEN regs[b] ELSE [regs[b] EXCEPT !.qi = @ + 1]
<1>1. /\ pc[b] \in {"queue", "signal"} /\ pc' = [pc EXCEPT ![b] = at] /\ bar' = bar /\ abort' = abort
      /\ regs' = [regs EXCEPT ![b] = r]
  BY BlockFacts DEF BeginTask, Signal, Goto, device
<1>2. DOMAIN r = Registers /\ r.step = regs[b].step /\ r.aborted = regs[b].aborted
  BY BlockFacts DEF Registers
<1>3. at \in {"task", "queue"} /\ at \in Lines /\ at \notin DOMAIN After
  BY BarrierLines DEF Lines
<1> HIDE DEF at, r
<1>4. Place(at, r.step, bar[b])
  BY <1>1, <1>2, <1>3, BlockFacts DEF Place
<1>5. /\ bar' = [bar EXCEPT ![b] = bar[b]] /\ bar[b] \in Nat /\ bar[b] >= bar[b]
      /\ host' = host /\ queues' = queues /\ call' = call
  BY <1>1, BlockFacts DEF session
<1>6. \A c \in Blocks : bar[c] >= bar[b] - 1 /\ bar[c] >= bar[b]
  BY <1>1, BlockFacts, BarrierLines DEF Apart
<1>7. r.step \in Nat /\ r.aborted \in BOOLEAN /\ (r.aborted => abort)
  BY <1>2, BlockFacts DEF FlagKnown
<1> QED
  BY <1>1, <1>2, <1>3, <1>4, <1>5, <1>6, <1>7, MoveKeeps

(* A trap may raise the flag: nobody who believes it is down is around.    *)
LEMMA ComputeKeeps ==
  ASSUME PInv, host = "launched", UNCHANGED session, NEW b \in Blocks, Compute(b)
  PROVE  PInv'
<1>1. /\ pc[b] = "task" /\ pc' = [pc EXCEPT ![b] = "signal"] /\ bar' = bar /\ regs' = regs
      /\ abort' = abort \/ abort' = TRUE
  BY DEF Compute, Goto, StoreRow, Store, Trap
<1>2. host' = host /\ queues' = queues /\ call' = call /\ Blocks' = Blocks
  BY DEF session, Blocks
<1>3. "signal" \in Lines /\ "task" \notin DOMAIN After /\ "signal" \notin DOMAIN After
  BY BarrierLines DEF Lines
<1>4. ASSUME NEW c \in Blocks
      PROVE  pc[c] \notin {"C", "reset", "D"}
  <2>1. /\ bar[b] \in Nat /\ bar[c] \in Nat /\ bar[c] >= bar[b] /\ bar[b] >= bar[c] - 1
        /\ Place("task", regs[b].step, bar[b])
    BY <1>1, <1>3, BlockFacts DEF Apart
  <2>2. regs[b].step \in Nat /\ regs[c].step \in Nat /\ call.n \in Nat /\ Place(pc[c], regs[c].step, bar[c])
    BY BlockFacts
  <2> QED
    BY <2>1, <2>2, NoTaskAfterSampling
<1>5. \A c \in DOMAIN Wide : pc'[c] = IF c = b THEN "signal" ELSE pc[c]
  BY <1>1, BlockFacts DEF PInv, Shapes
<1>6. Shapes'
  BY <1>1, <1>2, <1>3, BlockFacts DEF PInv, Shapes
<1>7. ASSUME NEW c \in Blocks
      PROVE  Place(pc[c], regs[c].step, bar[c])' /\ FlagKnown(c)'
  <2>1. c \in DOMAIN Wide /\ Place(pc[c], regs[c].step, bar[c]) /\ FlagKnown(c)
    BY BlockFacts
  <2>2. CASE c = b
    BY <1>1, <1>2, <1>5, <2>1, <2>2 DEF Place, FlagKnown
  <2>3. CASE c # b
    BY <1>1, <1>2, <1>4, <1>5, <2>1, <2>3 DEF Place, FlagKnown
  <2> QED
    BY <2>2, <2>3
<1>8. ASSUME NEW c \in Blocks, NEW d \in Blocks
      PROVE  Apart(c, d)'
  <2>1. c \in DOMAIN Wide /\ Apart(c, d)
    BY BlockFacts
  <2> QED
    BY <1>1, <1>3, <1>5, <2>1 DEF Apart
<1> QED
  BY <1>2, <1>6, <1>7, <1>8 DEF PInv

LEMMA BlockStepKeeps ==
  ASSUME PInv, NEW b \in Blocks, BlockStep(b)
  PROVE  PInv'
BY PassBarrierKeeps, LoopKeeps, QueueKeeps, CheckKeeps, ResetKeeps, TaskKeeps, ComputeKeeps DEF BlockStep

-----------------------------------------------------------------------------
(* The host: outside a launch only the shapes matter.                      *)

(* The registers a launch starts with, and those it leaves.                *)
LEMMA FreshRegisters ==
  ASSUME NEW token,
         NEW r, r = [step |-> 0, qi |-> 1, cur |-> token, aborted |-> FALSE]
  PROVE  /\ DOMAIN r = Registers /\ r.step = 0 /\ r.aborted = FALSE
         /\ r.step \in Nat /\ r.aborted \in BOOLEAN
<1>1. r.aborted = FALSE
  BY Zenon
<1>2. r.aborted \in BOOLEAN
  BY <1>1, Zenon
<1> QED
  BY <1>1, <1>2 DEF Registers

LEMMA InitPInv == Init => PInv
<1> SUFFICES ASSUME Init
             PROVE  PInv
  OBVIOUS
<1>1. regs = AtRest /\ regs = [b \in DOMAIN Wide |-> regs[b]]
  BY DEF Init, AtRest
<1>2. \A b \in DOMAIN Wide : regs[b] = [step |-> 0, qi |-> 1, cur |-> Garbage, aborted |-> FALSE]
  BY <1>1 DEF AtRest
<1>3. \A b \in DOMAIN Wide : DOMAIN regs[b] = Registers
  BY <1>2, FreshRegisters
<1>4. "done" \in Lines /\ host # "launched" /\ call.n = 0 /\ abort = FALSE /\ queues = Wide
  BY DEF Lines, Init
<1>5. pc \in [DOMAIN Wide -> Lines] /\ bar \in [DOMAIN Wide -> Nat]
  BY <1>4 DEF Init
<1>6. abort \in BOOLEAN
  BY Zenon DEF Init
<1>7. \A b \in DOMAIN Wide : regs[b].step \in Nat /\ regs[b].aborted \in BOOLEAN
  BY <1>2, FreshRegisters
<1> QED
  BY <1>1, <1>3, <1>4, <1>5, <1>6, <1>7 DEF PInv, Shapes

LEMMA EndKeepsShapes ==
  ASSUME PInv, EndLaunch, queues' \in {Wide, Narrow}, call' = call, abort' = abort
  PROVE  Shapes'
<1>1. regs' = AtRest /\ regs' = [b \in DOMAIN Wide |-> regs'[b]]
  BY DEF EndLaunch, AtRest
<1>2. \A b \in DOMAIN Wide : regs'[b] = [step |-> 0, qi |-> 1, cur |-> Garbage, aborted |-> FALSE]
  BY <1>1 DEF AtRest
<1>3. \A b \in DOMAIN Wide : DOMAIN regs'[b] = Registers
  BY <1>2, FreshRegisters
<1>4. "done" \in Lines
  BY DEF Lines
<1>5. pc' \in [DOMAIN Wide -> Lines] /\ bar' \in [DOMAIN Wide -> Nat]
  BY <1>4 DEF EndLaunch
<1>6. abort' \in BOOLEAN /\ call'.n \in Nat
  BY DEF PInv, Shapes
<1>7. \A b \in DOMAIN Wide : regs'[b].step \in Nat /\ regs'[b].aborted \in BOOLEAN
  BY <1>2, FreshRegisters
<1> QED
  BY <1>1, <1>3, <1>5, <1>6, <1>7 DEF Shapes

LEMMA CallKeeps ==
  ASSUME PInv, Decode \/ Generate
  PROVE  PInv'
<1>1. call'.n \in Lengths /\ host' # "launched"
  BY DEF Decode, Generate, Begin
<1>2. call'.n \in Nat /\ UNCHANGED <<queues, abort, pc, bar, regs>>
  BY <1>1, DecodeAssumption DEF Decode, Generate, Begin
<1> QED
  BY <1>1, <1>2 DEF PInv, Shapes

LEMMA LaunchKeeps ==
  ASSUME PInv, Launch
  PROVE  PInv'
<1>1. Blocks \subseteq DOMAIN Wide /\ Blocks' = Blocks /\ queues' = queues /\ call' = call /\ abort' = FALSE
  BY BlocksInWide DEF PInv, Shapes, Launch, Blocks
<1>2. /\ regs' = [b \in DOMAIN Wide |-> regs'[b]]
      /\ \A b \in DOMAIN Wide :
           regs'[b] = [step |-> 0, qi |-> 1, cur |-> Last(call.prompt), aborted |-> FALSE]
  BY DEF Launch
<1>3. /\ pc' = [b \in DOMAIN Wide |-> IF b \in Blocks THEN "entry" ELSE "done"]
      /\ bar' = [b \in DOMAIN Wide |-> 1]
  BY DEF Launch
<1>4. {"entry", "done"} \subseteq Lines /\ "entry" \in DOMAIN After
  BY BarrierLines DEF Lines
<1>5. Shapes'
  <2>1. pc' \in [DOMAIN Wide -> Lines] /\ bar' \in [DOMAIN Wide -> Nat]
    BY <1>3, <1>4
  <2>2. \A b \in DOMAIN Wide : DOMAIN regs'[b] = Registers
    BY <1>2, FreshRegisters
  <2>3. \A b \in DOMAIN Wide : regs'[b].step \in Nat /\ regs'[b].aborted \in BOOLEAN
    BY <1>2, FreshRegisters
  <2>4. abort' \in BOOLEAN /\ call'.n \in Nat /\ queues' \in {Wide, Narrow}
    BY <1>1 DEF PInv, Shapes
  <2> QED
    BY <1>2, <2>1, <2>2, <2>3, <2>4 DEF Shapes
<1>6. ASSUME NEW b \in Blocks
      PROVE  /\ Place(pc[b], regs[b].step, bar[b])' /\ FlagKnown(b)'
             /\ \A c \in Blocks : Apart(b, c)'
  BY <1>1, <1>2, <1>3, <1>4 DEF Place, FlagKnown, Apart
<1> QED
  BY <1>1, <1>5, <1>6 DEF PInv

LEMMA HostKeeps ==
  ASSUME PInv, HostStep \/ RunFails
  PROVE  PInv'
<1>1. CASE Launch
  BY <1>1, LaunchKeeps
<1>2. CASE Collect \/ RunFails
  <2>1. /\ EndLaunch /\ call' = call /\ abort' = abort /\ queues' \in {Wide, Narrow}
        /\ host' # "launched"
    BY <1>2 DEF Collect, RunFails, PInv, Shapes
  <2> QED
    BY <2>1, EndKeepsShapes DEF PInv
<1>3. CASE SeedByBuild \/ SeedByCopy \/ Regrid \/ RejectLength \/ ForwardPass \/ GenerateReturns
  <2>1. /\ UNCHANGED <<pc, bar, regs, abort, call>> /\ queues' \in {Wide, Narrow}
        /\ host' # "launched"
    BY <1>3 DEF SeedByBuild, SeedByCopy, Regrid, RejectLength, ForwardPass, GenerateReturns,
                device, PInv, Shapes
  <2> QED
    BY <2>1 DEF PInv, Shapes
<1> QED
  BY <1>1, <1>2, <1>3 DEF HostStep

LEMMA NextPInv == PInv /\ [Next]_vars => PInv'
<1> SUFFICES ASSUME PInv, [Next]_vars
             PROVE  PInv'
  OBVIOUS
<1>1. CASE UNCHANGED vars
  BY <1>1 DEF vars, device, session, PInv, Shapes, Blocks, Place, FlagKnown, Apart
<1>2. ASSUME NEW b \in Blocks, BlockStep(b) PROVE PInv'
  BY <1>2, BlockStepKeeps
<1> QED
  BY <1>1, <1>2, CallKeeps, HostKeeps DEF Next

-----------------------------------------------------------------------------
(***************************************************************************)
(* Blocks that stand at the same grid barrier stand at the same line of    *)
(* the kernel, for every number of blocks, tokens and tasks, whatever      *)
(* traps and whoever abandons its queue.                                   *)
(***************************************************************************)
THEOREM BlocksAligned == Spec => []BarriersAligned
<1>1. PInv => BarriersAligned
  <2> SUFFICES ASSUME PInv, NEW b \in Blocks, NEW c \in Blocks, host = "launched",
                      bar[b] = bar[c], pc[b] \in DOMAIN After, pc[c] \in DOMAIN After
               PROVE  pc[b] = pc[c]
    BY DEF BarriersAligned
  <2>1. /\ Place(pc[b], regs[b].step, bar[b]) /\ FlagKnown(b) /\ regs[b].step \in Nat
        /\ Place(pc[c], regs[c].step, bar[c]) /\ FlagKnown(c) /\ regs[c].step \in Nat
        /\ call.n \in Nat /\ bar[b] \in Nat
    BY BlockFacts
  <2> QED
    BY <2>1, BarrierLines DEF Place, FlagKnown
<1> QED
  BY <1>1, InitPInv, NextPInv, PTL DEF Spec

(***************************************************************************)
(* Two steps of the decode loop never overlap: blocks that work on their   *)
(* queues work on the queues of the same step.                             *)
(***************************************************************************)
StepsNeverOverlap ==
  host = "launched" =>
    \A b, c \in Blocks :
      {pc[b], pc[c]} \subseteq {"queue", "task", "signal"} => regs[b].step = regs[c].step

(* The grid barriers of the persistent kernel keep its decode steps apart. *)
THEOREM OneStepAtATime == Spec => []StepsNeverOverlap
<1>1. PInv => StepsNeverOverlap
  <2> SUFFICES ASSUME PInv, NEW b \in Blocks, NEW c \in Blocks, host = "launched",
                      {pc[b], pc[c]} \subseteq {"queue", "task", "signal"}
               PROVE  regs[b].step = regs[c].step
    BY DEF StepsNeverOverlap
  <2>1. /\ Place(pc[b], regs[b].step, bar[b]) /\ regs[b].step \in Nat
        /\ Place(pc[c], regs[c].step, bar[c]) /\ regs[c].step \in Nat
        /\ bar[b] \in Nat /\ bar[c] \in Nat /\ bar[c] >= bar[b] /\ bar[b] >= bar[c]
    BY BlockFacts, BarrierLines DEF Apart
  <2> QED
    BY <2>1 DEF Place
<1> QED
  BY <1>1, InitPInv, NextPInv, PTL DEF Spec

-----------------------------------------------------------------------------
(***************************************************************************)
(* What a step of the decode loop works on.  From the reset of its         *)
(* counters to its sample a step is Active for a block: block 0 has        *)
(* published its token and position, the counters count this step's        *)
(* producers, and nobody is inside a queue of another step.                *)
(***************************************************************************)
Active == {"entry", "loop", "D", "A", "queue", "task", "signal", "B", "check"}

IsList(s) == Len(s) \in Nat /\ s = [i \in 1 .. Len(s) |-> s[i]]

Lists ==
  /\ IsList(call.prompt) /\ IsList(generated) /\ Len(generated) = call.n
  /\ host # "idle" => Len(call.prompt) >= 1

Slots ==
  \A b \in Blocks :
    /\ regs[b].qi \in Nat \ {0}
    /\ pc[b] \in {"task", "signal"} => InQueue(b)
    /\ pc[b] \in {"entry", "loop", "D", "A"} => regs[b].qi = 1

Published ==
  /\ pc[0] \in {"entry", "loop", "D"} => regs[0].cur = Feeds(regs[0].step)
  /\ pc[0] \in {"A", "queue", "task", "signal", "B", "check"} =>
       cells = [token |-> Feeds(regs[0].step), pos |-> AbsPos(0)]

(* The tasks that have retired in the step b is in.                        *)
Retired(b) == RetiredThisStep(regs[b].step)

(* The block that resets counter c.                                        *)
Owner(c) == c % Cardinality(Blocks)

Counted ==
  \A c \in DOMAIN counters :
    pc[Owner(c)] \in Active =>
      counters[c] = Cardinality(Retired(Owner(c)) \cap Producers(StepProgram, c))

(* The host's loop counter.                                                *)
Passes == DOMAIN passes = {"forward", "calls"} /\ passes.forward \in Nat

SInv ==
  /\ Lists
  /\ counters \in [DOMAIN StepProgram.counters -> Nat]
  /\ host = "launched" => Slots /\ Published /\ Counted

-----------------------------------------------------------------------------
LEMMA ListLength ==
  ASSUME NEW n \in Nat, NEW s, s = [i \in 1 .. n |-> s[i]]
  PROVE  Len(s) = n /\ IsList(s)
<1>1. s \in Seq({s[i] : i \in 1 .. n})
  OBVIOUS
<1>2. DOMAIN s = 1 .. n /\ DOMAIN s = 1 .. Len(s) /\ Len(s) \in Nat
  BY <1>1
<1>3. Len(s) = n
  BY <1>2
<1> QED
  BY <1>2, <1>3 DEF IsList

LEMMA SeqIsList ==
  ASSUME NEW S, NEW s \in Seq(S)
  PROVE  IsList(s)
<1>1. Len(s) \in Nat /\ s \in [1 .. Len(s) -> S]
  OBVIOUS
<1> QED
  BY <1>1 DEF IsList

LEMMA ListUpdate ==
  ASSUME NEW s, IsList(s), NEW i \in 1 .. Len(s), NEW v
  PROVE  /\ IsList([s EXCEPT ![i] = v]) /\ Len([s EXCEPT ![i] = v]) = Len(s)
         /\ [s EXCEPT ![i] = v][i] = v
         /\ \A j \in 1 .. Len(s) : j # i => [s EXCEPT ![i] = v][j] = s[j]
<1>1. PICK t : t = [s EXCEPT ![i] = v]
  OBVIOUS
<1>2. t = [j \in 1 .. Len(s) |-> t[j]] /\ Len(s) \in Nat
  BY <1>1 DEF IsList
<1>3. IsList(t) /\ Len(t) = Len(s)
  BY <1>2, ListLength
<1>4. t[i] = v /\ \A j \in 1 .. Len(s) : j # i => t[j] = s[j]
  BY <1>1 DEF IsList
<1> QED
  BY <1>1, <1>3, <1>4, Zenon

LEMMA ListConcat ==
  ASSUME NEW s, NEW t, IsList(s), IsList(t)
  PROVE  /\ IsList(s \o t) /\ Len(s \o t) = Len(s) + Len(t)
         /\ \A i \in 1 .. Len(s) : (s \o t)[i] = s[i]
         /\ \A i \in 1 .. Len(t) : (s \o t)[Len(s) + i] = t[i]
<1>1. /\ Len(s) \in Nat /\ Len(t) \in Nat
      /\ s = [i \in 1 .. Len(s) |-> s[i]] /\ t = [i \in 1 .. Len(t) |-> t[i]]
  BY DEF IsList
<1>2. PICK S : S = {s[i] : i \in 1 .. Len(s)} \cup {t[i] : i \in 1 .. Len(t)}
  OBVIOUS
<1>3. s \in Seq(S) /\ t \in Seq(S)
  BY <1>1, <1>2
<1>4. Len(s \o t) = Len(s) + Len(t) /\ DOMAIN (s \o t) = 1 .. Len(s) + Len(t)
  BY <1>3
<1>5. IsList(s \o t)
  <2>1. s \o t \in Seq(S)
    BY <1>3
  <2> QED
    BY <2>1, SeqIsList
<1>6. \A i \in 1 .. Len(s) : (s \o t)[i] = s[i]
  BY <1>1, <1>3
<1>7. \A i \in 1 .. Len(t) : (s \o t)[Len(s) + i] = t[i]
  BY <1>1, <1>3
<1> QED
  BY <1>4, <1>5, <1>6, <1>7

(* Tokens fed: the prompt's last, then those of the list of samples.       *)
LEMMA FeedsSamples ==
  ASSUME Lists, host # "idle"
  PROVE  /\ Feeds(0) = Last(call.prompt)
         /\ \A i \in 1 .. call.n : Feeds(i) = generated[i]
<1>1. IsList(call.prompt) /\ IsList(generated) /\ Len(generated) = call.n /\ Len(call.prompt) >= 1
  BY DEF Lists
<1>2. Len(call.prompt) \in 1 .. Len(call.prompt)
  BY <1>1 DEF IsList
<1> QED
  BY <1>1, <1>2, ListConcat, SMTT(20) DEF Feeds, Last, IsList

-----------------------------------------------------------------------------
(* The grid.                                                               *)

LEMMA GridFacts ==
  ASSUME queues \in {Wide, Narrow}
  PROVE  /\ Cardinality(Blocks) \in Nat \ {0} /\ Blocks = 0 .. Cardinality(Blocks) - 1
         /\ 0 \in Blocks
         /\ \A c \in Nat : Owner(c) \in Blocks
         /\ \A b \in Blocks : queues[b] \in Seq(TaskIds(StepProgram))
         /\ LaunchContract(StepProgram, queues)
<1>1. /\ IsFiniteSet(Blocks) /\ Blocks # {} /\ Blocks = 0 .. Cardinality(Blocks) - 1
      /\ \A b \in Blocks : queues[b] \in Seq(TaskIds(StepProgram))
      /\ LaunchContract(StepProgram, queues)
  BY DecodeAssumption DEF Blocks
<1>2. Cardinality(Blocks) \in Nat /\ Cardinality(Blocks) # 0
  BY <1>1, FS_CardinalityType, FS_EmptySet
<1>3. \A c \in Nat : c % Cardinality(Blocks) \in 0 .. Cardinality(Blocks) - 1
  BY <1>2
<1>4. Cardinality(Blocks) \in Nat \ {0} /\ 0 \in 0 .. Cardinality(Blocks) - 1
  BY <1>2
<1> QED
  BY <1>1, <1>3, <1>4, Zenon DEF Owner

LEMMA CounterOwner ==
  ASSUME PInv, NEW c \in DOMAIN StepProgram.counters
  PROVE  c \in Nat /\ Owner(c) \in Blocks
BY GridFacts, DecodeAssumption DEF PInv, Shapes

(* Who can be where while a block is in its queue, at the check, or about  *)
(* to reset.                                                               *)
LEMMA QueuePhase ==
  ASSUME PInv, host = "launched", NEW b \in Blocks, pc[b] \in {"queue", "task", "signal"},
         NEW c \in Blocks
  PROVE  pc[c] \in {"A", "queue", "task", "signal", "B", "check"} /\ regs[c].step = regs[b].step
<1>1. /\ bar[b] \in Nat /\ bar[c] \in Nat /\ bar[c] >= bar[b] /\ bar[b] >= bar[c] - 1
      /\ call.n \in Nat /\ regs[b].step \in Nat /\ regs[c].step \in Nat /\ pc[c] \in Lines
      /\ Place(pc[b], regs[b].step, bar[b]) /\ Place(pc[c], regs[c].step, bar[c])
  BY BlockFacts, BarrierLines DEF Apart
<1>2. bar[b] = 4 * regs[b].step + 2 /\ regs[b].step < call.n
  BY <1>1 DEF Place
<1>3. pc[c] \notin {"entry", "loop", "C", "reset", "D", "exit", "done"}
  BY <1>1, <1>2 DEF Place
<1>4. pc[c] \in {"A", "queue", "task", "signal", "B", "check"}
  BY <1>1, <1>3, BarrierLines DEF Lines
<1> QED
  BY <1>1, <1>2, <1>4 DEF Place

LEMMA CheckPhase ==
  ASSUME PInv, host = "launched", ~ abort, NEW b \in Blocks, pc[b] = "check", NEW c \in Blocks
  PROVE  pc[c] \in {"B", "check", "C"} /\ regs[c].step = regs[b].step
<1>1. /\ bar[b] \in Nat /\ bar[c] \in Nat /\ bar[c] >= bar[b] /\ bar[b] >= bar[c] - 1
      /\ pc[c] \notin DOMAIN After => bar[b] >= bar[c]
      /\ call.n \in Nat /\ regs[b].step \in Nat /\ regs[c].step \in Nat /\ pc[c] \in Lines
      /\ Place(pc[b], regs[b].step, bar[b]) /\ Place(pc[c], regs[c].step, bar[c])
  BY BlockFacts, BarrierLines DEF Apart
<1>2. bar[b] = 4 * regs[b].step + 3 /\ regs[b].step < call.n
  BY <1>1 DEF Place
<1>3. pc[c] \notin {"entry", "loop", "A", "queue", "task", "signal", "reset", "D", "exit", "done"}
  BY <1>1, <1>2, BarrierLines DEF Place
<1>4. pc[c] \in {"B", "check", "C"}
  BY <1>1, <1>3, BarrierLines DEF Lines
<1> QED
  BY <1>1, <1>2, <1>4 DEF Place

LEMMA ResetPhase ==
  ASSUME PInv, host = "launched", NEW b \in Blocks, pc[b] = "reset", NEW c \in Blocks
  PROVE  \/ pc[c] \in {"C", "reset"} /\ regs[c].step = regs[b].step
         \/ pc[c] = "D" /\ regs[c].step = regs[b].step + 1
<1>1. /\ bar[b] \in Nat /\ bar[c] \in Nat /\ bar[c] >= bar[b] /\ bar[b] >= bar[c] - 1
      /\ pc[c] \notin DOMAIN After => bar[b] >= bar[c]
      /\ call.n \in Nat /\ regs[b].step \in Nat /\ regs[c].step \in Nat /\ pc[c] \in Lines
      /\ Place(pc[b], regs[b].step, bar[b]) /\ Place(pc[c], regs[c].step, bar[c]) /\ ~ abort
  BY BlockFacts, BarrierLines DEF Apart, FlagKnown
<1>2. bar[b] = 4 * regs[b].step + 4 /\ regs[b].step < call.n
  BY <1>1 DEF Place
<1>3. pc[c] \notin {"entry", "loop", "A", "queue", "task", "signal", "B", "check", "exit", "done"}
  BY <1>1, <1>2, BarrierLines DEF Place
<1>4. pc[c] \in {"C", "reset", "D"}
  BY <1>1, <1>3, BarrierLines DEF Lines
<1> QED
  BY <1>1, <1>2, <1>4 DEF Place

-----------------------------------------------------------------------------
(* What a task's slot says.                                                *)

LEMMA SlotIsTask ==
  ASSUME queues \in {Wide, Narrow}, NEW b \in Blocks, NEW i \in DOMAIN queues[b]
  PROVE  /\ queues[b][i] \in TaskIds(StepProgram)
         /\ StepProgram.tasks[queues[b][i]] \in TaskType
         /\ i \in Nat /\ i >= 1
<1>1. queues[b] \in Seq(TaskIds(StepProgram))
  BY GridFacts
<1>2. queues[b][i] \in TaskIds(StepProgram)
  BY <1>1
<1>3. StepProgram.tasks[queues[b][i]] \in TaskType
  BY <1>2, DecodeAssumption DEF IsProgram, TaskIds
<1> QED
  BY <1>1, <1>2, <1>3

LEMMA SlotsAreUnique ==
  ASSUME queues \in {Wide, Narrow}, NEW b \in Blocks, NEW c \in Blocks,
         NEW i \in DOMAIN queues[b], NEW j \in DOMAIN queues[c],
         queues[b][i] = queues[c][j]
  PROVE  b = c /\ i = j
BY GridFacts DEF LaunchContract, QueuesPartition, Blocks

LEMMA CurrentNotRetired ==
  ASSUME PInv, Slots, NEW b \in Blocks, InQueue(b), NEW s
  PROVE  /\ Current(b) \in TaskIds(StepProgram)
         /\ CurrentTask(b) = StepProgram.tasks[Current(b)] /\ CurrentTask(b) \in TaskType
         /\ Current(b) \notin RetiredThisStep(s)
<1>1. queues \in {Wide, Narrow} /\ regs[b].qi \in DOMAIN queues[b]
  BY DEF PInv, Shapes, InQueue
<1>2. Current(b) \in TaskIds(StepProgram) /\ StepProgram.tasks[Current(b)] \in TaskType
  BY <1>1, SlotIsTask DEF Current
<1>3. ASSUME Current(b) \in RetiredThisStep(s) PROVE FALSE
  <2>1. PICK c \in Blocks : \E i \in DOMAIN queues[c] : i < regs[c].qi /\ queues[c][i] = Current(b)
    BY <1>3 DEF RetiredThisStep
  <2>2. PICK i \in DOMAIN queues[c] : i < regs[c].qi /\ queues[c][i] = Current(b)
    BY <2>1
  <2>3. c = b /\ i = regs[b].qi
    BY <1>1, <2>2, SlotsAreUnique DEF Current
  <2>4. regs[b].qi \in Nat /\ i \in Nat
    BY <1>1, <2>2, SlotIsTask DEF Slots
  <2> QED
    BY <2>2, <2>3, <2>4
<1> QED
  BY <1>2, <1>3 DEF CurrentTask, Current

LEMMA RetiredAreTasks ==
  ASSUME NEW s
  PROVE  RetiredThisStep(s) \in SUBSET TaskIds(StepProgram)
BY DEF RetiredThisStep

(* Nothing has retired in a step that only blocks at their first slot are  *)
(* in.                                                                     *)
LEMMA NothingRetiredYet ==
  ASSUME PInv, NEW s, \A b \in Blocks : regs[b].step = s => regs[b].qi = 1
  PROVE  RetiredThisStep(s) = {}
<1> SUFFICES ASSUME NEW b \in Blocks, regs[b].step = s, NEW i \in DOMAIN queues[b], i < regs[b].qi
             PROVE  FALSE
  BY DEF RetiredThisStep
<1> QED
  BY SlotIsTask DEF PInv, Shapes

LEMMA NoProducersYet ==
  ASSUME NEW s, RetiredThisStep(s) = {}, NEW c
  PROVE  Cardinality(RetiredThisStep(s) \cap Producers(StepProgram, c)) = 0
BY FS_EmptySet

LEMMA SameRetired ==
  ASSUME UNCHANGED queues, \A b \in Blocks : regs'[b].step = regs[b].step /\ regs'[b].qi = regs[b].qi
  PROVE  \A b \in Blocks : Retired(b)' = Retired(b)
BY DEF Retired, RetiredThisStep, Blocks

-----------------------------------------------------------------------------
(* Steps of a block that leave the counters and the queue slots alone.     *)

LEMMA CountedStays ==
  ASSUME PInv, Counted, UNCHANGED <<queues, counters>>,
         \A c \in Blocks : /\ regs'[c].step = regs[c].step /\ regs'[c].qi = regs[c].qi
                           /\ pc'[c] \in Active => pc[c] \in Active,
         DOMAIN counters = DOMAIN StepProgram.counters
  PROVE  Counted'
<1>1. Blocks' = Blocks /\ counters' = counters
  BY DEF Blocks
<1>2. \A o \in Blocks : Retired(o)' = Retired(o) /\ (pc'[o] \in Active => pc[o] \in Active)
  BY SameRetired
<1>3. \A c \in DOMAIN counters : Owner(c) \in Blocks /\ Owner(c)' = Owner(c)
  BY <1>1, CounterOwner DEF Owner
<1> SUFFICES ASSUME NEW c \in DOMAIN counters, NEW o \in Blocks, o = Owner(c), pc'[o] \in Active
             PROVE  counters[c] = Cardinality(Retired(o)' \cap Producers(StepProgram, c))
  BY <1>1, <1>3 DEF Counted
<1> QED
  BY <1>2 DEF Counted

LEMMA PassSteps ==
  ASSUME PInv, SInv, host = "launched", UNCHANGED session, NEW b \in Blocks, PassBarrier(b)
  PROVE  SInv'
<1>1. /\ pc[b] \in DOMAIN After /\ pc' = [pc EXCEPT ![b] = After[pc[b]]]
      /\ UNCHANGED <<regs, counters, abort, cells, mem, generated, content>>
      /\ UNCHANGED <<bound, built, queues, host, call, passes>>
  BY DEF PassBarrier, Goto, device, session
<1>2. \/ pc[b] = "entry" /\ After[pc[b]] = "loop"
      \/ pc[b] = "A" /\ After[pc[b]] = "queue"
      \/ pc[b] = "B" /\ After[pc[b]] = "check"
      \/ pc[b] = "C" /\ After[pc[b]] = "reset"
      \/ pc[b] = "D" /\ After[pc[b]] = "loop"
      \/ pc[b] = "exit" /\ After[pc[b]] = "done"
  BY <1>1 DEF After
<1>3. \A c \in Blocks : pc'[c] = IF c = b THEN After[pc[b]] ELSE pc[c]
  BY <1>1, BlockFacts DEF PInv, Shapes
<1>4. Slots /\ Published /\ Counted /\ 0 \in Blocks /\ Blocks' = Blocks
  BY <1>1, GridFacts DEF SInv, PInv, Shapes, Blocks
<1>5. Slots'
  BY <1>1, <1>2, <1>3, <1>4 DEF Slots, InQueue
<1>6. Published'
  BY <1>1, <1>2, <1>3, <1>4 DEF Published, Feeds, AbsPos, BasePos
<1>7. Counted'
  <2>1. \A c \in Blocks : pc'[c] \in Active => pc[c] \in Active
    BY <1>2, <1>3 DEF Active
  <2> QED
    BY <1>1, <1>4, <2>1, CountedStays DEF SInv
<1> QED
  BY <1>1, <1>5, <1>6, <1>7 DEF SInv, Lists

LEMMA LoopSteps ==
  ASSUME PInv, SInv, host = "launched", UNCHANGED session, NEW b \in Blocks, Setup(b) \/ LeaveLoop(b)
  PROVE  SInv'
<1> DEFINE at == IF Setup(b) THEN "A" ELSE "exit"
<1>1. /\ pc[b] = "loop" /\ pc' = [pc EXCEPT ![b] = at]
      /\ UNCHANGED <<regs, counters, generated, queues, host, call>>
      /\ cells' = IF at = "A" /\ b = 0 THEN [token |-> regs[b].cur, pos |-> AbsPos(b)] ELSE cells
  BY DEF Setup, LeaveLoop, Arrive, device, session
<1>2. at \in {"A", "exit"}
  OBVIOUS
<1> HIDE DEF at
<1>3. \A c \in Blocks : pc'[c] = IF c = b THEN at ELSE pc[c]
  BY <1>1, BlockFacts DEF PInv, Shapes
<1>4. Slots /\ Published /\ Counted /\ 0 \in Blocks /\ Blocks' = Blocks
  BY <1>1, GridFacts DEF SInv, PInv, Shapes, Blocks
<1>5. Slots'
  BY <1>1, <1>2, <1>3, <1>4 DEF Slots, InQueue
<1>6. Published'
  <2>1. CASE b = 0
    BY <1>1, <1>2, <1>3, <1>4, <2>1 DEF Published, Feeds, AbsPos, BasePos
  <2>2. CASE b # 0
    BY <1>1, <1>2, <1>3, <1>4, <2>2 DEF Published, Feeds, AbsPos, BasePos
  <2> QED
    BY <2>1, <2>2
<1>7. Counted'
  <2>1. \A c \in Blocks : pc'[c] \in Active => pc[c] \in Active
    BY <1>1, <1>2, <1>3 DEF Active
  <2> QED
    BY <1>1, <1>4, <2>1, CountedStays DEF SInv
<1> QED
  BY <1>1, <1>5, <1>6, <1>7 DEF SInv, Lists

LEMMA QueueSteps ==
  ASSUME PInv, SInv, host = "launched", UNCHANGED session, NEW b \in Blocks,
         BeginTask(b) \/ DrainQueue(b) \/ AbandonQueue(b) \/ Compute(b) \/ BreakOut(b)
  PROVE  SInv'
<1> DEFINE at == pc'[b]
<1>1. /\ UNCHANGED <<counters, cells, generated, queues, host, call>>
      /\ \/ pc[b] = "queue" /\ InQueue(b) /\ pc' = [pc EXCEPT ![b] = "task"]
         \/ pc[b] = "queue" /\ pc' = [pc EXCEPT ![b] = "B"]
         \/ pc[b] = "task" /\ pc' = [pc EXCEPT ![b] = "signal"]
         \/ pc[b] = "check" /\ pc' = [pc EXCEPT ![b] = "exit"]
  BY DEF BeginTask, DrainQueue, AbandonQueue, Compute, StoreRow, Store, Trap, BreakOut, Goto, Arrive,
         device, session
<1>2. \A c \in Blocks : /\ regs'[c].step = regs[c].step /\ regs'[c].qi = regs[c].qi
                        /\ regs'[c].cur = regs[c].cur
  <2>1. regs' = regs \/ regs' = [regs EXCEPT ![b].aborted = TRUE]
    BY DEF BeginTask, DrainQueue, AbandonQueue, Compute, BreakOut
  <2>2. \A c \in Blocks : c \in DOMAIN Wide /\ DOMAIN regs[c] = Registers
    BY BlockFacts
  <2>3. CASE regs' = [regs EXCEPT ![b].aborted = TRUE]
    BY <2>2, <2>3 DEF PInv, Shapes, Registers
  <2> QED
    BY <2>1, <2>3
<1>3. /\ \A c \in Blocks : c # b => pc'[c] = pc[c]
      /\ \/ pc[b] = "queue" /\ InQueue(b) /\ pc'[b] = "task"
         \/ pc[b] = "queue" /\ pc'[b] = "B"
         \/ pc[b] = "task" /\ pc'[b] = "signal"
         \/ pc[b] = "check" /\ pc'[b] = "exit"
  BY <1>1, BlockFacts DEF PInv, Shapes
<1>4. Slots /\ Published /\ Counted /\ 0 \in Blocks /\ Blocks' = Blocks
  BY <1>1, GridFacts DEF SInv, PInv, Shapes, Blocks
<1>5. Slots'
  <2>1. \A c \in Blocks : InQueue(c)' <=> InQueue(c)
    BY <1>1, <1>2 DEF InQueue
  <2> QED
    BY <1>2, <1>3, <1>4, <2>1 DEF Slots
<1>6. Published'
  <2>1. Feeds(regs[0].step)' = Feeds(regs[0].step) /\ AbsPos(0)' = AbsPos(0)
    BY <1>1, <1>2, <1>4 DEF Feeds, AbsPos, BasePos
  <2> QED
    BY <1>1, <1>2, <1>3, <1>4, <2>1 DEF Published
<1>7. Counted'
  <2>1. \A c \in Blocks : pc'[c] \in Active => pc[c] \in Active
    BY <1>3 DEF Active
  <2> QED
    BY <1>1, <1>2, <1>4, <2>1, CountedStays DEF SInv
<1> QED
  BY <1>1, <1>5, <1>6, <1>7 DEF SInv, Lists

LEMMA SampleStep ==
  ASSUME PInv, SInv, host = "launched", UNCHANGED session, NEW b \in Blocks, Sample(b)
  PROVE  SInv'
<1>1. /\ pc[b] = "check" /\ pc' = [pc EXCEPT ![b] = "C"]
      /\ UNCHANGED <<regs, counters, cells, queues, host, call>>
      /\ b # 0 => generated' = generated
      /\ b = 0 => generated' = [generated EXCEPT ![regs[b].step + 1] = Sampled(Logits)]
  BY DEF Sample, Arrive, session
<1>2. \A c \in Blocks : pc'[c] = IF c = b THEN "C" ELSE pc[c]
  BY <1>1, BlockFacts DEF PInv, Shapes
<1>3. Slots /\ Published /\ Counted /\ 0 \in Blocks /\ Blocks' = Blocks /\ Lists
  BY <1>1, GridFacts DEF SInv, PInv, Shapes, Blocks
<1>4. regs[b].step + 1 \in 1 .. call.n
  BY <1>1, BlockFacts DEF Place
<1>5. Slots'
  BY <1>1, <1>2, <1>3 DEF Slots, InQueue
<1>6. Published'
  <2>1. CASE b = 0
    BY <1>2, <1>3, <2>1 DEF Published
  <2>2. CASE b # 0
    BY <1>1, <1>2, <1>3, <2>2 DEF Published, Feeds, AbsPos, BasePos
  <2> QED
    BY <2>1, <2>2
<1>7. Counted'
  <2>1. \A c \in Blocks : pc'[c] \in Active => pc[c] \in Active
    BY <1>2 DEF Active
  <2> QED
    BY <1>1, <1>3, <2>1, CountedStays DEF SInv
<1>8. Lists'
  <2>1. IsList(generated') /\ Len(generated') = Len(generated)
    <3>1. IsList(generated) /\ regs[b].step + 1 \in 1 .. Len(generated)
      BY <1>3, <1>4 DEF Lists
    <3>2. IsList([generated EXCEPT ![regs[b].step + 1] = Sampled(Logits)])
          /\ Len([generated EXCEPT ![regs[b].step + 1] = Sampled(Logits)]) = Len(generated)
      BY <3>1, ListUpdate
    <3> QED
      BY <1>1, <3>1, <3>2, Zenon DEF IsList
  <2> QED
    BY <1>1, <1>3, <2>1 DEF Lists
<1> QED
  BY <1>1, <1>5, <1>6, <1>7, <1>8 DEF SInv


-----------------------------------------------------------------------------
(* Signalling retires the task, and counts it once.                        *)

LEMMA SignalMoves ==
  ASSUME PInv, SInv, host = "launched", UNCHANGED session, NEW b \in Blocks, Signal(b)
  PROVE  /\ pc[b] = "signal" /\ InQueue(b) /\ Blocks' = Blocks
         /\ UNCHANGED <<cells, abort, mem, generated, content, queues, host, call>>
         /\ \A c \in Blocks : /\ pc'[c] = (IF c = b THEN "queue" ELSE pc[c])
                              /\ regs'[c].step = regs[c].step /\ regs'[c].cur = regs[c].cur
                              /\ regs'[c].aborted = regs[c].aborted
                              /\ c # b => regs'[c].qi = regs[c].qi
         /\ regs[b].qi \in Nat \ {0} /\ regs'[b].qi = regs[b].qi + 1
<1>1. /\ pc[b] = "signal" /\ pc' = [pc EXCEPT ![b] = "queue"]
      /\ regs' = [regs EXCEPT ![b].qi = @ + 1]
      /\ UNCHANGED <<cells, abort, mem, generated, content, queues, host, call>>
  BY DEF Signal, Goto, session
<1>2. \A c \in Blocks : pc'[c] = IF c = b THEN "queue" ELSE pc[c]
  BY <1>1, BlockFacts DEF PInv, Shapes
<1>3. \A c \in Blocks : c \in DOMAIN Wide /\ DOMAIN regs[c] = Registers
  BY BlockFacts
<1>4. /\ \A c \in Blocks : c # b => regs'[c] = regs[c]
      /\ regs'[b] = [regs[b] EXCEPT !.qi = regs[b].qi + 1]
  BY <1>1, <1>3 DEF PInv, Shapes
<1>5. /\ regs'[b].step = regs[b].step /\ regs'[b].cur = regs[b].cur
      /\ regs'[b].aborted = regs[b].aborted /\ regs'[b].qi = regs[b].qi + 1
  BY <1>3, <1>4 DEF Registers
<1>6. regs[b].qi \in Nat \ {0} /\ InQueue(b)
  BY <1>1 DEF SInv, Slots
<1> QED
  BY <1>1, <1>2, <1>4, <1>5, <1>6 DEF Blocks

LEMMA SignalRetires ==
  ASSUME PInv, SInv, host = "launched", UNCHANGED session, NEW b \in Blocks, Signal(b),
         NEW s, s = regs[b].step
  PROVE  RetiredThisStep(s)' = RetiredThisStep(s) \cup {Current(b)}
<1>1. /\ pc[b] = "signal" /\ InQueue(b) /\ Blocks' = Blocks /\ queues' = queues
      /\ \A c \in Blocks : /\ regs'[c].step = regs[c].step
                           /\ c # b => regs'[c].qi = regs[c].qi
      /\ regs[b].qi \in Nat \ {0} /\ regs'[b].qi = regs[b].qi + 1
  BY SignalMoves
<1>2. Slots /\ queues \in {Wide, Narrow}
  BY DEF SInv, PInv, Shapes
<1>3. Current(b) \in TaskIds(StepProgram)
  BY <1>1, <1>2, CurrentNotRetired
<1>4. ASSUME NEW c \in Blocks, NEW i \in DOMAIN queues[c], regs[c].step = s
      PROVE  i < regs'[c].qi <=> i < regs[c].qi \/ (c = b /\ i = regs[b].qi)
  BY <1>1, <1>2, SlotIsTask
<1>5. ASSUME NEW t \in TaskIds(StepProgram)
      PROVE  t \in RetiredThisStep(s)' <=> t \in RetiredThisStep(s) \/ t = Current(b)
  <2>1. t \in RetiredThisStep(s)' <=>
          \E c \in Blocks : \E i \in DOMAIN queues[c] :
            regs[c].step = s /\ i < regs'[c].qi /\ queues[c][i] = t
    BY <1>1 DEF RetiredThisStep
  <2>2. t \in RetiredThisStep(s) <=>
          \E c \in Blocks : \E i \in DOMAIN queues[c] :
            regs[c].step = s /\ i < regs[c].qi /\ queues[c][i] = t
    BY DEF RetiredThisStep
  <2>3. ASSUME t \in RetiredThisStep(s)' PROVE t \in RetiredThisStep(s) \/ t = Current(b)
    <3>1. PICK c \in Blocks : \E i \in DOMAIN queues[c] :
            regs[c].step = s /\ i < regs'[c].qi /\ queues[c][i] = t
      BY <2>1, <2>3
    <3>2. PICK i \in DOMAIN queues[c] : regs[c].step = s /\ i < regs'[c].qi /\ queues[c][i] = t
      BY <3>1
    <3> QED
      BY <1>4, <2>2, <3>2 DEF Current
  <2>4. ASSUME t \in RetiredThisStep(s) \/ t = Current(b) PROVE t \in RetiredThisStep(s)'
    <3>1. CASE t \in RetiredThisStep(s)
      <4>1. PICK c \in Blocks : \E i \in DOMAIN queues[c] :
              regs[c].step = s /\ i < regs[c].qi /\ queues[c][i] = t
        BY <2>2, <3>1
      <4>2. PICK i \in DOMAIN queues[c] : regs[c].step = s /\ i < regs[c].qi /\ queues[c][i] = t
        BY <4>1
      <4> QED
        BY <1>4, <2>1, <4>2
    <3>2. CASE t = Current(b)
      BY <1>1, <1>4, <2>1, <3>2 DEF Current, InQueue
    <3> QED
      BY <2>4, <3>1, <3>2
  <2> QED
    BY <2>3, <2>4
<1>6. RetiredThisStep(s)' \subseteq TaskIds(StepProgram) /\ RetiredThisStep(s) \subseteq TaskIds(StepProgram)
  BY DEF RetiredThisStep
<1> QED
  BY <1>3, <1>5, <1>6

LEMMA SignalStep ==
  ASSUME PInv, SInv, host = "launched", UNCHANGED session, NEW b \in Blocks, Signal(b)
  PROVE  SInv'
<1> DEFINE t == Current(b)
           s == regs[b].step
           out == CurrentTask(b).out_counter
<1>1. /\ pc[b] = "signal" /\ InQueue(b) /\ Blocks' = Blocks
      /\ UNCHANGED <<cells, generated, queues, host, call>>
      /\ \A c \in Blocks : /\ pc'[c] = (IF c = b THEN "queue" ELSE pc[c])
                           /\ regs'[c].step = regs[c].step /\ regs'[c].cur = regs[c].cur
                           /\ c # b => regs'[c].qi = regs[c].qi
      /\ regs[b].qi \in Nat \ {0} /\ regs'[b].qi = regs[b].qi + 1
  BY SignalMoves
<1>2. Slots /\ Published /\ Counted /\ 0 \in Blocks
  BY GridFacts DEF SInv, PInv, Shapes
<1>3. /\ t \in TaskIds(StepProgram) /\ CurrentTask(b) = StepProgram.tasks[t]
      /\ \A z : t \notin RetiredThisStep(z)
  BY <1>1, <1>2, CurrentNotRetired
<1>4. out \in DOMAIN StepProgram.counters
  BY <1>3, DecodeAssumption DEF Accepted, WellFormed
<1>5. counters' = [counters EXCEPT ![out] = @ + 1]
  BY DEF Signal
<1>6. counters' \in [DOMAIN StepProgram.counters -> Nat]
  BY <1>4, <1>5 DEF SInv
<1>7. Slots'
  BY <1>1, <1>2 DEF Slots, InQueue
<1>8. Published'
  <2>1. Feeds(regs[0].step)' = Feeds(regs[0].step) /\ AbsPos(0)' = AbsPos(0)
    BY <1>1, <1>2 DEF Feeds, AbsPos, BasePos
  <2> QED
    BY <1>1, <1>2, <2>1 DEF Published
<1>9. RetiredThisStep(s)' = RetiredThisStep(s) \cup {t}
  <2>1. PICK z : z = s
    OBVIOUS
  <2>2. RetiredThisStep(z)' = RetiredThisStep(z) \cup {t}
    BY <2>1, SignalRetires
  <2>3. RetiredThisStep(s)' = RetiredThisStep(z)'
    BY <1>1, <2>1 DEF RetiredThisStep
  <2> QED
    BY <2>1, <2>2, <2>3
<1>10. \A o \in Blocks : /\ pc[o] \in Active
                         /\ Retired(o) = RetiredThisStep(s) /\ Retired(o)' = RetiredThisStep(s) \cup {t}
  <2> SUFFICES ASSUME NEW o \in Blocks
               PROVE  /\ pc[o] \in Active
                      /\ Retired(o) = RetiredThisStep(s) /\ Retired(o)' = RetiredThisStep(s) \cup {t}
    OBVIOUS
  <2>1. pc[o] \in {"A", "queue", "task", "signal", "B", "check"} /\ regs[o].step = s
    BY <1>1, QueuePhase
  <2>2. Retired(o)' = RetiredThisStep(s)'
    BY <1>1, <2>1 DEF Retired, RetiredThisStep
  <2> QED
    BY <1>9, <2>1, <2>2 DEF Retired, Active
<1> HIDE DEF t, s, out
<1>11. Counted'
  <2>1. DOMAIN counters = DOMAIN StepProgram.counters /\ DOMAIN counters' = DOMAIN counters
    BY <1>5 DEF SInv
  <2>2. \A c \in DOMAIN counters : Owner(c) \in Blocks /\ Owner(c)' = Owner(c)
    BY <1>1, <2>1, CounterOwner DEF Owner
  <2> SUFFICES ASSUME NEW c \in DOMAIN counters, NEW o \in Blocks, o = Owner(c)
               PROVE  counters'[c] = Cardinality(Retired(o)' \cap Producers(StepProgram, c))
    BY <2>1, <2>2 DEF Counted
  <2>3. counters[c] = Cardinality(RetiredThisStep(s) \cap Producers(StepProgram, c)) /\ counters[c] \in Nat
    BY <1>2, <1>10, <2>1 DEF Counted, SInv
  <2>4. counters'[c] = IF c = out THEN counters[c] + 1 ELSE counters[c]
    BY <1>5
  <2>5. RetiredThisStep(s) \in SUBSET TaskIds(StepProgram) /\ t \in TaskIds(StepProgram) \ RetiredThisStep(s)
    BY <1>3, RetiredAreTasks
  <2>6. IsProgram(StepProgram) /\ (c = out <=> StepProgram.tasks[t].out_counter = c)
    BY <1>3, DecodeAssumption DEF out
  <2> QED
    BY <1>10, <2>3, <2>4, <2>5, <2>6, CountOneMore
<1> QED
  BY <1>1, <1>6, <1>7, <1>8, <1>11 DEF SInv, Lists


-----------------------------------------------------------------------------
(* The reset opens the next step: its blocks are at their first slots, so  *)
(* none of its tasks has retired, and the owner's counters are zero.       *)

LEMMA ResetMoves ==
  ASSUME PInv, SInv, host = "launched", UNCHANGED session, NEW b \in Blocks, Reset(b)
  PROVE  /\ pc[b] = "reset" /\ Blocks' = Blocks /\ 0 \in Blocks
         /\ UNCHANGED <<cells, abort, mem, generated, content, queues, host, call>>
         /\ \A c \in Blocks : /\ pc'[c] = (IF c = b THEN "D" ELSE pc[c])
                              /\ c # b => regs'[c] = regs[c]
         /\ regs[b].step \in Nat /\ regs[b].step + 1 \in 1 .. call.n
         /\ regs'[b].step = regs[b].step + 1 /\ regs'[b].qi = 1
         /\ regs'[b].aborted = regs[b].aborted
         /\ regs'[b].cur = Feeds(regs[b].step + 1)
         /\ \A c \in DOMAIN counters : counters'[c] = IF Owner(c) = b THEN 0 ELSE counters[c]
         /\ DOMAIN counters' = DOMAIN counters /\ ~ abort
<1>1. /\ pc[b] = "reset" /\ pc' = [pc EXCEPT ![b] = "D"]
      /\ regs' = [regs EXCEPT ![b].step = @ + 1, ![b].qi = 1, ![b].cur = generated[regs[b].step + 1]]
      /\ UNCHANGED <<cells, mem, generated, content, queues, host, call>>
      /\ counters' = [c \in DOMAIN counters |-> IF c \in Share(b) THEN 0 ELSE counters[c]]
  BY DEF Reset, Arrive, session
<1>2. \A c \in Blocks : pc'[c] = IF c = b THEN "D" ELSE pc[c]
  BY <1>1, BlockFacts DEF PInv, Shapes
<1>3. \A c \in Blocks : c \in DOMAIN Wide /\ DOMAIN regs[c] = Registers
  BY BlockFacts
<1>4. /\ \A c \in Blocks : c # b => regs'[c] = regs[c]
      /\ regs'[b] = [regs[b] EXCEPT !.step = regs[b].step + 1, !.qi = 1, !.cur = generated[regs[b].step + 1]]
  BY <1>1, <1>3 DEF PInv, Shapes
<1>5. /\ regs'[b].step = regs[b].step + 1 /\ regs'[b].qi = 1
      /\ regs'[b].cur = generated[regs[b].step + 1] /\ regs'[b].aborted = regs[b].aborted
  BY <1>3, <1>4 DEF Registers
<1>6. regs[b].step \in Nat /\ regs[b].step + 1 \in 1 .. call.n
  BY <1>1, BlockFacts DEF Place
<1>7. Feeds(regs[b].step + 1) = generated[regs[b].step + 1]
  BY <1>6, FeedsSamples DEF SInv
<1>8. ~ abort /\ abort' = abort
  <2>1. ~ abort
    BY <1>1, BlockFacts DEF FlagKnown
  <2>2. abort' \in BOOLEAN /\ abort \in BOOLEAN /\ (abort' <=> (abort /\ b # 0))
    BY Zenon DEF Reset, PInv, Shapes
  <2> QED
    BY <2>1, <2>2
<1>9. \A c \in DOMAIN counters : counters'[c] = IF Owner(c) = b THEN 0 ELSE counters[c]
  BY <1>1 DEF Share, Owner
<1> QED
  BY <1>1, <1>2, <1>4, <1>5, <1>6, <1>7, <1>8, <1>9, GridFacts DEF Blocks, PInv, Shapes

(* After it, the step b is now in is empty, also for those who reset       *)
(* before b did.                                                           *)
LEMMA ResetOpensStep ==
  ASSUME PInv, SInv, host = "launched", UNCHANGED session, NEW b \in Blocks, Reset(b),
         NEW o \in Blocks, pc'[o] \in Active
  PROVE  Retired(o)' = {} /\ (o # b => Retired(o) = {} /\ pc[o] \in Active)
<1>1. /\ pc[b] = "reset" /\ Blocks' = Blocks /\ queues' = queues
      /\ \A c \in Blocks : /\ pc'[c] = (IF c = b THEN "D" ELSE pc[c])
                           /\ c # b => regs'[c] = regs[c]
      /\ regs[b].step \in Nat
      /\ regs'[b].step = regs[b].step + 1 /\ regs'[b].qi = 1
  BY ResetMoves
<1>2. Slots /\ queues \in {Wide, Narrow}
  BY DEF SInv, PInv, Shapes
<1>3. \A c \in Blocks : \/ pc[c] \in {"C", "reset"} /\ regs[c].step = regs[b].step
                        \/ pc[c] = "D" /\ regs[c].step = regs[b].step + 1 /\ regs[c].qi = 1
  BY <1>1, <1>2, ResetPhase DEF Slots
<1> DEFINE z == regs[b].step + 1
<1>4. \A c \in Blocks : regs'[c].step = z => regs'[c].qi = 1
  BY <1>1, <1>3
<1>5. regs'[o].step = z
  BY <1>1, <1>3 DEF Active
<1> HIDE DEF z
<1>6. Retired(o)' = {}
  <2> SUFFICES ASSUME NEW c \in Blocks, NEW i \in DOMAIN queues[c], regs'[c].step = z, i < regs'[c].qi
               PROVE  FALSE
    BY <1>1, <1>5 DEF Retired, RetiredThisStep
  <2> QED
    BY <1>2, <1>4, SlotIsTask
<1>7. ASSUME o # b PROVE Retired(o) = {} /\ pc[o] \in Active
  <2>1. pc[o] = "D" /\ regs[o].step = regs[b].step + 1
    BY <1>1, <1>3, <1>7 DEF Active
  <2>2. \A c \in Blocks : regs[c].step = regs[o].step => regs[c].qi = 1
    BY <1>1, <1>3, <2>1
  <2> QED
    BY <2>1, <2>2, NothingRetiredYet DEF Retired, Active
<1> QED
  BY <1>6, <1>7

LEMMA ResetStep ==
  ASSUME PInv, SInv, host = "launched", UNCHANGED session, NEW b \in Blocks, Reset(b)
  PROVE  SInv'
<1>1. /\ pc[b] = "reset" /\ Blocks' = Blocks /\ 0 \in Blocks
      /\ UNCHANGED <<cells, generated, queues, host, call>>
      /\ \A c \in Blocks : /\ pc'[c] = (IF c = b THEN "D" ELSE pc[c])
                           /\ c # b => regs'[c] = regs[c]
      /\ regs[b].step \in Nat
      /\ regs'[b].step = regs[b].step + 1 /\ regs'[b].qi = 1
      /\ regs'[b].cur = Feeds(regs[b].step + 1)
      /\ \A c \in DOMAIN counters : counters'[c] = IF Owner(c) = b THEN 0 ELSE counters[c]
      /\ DOMAIN counters' = DOMAIN counters
  BY ResetMoves
<1>2. Slots /\ Published /\ Counted /\ counters \in [DOMAIN StepProgram.counters -> Nat]
  BY DEF SInv
<1>3. counters' \in [DOMAIN StepProgram.counters -> Nat]
  <2>1. counters' = [c \in DOMAIN counters |-> IF c \in Share(b) THEN 0 ELSE counters[c]]
    BY DEF Reset
  <2> QED
    BY <1>2, <2>1
<1>4. Slots'
  BY <1>1, <1>2 DEF Slots, InQueue
<1>5. Published'
  <2>1. CASE b = 0
    BY <1>1, <1>2, <2>1 DEF Published, Feeds
  <2>2. CASE b # 0
    BY <1>1, <1>2, <2>2 DEF Published, Feeds, AbsPos, BasePos
  <2> QED
    BY <2>1, <2>2
<1>6. Counted'
  <2>1. \A c \in DOMAIN counters : Owner(c) \in Blocks /\ Owner(c)' = Owner(c)
    BY <1>1, <1>2, CounterOwner DEF Owner
  <2> SUFFICES ASSUME NEW c \in DOMAIN counters, NEW o \in Blocks, o = Owner(c), pc'[o] \in Active
               PROVE  counters'[c] = Cardinality(Retired(o)' \cap Producers(StepProgram, c))
    BY <1>1, <2>1 DEF Counted
  <2>2. Retired(o)' = {} /\ (o # b => Retired(o) = {} /\ pc[o] \in Active)
    BY ResetOpensStep
  <2>3. Retired(o)' \cap Producers(StepProgram, c) = {}
    BY <2>2
  <2>4. Cardinality(Retired(o)' \cap Producers(StepProgram, c)) = 0
    BY <2>3, FS_EmptySet
  <2>5. CASE o = b
    BY <1>1, <2>4, <2>5
  <2>6. CASE o # b
    <3>1. Retired(o) \cap Producers(StepProgram, c) = {}
      BY <2>2, <2>6
    <3>2. counters[c] = 0
      BY <1>2, <2>2, <2>6, <3>1, FS_EmptySet DEF Counted
    <3> QED
      BY <1>1, <2>4, <2>6, <3>2
  <2> QED
    BY <2>5, <2>6
<1> QED
  BY <1>1, <1>3, <1>4, <1>5, <1>6 DEF SInv, Lists

LEMMA BlockStepSteps ==
  ASSUME PInv, SInv, NEW b \in Blocks, BlockStep(b)
  PROVE  SInv'
BY PassSteps, LoopSteps, QueueSteps, SampleStep, SignalStep, ResetStep DEF BlockStep

-----------------------------------------------------------------------------
(* The host.                                                               *)

LEMMA LaunchStep ==
  ASSUME PInv, SInv, Launch
  PROVE  SInv'
<1>1. /\ Blocks' = Blocks /\ queues' = queues /\ host = "gate" /\ host' = "launched"
      /\ UNCHANGED <<generated, call>>
      /\ counters' = [c \in DOMAIN counters |-> 0]
  BY DEF Launch, Blocks
<1>2. \A b \in Blocks : b \in DOMAIN Wide
  BY BlocksInWide DEF PInv, Shapes
<1>3. \A b \in Blocks : pc'[b] = "entry" /\ regs'[b].step = 0 /\ regs'[b].qi = 1 /\ regs'[b].cur = Last(call.prompt)
  BY <1>2 DEF Launch
<1>4. 0 \in Blocks /\ Lists
  BY GridFacts DEF PInv, Shapes, SInv
<1>5. Slots'
  BY <1>1, <1>3 DEF Slots
<1>6. Published'
  <2>1. Feeds(0)' = Feeds(0) /\ Feeds(0) = Last(call.prompt)
    BY <1>1, <1>4, FeedsSamples DEF Feeds
  <2>2. Feeds(regs[0].step)' = Feeds(0)'
    BY <1>3, <1>4 DEF Feeds
  <2> QED
    BY <1>3, <1>4, <2>1, <2>2 DEF Published
<1>7. counters' \in [DOMAIN StepProgram.counters -> Nat]
  BY <1>1 DEF SInv
<1>8. Counted'
  <2>1. \A o \in Blocks : Retired(o)' = {}
    <3> SUFFICES ASSUME NEW o \in Blocks, NEW c \in Blocks, NEW i \in DOMAIN queues[c], i < regs'[c].qi
                 PROVE  FALSE
      BY <1>1 DEF Retired, RetiredThisStep
    <3> QED
      BY <1>3, SlotIsTask DEF PInv, Shapes
  <2>2. \A c \in DOMAIN counters' : c \in Nat /\ counters'[c] = 0
    BY <1>1, <1>7, DecodeAssumption
  <2>3. \A c \in DOMAIN counters' : Owner(c)' \in Blocks
    BY <1>1, <2>2, GridFacts DEF Owner, PInv, Shapes
  <2> SUFFICES ASSUME NEW c \in DOMAIN counters', NEW o \in Blocks, o = Owner(c)'
               PROVE  counters'[c] = Cardinality(Retired(o)' \cap Producers(StepProgram, c))
    BY <2>3 DEF Counted
  <2>4. Retired(o)' \cap Producers(StepProgram, c) = {}
    BY <2>1
  <2> QED
    BY <2>2, <2>4, FS_EmptySet
<1> QED
  BY <1>1, <1>4, <1>5, <1>6, <1>7, <1>8 DEF SInv, Lists

LEMMA NothingYetIsList ==
  ASSUME NEW n \in Nat
  PROVE  IsList([i \in 1 .. n |-> Nothing]) /\ Len([i \in 1 .. n |-> Nothing]) = n
<1>1. PICK g : g = [i \in 1 .. n |-> Nothing]
  OBVIOUS
<1>2. g = [i \in 1 .. n |-> g[i]]
  BY <1>1
<1>3. IsList(g) /\ Len(g) = n
  BY <1>2, ListLength
<1> QED
  BY <1>1, <1>3

(* A call as Decode or Generate begins it.                                 *)
LEMMA CallBegins ==
  ASSUME SInv, Decode \/ Generate
  PROVE  /\ call'.n \in Lengths /\ host' \in {"seed", "loop"}
         /\ \/ call'.prompt \in Prompts
            \/ host = "ok" /\ call'.prompt = call.prompt \o generated
         /\ generated' = [i \in 1 .. call'.n |-> Nothing]
         /\ UNCHANGED <<pc, bar, regs, counters, abort, cells, mem, content, bound, built, queues>>
BY DEF Decode, Generate, Begin

LEMMA PromptIsList ==
  ASSUME NEW p \in Prompts
  PROVE  IsList(p) /\ Len(p) >= 1 /\ p \in Seq(Tokens)
<1>1. p \in Seq(Tokens) /\ p # <<>>
  BY DecodeAssumption
<1> QED
  BY <1>1, SeqIsList

LEMMA CallStep ==
  ASSUME SInv, Decode \/ Generate
  PROVE  SInv'
<1>1. /\ call'.n \in Nat /\ host' \in {"seed", "loop"}
      /\ \/ call'.prompt \in Prompts
         \/ host = "ok" /\ call'.prompt = call.prompt \o generated
      /\ generated' = [i \in 1 .. call'.n |-> Nothing]
      /\ counters' = counters
  BY CallBegins, DecodeAssumption
<1>2. IsList(generated') /\ Len(generated') = call'.n
  BY <1>1, NothingYetIsList
<1>3. IsList(call'.prompt) /\ Len(call'.prompt) >= 1
  <2>1. CASE call'.prompt \in Prompts
    BY <2>1, PromptIsList
  <2>2. CASE host = "ok" /\ call'.prompt = call.prompt \o generated
    <3>1. IsList(call.prompt) /\ IsList(generated) /\ Len(call.prompt) >= 1
      BY <2>2 DEF SInv, Lists
    <3>2. IsList(call.prompt \o generated) /\ Len(call.prompt \o generated) = Len(call.prompt) + Len(generated)
      BY <3>1, ListConcat
    <3> QED
      BY <2>2, <3>1, <3>2 DEF IsList
  <2> QED
    BY <1>1, <2>1, <2>2
<1>4. Lists'
  BY <1>1, <1>2, <1>3 DEF Lists, IsList
<1> QED
  BY <1>1, <1>4 DEF SInv

LEMMA HostSteps ==
  ASSUME PInv, SInv, Passes, HostStep \/ RunFails
  PROVE  SInv'
<1>1. CASE Launch
  BY <1>1, LaunchStep
<1>2. CASE Collect \/ RunFails \/ SeedByBuild \/ SeedByCopy \/ Regrid \/ RejectLength \/ GenerateReturns
  <2>1. /\ UNCHANGED <<generated, call, counters>> /\ host' # "launched" /\ host # "idle"
    BY <1>2 DEF Collect, RunFails, SeedByBuild, SeedByCopy, Regrid, RejectLength, GenerateReturns, device
  <2> QED
    BY <2>1 DEF SInv, Lists
<1>3. CASE ForwardPass
  <2> DEFINE p == passes.forward
             v == Sampled(PassLogits(IF p = 0 THEN Zeros ELSE content[LoopCache],
                                     SubSeq(call.prompt \o generated, 1, p + 1)))
  <2>1. /\ UNCHANGED <<call, counters, host>> /\ host = "loop" /\ p < TotalPositions
        /\ generated' = IF p < BasePos THEN generated ELSE [generated EXCEPT ![p - BasePos + 1] = v]
    BY <1>3 DEF ForwardPass
  <2> HIDE DEF v
  <2>2. IsList(generated) /\ Len(generated) = call.n /\ Len(call.prompt) \in Nat /\ p \in Nat
    BY DEF SInv, Lists, IsList, Passes
  <2>3. ASSUME ~ p < BasePos
        PROVE  IsList(generated') /\ Len(generated') = call.n
    <3>1. p - BasePos + 1 \in 1 .. Len(generated)
      BY <2>1, <2>2, <2>3 DEF BasePos, TotalPositions, IsList
    <3> HIDE DEF p
    <3>2. /\ IsList([generated EXCEPT ![p - BasePos + 1] = v])
          /\ Len([generated EXCEPT ![p - BasePos + 1] = v]) = Len(generated)
      BY <2>2, <3>1, ListUpdate, SMTT(20)
    <3>3. generated' = [generated EXCEPT ![p - BasePos + 1] = v]
      BY <2>1, <2>3
    <3> QED
      BY <2>2, <3>2, <3>3, Zenon
  <2>4. IsList(generated') /\ Len(generated') = call.n
    BY <2>1, <2>2, <2>3
  <2> QED
    BY <2>1, <2>4 DEF SInv, Lists
<1> QED
  BY <1>1, <1>2, <1>3 DEF HostStep

LEMMA NextPasses == Passes /\ [Next]_vars => Passes'
<1> SUFFICES ASSUME Passes, [Next]_vars PROVE Passes'
  OBVIOUS
<1>1. CASE UNCHANGED passes
  BY <1>1 DEF Passes
<1>2. CASE Decode \/ Generate
  BY <1>2 DEF Decode, Generate, Begin, Passes
<1>3. CASE ForwardPass
  <2>1. passes' = [passes EXCEPT !.forward = passes.forward + 1]
    BY <1>3 DEF ForwardPass
  <2> QED
    BY <2>1 DEF Passes
<1>4. ASSUME NEW b \in Blocks, BlockStep(b) PROVE UNCHANGED passes
  BY <1>4 DEF BlockStep, session
<1>5. ASSUME SeedByBuild \/ SeedByCopy \/ Regrid \/ Launch \/ Collect \/ RejectLength \/ GenerateReturns \/ RunFails
      PROVE  UNCHANGED passes
  BY <1>5 DEF SeedByBuild, SeedByCopy, Regrid, Launch, Collect, RejectLength, GenerateReturns, RunFails
<1> QED
  BY <1>1, <1>2, <1>3, <1>4, <1>5 DEF Next, HostStep, vars, session

LEMMA InitSInv == Init => SInv /\ Passes
<1> SUFFICES ASSUME Init PROVE SInv /\ Passes
  OBVIOUS
<1>1. /\ call.prompt = <<>> /\ generated = <<>> /\ call.n = 0 /\ host = "idle"
      /\ counters = [c \in DOMAIN StepProgram.counters |-> 0]
      /\ passes = [forward |-> 0, calls |-> 0]
  BY DEF Init
<1>2. IsList(<<>>) /\ Len(<<>>) = 0
  BY DEF IsList
<1> QED
  BY <1>1, <1>2 DEF SInv, Lists, Passes

LEMMA NextSInv == PInv /\ SInv /\ Passes /\ [Next]_vars => SInv'
<1> SUFFICES ASSUME PInv, SInv, Passes, [Next]_vars
             PROVE  SInv'
  OBVIOUS
<1>1. CASE UNCHANGED vars
  <2>1. /\ UNCHANGED <<pc, regs, counters, cells, generated, queues, host, call>> /\ Blocks' = Blocks
    BY <1>1 DEF vars, device, session, Blocks
  <2>2. Slots => Slots'
    BY <2>1 DEF Slots, InQueue
  <2>3. Published => Published'
    BY <2>1 DEF Published, Feeds, AbsPos, BasePos
  <2>4. Counted => Counted'
    BY <2>1, CountedStays DEF SInv
  <2> QED
    BY <2>1, <2>2, <2>3, <2>4 DEF SInv, Lists
<1>2. ASSUME NEW b \in Blocks, BlockStep(b) PROVE SInv'
  BY <1>2, BlockStepSteps
<1> QED
  BY <1>1, <1>2, CallStep, HostSteps DEF Next

(***************************************************************************)
(* Each step of the decode loop works on its own token, position and       *)
(* counts: while a task runs, the cells hold what its step was fed and the *)
(* counters count the producers that retired in this step and in no        *)
(* earlier one, for every program validate() accepts, every grid, every    *)
(* sequence of calls, and whatever traps.                                  *)
(***************************************************************************)
THEOREM StepsAreIsolated == Spec => []StepIsolation
<1>1. PInv /\ SInv => StepIsolation
  <2> SUFFICES ASSUME PInv, SInv, host = "launched", NEW b \in Blocks, pc[b] \in {"task", "signal"}
               PROVE  /\ cells = [token |-> Feeds(regs[b].step), pos |-> AbsPos(b)]
                      /\ \A c \in DOMAIN counters :
                           counters[c] = Cardinality(RetiredThisStep(regs[b].step) \cap Producers(StepProgram, c))
    BY DEF StepIsolation
  <2>1. \A o \in Blocks : pc[o] \in {"A", "queue", "task", "signal", "B", "check"} /\ regs[o].step = regs[b].step
    BY QueuePhase
  <2>2. 0 \in Blocks /\ \A c \in DOMAIN counters : Owner(c) \in Blocks
    BY GridFacts, CounterOwner DEF PInv, Shapes, SInv
  <2>3. cells = [token |-> Feeds(regs[b].step), pos |-> AbsPos(b)]
    BY <2>1, <2>2 DEF SInv, Published, AbsPos
  <2>4. ASSUME NEW c \in DOMAIN counters
        PROVE  counters[c] = Cardinality(RetiredThisStep(regs[b].step) \cap Producers(StepProgram, c))
    BY <2>1, <2>2 DEF SInv, Counted, Retired, Active
  <2> QED
    BY <2>3, <2>4
<1> QED
  BY <1>1, InitPInv, NextPInv, InitSInv, NextSInv, NextPasses, PTL DEF Spec

-----------------------------------------------------------------------------
(***************************************************************************)
(* The decoders produce the model's own tokens.  Made is how many a call   *)
(* has so far.  The rows of the cache in use are those of the tokens fed;  *)
(* while nothing has trapped, what a task of the current step has stored   *)
(* is what the model has in its outputs after the tokens fed so far.       *)
(***************************************************************************)
Made ==
  IF host = "launched" THEN IF pc[0] \in {"C", "reset"} THEN regs[0].step + 1 ELSE regs[0].step
  ELSE IF host = "loop" THEN IF passes.forward > BasePos THEN passes.forward - BasePos ELSE 0
  ELSE IF host = "ok" THEN call.n
  ELSE 0

Tape ==
  host # "raised" =>
    /\ Made \in 0 .. call.n
    /\ \A i \in 1 .. call.n : /\ i <= Made => generated[i] \in Tokens
                              /\ i > Made => generated[i] = Nothing

(* decode(), from its seeding to its end, and between it and the next.     *)
OnDevice == host \in {"seed", "gate", "launched"} \/ (host = "ok" /\ call.kv # "threaded")

Session ==
  /\ host \in Idle \cup {"seed", "gate", "launched", "loop"}
  /\ call.prompt \in Seq(Tokens) /\ call.n \in Nat
  /\ host # "idle" => call.n >= 1
  /\ host = "idle" => call.n = 0
  /\ host = "loop" => passes.forward <= TotalPositions /\ call.kv = "threaded"
  /\ OnDevice =>
       /\ Len(call.prompt) - 1 + call.n <= MaxSeq
       /\ call.kv \in {"given", "none", "kept"}
       /\ call.kv = "given" => call.prompt \in Prompts
       /\ call.kv = "none" => Len(call.prompt) = 1
       /\ host # "seed" \/ call.kv = "kept" => built
       /\ host \in {"launched", "ok"} \/ call.kv = "kept" => ~ (Regrids /\ queues = Wide)

(* The first k tokens of the sequence; the row the last of i + 1 appends.  *)
Prefix(k) == [j \in 1 .. k |-> (call.prompt \o generated)[j]]
Row(i) == [x \in KVCaches |-> Right(x, Prefix(i + 1))]
Rows(cache, k) == \A i \in 0 .. k - 1 : cache[i] = Row(i)

IsRow(row) == row = [x \in KVCaches |-> row[x]]
IsCache(cache) ==
  /\ cache = [i \in 0 .. MaxSeq - 1 |-> cache[i]]
  /\ \A i \in 0 .. MaxSeq - 1 : IsRow(cache[i])

Caches ==
  /\ bound = VmCache
  /\ content = [t \in Tensors |-> content[t]]
  /\ \A t \in Tensors : IsCache(content[t])
  /\ \A p \in Prompts : content[CallerCache(p)] = Prefilled(p)
  /\ OnDevice /\ (host = "seed" => call.kv = "kept") => Rows(content[VmCache], BasePos + Made)
  /\ host = "loop" => Rows(content[LoopCache], passes.forward)

(* What buffer x holds in step s.                                          *)
Expected(x, s) == Right(x, Prefix(BasePos + s + 1))

Computed == Retired(0) \cup {Current(b) : b \in {c \in Blocks : pc[c] = "signal"}}

Done(t) ==
  /\ StepProgram.tasks[t].op = "KV_APPEND" =>
       \A x \in StepProgram.tasks[t].outputs : content[bound][AbsPos(0)][x] = Row(AbsPos(0))[x]
  /\ StepProgram.tasks[t].op # "KV_APPEND" =>
       \A x \in StepProgram.tasks[t].outputs : \A c \in Footprint(StepProgram.tasks[t]) :
         mem[x][c] = Expected(x, regs[0].step)

MemShape ==
  /\ mem = [x \in DOMAIN StepProgram.buffers |-> mem[x]]
  /\ \A x \in DOMAIN StepProgram.buffers : mem[x] = [c \in Cols |-> mem[x][c]]

Drained ==
  \A b \in Blocks : pc[b] \in {"B", "check", "C", "reset"} /\ ~ regs[b].aborted => ~ InQueue(b)

Ordered ==
  /\ pc[0] \in Active => PredClosed(StepProgram, Retired(0))
  /\ \A b \in Blocks : pc[b] \in {"task", "signal"} => Pred(StepProgram, Current(b)) \subseteq Retired(b)

RightValues == pc[0] \in Active /\ ~ abort => \A t \in Computed : Done(t)

DInv ==
  /\ Tape /\ Session /\ Caches
  /\ MemShape
  /\ host = "launched" => Drained /\ Ordered /\ RightValues

(* What the three invariants say together.                                 *)
IInv == PInv /\ SInv /\ Passes /\ DInv

-----------------------------------------------------------------------------
LEMMA TensorsDiffer ==
  /\ VmCache \in Tensors /\ LoopCache \in Tensors /\ VmCache # LoopCache
  /\ \A p \in Prompts : CallerCache(p) \in Tensors /\ CallerCache(p) # VmCache /\ CallerCache(p) # LoopCache
BY DEF Tensors, VmCache, LoopCache, CallerCache

(* What a step program does, one fact at a time.                           *)
LEMMA StepFacts ==
  /\ IsProgram(StepProgram) /\ Accepted(StepProgram) /\ ReadsOrdered(StepProgram)
  /\ \A t \in TaskIds(StepProgram) :
       /\ StepProgram.tasks[t].op = "KV_APPEND" => AppendsRight(t)
       /\ StepProgram.tasks[t].op # "KV_APPEND" => ComputesRight(t)
  /\ LogitsBuffer \notin KVCaches /\ Covered(LogitsBuffer, 0)
  /\ \A x \in KVCaches : \E t \in Writers(StepProgram, x) : StepProgram.tasks[t].op = "KV_APPEND"
<1>1. IsProgram(StepProgram) /\ Accepted(StepProgram)
  BY DecodeAssumption
<1>2. ReadsOrdered(StepProgram)
  BY <1>1, StepAssumption DEF Accepted
<1>3. ASSUME NEW t \in TaskIds(StepProgram)
      PROVE  /\ StepProgram.tasks[t].op = "KV_APPEND" => AppendsRight(t)
             /\ StepProgram.tasks[t].op # "KV_APPEND" => ComputesRight(t)
  BY StepAssumption
<1> QED
  BY <1>1, <1>2, <1>3, StepAssumption

LEMMA CacheIsTransient == \A x \in KVCaches : Transient(StepProgram, x)
BY DEF KVCaches, Transient, ReadOnlyKinds

LEMMA CutPrefix ==
  ASSUME NEW f, NEW k \in Nat, NEW m \in 0 .. k
  PROVE  SubSeq([j \in 1 .. k |-> f[j]], 1, m) = [j \in 1 .. m |-> f[j]]
<1>1. PICK s : s = [j \in 1 .. k |-> f[j]]
  OBVIOUS
<1>2. s = [j \in 1 .. k |-> s[j]] /\ \A j \in 1 .. k : s[j] = f[j]
  BY <1>1
<1>3. Len(s) = k /\ IsList(s)
  BY <1>2, ListLength
<1>4. PICK S : s \in Seq(S)
  <2>1. PICK S : S = {s[i] : i \in 1 .. k}
    OBVIOUS
  <2>2. s \in Seq(S)
    BY <1>2, <2>1
  <2> QED
    BY <2>2
<1>5. SubSeq(s, 1, m) \in Seq(S) /\ Len(SubSeq(s, 1, m)) = m /\ \A i \in 1 .. m : SubSeq(s, 1, m)[i] = s[i]
  BY <1>3, <1>4
<1>6. SubSeq(s, 1, m) = [i \in 1 .. m |-> SubSeq(s, 1, m)[i]]
  BY <1>5, SeqIsList DEF IsList
<1>7. \A i \in 1 .. m : SubSeq(s, 1, m)[i] = f[i]
  BY <1>2, <1>5
<1> QED
  BY <1>1, <1>6, <1>7

LEMMA PrefixFacts ==
  ASSUME NEW k \in Nat
  PROVE  /\ Len(Prefix(k)) = k /\ IsList(Prefix(k))
         /\ k >= 1 => Last(Prefix(k)) = (call.prompt \o generated)[k]
         /\ \A m \in 0 .. k : SubSeq(Prefix(k), 1, m) = Prefix(m)
<1> DEFINE f == call.prompt \o generated
<1> HIDE DEF f
<1>1. Prefix(k) = [j \in 1 .. k |-> f[j]] /\ \A m : Prefix(m) = [j \in 1 .. m |-> f[j]]
  BY DEF Prefix, f
<1>2. Len(Prefix(k)) = k /\ IsList(Prefix(k))
  <2>1. Prefix(k) = [j \in 1 .. k |-> Prefix(k)[j]]
    BY <1>1
  <2> QED
    BY <2>1, ListLength
<1>3. k >= 1 => Last(Prefix(k)) = f[k]
  BY <1>1, <1>2 DEF Last
<1>4. ASSUME NEW m \in 0 .. k PROVE SubSeq(Prefix(k), 1, m) = Prefix(m)
  BY <1>1, CutPrefix
<1> QED
  BY <1>2, <1>3, <1>4 DEF f

(* The start of the prompt and of what follows it.                         *)
LEMMA PromptPrefix ==
  ASSUME Lists, NEW k \in 0 .. Len(call.prompt)
  PROVE  SubSeq(call.prompt, 1, k) = Prefix(k)
<1>1. IsList(call.prompt) /\ IsList(generated) /\ Len(call.prompt) \in Nat
  BY DEF Lists, IsList
<1>2. call.prompt = [j \in 1 .. Len(call.prompt) |-> call.prompt[j]]
  BY <1>1 DEF IsList
<1>3. SubSeq(call.prompt, 1, k) = [j \in 1 .. k |-> call.prompt[j]]
  BY <1>1, <1>2, CutPrefix
<1>4. \A j \in 1 .. k : (call.prompt \o generated)[j] = call.prompt[j]
  BY <1>1, ListConcat
<1> QED
  BY <1>3, <1>4 DEF Prefix

LEMMA SequencePrefix ==
  ASSUME Lists, NEW k \in 0 .. Len(call.prompt) + call.n
  PROVE  SubSeq(call.prompt \o generated, 1, k) = Prefix(k)
<1>1. IsList(call.prompt) /\ IsList(generated) /\ Len(generated) = call.n
  BY DEF Lists
<1> DEFINE f == call.prompt \o generated
           l == Len(call.prompt) + call.n
<1>2. IsList(f) /\ Len(f) = l
  BY <1>1, ListConcat
<1>3. f = [j \in 1 .. l |-> f[j]] /\ l \in Nat
  BY <1>2 DEF IsList
<1>4. k \in 0 .. l
  OBVIOUS
<1> HIDE DEF f, l
<1>5. SubSeq(f, 1, k) = [j \in 1 .. k |-> f[j]]
  BY <1>3, <1>4, CutPrefix
<1> QED
  BY <1>5 DEF f, Prefix

(* The model's choice after the prompt and s samples.                      *)
Choice(s) == NextToken(call.prompt \o SubSeq(generated, 1, s))

LEMMA Fed ==
  ASSUME Lists, NEW s \in 0 .. call.n
  PROVE  call.prompt \o SubSeq(generated, 1, s) =
           [i \in 1 .. Len(call.prompt) + s |-> (call.prompt \o generated)[i]]
<1> DEFINE g == SubSeq(generated, 1, s)
<1>1. /\ IsList(call.prompt) /\ IsList(generated) /\ Len(generated) = call.n
      /\ Len(call.prompt) \in Nat /\ call.n \in Nat /\ s \in Nat
  <2>1. IsList(call.prompt) /\ IsList(generated) /\ Len(generated) = call.n
    BY DEF Lists
  <2>2. Len(call.prompt) \in Nat /\ call.n \in Nat
    BY <2>1 DEF IsList
  <2> QED
    BY <2>1, <2>2
<1>2. PICK S : generated \in Seq(S)
  <2>1. PICK S : S = {generated[i] : i \in 1 .. call.n}
    OBVIOUS
  <2>2. generated \in Seq(S)
    BY <1>1, <2>1 DEF IsList
  <2> QED
    BY <2>2
<1>3. IsList(g) /\ Len(g) = s /\ \A i \in 1 .. s : g[i] = generated[i]
  <2>1. g \in Seq(S) /\ Len(g) = s /\ \A i \in 1 .. s : g[i] = generated[i]
    BY <1>1, <1>2
  <2> QED
    BY <2>1, SeqIsList
<1> HIDE DEF g
<1>4. /\ IsList(call.prompt \o g) /\ Len(call.prompt \o g) = Len(call.prompt) + s
      /\ \A i \in 1 .. Len(call.prompt) : (call.prompt \o g)[i] = call.prompt[i]
      /\ \A i \in 1 .. s : (call.prompt \o g)[Len(call.prompt) + i] = generated[i]
  BY <1>1, <1>3, ListConcat
<1>5. /\ \A i \in 1 .. Len(call.prompt) : (call.prompt \o generated)[i] = call.prompt[i]
      /\ \A i \in 1 .. s : (call.prompt \o generated)[Len(call.prompt) + i] = generated[i]
  BY <1>1, ListConcat
<1>6. \A i \in 1 .. Len(call.prompt) + s : (call.prompt \o g)[i] = (call.prompt \o generated)[i]
  <2> SUFFICES ASSUME NEW i \in 1 .. Len(call.prompt) + s
               PROVE  (call.prompt \o g)[i] = (call.prompt \o generated)[i]
    OBVIOUS
  <2>1. CASE i <= Len(call.prompt)
    BY <1>1, <1>4, <1>5, <2>1
  <2>2. CASE i > Len(call.prompt)
    <3>1. i - Len(call.prompt) \in 1 .. s /\ i = Len(call.prompt) + (i - Len(call.prompt))
      BY <1>1, <2>2
    <3> QED
      BY <1>4, <1>5, <3>1
  <2>3. i <= Len(call.prompt) \/ i > Len(call.prompt)
    BY <1>1
  <2> QED
    BY <2>1, <2>2, <2>3, Zenon
<1>7. call.prompt \o g = [i \in 1 .. Len(call.prompt) + s |-> (call.prompt \o g)[i]]
  BY <1>4 DEF IsList
<1>8. call.prompt \o g = [i \in 1 .. Len(call.prompt) + s |-> (call.prompt \o generated)[i]]
  BY <1>6, <1>7
<1> QED
  BY <1>8 DEF g

(* That choice, a token, is the one the right logits favour.               *)
LEMMA LogitsMakeChoice ==
  ASSUME Lists, call.prompt \in Seq(Tokens), NEW s \in 0 .. call.n,
         \A i \in 1 .. s : generated[i] \in Tokens,
         Len(call.prompt) >= 1, Len(call.prompt) + s <= MaxSeq
  PROVE  /\ Choice(s) \in Tokens
         /\ Sampled(Right(LogitsBuffer, Prefix(Len(call.prompt) + s))) = Choice(s)
         /\ Prefix(Len(call.prompt) + s) \in Contexts
<1> DEFINE k == Len(call.prompt) + s
           fed == call.prompt \o generated
<1>1. /\ IsList(call.prompt) /\ IsList(generated) /\ Len(generated) = call.n
      /\ Len(call.prompt) \in Nat /\ s \in Nat /\ k \in Nat /\ k >= 1 /\ k <= MaxSeq
  <2>1. IsList(call.prompt) /\ IsList(generated) /\ Len(generated) = call.n
    BY DEF Lists
  <2>2. Len(call.prompt) \in Nat /\ call.n \in Nat
    BY <2>1 DEF IsList
  <2>3. s \in Nat /\ MaxSeq \in Nat
    BY <2>2, DecodeAssumption
  <2> QED
    BY <2>1, <2>2, <2>3
<1>2. \A i \in 1 .. k : fed[i] \in Tokens
  <2> SUFFICES ASSUME NEW i \in 1 .. k PROVE fed[i] \in Tokens
    OBVIOUS
  <2>1. CASE i <= Len(call.prompt)
    <3>1. i \in 1 .. Len(call.prompt) /\ call.prompt[i] \in Tokens
      BY <1>1, <2>1, SMTT(20)
    <3> QED
      BY <1>1, <3>1, ListConcat
  <2>2. CASE i > Len(call.prompt)
    <3>1. i - Len(call.prompt) \in 1 .. s /\ i = Len(call.prompt) + (i - Len(call.prompt))
      BY <1>1, <2>2
    <3>2. i - Len(call.prompt) \in 1 .. Len(generated) /\ generated[i - Len(call.prompt)] \in Tokens
      BY <1>1, <3>1, SMTT(20)
    <3>3. fed[Len(call.prompt) + (i - Len(call.prompt))] = generated[i - Len(call.prompt)]
      BY <1>1, <3>2, ListConcat
    <3> QED
      BY <3>1, <3>2, <3>3
  <2> QED
    BY <1>1, <2>1, <2>2
<1>3. Prefix(k) = [i \in 1 .. k |-> fed[i]]
  BY DEF Prefix
<1> HIDE DEF k, fed
<1>4. k \in 1 .. MaxSeq /\ Prefix(k) \in [1 .. k -> Tokens]
  BY <1>1, <1>2, <1>3, DecodeAssumption
<1>5. Prefix(k) \in Contexts
  BY <1>4 DEF Contexts
<1>6. NextToken(Prefix(k)) \in Tokens
  BY <1>5, ModelAssumption
<1>7. Choice(s) = NextToken(Prefix(k))
  BY Fed DEF Choice, k, Prefix
<1>8. Sampled(Right(LogitsBuffer, Prefix(k))) = NextToken(Prefix(k))
  BY <1>6 DEF Sampled, NextToken
<1> QED
  BY <1>5, <1>6, <1>7, <1>8 DEF k

(* The tokens a call has produced, as the abstract decoder counts them.    *)
LEMMA ProducedIs ==
  ASSUME Lists, Tape, call.n \in Nat, host # "raised"
  PROVE  Produced = SubSeq(generated, 1, Made) /\ Made \in 0 .. call.n
<1>1. /\ IsList(generated) /\ Len(generated) = call.n /\ Made \in 0 .. call.n
      /\ DOMAIN generated = 1 .. call.n
  BY DEF Lists, IsList, Tape
<1>2. Nothing \notin Tokens
  BY DecodeAssumption
<1>3. \A i \in 1 .. call.n : generated[i] # Nothing <=> i <= Made
  BY <1>1, <1>2 DEF Tape
<1>4. {i \in DOMAIN generated : generated[i] # Nothing} = 1 .. Made
  BY <1>1, <1>3
<1>5. Cardinality(1 .. Made) = Made
  BY <1>1, FS_Interval
<1> QED
  BY <1>1, <1>4, <1>5 DEF Produced


-----------------------------------------------------------------------------
(* Who passed its waits finds everything it depends on retired.            *)
LEMMA ReadyMeansRetired ==
  ASSUME PInv, SInv, host = "launched", NEW b \in Blocks, pc[b] = "queue", InQueue(b), WaitsReady(b)
  PROVE  Pred(StepProgram, Current(b)) \subseteq Retired(b)
<1> DEFINE t == Current(b)
<1>1. t \in TaskIds(StepProgram) /\ CurrentTask(b) = StepProgram.tasks[t]
  BY CurrentNotRetired DEF SInv
<1>2. IsProgram(StepProgram) /\ Accepted(StepProgram)
  BY DecodeAssumption
<1>3. Retired(b) \in SUBSET TaskIds(StepProgram)
  BY RetiredAreTasks DEF Retired
<1>4. ASSUME NEW w \in Waits(StepProgram, t)
      PROVE  Cardinality(Retired(b) \cap Producers(StepProgram, w.counter)) >= w.threshold
  <2>1. counters[w.counter] >= w.threshold
    BY <1>1 DEF WaitsReady, Waits
  <2>2. w.counter \in DOMAIN StepProgram.counters
    BY <1>1, <1>2, WaitIsJoin
  <2>3. PICK o \in Blocks : o = Owner(w.counter)
    BY <2>2, CounterOwner
  <2>4. pc[o] \in Active /\ Retired(o) = Retired(b)
    BY QueuePhase DEF Active, Retired
  <2>5. counters[w.counter] = Cardinality(Retired(b) \cap Producers(StepProgram, w.counter))
    BY <2>2, <2>3, <2>4 DEF SInv, Counted
  <2> QED
    BY <2>1, <2>5
<1> HIDE DEF t
<1>5. Pred(StepProgram, t) \subseteq Retired(b)
  BY <1>1, <1>2, <1>3, <1>4, JoinedMeansComplete
<1> QED
  BY <1>5 DEF t

(* Everything a proof about a task in its block wants to know.             *)
LEMMA TaskFacts ==
  ASSUME IInv, host = "launched", NEW b \in Blocks, pc[b] \in {"task", "signal"}
  PROVE  /\ 0 \in Blocks /\ InQueue(b)
         /\ Current(b) \in TaskIds(StepProgram)
         /\ CurrentTask(b) = StepProgram.tasks[Current(b)] /\ CurrentTask(b) \in TaskType
         /\ pc[0] \in {"A", "queue", "task", "signal", "B", "check"} /\ pc[0] \in Active
         /\ regs[b].step = regs[0].step /\ regs[0].step \in Nat /\ regs[0].step < call.n
         /\ Retired(b) = Retired(0) /\ Retired(0) \in SUBSET TaskIds(StepProgram)
         /\ PredClosed(StepProgram, Retired(0))
         /\ Pred(StepProgram, Current(b)) \subseteq Retired(0)
         /\ Ancestors(StepProgram, Current(b)) \subseteq Retired(0)
         /\ Made = regs[0].step
         /\ AbsPos(b) = AbsPos(0) /\ AbsPos(0) \in 0 .. MaxSeq - 1 /\ AbsPos(0) = BasePos + regs[0].step
         /\ Len(call.prompt) \in Nat /\ Len(call.prompt) >= 1
         /\ cells = [token |-> Feeds(regs[0].step), pos |-> AbsPos(0)]
<1>1. PInv /\ SInv /\ DInv /\ Slots /\ Published /\ Ordered /\ Lists /\ Session
  BY DEF IInv, SInv, DInv
<1>2. 0 \in Blocks /\ InQueue(b)
  BY <1>1, GridFacts DEF PInv, Shapes, Slots
<1>3. /\ Current(b) \in TaskIds(StepProgram)
      /\ CurrentTask(b) = StepProgram.tasks[Current(b)] /\ CurrentTask(b) \in TaskType
  BY <1>1, <1>2, CurrentNotRetired
<1>4. /\ pc[0] \in {"A", "queue", "task", "signal", "B", "check"} /\ pc[0] \in Active
      /\ regs[b].step = regs[0].step
  BY <1>1, <1>2, QueuePhase DEF Active
<1>5. regs[0].step \in Nat /\ call.n \in Nat /\ regs[0].step < call.n
  BY <1>1, <1>4, BlockFacts DEF Place
<1>6. Retired(b) = Retired(0) /\ Retired(0) \in SUBSET TaskIds(StepProgram)
  BY <1>4, RetiredAreTasks DEF Retired
<1>7. PredClosed(StepProgram, Retired(0)) /\ Pred(StepProgram, Current(b)) \subseteq Retired(0)
  BY <1>1, <1>4, <1>6 DEF Ordered
<1>8. Ancestors(StepProgram, Current(b)) \subseteq Retired(0)
  BY <1>6, <1>7, AncestorsInClosedSet
<1>9. Made = regs[0].step
  BY <1>4 DEF Made
<1>10. Len(call.prompt) \in Nat /\ Len(call.prompt) >= 1 /\ MaxSeq \in Nat
  BY <1>1, DecodeAssumption DEF Lists, IsList
<1>11. Len(call.prompt) - 1 + call.n <= MaxSeq
  BY <1>1 DEF Session, OnDevice
<1>12. AbsPos(b) = AbsPos(0) /\ AbsPos(0) \in 0 .. MaxSeq - 1 /\ AbsPos(0) = BasePos + regs[0].step
  BY <1>4, <1>5, <1>10, <1>11, SMTT(30) DEF AbsPos, BasePos
<1>13. cells = [token |-> Feeds(regs[0].step), pos |-> AbsPos(0)]
  BY <1>1, <1>4 DEF Published
<1> QED
  BY <1>2, <1>3, <1>4, <1>5, <1>6, <1>7, <1>8, <1>9, <1>10, <1>12, <1>13

(* A buffer whose columns have all been stored by tasks of this step.      *)
LEMMA ValueIsRight ==
  ASSUME NEW x, x \notin KVCaches, NEW t, Covered(x, t), NEW D,
         Writers(StepProgram, x) \ {t} \subseteq D, \A u \in D : Done(u)
  PROVE  Value(x) = Expected(x, regs[0].step)
<1> DEFINE e == Expected(x, regs[0].step)
<1>1. \A c \in Cols : mem[x][c] = e
  <2> SUFFICES ASSUME NEW c \in Cols PROVE mem[x][c] = e
    OBVIOUS
  <2>1. PICK u \in Writers(StepProgram, x) \ {t} : c \in Footprint(StepProgram.tasks[u])
    BY DEF Covered
  <2>2. u \in D /\ u \in TaskIds(StepProgram) /\ x \in StepProgram.tasks[u].outputs
    BY <2>1 DEF Writers
  <2>3. StepProgram.tasks[u].op # "KV_APPEND"
    BY <2>2, StepFacts DEF AppendsRight
  <2> QED
    BY <2>1, <2>2, <2>3 DEF Done
<1>2. Cols # {}
  BY DecodeAssumption
<1> HIDE DEF e
<1>3. Value(x) = mem[x][CHOOSE c \in Cols : TRUE]
  BY <1>1 DEF Value
<1>4. (CHOOSE c \in Cols : TRUE) \in Cols
  BY <1>2
<1> QED
  BY <1>1, <1>3, <1>4 DEF e

(* What a task reads of the buffers computed in this step.                 *)
LEMMA InputIsRight ==
  ASSUME IInv, host = "launched", ~ abort, NEW b \in Blocks, pc[b] = "task",
         NEW x \in CurrentTask(b).inputs \ KVCaches, Transient(StepProgram, x), Covered(x, Current(b))
  PROVE  Value(x) = Expected(x, regs[0].step)
<1>1. /\ Current(b) \in TaskIds(StepProgram) /\ CurrentTask(b) = StepProgram.tasks[Current(b)]
      /\ Ancestors(StepProgram, Current(b)) \subseteq Retired(0) /\ pc[0] \in Active
  BY TaskFacts
<1>2. Writers(StepProgram, x) \ {Current(b)} \subseteq Retired(0)
  BY <1>1, StepFacts DEF ReadsOrdered
<1>3. \A u \in Retired(0) : Done(u)
  BY <1>1 DEF IInv, DInv, RightValues, Computed
<1> QED
  BY <1>2, <1>3, ValueIsRight

(* What it reads of a cache: the rows of the tokens fed, the last of which *)
(* the cache's KV_APPEND has just stored.                                  *)
LEMMA WindowIsRight ==
  ASSUME IInv, host = "launched", ~ abort, NEW b \in Blocks, pc[b] = "task",
         CurrentTask(b).op # "KV_APPEND", NEW x \in CurrentTask(b).inputs \cap KVCaches
  PROVE  \A i \in 0 .. AbsPos(0) : content[bound][i][x] = Row(i)[x]
<1>1. /\ Current(b) \in TaskIds(StepProgram) /\ CurrentTask(b) = StepProgram.tasks[Current(b)]
      /\ Ancestors(StepProgram, Current(b)) \subseteq Retired(0) /\ pc[0] \in Active
      /\ Made = regs[0].step /\ AbsPos(0) = BasePos + regs[0].step /\ AbsPos(0) \in 0 .. MaxSeq - 1
  BY TaskFacts
<1>2. bound = VmCache /\ Rows(content[VmCache], AbsPos(0))
  BY <1>1 DEF IInv, DInv, Caches, OnDevice
<1>3. PICK u \in Writers(StepProgram, x) : StepProgram.tasks[u].op = "KV_APPEND"
  BY StepFacts
<1>4. u \in Retired(0)
  BY <1>1, <1>3, StepFacts, CacheIsTransient DEF ReadsOrdered
<1>5. Done(u)
  BY <1>1, <1>4 DEF IInv, DInv, RightValues, Computed
<1>6. content[bound][AbsPos(0)][x] = Row(AbsPos(0))[x]
  BY <1>3, <1>5 DEF Done, Writers
<1>7. AbsPos(0) \in Nat
  BY <1>1, DecodeAssumption
<1>8. \A i \in 0 .. AbsPos(0) : i = AbsPos(0) \/ i \in 0 .. AbsPos(0) - 1
  BY <1>7
<1> QED
  BY <1>2, <1>6, <1>8 DEF Rows

(* The sequence a step works on, as its operands and its results see it.   *)
LEMMA StepSequence ==
  ASSUME IInv, host = "launched", NEW b \in Blocks, pc[b] = "task",
         NEW s, s = Prefix(BasePos + regs[0].step + 1)
  PROVE  /\ s \in Contexts /\ Len(s) - 1 = AbsPos(0)
         /\ cells = [token |-> Last(s), pos |-> Len(s) - 1]
         /\ \A x : Right(x, s) = Expected(x, regs[0].step)
         /\ \A i \in 0 .. AbsPos(0), x \in KVCaches : Row(i)[x] = Right(x, SubSeq(s, 1, i + 1))
<1> DEFINE n == regs[0].step
           l == Len(call.prompt)
<1>1. /\ n \in Nat /\ n < call.n /\ Made = n /\ l \in Nat /\ l >= 1
      /\ AbsPos(0) = BasePos + n /\ AbsPos(0) \in 0 .. MaxSeq - 1
      /\ cells = [token |-> Feeds(n), pos |-> AbsPos(0)]
  BY TaskFacts
<1>2. Lists /\ Tape /\ call.prompt \in Seq(Tokens) /\ call.n \in Nat
  BY DEF IInv, SInv, DInv, Session
<1> HIDE DEF n
<1>3. BasePos + n + 1 = l + n /\ BasePos = l - 1 /\ l + n \in Nat /\ l + n >= 1 /\ l + n <= MaxSeq /\ n \in 0 .. call.n
  <2>1. BasePos = l - 1 /\ MaxSeq \in Nat
    BY DecodeAssumption DEF BasePos
  <2> HIDE DEF l
  <2> QED
    BY <1>1, <1>2, <2>1
<1>4. \A i \in 1 .. n : generated[i] \in Tokens
  <2>1. \A i \in 1 .. n : i \in 1 .. call.n /\ i <= Made
    BY <1>1, <1>2
  <2> QED
    BY <1>2, <2>1 DEF Tape
<1>5. s = Prefix(l + n)
  BY <1>3 DEF n
<1>6. s \in Contexts
  BY <1>1, <1>2, <1>3, <1>4, <1>5, LogitsMakeChoice
<1>7. /\ Len(s) = l + n /\ Last(s) = (call.prompt \o generated)[l + n]
      /\ \A m \in 0 .. l + n : SubSeq(s, 1, m) = Prefix(m)
  BY <1>3, <1>5, PrefixFacts
<1>8. Len(s) - 1 = AbsPos(0) /\ Last(s) = Feeds(n)
  <2>1. Last(s) = Feeds(n)
    BY <1>7 DEF Feeds
  <2> HIDE DEF l
  <2> QED
    BY <1>1, <1>3, <1>7, <2>1
<1>9. \A x : Right(x, s) = Expected(x, regs[0].step)
  BY <1>5, <1>3 DEF Expected, n
<1>10. ASSUME NEW i \in 0 .. AbsPos(0), NEW x \in KVCaches
       PROVE  Row(i)[x] = Right(x, SubSeq(s, 1, i + 1))
  <2>1. i + 1 \in 0 .. l + n
    <3> HIDE DEF l
    <3> QED
      BY <1>1, <1>3
  <2> QED
    BY <1>7, <2>1 DEF Row
<1> QED
  BY <1>1, <1>6, <1>8, <1>9, <1>10

LEMMA SameOperands ==
  ASSUME NEW t, NEW token, NEW pos, NEW v, NEW w, NEW r, NEW q,
         \A x \in Reads(t) \ {TokenCell, PosCell} : IF x \in KVCaches THEN r[x] = q[x] ELSE v[x] = w[x]
  PROVE  Operands(t, token, pos, v, r) = Operands(t, token, pos, w, q)
<1> DEFINE a == Operands(t, token, pos, v, r)
           b == Operands(t, token, pos, w, q)
<1>1. a = [x \in Reads(t) |-> a[x]] /\ b = [x \in Reads(t) |-> b[x]]
  BY DEF Operands
<1>2. ASSUME NEW x \in Reads(t) PROVE a[x] = b[x]
  <2>1. CASE x = TokenCell \/ x = PosCell
    <3>1. x \notin KVCaches
      BY <2>1, StepAssumption DEF KVCaches
    <3> QED
      BY <2>1, <3>1 DEF Operands
  <2>2. CASE x \notin {TokenCell, PosCell} /\ x \in KVCaches
    BY <2>2 DEF Operands
  <2>3. CASE x \notin {TokenCell, PosCell} /\ x \notin KVCaches
    BY <2>3 DEF Operands
  <2> QED
    BY <2>1, <2>2, <2>3
<1> HIDE DEF a, b
<1>3. a = b
  BY <1>1, <1>2
<1> QED
  BY <1>3 DEF a, b

(* What a task stores is what its outputs hold in this step.               *)
LEMMA StoredIsRight ==
  ASSUME IInv, Unsplit, host = "launched", ~ abort, NEW b \in Blocks, pc[b] = "task",
         CurrentTask(b).op # "KV_APPEND", NEW y \in CurrentTask(b).outputs
  PROVE  Stored(b, Current(b)) = Expected(y, regs[0].step)
<1> DEFINE t == Current(b)
           s == Prefix(BasePos + regs[0].step + 1)
           v == [x \in DOMAIN mem |-> Value(x)]
           w == [x \in DOMAIN StepProgram.buffers |-> Right(x, s)]
           r == WindowRows(b, t)
           q == [x \in KVCaches |-> [i \in Keys(t, Len(s) - 1) |-> Right(x, SubSeq(s, 1, i + 1))]]
<1>1. /\ t \in TaskIds(StepProgram) /\ CurrentTask(b) = StepProgram.tasks[t]
      /\ AbsPos(b) = AbsPos(0) /\ AbsPos(0) \in 0 .. MaxSeq - 1
  BY TaskFacts
<1>2. /\ s \in Contexts /\ Len(s) - 1 = AbsPos(0)
      /\ cells = [token |-> Last(s), pos |-> Len(s) - 1]
      /\ \A x : Right(x, s) = Expected(x, regs[0].step)
      /\ \A i \in 0 .. AbsPos(0), x \in KVCaches : Row(i)[x] = Right(x, SubSeq(s, 1, i + 1))
  BY StepSequence
<1>3. /\ ComputesRight(t)
      /\ DOMAIN mem = DOMAIN StepProgram.buffers
      /\ StepProgram.tasks[t].inputs \subseteq DOMAIN StepProgram.buffers
  <2>1. ComputesRight(t)
    BY <1>1, StepFacts
  <2>2. DOMAIN mem = DOMAIN StepProgram.buffers
    BY DEF IInv, DInv, MemShape
  <2>3. StepProgram.tasks[t].inputs \subseteq DOMAIN StepProgram.buffers
    BY <1>1, StepFacts DEF Accepted, WellFormed
  <2> QED
    BY <2>1, <2>2, <2>3
<1> HIDE DEF s
<1>4. ASSUME NEW x \in Reads(t) \ {TokenCell, PosCell}, x \notin KVCaches
      PROVE  v[x] = w[x]
  <2>1. x \in StepProgram.tasks[t].inputs /\ Transient(StepProgram, x)
    BY <1>4 DEF Reads
  <2>2. Covered(x, t)
    BY <1>3, <1>4, <2>1 DEF ComputesRight
  <2> HIDE DEF t
  <2>3. Value(x) = Expected(x, regs[0].step)
    BY <1>1, <1>4, <2>1, <2>2, InputIsRight DEF t
  <2> QED
    BY <1>2, <1>3, <2>1, <2>3
<1>5. ASSUME NEW x \in Reads(t) \ {TokenCell, PosCell}, x \in KVCaches
      PROVE  r[x] = q[x]
  <2>1. x \in StepProgram.tasks[t].inputs /\ StepProgram.tasks[t].op = "ATTENTION_TILE"
    BY <1>3, <1>5 DEF Reads, ComputesRight
  <2>2. MaxSeq \in Nat /\ LoweredAt \in 0 .. MaxSeq - 1
    BY DecodeAssumption
  <2>3. Keys(t, AbsPos(0)) = 0 .. AbsPos(0) /\ Keys(t, LoweredAt) = 0 .. LoweredAt
    BY <1>1, <2>1, <2>2 DEF Unsplit
  <2>4. KvStart(t) = 0
    <3>1. KvStart(t) \in 0 .. LoweredAt /\ \A j \in 0 .. LoweredAt : KvStart(t) <= j
      <4>1. 0 \in 0 .. LoweredAt /\ \A j \in 0 .. LoweredAt : 0 <= j
        BY <2>2
      <4> QED
        BY <2>3, <4>1 DEF KvStart
    <3> QED
      BY <2>2, <3>1
  <2>5. r[x] = [i \in 0 .. AbsPos(0) |-> IF i < MaxSeq THEN content[bound][i][x] ELSE Garbage]
    <3>1. KvStart(t) + PatchedPos(b) = AbsPos(0)
      BY <1>1, <2>2, <2>4 DEF PatchedPos
    <3> QED
      BY <1>5, <2>4, <3>1 DEF WindowRows
  <2> HIDE DEF t, r
  <2>6. \A i \in 0 .. AbsPos(0) : content[bound][i][x] = Row(i)[x]
    BY <1>1, <1>5, <2>1, WindowIsRight DEF t
  <2>7. \A i \in 0 .. AbsPos(0) : i < MaxSeq
    BY <1>1, <2>2
  <2>8. r[x] = [i \in 0 .. AbsPos(0) |-> Right(x, SubSeq(s, 1, i + 1))]
    BY <1>2, <1>5, <2>5, <2>6, <2>7
  <2> QED
    BY <1>2, <1>5, <2>3, <2>8
<1>6. Stored(b, t) = Result(t, Operands(t, Last(s), Len(s) - 1, v, r))
  BY <1>2 DEF Stored
<1>7. RightOperands(t, s) = Operands(t, Last(s), Len(s) - 1, w, q)
  BY DEF RightOperands
<1> HIDE DEF v, w, r, q
<1>8. Operands(t, Last(s), Len(s) - 1, v, r) = Operands(t, Last(s), Len(s) - 1, w, q)
  BY <1>4, <1>5, SameOperands
<1>9. Result(t, RightOperands(t, s)) = Right(y, s)
  BY <1>1, <1>2, <1>3 DEF ComputesRight
<1> QED
  BY <1>2, <1>6, <1>7, <1>8, <1>9

(* What a KV_APPEND stores is the row of the step.                         *)
LEMMA AppendIsRight ==
  ASSUME IInv, host = "launched", ~ abort, NEW b \in Blocks, pc[b] = "task",
         CurrentTask(b).op = "KV_APPEND", NEW y \in CurrentTask(b).outputs
  PROVE  y \in KVCaches /\ Value(Source(Current(b))) = Row(AbsPos(0))[y]
<1> DEFINE t == Current(b)
           x == Source(t)
           s == Prefix(BasePos + regs[0].step + 1)
<1>1. /\ t \in TaskIds(StepProgram) /\ CurrentTask(b) = StepProgram.tasks[t]
      /\ AbsPos(0) \in 0 .. MaxSeq - 1
  BY TaskFacts
<1>2. /\ s \in Contexts /\ Len(s) - 1 = AbsPos(0)
      /\ \A z : Right(z, s) = Expected(z, regs[0].step)
      /\ \A i \in 0 .. AbsPos(0), z \in KVCaches : Row(i)[z] = Right(z, SubSeq(s, 1, i + 1))
  BY StepSequence
<1>3. AppendsRight(t)
  BY <1>1, StepFacts
<1>4. /\ x \in CurrentTask(b).inputs \ KVCaches /\ Transient(StepProgram, x) /\ Covered(x, t)
      /\ y \in KVCaches
  BY <1>1, <1>3 DEF AppendsRight, Reads
<1>5. Right(y, s) = Right(x, s)
  BY <1>1, <1>2, <1>3 DEF AppendsRight
<1>6. Row(AbsPos(0))[y] = Right(y, s)
  <2>1. AbsPos(0) \in 0 .. AbsPos(0) /\ AbsPos(0) + 1 = Len(s) /\ Len(s) \in Nat
    BY <1>1, <1>2, DecodeAssumption DEF Contexts
  <2>2. SubSeq(s, 1, Len(s)) = s
    BY <1>2 DEF Contexts
  <2> HIDE DEF s
  <2> QED
    BY <1>2, <1>4, <2>1, <2>2
<1> HIDE DEF t, x, s
<1>7. Value(x) = Expected(x, regs[0].step)
  BY <1>4, InputIsRight DEF t
<1> QED
  BY <1>2, <1>4, <1>5, <1>6, <1>7 DEF t, x


-----------------------------------------------------------------------------
(* What stays when nothing it speaks of changes.                           *)

LEMMA RowsSame ==
  ASSUME UNCHANGED <<call, generated>>
  PROVE  /\ BasePos' = BasePos /\ \A i : Row(i)' = Row(i)
         /\ \A x, s : Expected(x, s)' = Expected(x, s)
<1>1. BasePos' = BasePos
  BY DEF BasePos
<1>2. \A k : Prefix(k)' = Prefix(k)
  BY DEF Prefix
<1> QED
  BY <1>1, <1>2 DEF Row, Expected

LEMMA CachesStay ==
  ASSUME Caches, UNCHANGED <<host, call, passes, generated, content, bound>>, Made' = Made
  PROVE  Caches'
<1>1. BasePos' = BasePos /\ (OnDevice' <=> OnDevice) /\ \A i : Row(i)' = Row(i)
  BY RowsSame DEF OnDevice
<1>2. /\ Rows(content[VmCache], BasePos + Made) => Rows(content[VmCache], BasePos + Made)'
      /\ Rows(content[LoopCache], passes.forward) => Rows(content[LoopCache], passes.forward)'
  BY <1>1 DEF Rows, VmCache, LoopCache
<1> QED
  BY <1>1, <1>2 DEF Caches

LEMMA HostStays ==
  ASSUME Tape, Session, Caches, UNCHANGED <<host, call, built, queues, passes, generated, content, bound>>,
         Made' = Made
  PROVE  Tape' /\ Session' /\ Caches'
<1>1. Tape'
  BY DEF Tape
<1>2. Session'
  BY DEF Session, OnDevice, TotalPositions
<1>3. Caches'
  BY CachesStay
<1> QED
  BY <1>1, <1>2, <1>3

LEMMA DoneStays ==
  ASSUME UNCHANGED <<call, generated, content, bound, mem>>, regs'[0].step = regs[0].step,
         NEW t, Done(t)
  PROVE  Done(t)'
<1>1. AbsPos(0)' = AbsPos(0) /\ Row(AbsPos(0))' = Row(AbsPos(0))
  BY RowsSame DEF AbsPos
<1>2. \A x : Expected(x, regs[0].step)' = Expected(x, regs[0].step)
  BY RowsSame DEF Expected
<1> QED
  BY <1>1, <1>2 DEF Done

(* A step of a block that stores nothing and stays in its slot.            *)
LEMMA QuietStep ==
  ASSUME IInv, host = "launched", UNCHANGED session, UNCHANGED <<mem, content, generated, abort>>,
         NEW b \in Blocks,
         \A c \in Blocks : /\ c # b => pc'[c] = pc[c] /\ regs'[c].aborted = regs[c].aborted
                           /\ regs'[c].step = regs[c].step /\ regs'[c].qi = regs[c].qi,
         b = 0 => /\ pc'[b] \in Active => pc[b] \in Active
                  /\ pc'[b] \in {"C", "reset"} <=> pc[b] \in {"C", "reset"},
         pc'[b] # "signal",
         pc'[b] \in {"B", "check", "C", "reset"} /\ ~ regs'[b].aborted => ~ InQueue(b),
         pc'[b] = "task" => Pred(StepProgram, Current(b)) \subseteq Retired(b)
  PROVE  DInv'
<1>1. /\ UNCHANGED <<bound, built, queues, host, call, passes>> /\ Blocks' = Blocks
  BY DEF session, Blocks
<1>2. 0 \in Blocks /\ DInv
  BY GridFacts DEF IInv, PInv, Shapes
<1>3. Made' = Made
  BY <1>1, <1>2 DEF Made, BasePos
<1>4. Tape' /\ Session' /\ Caches'
  BY <1>1, <1>2, <1>3, HostStays DEF DInv
<1>5. MemShape'
  BY <1>2 DEF DInv, MemShape
<1>6. \A c \in Blocks : Retired(c)' = Retired(c) /\ Current(c)' = Current(c) /\ (InQueue(c)' <=> InQueue(c))
  BY <1>1, SameRetired DEF Current, InQueue
<1>7. Drained'
  BY <1>1, <1>2, <1>6 DEF DInv, Drained
<1>8. pc'[0] \in Active => pc[0] \in Active
  BY <1>2
<1>9. Ordered'
  BY <1>1, <1>2, <1>6, <1>8 DEF DInv, Ordered
<1>10. RightValues'
  <2> SUFFICES ASSUME pc'[0] \in Active, ~ abort, NEW t \in Computed' PROVE Done(t)'
    BY DEF RightValues
  <2>1. t \in Computed
    BY <1>1, <1>2, <1>6 DEF Computed
  <2>2. Done(t)
    BY <1>2, <1>8, <2>1 DEF DInv, RightValues
  <2> QED
    BY <1>1, <1>2, <2>2, DoneStays
<1> QED
  BY <1>1, <1>4, <1>5, <1>7, <1>9, <1>10 DEF DInv

LEMMA QuietSteps ==
  ASSUME IInv, host = "launched", UNCHANGED session, NEW b \in Blocks,
         \/ PassBarrier(b) \/ Setup(b) \/ LeaveLoop(b) \/ BeginTask(b) \/ DrainQueue(b)
         \/ AbandonQueue(b) \/ BreakOut(b) \/ (Sample(b) /\ b # 0)
  PROVE  DInv'
<1>1. UNCHANGED <<mem, content, generated, abort>> /\ (regs' = regs \/ AbandonQueue(b))
  BY DEF PassBarrier, Setup, LeaveLoop, BeginTask, DrainQueue, AbandonQueue, BreakOut, Sample, device
<1>2. PInv /\ SInv /\ DInv /\ Drained
  BY DEF IInv, DInv
<1>3. \A c \in Blocks : c \in DOMAIN Wide /\ DOMAIN regs[c] = Registers
  BY <1>2, BlockFacts
<1>4. \A c \in Blocks : /\ regs'[c].step = regs[c].step /\ regs'[c].qi = regs[c].qi
                        /\ c # b => regs'[c].aborted = regs[c].aborted
  <2>1. CASE AbandonQueue(b)
    <3>1. regs' = [regs EXCEPT ![b].aborted = TRUE]
      BY <2>1 DEF AbandonQueue
    <3> QED
      BY <1>2, <1>3, <3>1 DEF PInv, Shapes, Registers
  <2> QED
    BY <1>1, <2>1
<1>5. CASE PassBarrier(b)
  <2>1. pc[b] \in DOMAIN After /\ pc' = [pc EXCEPT ![b] = After[pc[b]]] /\ regs' = regs
    BY <1>5 DEF PassBarrier, Goto
  <2>2. \/ pc[b] = "entry" /\ After[pc[b]] = "loop"
        \/ pc[b] = "A" /\ After[pc[b]] = "queue"
        \/ pc[b] = "B" /\ After[pc[b]] = "check"
        \/ pc[b] = "C" /\ After[pc[b]] = "reset"
        \/ pc[b] = "D" /\ After[pc[b]] = "loop"
        \/ pc[b] = "exit" /\ After[pc[b]] = "done"
    BY <2>1 DEF After
  <2>3. pc'[b] = After[pc[b]] /\ \A c \in Blocks : c # b => pc'[c] = pc[c]
    BY <1>2, <1>3, <2>1 DEF PInv, Shapes
  <2>4. pc'[b] \in {"B", "check", "C", "reset"} /\ ~ regs'[b].aborted => ~ InQueue(b)
    BY <1>2, <2>1, <2>2, <2>3 DEF Drained
  <2>5. (pc'[b] \in Active => pc[b] \in Active) /\ (pc'[b] \in {"C", "reset"} <=> pc[b] \in {"C", "reset"})
        /\ pc'[b] # "signal" /\ pc'[b] # "task"
    BY <2>2, <2>3 DEF Active
  <2> QED
    BY <1>1, <1>4, <2>3, <2>4, <2>5, QuietStep
<1>6. CASE ~ PassBarrier(b)
  <2>1. \/ pc[b] = "loop" /\ pc' = [pc EXCEPT ![b] = "A"]
        \/ pc[b] = "loop" /\ pc' = [pc EXCEPT ![b] = "exit"]
        \/ pc[b] = "queue" /\ InQueue(b) /\ WaitsReady(b) /\ pc' = [pc EXCEPT ![b] = "task"]
        \/ pc[b] = "queue" /\ ~ InQueue(b) /\ pc' = [pc EXCEPT ![b] = "B"]
        \/ pc[b] = "queue" /\ AbandonQueue(b) /\ pc' = [pc EXCEPT ![b] = "B"]
        \/ pc[b] = "check" /\ pc' = [pc EXCEPT ![b] = "exit"]
        \/ pc[b] = "check" /\ b # 0 /\ regs' = regs /\ pc' = [pc EXCEPT ![b] = "C"]
    BY <1>6 DEF Setup, LeaveLoop, BeginTask, DrainQueue, AbandonQueue, BreakOut, Sample, Goto, Arrive
  <2>2. /\ \A c \in Blocks : c # b => pc'[c] = pc[c]
        /\ \/ pc[b] = "loop" /\ pc'[b] = "A"
           \/ pc[b] = "loop" /\ pc'[b] = "exit"
           \/ pc[b] = "queue" /\ InQueue(b) /\ WaitsReady(b) /\ pc'[b] = "task"
           \/ pc[b] = "queue" /\ ~ InQueue(b) /\ pc'[b] = "B"
           \/ pc[b] = "queue" /\ AbandonQueue(b) /\ pc'[b] = "B"
           \/ pc[b] = "check" /\ pc'[b] = "exit"
           \/ pc[b] = "check" /\ b # 0 /\ regs' = regs /\ pc'[b] = "C"
    BY <1>2, <1>3, <2>1 DEF PInv, Shapes
  <2>3. AbandonQueue(b) => regs'[b].aborted
    BY <1>2, <1>3 DEF AbandonQueue, PInv, Shapes, Registers
  <2>4. pc'[b] = "task" => Pred(StepProgram, Current(b)) \subseteq Retired(b)
    BY <1>2, <2>2, ReadyMeansRetired
  <2>5. pc'[b] \in {"B", "check", "C", "reset"} /\ ~ regs'[b].aborted => ~ InQueue(b)
    BY <1>2, <2>2, <2>3 DEF Drained
  <2>6. /\ pc'[b] # "signal"
        /\ b = 0 => /\ pc'[b] \in Active => pc[b] \in Active
                    /\ pc'[b] \in {"C", "reset"} <=> pc[b] \in {"C", "reset"}
    BY <2>2 DEF Active
  <2> QED
    BY <1>1, <1>4, <2>2, <2>4, <2>5, <2>6, QuietStep
<1> QED
  BY <1>5, <1>6

LEMMA SignalKeepsValues ==
  ASSUME IInv, host = "launched", UNCHANGED session, NEW b \in Blocks, Signal(b)
  PROVE  DInv'
<1> DEFINE t == Current(b)
<1>1. PInv /\ SInv /\ DInv /\ Drained /\ Ordered /\ RightValues
  BY DEF IInv, DInv
<1>2. /\ pc[b] = "signal" /\ InQueue(b) /\ Blocks' = Blocks
      /\ UNCHANGED <<cells, abort, mem, generated, content, queues, host, call>>
      /\ \A c \in Blocks : /\ pc'[c] = (IF c = b THEN "queue" ELSE pc[c])
                           /\ regs'[c].step = regs[c].step /\ regs'[c].aborted = regs[c].aborted
                           /\ c # b => regs'[c].qi = regs[c].qi
  BY <1>1, SignalMoves
<1>3. UNCHANGED <<bound, built, passes>>
  BY DEF session
<1>4. /\ 0 \in Blocks /\ pc[0] \in Active /\ pc[0] \notin {"C", "reset"}
      /\ t \in TaskIds(StepProgram) /\ PredClosed(StepProgram, Retired(0))
      /\ Pred(StepProgram, t) \subseteq Retired(0)
  BY <1>2, TaskFacts
<1>5. Made' = Made
  BY <1>2, <1>4 DEF Made, BasePos
<1>6. Tape' /\ Session' /\ Caches' /\ MemShape'
  BY <1>1, <1>2, <1>3, <1>5, HostStays DEF DInv, MemShape
<1>7. \A c \in Blocks : regs[c].step = regs[b].step /\ Retired(c)' = Retired(c) \cup {t}
  <2>1. PICK s : s = regs[b].step
    OBVIOUS
  <2>2. RetiredThisStep(s)' = RetiredThisStep(s) \cup {t}
    BY <1>1, <2>1, SignalRetires
  <2> SUFFICES ASSUME NEW c \in Blocks
               PROVE  regs[c].step = regs[b].step /\ Retired(c)' = Retired(c) \cup {t}
    OBVIOUS
  <2>3. regs[c].step = s
    BY <1>1, <1>2, <2>1, QueuePhase
  <2>4. Retired(c)' = RetiredThisStep(s)'
    BY <1>2, <2>3 DEF Retired, RetiredThisStep
  <2> QED
    BY <2>1, <2>2, <2>3, <2>4 DEF Retired
<1>8. \A c \in Blocks : c # b => Current(c)' = Current(c) /\ (InQueue(c)' <=> InQueue(c))
  BY <1>2 DEF Current, InQueue
<1>9. Drained'
  BY <1>1, <1>2, <1>8 DEF Drained
<1>10. Ordered'
  <2>1. PredClosed(StepProgram, Retired(0)')
    BY <1>4, <1>7 DEF PredClosed
  <2>2. ASSUME NEW c \in Blocks, pc'[c] \in {"task", "signal"}
        PROVE  Pred(StepProgram, Current(c)') \subseteq Retired(c)'
    BY <1>1, <1>2, <1>7, <1>8, <2>2 DEF Ordered
  <2> QED
    BY <1>2, <2>1, <2>2 DEF Ordered
<1>11. RightValues'
  <2> SUFFICES ASSUME ~ abort, NEW u \in Computed' PROVE Done(u)'
    BY <1>2 DEF RightValues
  <2>1. u \in Computed
    BY <1>2, <1>4, <1>7, <1>8 DEF Computed
  <2>2. Done(u)
    BY <1>1, <1>4, <2>1 DEF RightValues
  <2> QED
    BY <1>2, <1>3, <1>4, <2>2, DoneStays
<1> QED
  BY <1>2, <1>6, <1>9, <1>10, <1>11 DEF DInv

LEMMA ResetKeepsValues ==
  ASSUME IInv, host = "launched", UNCHANGED session, NEW b \in Blocks, Reset(b)
  PROVE  DInv'
<1>1. PInv /\ SInv /\ DInv /\ Drained /\ Ordered
  BY DEF IInv, DInv
<1>2. /\ pc[b] = "reset" /\ Blocks' = Blocks /\ 0 \in Blocks
      /\ UNCHANGED <<cells, abort, mem, generated, content, queues, host, call>>
      /\ \A c \in Blocks : /\ pc'[c] = (IF c = b THEN "D" ELSE pc[c])
                           /\ c # b => regs'[c] = regs[c]
      /\ regs'[b].step = regs[b].step + 1
  BY <1>1, ResetMoves
<1>3. UNCHANGED <<bound, built, passes>>
  BY DEF session
<1>4. Made' = Made
  BY <1>2, <1>3 DEF Made, BasePos
<1>5. Tape' /\ Session' /\ Caches' /\ MemShape'
  BY <1>1, <1>2, <1>3, <1>4, HostStays DEF DInv, MemShape
<1>6. \A c \in Blocks : pc'[c] \notin {"task", "signal"}
  BY <1>1, <1>2, ResetPhase
<1>7. pc'[0] \in Active => Retired(0)' = {}
  BY <1>1, <1>2, ResetOpensStep
<1>8. Drained'
  <2>1. \A c \in Blocks : c # b => (InQueue(c)' <=> InQueue(c)) /\ (regs'[c].aborted <=> regs[c].aborted)
    BY <1>2 DEF InQueue
  <2> QED
    BY <1>1, <1>2, <2>1 DEF Drained
<1>9. Ordered'
  BY <1>2, <1>6, <1>7 DEF Ordered, PredClosed
<1>10. RightValues'
  BY <1>2, <1>6, <1>7 DEF RightValues, Computed
<1> QED
  BY <1>2, <1>5, <1>8, <1>9, <1>10 DEF DInv


LEMMA RowUpdate ==
  ASSUME NEW cache, IsCache(cache), NEW i, NEW row, IsRow(row)
  PROVE  /\ IsCache([cache EXCEPT ![i] = row])
         /\ \A j \in 0 .. MaxSeq - 1 : [cache EXCEPT ![i] = row][j] = IF j = i THEN row ELSE cache[j]
<1>1. PICK new : new = [cache EXCEPT ![i] = row]
  OBVIOUS
<1>2. /\ new = [j \in 0 .. MaxSeq - 1 |-> new[j]]
      /\ \A j \in 0 .. MaxSeq - 1 : new[j] = IF j = i THEN row ELSE cache[j]
  BY <1>1 DEF IsCache
<1>3. IsCache(new)
  BY <1>2 DEF IsCache
<1> QED
  BY <1>1, <1>2, <1>3

LEMMA TensorUpdate ==
  ASSUME Caches, NEW t \in Tensors, NEW cache, IsCache(cache), content' = [content EXCEPT ![t] = cache]
  PROVE  /\ content' = [u \in Tensors |-> content'[u]]
         /\ \A u \in Tensors : IsCache(content'[u])
         /\ \A u \in Tensors : u # t => content'[u] = content[u]
         /\ content'[t] = cache
<1>1. content = [u \in Tensors |-> content[u]] /\ \A u \in Tensors : IsCache(content[u])
  BY DEF Caches
<1> QED
  BY <1>1

LEMMA ComputedAreTasks ==
  ASSUME IInv, host = "launched", NEW u \in Computed
  PROVE  u \in TaskIds(StepProgram)
<1>1. \A c \in Blocks : pc[c] = "signal" => Current(c) \in TaskIds(StepProgram)
  BY TaskFacts
<1>2. Retired(0) \in SUBSET TaskIds(StepProgram)
  BY RetiredAreTasks DEF Retired
<1> QED
  BY <1>1, <1>2 DEF Computed

LEMMA ComputeKeepsValues ==
  ASSUME IInv, Unsplit, host = "launched", UNCHANGED session, NEW b \in Blocks, Compute(b)
  PROVE  DInv'
<1> DEFINE t == Current(b)
           task == CurrentTask(b)
<1>1. PInv /\ SInv /\ DInv /\ Drained /\ Ordered /\ RightValues /\ Caches /\ MemShape
  BY DEF IInv, DInv
<1>2. /\ pc[b] = "task" /\ pc' = [pc EXCEPT ![b] = "signal"]
      /\ UNCHANGED <<regs, counters, cells, generated, bound, built, queues, host, call, passes>>
      /\ StoreRow(b) \/ Store(b) \/ Trap
      /\ Blocks' = Blocks
  BY DEF Compute, Goto, session, Blocks
<1>3. \A c \in Blocks : pc'[c] = IF c = b THEN "signal" ELSE pc[c]
  BY <1>1, <1>2, BlockFacts DEF PInv, Shapes
<1>4. /\ 0 \in Blocks /\ t \in TaskIds(StepProgram) /\ task = StepProgram.tasks[t] /\ task \in TaskType
      /\ pc[0] \in {"A", "queue", "task", "signal", "B", "check"} /\ pc[0] \in Active
      /\ AbsPos(b) = AbsPos(0) /\ AbsPos(0) \in 0 .. MaxSeq - 1 /\ AbsPos(0) = BasePos + regs[0].step
      /\ Made = regs[0].step /\ regs[0].step \in Nat
      /\ Len(call.prompt) \in Nat /\ Len(call.prompt) >= 1
  BY <1>2, TaskFacts
<1>5. Made' = Made
  BY <1>2, <1>3, <1>4 DEF Made, BasePos
<1>6. \A c \in Blocks : Retired(c)' = Retired(c) /\ Current(c)' = Current(c) /\ (InQueue(c)' <=> InQueue(c))
  BY <1>2, SameRetired DEF Current, InQueue
<1>7. Drained'
  BY <1>1, <1>2, <1>3, <1>6 DEF Drained
<1>8. Ordered'
  BY <1>1, <1>2, <1>3, <1>4, <1>6 DEF Ordered
<1>9. Computed' = Computed \cup {t}
  BY <1>2, <1>3, <1>4, <1>6 DEF Computed
<1>10. Tape' /\ Session'
  BY <1>1, <1>2, <1>5 DEF DInv, Tape, Session, OnDevice, TotalPositions
<1>11. /\ AbsPos(0)' = AbsPos(0) /\ \A i : Row(i)' = Row(i)
       /\ \A x : Expected(x, regs[0].step)' = Expected(x, regs[0].step)
  BY <1>2, RowsSame DEF AbsPos, Expected
<1>12. bound = VmCache /\ VmCache \in Tensors
  BY <1>1, TensorsDiffer DEF Caches
<1> HIDE DEF t, task
(* A KV_APPEND stores its part of the step's row, above those in place.    *)
<1>13. CASE StoreRow(b)
  <2> DEFINE row == content[bound][AbsPos(0)]
             new == [x \in KVCaches |-> IF x \in task.outputs THEN Value(Source(t)) ELSE row[x]]
  <2>1. /\ task.op = "KV_APPEND" /\ UNCHANGED <<mem, abort>>
        /\ content' = [content EXCEPT ![bound][AbsPos(0)] = new]
    BY <1>4, <1>13 DEF StoreRow, PatchedPos, task, t
  <2>11. /\ IsRow(new)
         /\ \A x \in KVCaches : new[x] = IF x \in task.outputs THEN Value(Source(t)) ELSE row[x]
    BY DEF IsRow
  <2> HIDE DEF new
  <2>2. /\ content' = [u \in Tensors |-> content'[u]]
        /\ \A u \in Tensors : IsCache(content'[u])
        /\ \A u \in Tensors : u # VmCache => content'[u] = content[u]
        /\ \A j \in 0 .. MaxSeq - 1 : content'[VmCache][j] = IF j = AbsPos(0) THEN new ELSE content[VmCache][j]
    <3>1. PICK cache : cache = [content[VmCache] EXCEPT ![AbsPos(0)] = new]
      OBVIOUS
    <3>2. content' = [content EXCEPT ![VmCache] = cache]
      BY <1>12, <2>1, <3>1
    <3>3. IsCache(cache) /\ \A j \in 0 .. MaxSeq - 1 : cache[j] = IF j = AbsPos(0) THEN new ELSE content[VmCache][j]
      <4>1. IsCache(content[VmCache]) /\ IsRow(new)
        BY <1>1, <1>12, <2>11 DEF Caches
      <4> QED
        BY <3>1, <4>1, RowUpdate
    <3> QED
      BY <1>1, <1>12, <3>2, <3>3, TensorUpdate
  <2>3. Caches'
    <3>1. Rows(content[VmCache], BasePos + Made)
      BY <1>1 DEF Caches, OnDevice
    <3>2. BasePos \in Nat /\ MaxSeq \in Nat
      BY <1>4, DecodeAssumption DEF BasePos
    <3>3. \A i \in 0 .. BasePos + Made - 1 : content'[VmCache][i] = Row(i)
      <4>1. \A i \in 0 .. BasePos + Made - 1 : i \in 0 .. MaxSeq - 1 /\ i # AbsPos(0)
        BY <1>4, <3>2
      <4>2. \A i \in 0 .. BasePos + Made - 1 : content[VmCache][i] = Row(i)
        BY <1>4, <3>1, <3>2 DEF Rows
      <4> QED
        BY <2>2, <4>1, <4>2
    <3>5. Rows(content[VmCache], BasePos + Made)'
      <4>1. BasePos' = BasePos /\ Made' = Made /\ BasePos \in Int /\ Made \in Int
        BY <1>2, <1>4, <1>5, <3>2 DEF BasePos
      <4> QED
        BY <1>11, <3>3, <4>1 DEF Rows, VmCache
    <3> QED
      BY <1>1, <1>2, <1>12, <2>2, <3>5, TensorsDiffer DEF Caches, OnDevice
  <2>4. MemShape'
    BY <1>1, <2>1 DEF MemShape
  <2>5. RightValues'
    <3> SUFFICES ASSUME ~ abort, NEW u \in Computed' PROVE Done(u)'
      BY <2>1 DEF RightValues
    <3>1. content'[bound'][AbsPos(0)'] = new
      BY <1>2, <1>4, <1>11, <1>12, <2>2
    <3>2. \A y \in task.outputs : y \in KVCaches /\ new[y] = Row(AbsPos(0))[y]
      BY <1>2, <2>1, <2>11, AppendIsRight DEF task, t
    <3>3. u = t \/ Done(u)
      BY <1>1, <1>4, <1>9 DEF RightValues
    <3>4. CASE StepProgram.tasks[u].op = "KV_APPEND"
      <4>1. ASSUME NEW x \in StepProgram.tasks[u].outputs
            PROVE  new[x] = Row(AbsPos(0))[x]
        <5>1. CASE x \in task.outputs
          BY <3>2, <5>1
        <5>2. CASE x \notin task.outputs
          <6>1. Done(u)
            BY <1>4, <3>3, <5>2
          <6>2. row[x] = Row(AbsPos(0))[x]
            BY <3>4, <6>1 DEF Done
          <6>3. u \in TaskIds(StepProgram)
            BY <1>1, <1>4, <1>9, ComputedAreTasks DEF IInv
          <6>4. x \in KVCaches
            BY <3>4, <6>3, StepFacts DEF AppendsRight
          <6> QED
            BY <2>11, <5>2, <6>2, <6>4
        <5> QED
          BY <5>1, <5>2
      <4> QED
        BY <1>11, <3>1, <3>4, <4>1 DEF Done
    <3>5. CASE StepProgram.tasks[u].op # "KV_APPEND"
      <4>1. Done(u)
        BY <1>4, <2>1, <3>3, <3>5
      <4> QED
        BY <1>2, <1>11, <2>1, <3>5, <4>1 DEF Done
    <3> QED
      BY <3>4, <3>5
  <2> QED
    BY <1>2, <1>7, <1>8, <1>10, <2>3, <2>4, <2>5 DEF DInv
(* Any other task stores its outputs' values over their old ones.          *)
<1>14. CASE Store(b)
  <2>1. /\ task.op # "KV_APPEND" /\ UNCHANGED <<content, abort>>
        /\ mem' = [x \in DOMAIN mem |-> IF x \notin task.outputs THEN mem[x] ELSE
                     [c \in Cols |-> IF c \in Footprint(task) THEN Stored(b, t) ELSE mem[x][c]]]
    BY <1>14 DEF Store, task, t
  <2>2. Caches'
    BY <1>1, <1>2, <1>5, <2>1, CachesStay
  <2>3. DOMAIN mem = DOMAIN StepProgram.buffers
    BY <1>1 DEF MemShape
  <2>4. /\ \A x \in DOMAIN mem : x \notin task.outputs => mem'[x] = mem[x]
        /\ \A x \in DOMAIN mem : \A c \in Cols : x \in task.outputs =>
             mem'[x][c] = IF c \in Footprint(task) THEN Stored(b, t) ELSE mem[x][c]
    BY <2>1
  <2>5. MemShape'
    <3>1. mem' = [x \in DOMAIN StepProgram.buffers |-> mem'[x]]
      BY <2>1, <2>3
    <3>2. ASSUME NEW x \in DOMAIN StepProgram.buffers
          PROVE  mem'[x] = [c \in Cols |-> mem'[x][c]]
      <4>1. CASE x \in task.outputs
        BY <2>1, <2>3, <4>1
      <4>2. CASE x \notin task.outputs
        BY <1>1, <2>3, <2>4, <4>2 DEF MemShape
      <4> QED
        BY <4>1, <4>2
    <3> QED
      BY <3>1, <3>2 DEF MemShape
  <2>6. RightValues'
    <3> SUFFICES ASSUME ~ abort, NEW u \in Computed' PROVE Done(u)'
      BY <2>1 DEF RightValues
    <3>1. \A y \in task.outputs : Stored(b, t) = Expected(y, regs[0].step)
      BY <1>2, <2>1, StoredIsRight DEF task, t
    <3>2. u = t \/ Done(u)
      BY <1>1, <1>4, <1>9 DEF RightValues
    <3>3. CASE StepProgram.tasks[u].op = "KV_APPEND"
      BY <1>2, <1>4, <1>11, <2>1, <3>2, <3>3 DEF Done
    <3>4. CASE StepProgram.tasks[u].op # "KV_APPEND"
      <4>1. u \in TaskIds(StepProgram)
        BY <1>1, <1>4, <1>9, ComputedAreTasks DEF IInv
      <4>2. StepProgram.tasks[u].outputs \subseteq DOMAIN mem
        BY <2>3, <4>1, DecodeAssumption DEF Accepted, WellFormed
      <4>3. Footprint(StepProgram.tasks[u]) \subseteq Cols
        BY DEF Footprint
      <4>4. ASSUME NEW x \in StepProgram.tasks[u].outputs, NEW c \in Footprint(StepProgram.tasks[u])
            PROVE  mem'[x][c] = Expected(x, regs[0].step)
        <5>1. u # t => mem[x][c] = Expected(x, regs[0].step)
          BY <3>2, <3>4 DEF Done
        <5>2. x \in DOMAIN mem /\ c \in Cols
          BY <4>2, <4>3
        <5>3. CASE x \in task.outputs /\ c \in Footprint(task)
          BY <2>4, <3>1, <5>2, <5>3
        <5>4. CASE ~ (x \in task.outputs /\ c \in Footprint(task))
          BY <1>4, <2>4, <5>1, <5>2, <5>4
        <5> QED
          BY <5>3, <5>4
      <4> QED
        BY <1>2, <1>11, <3>4, <4>4 DEF Done
    <3> QED
      BY <3>3, <3>4
  <2> QED
    BY <1>2, <1>7, <1>8, <1>10, <2>2, <2>5, <2>6 DEF DInv
<1>15. CASE Trap
  <2>1. abort' = TRUE /\ UNCHANGED <<mem, content>>
    BY <1>15 DEF Trap
  <2>2. Caches' /\ MemShape' /\ RightValues'
    BY <1>1, <1>2, <1>5, <2>1, CachesStay DEF MemShape, RightValues
  <2> QED
    BY <1>2, <1>7, <1>8, <1>10, <2>2 DEF DInv
<1> QED
  BY <1>2, <1>13, <1>14, <1>15

-----------------------------------------------------------------------------
(* Sampling: every queue is drained, so the logits are complete.           *)

LEMMA AllRetired ==
  ASSUME IInv, host = "launched", ~ abort, pc[0] = "check"
  PROVE  Retired(0) = TaskIds(StepProgram)
<1>1. PInv /\ SInv /\ Drained /\ Slots /\ queues \in {Wide, Narrow} /\ 0 \in Blocks
  BY GridFacts DEF IInv, SInv, DInv, PInv, Shapes
<1>2. ASSUME NEW c \in Blocks
      PROVE  regs[c].step = regs[0].step /\ ~ InQueue(c)
  <2>1. pc[c] \in {"B", "check", "C"} /\ regs[c].step = regs[0].step
    BY <1>1, CheckPhase
  <2>2. ~ regs[c].aborted
    BY <1>1, BlockFacts DEF FlagKnown
  <2> QED
    BY <1>1, <2>1, <2>2 DEF Drained
<1>3. ASSUME NEW c \in Blocks, NEW i \in DOMAIN queues[c]
      PROVE  i < regs[c].qi
  <2>1. i \in 1 .. Len(queues[c]) /\ Len(queues[c]) \in Nat /\ DOMAIN queues[c] = 1 .. Len(queues[c])
    <3>1. queues[c] \in Seq(TaskIds(StepProgram))
      BY <1>1, GridFacts
    <3> QED
      BY <3>1
  <2>2. regs[c].qi \in Nat \ {0} /\ regs[c].qi \notin 1 .. Len(queues[c])
    BY <1>1, <1>2, <2>1 DEF Slots, InQueue
  <2> QED
    BY <2>1, <2>2
<1>4. ASSUME NEW t \in TaskIds(StepProgram) PROVE t \in Retired(0)
  <2>1. PICK c \in Blocks : \E i \in DOMAIN queues[c] : queues[c][i] = t
    BY <1>1, GridFacts DEF LaunchContract, QueuesPartition, Blocks
  <2> QED
    BY <1>2, <1>3, <2>1 DEF Retired, RetiredThisStep
<1> QED
  BY <1>4, RetiredAreTasks DEF Retired

LEMMA LogitsAreRight ==
  ASSUME IInv, host = "launched", ~ abort, pc[0] = "check"
  PROVE  /\ Logits = Expected(LogitsBuffer, regs[0].step)
         /\ \A x \in KVCaches : content[bound][AbsPos(0)][x] = Row(AbsPos(0))[x]
<1>1. \A u \in TaskIds(StepProgram) : Done(u)
  BY AllRetired DEF IInv, DInv, RightValues, Computed, Active
<1>2. Writers(StepProgram, LogitsBuffer) \ {0} \subseteq TaskIds(StepProgram)
  BY DEF Writers
<1>3. Value(LogitsBuffer) = Expected(LogitsBuffer, regs[0].step)
  BY <1>1, <1>2, StepFacts, ValueIsRight
<1>4. ASSUME NEW x \in KVCaches
      PROVE  content[bound][AbsPos(0)][x] = Row(AbsPos(0))[x]
  <2>1. PICK u \in Writers(StepProgram, x) : StepProgram.tasks[u].op = "KV_APPEND"
    BY StepFacts
  <2> QED
    BY <1>1, <2>1 DEF Done, Writers
<1> QED
  BY <1>3, <1>4 DEF Logits

(* Rows of tokens fed before the s-th sample do not change with it.        *)
LEMMA RowsStay ==
  ASSUME Lists, Lists', call' = call, NEW s \in 0 .. call.n,
         \A j \in 1 .. s : generated'[j] = generated[j]
  PROVE  \A i \in 0 .. Len(call.prompt) + s - 1 : Row(i)' = Row(i)
<1>1. /\ IsList(call.prompt) /\ IsList(generated) /\ Len(generated) = call.n
      /\ IsList(generated') /\ Len(generated') = call.n
  BY DEF Lists, IsList
<1>2. Len(call.prompt) \in Nat /\ call.n \in Nat /\ s \in Nat
  BY <1>1 DEF IsList
<1>3. ASSUME NEW j \in 1 .. Len(call.prompt) + s
      PROVE  (call.prompt \o generated')[j] = (call.prompt \o generated)[j]
  <2>1. CASE j \in 1 .. Len(call.prompt)
    BY <1>1, <2>1, ListConcat
  <2>2. CASE j \notin 1 .. Len(call.prompt)
    <3>1. PICK k \in 1 .. s : j = Len(call.prompt) + k
      <4>1. j - Len(call.prompt) \in 1 .. s /\ j = Len(call.prompt) + (j - Len(call.prompt))
        BY <1>2, <2>2, SMTT(20)
      <4> QED
        BY <4>1
    <3>2. k \in 1 .. call.n
      BY <1>2
    <3>3. (call.prompt \o generated)[Len(call.prompt) + k] = generated[k]
      BY <1>1, <3>2, ListConcat
    <3>4. (call.prompt \o generated')[Len(call.prompt) + k] = generated'[k]
      BY <1>1, <3>2, ListConcat
    <3> QED
      BY <3>1, <3>3, <3>4
  <2> QED
    BY <2>1, <2>2
<1> SUFFICES ASSUME NEW i \in 0 .. Len(call.prompt) + s - 1
             PROVE  Prefix(i + 1)' = Prefix(i + 1)
  BY DEF Row
<1>4. \A j \in 1 .. i + 1 : j \in 1 .. Len(call.prompt) + s
  <2> DEFINE l == Len(call.prompt)
  <2>1. l \in Nat /\ i \in 0 .. l + s - 1
    BY <1>2
  <2> HIDE DEF l
  <2> QED
    BY <1>2, <2>1
<1> QED
  BY <1>3, <1>4 DEF Prefix

LEMMA RowsGrow ==
  ASSUME NEW cache, NEW k \in Nat, Rows(cache, k), cache[k] = Row(k)
  PROVE  Rows(cache, k + 1)
<1>1. \A i \in 0 .. k - 1 : cache[i] = Row(i)
  BY DEF Rows
<1>2. \A i \in 0 .. k + 1 - 1 : i = k \/ i \in 0 .. k - 1
  OBVIOUS
<1>3. ASSUME NEW i \in 0 .. k + 1 - 1 PROVE cache[i] = Row(i)
  <2>1. CASE i = k
    BY <2>1
  <2>2. CASE i \in 0 .. k - 1
    BY <1>1, <2>2
  <2> QED
    BY <1>2, <2>1, <2>2
<1> QED
  BY <1>3 DEF Rows

LEMMA SampleIsChoice ==
  ASSUME IInv, host = "launched", Sample(0), NEW s, s = regs[0].step
  PROVE  /\ generated' = [generated EXCEPT ![s + 1] = Choice(s)] /\ Choice(s) \in Tokens
         /\ s \in Nat /\ s < call.n /\ Made = s
         /\ Rows(content[VmCache], BasePos + s + 1)
<1>1. PInv /\ SInv /\ DInv /\ Lists /\ Tape /\ Session /\ 0 \in Blocks
  BY GridFacts DEF IInv, SInv, DInv, PInv, Shapes
<1>2. /\ pc[0] = "check" /\ ~ abort
      /\ generated' = [generated EXCEPT ![s + 1] = Sampled(Logits)]
  BY DEF Sample, SeesAbort
<1>3. s \in Nat /\ call.n \in Nat /\ s < call.n /\ s \in 0 .. call.n
  BY <1>1, <1>2, BlockFacts DEF Place
<1>4. Made = s
  BY <1>2 DEF Made
<1>5. /\ Len(call.prompt) \in Nat /\ Len(call.prompt) >= 1 /\ call.prompt \in Seq(Tokens)
      /\ Len(call.prompt) - 1 + call.n <= MaxSeq
  BY <1>1 DEF Session, OnDevice, Lists, IsList
<1>6. Len(call.prompt) + s <= MaxSeq
  BY <1>3, <1>5, DecodeAssumption
<1>7. \A i \in 1 .. s : generated[i] \in Tokens
  <2>1. \A i \in 1 .. s : i \in 1 .. call.n /\ i <= Made
    BY <1>3, <1>4
  <2> QED
    BY <1>1, <2>1 DEF Tape
<1>8. Logits = Expected(LogitsBuffer, s) /\ \A x \in KVCaches : content[bound][AbsPos(0)][x] = Row(AbsPos(0))[x]
  BY <1>2, LogitsAreRight
<1>9. BasePos = Len(call.prompt) - 1 /\ BasePos \in Nat /\ BasePos + s + 1 = Len(call.prompt) + s /\ AbsPos(0) = BasePos + s
  BY <1>3, <1>5 DEF BasePos, AbsPos
<1>10. Sampled(Logits) = Choice(s) /\ Choice(s) \in Tokens
  BY <1>1, <1>3, <1>5, <1>6, <1>7, <1>8, <1>9, LogitsMakeChoice DEF Expected
<1>11. Rows(content[VmCache], BasePos + s + 1)
  <2> DEFINE l == Len(call.prompt)
             p == AbsPos(0)
             base == BasePos
  <2>1. bound = VmCache /\ Rows(content[VmCache], base + s) /\ IsCache(content[VmCache])
    BY <1>1, <1>4, TensorsDiffer DEF DInv, Caches, OnDevice
  <2>2. l \in Nat /\ base = l - 1 /\ base \in Nat /\ p = base + s /\ l + s <= MaxSeq /\ MaxSeq \in Nat /\ s \in Nat
    BY <1>3, <1>5, <1>6, <1>9, DecodeAssumption
  <2> HIDE DEF l, p, base
  <2>3. p \in 0 .. MaxSeq - 1
    BY <2>2
  <2>4. content[VmCache][p] = Row(p)
    <3>1. IsRow(content[VmCache][p]) /\ IsRow(Row(p))
      BY <2>1, <2>3 DEF IsCache, IsRow, Row
    <3> QED
      BY <1>8, <2>1, <3>1 DEF IsRow, p
  <2>5. Rows(content[VmCache], base + s + 1)
    <3>1. Rows(content[VmCache], p) /\ p \in Nat
      BY <2>1, <2>2
    <3>2. Rows(content[VmCache], p + 1)
      BY <2>4, <3>1, RowsGrow
    <3> QED
      BY <2>2, <3>2
  <2> QED
    BY <2>5 DEF base
<1> QED
  BY <1>2, <1>3, <1>4, <1>10, <1>11

(* One more token on the tape.                                             *)
LEMMA TapeGrows ==
  ASSUME Lists, Tape, host # "raised", call.n \in Nat, UNCHANGED <<host, call>>,
         NEW s \in Nat, s < call.n, Made = s, Made' = s + 1,
         NEW v \in Tokens, generated' = [generated EXCEPT ![s + 1] = v]
  PROVE  Tape' /\ (\A j \in 1 .. s : generated'[j] = generated[j]) /\ generated'[s + 1] = v
<1>1. IsList(generated) /\ Len(generated) = call.n /\ s + 1 \in 1 .. Len(generated)
  BY DEF Lists
<1>2. generated'[s + 1] = v /\ \A j \in 1 .. call.n : j # s + 1 => generated'[j] = generated[j]
  BY <1>1, ListUpdate
<1>3. \A j \in 1 .. call.n : /\ j <= s => generated[j] \in Tokens
                             /\ j > s => generated[j] = Nothing
  BY DEF Tape
<1>4. \A j \in 1 .. call.n : /\ j <= s + 1 => generated'[j] \in Tokens
                             /\ j > s + 1 => generated'[j] = Nothing
  <2> SUFFICES ASSUME NEW j \in 1 .. call.n
               PROVE  /\ j <= s + 1 => generated'[j] \in Tokens
                      /\ j > s + 1 => generated'[j] = Nothing
    OBVIOUS
  <2>1. CASE j = s + 1
    BY <1>2, <2>1
  <2>2. CASE j # s + 1
    BY <1>2, <1>3, <2>2
  <2> QED
    BY <2>1, <2>2
<1> QED
  BY <1>2, <1>4 DEF Tape

LEMMA SampleKeepsValues ==
  ASSUME IInv, SInv', host = "launched", UNCHANGED session, Sample(0)
  PROVE  DInv'
<1> DEFINE s == regs[0].step
<1>1. PInv /\ SInv /\ DInv /\ Lists /\ Lists' /\ Drained /\ Ordered /\ Caches /\ Tape /\ Session /\ 0 \in Blocks
  BY GridFacts DEF IInv, SInv, DInv, PInv, Shapes
<1>2. /\ pc[0] = "check" /\ pc' = [pc EXCEPT ![0] = "C"]
      /\ UNCHANGED <<regs, counters, abort, cells, mem, content>>
      /\ UNCHANGED <<bound, built, queues, host, call, passes>> /\ Blocks' = Blocks
  BY DEF Sample, Arrive, session, Blocks
<1>3. \A c \in Blocks : pc'[c] = IF c = 0 THEN "C" ELSE pc[c]
  BY <1>1, <1>2, BlockFacts DEF PInv, Shapes
<1>4. /\ generated' = [generated EXCEPT ![s + 1] = Choice(s)] /\ Choice(s) \in Tokens
      /\ s \in Nat /\ s < call.n /\ Made = s
      /\ Rows(content[VmCache], BasePos + s + 1)
  BY SampleIsChoice
<1>5. Made' = s + 1
  BY <1>1, <1>2, <1>3 DEF Made
<1> HIDE DEF s
<1>6. Tape' /\ \A j \in 1 .. s : generated'[j] = generated[j]
  BY <1>1, <1>2, <1>4, <1>5, TapeGrows DEF Session
<1>7. Session'
  BY <1>1, <1>2 DEF Session, OnDevice, TotalPositions
<1>8. Caches'
  <2>1. Len(call.prompt) \in Nat /\ BasePos = Len(call.prompt) - 1 /\ BasePos' = BasePos /\ s \in 0 .. call.n
        /\ call.n \in Nat
    BY <1>1, <1>2, <1>4 DEF Lists, IsList, BasePos, Session
  <2>2. \A i \in 0 .. Len(call.prompt) + s - 1 : Row(i)' = Row(i)
    BY <1>1, <1>2, <1>6, <2>1, RowsStay
  <2>3. BasePos + s + 1 - 1 = Len(call.prompt) + s - 1 /\ BasePos + (s + 1) - 1 = Len(call.prompt) + s - 1
    BY <1>4, <2>1
  <2>4. \A i \in 0 .. BasePos + (s + 1) - 1 : content'[VmCache][i] = Row(i)'
    BY <1>2, <1>4, <2>2, <2>3 DEF Rows
  <2>5. Rows(content[VmCache], BasePos + Made)'
    <3>1. BasePos' = BasePos /\ Made' = s + 1 /\ BasePos \in Int /\ s \in Int
      BY <1>4, <1>5, <2>1
    <3> QED
      BY <2>4, <3>1 DEF Rows, VmCache
  <2> QED
    BY <1>1, <1>2, <2>5 DEF Caches
<1>9. MemShape'
  BY <1>1, <1>2 DEF DInv, MemShape
<1>10. \A c \in Blocks : Retired(c)' = Retired(c) /\ Current(c)' = Current(c) /\ (InQueue(c)' <=> InQueue(c))
  BY <1>2, SameRetired DEF Current, InQueue
<1>11. Drained'
  BY <1>1, <1>2, <1>3, <1>10 DEF Drained
<1>12. Ordered' /\ RightValues'
  BY <1>1, <1>2, <1>3, <1>10 DEF Ordered, RightValues, Active
<1> QED
  BY <1>2, <1>6, <1>7, <1>8, <1>9, <1>11, <1>12 DEF DInv

LEMMA BlockStepKeepsValues ==
  ASSUME IInv, Unsplit, SInv', NEW b \in Blocks, BlockStep(b)
  PROVE  DInv'
BY QuietSteps, SignalKeepsValues, ResetKeepsValues, ComputeKeepsValues, SampleKeepsValues DEF BlockStep


-----------------------------------------------------------------------------
(* The host side, when decode() copies the caller's cache (~ Resident).    *)

LEMMA LaunchKeepsValues ==
  ASSUME IInv, SInv', Launch
  PROVE  DInv'
<1>1. DInv /\ Tape /\ Session /\ Caches /\ MemShape /\ queues \in {Wide, Narrow} /\ 0 \in Blocks
  BY GridFacts DEF IInv, DInv, PInv, Shapes
<1>2. /\ host = "gate" /\ host' = "launched" /\ ~ (Regrids /\ queues = Wide)
      /\ UNCHANGED <<cells, mem, generated, content, bound, built, queues, call, passes>>
      /\ Blocks' = Blocks
  BY DEF Launch, Blocks
<1>3. \A b \in Blocks : b \in DOMAIN Wide
  BY <1>1, BlocksInWide
<1>4. \A b \in Blocks : pc'[b] = "entry" /\ regs'[b].step = 0
  BY <1>3 DEF Launch
<1>5. Made = 0 /\ Made' = 0
  BY <1>1, <1>2, <1>4 DEF Made
<1>6. Tape' /\ Session'
  BY <1>1, <1>2, <1>5 DEF Tape, Session, OnDevice, TotalPositions
<1>11. Caches'
  <2>1. BasePos' = BasePos /\ \A i : Row(i)' = Row(i)
    BY <1>2, RowsSame
  <2>2. Rows(content[VmCache], BasePos + Made)
    BY <1>1, <1>2 DEF Caches, OnDevice
  <2>3. Rows(content[VmCache], BasePos + Made)'
    BY <1>2, <1>5, <2>1, <2>2 DEF Rows, VmCache
  <2> QED
    BY <1>1, <1>2, <2>3 DEF Caches
<1>7. MemShape'
  BY <1>1, <1>2 DEF MemShape
<1>8. Drained'
  BY <1>2, <1>4 DEF Drained
<1>9. Retired(0)' = {}
  <2>1. \A b \in Blocks : regs'[b].qi = 1
    BY <1>3 DEF Launch
  <2> SUFFICES ASSUME NEW b \in Blocks, NEW i \in DOMAIN queues[b], i < regs'[b].qi
               PROVE  FALSE
    BY <1>2 DEF Retired, RetiredThisStep
  <2> QED
    BY <1>1, <2>1, SlotIsTask
<1>10. Ordered' /\ RightValues'
  BY <1>2, <1>4, <1>9 DEF Ordered, PredClosed, RightValues, Computed
<1> QED
  BY <1>6, <1>7, <1>8, <1>10, <1>11 DEF DInv

LEMMA RubbishShape ==
  ASSUME mem' = Rubbish
  PROVE  MemShape'
BY DEF MemShape, Rubbish

(* A call ends: all its tokens are there, or it raises.                    *)
LEMMA EndKeepsValues ==
  ASSUME IInv, Collect \/ RunFails
  PROVE  DInv' /\ (host' = "ok" => host = "launched" /\ Made = call.n)
<1>1. DInv /\ Tape /\ Session /\ Caches /\ Lists
  BY DEF IInv, DInv, SInv
<1>2. /\ UNCHANGED <<generated, content, bound, call, passes>> /\ mem' = Rubbish
      /\ host' \in {"ok", "raised"}
      /\ built' \in BOOLEAN \/ built' = built
  BY DEF Collect, RunFails, EndLaunch
<1>3. MemShape'
  BY <1>2, RubbishShape
<1>4. CASE host' = "raised"
  <2>1. Tape' /\ Caches' /\ Session'
    BY <1>1, <1>2, <1>4 DEF Tape, Caches, Session, OnDevice, Idle, Collect, RunFails
  <2> QED
    BY <1>3, <1>4, <2>1 DEF DInv
<1>5. CASE host' = "ok"
  <2>1. /\ host = "launched" /\ UNCHANGED <<built, queues>>
        /\ \A i \in DOMAIN generated : generated[i] # Nothing
    BY <1>5 DEF Collect, RunFails
  <2>2. call.n \in Nat /\ Made \in 0 .. call.n /\ DOMAIN generated = 1 .. call.n
    BY <1>1, <2>1 DEF Session, Tape, Lists, IsList
  <2>3. Made = call.n
    <3>1. ~ call.n > Made
      <4>1. call.n > Made => call.n \in 1 .. call.n /\ generated[call.n] = Nothing
        BY <1>1, <2>1, <2>2 DEF Tape
      <4> QED
        BY <2>1, <2>2, <4>1
    <3> QED
      BY <2>2, <3>1
  <2>4. Made' = call.n
    BY <1>2, <1>5 DEF Made
  <2>5. Tape'
    BY <1>1, <1>2, <2>1, <2>3, <2>4 DEF Tape
  <2>6. Session'
    BY <1>1, <1>2, <1>5, <2>1 DEF Session, OnDevice, Idle, TotalPositions
  <2>7. Caches'
    <3>1. BasePos' = BasePos /\ \A i : Row(i)' = Row(i)
      BY <1>2, RowsSame
    <3>2. Rows(content[VmCache], BasePos + Made)
      BY <1>1, <2>1 DEF Caches, OnDevice
    <3>3. Rows(content[VmCache], BasePos + Made)'
      BY <1>2, <2>3, <2>4, <3>1, <3>2 DEF Rows, VmCache
    <3> QED
      BY <1>1, <1>2, <1>5, <3>3 DEF Caches
  <2> QED
    BY <1>3, <1>5, <2>1, <2>3, <2>5, <2>6, <2>7 DEF DInv
<1> QED
  BY <1>2, <1>4, <1>5

(* The cache decode() starts from: the caller's rows, or none are needed.  *)
LEMMA SeedRows ==
  ASSUME Session, host \in {"seed", "gate"}, call.kv # "kept", Lists,
         NEW i \in 0 .. BasePos - 1
  PROVE  /\ call.kv = "given" /\ call.prompt \in Prompts
         /\ i \in 0 .. MaxSeq - 1 /\ Prefilled(call.prompt)[i] = Row(i)
<1>1. /\ call.kv \in {"given", "none"} /\ Len(call.prompt) \in Nat /\ call.n \in Nat
      /\ Len(call.prompt) - 1 + call.n <= MaxSeq /\ MaxSeq \in Nat
  BY DecodeAssumption DEF Session, OnDevice, Lists, IsList
<1>2. i \in Nat /\ i < Len(call.prompt) - 1 /\ i + 1 \in 1 .. Len(call.prompt) /\ ~ Len(call.prompt) = 1
  <2> DEFINE l == Len(call.prompt)
  <2>1. l \in Nat /\ i \in 0 .. (l - 1) - 1
    BY <1>1 DEF BasePos
  <2> HIDE DEF l
  <2>2. i \in Nat /\ i < l - 1 /\ i + 1 \in 1 .. l /\ ~ l = 1
    BY <2>1
  <2> QED
    BY <2>2 DEF l
<1>3. call.kv = "given" /\ call.prompt \in Prompts
  <2>1. OnDevice
    BY DEF OnDevice
  <2>2. call.kv # "none"
    <3>1. call.kv = "none" => Len(call.prompt) = 1
      BY <2>1 DEF Session
    <3> QED
      BY <1>2, <3>1
  <2> QED
    BY <1>1, <2>1, <2>2 DEF Session
<1>4. i \in 0 .. MaxSeq - 1
  BY <1>1, <1>2
<1>5. Prefilled(call.prompt)[i] = KVRow(SubSeq(call.prompt, 1, i + 1))
  BY <1>2, <1>4 DEF Prefilled
<1>6. SubSeq(call.prompt, 1, i + 1) = Prefix(i + 1)
  BY <1>1, <1>2, PromptPrefix
<1> QED
  BY <1>3, <1>4, <1>5, <1>6 DEF Row, KVRow

(* A pass changes the row of the token it is made over.                    *)
LEMMA PassCache ==
  ASSUME NEW cache, IsCache(cache), NEW q
  PROVE  /\ IsCache(Pass(cache, q))
         /\ \A j \in 0 .. MaxSeq - 1 :
              Pass(cache, q)[j] = IF j = Len(q) - 1 THEN IF Follows(cache, q) THEN KVRow(q) ELSE NoRow
                                  ELSE cache[j]
<1>1. PICK row : row = IF Follows(cache, q) THEN KVRow(q) ELSE NoRow
  OBVIOUS
<1>2. IsRow(row)
  BY <1>1 DEF IsRow, KVRow, NoRow
<1>3. Pass(cache, q) = [cache EXCEPT ![Len(q) - 1] = row]
  BY <1>1 DEF Pass
<1>4. PICK k : k = Len(q) - 1
  OBVIOUS
<1>5. PICK new : new = [cache EXCEPT ![k] = row]
  OBVIOUS
<1>6. /\ new = [j \in 0 .. MaxSeq - 1 |-> new[j]]
      /\ \A j \in 0 .. MaxSeq - 1 : new[j] = IF j = k THEN row ELSE cache[j]
  BY <1>5 DEF IsCache
<1>7. IsCache(new)
  BY <1>2, <1>6 DEF IsCache
<1>8. new = Pass(cache, q)
  BY <1>3, <1>4, <1>5
<1> QED
  BY <1>1, <1>4, <1>6, <1>7, <1>8

LEMMA BuildKeepsCaches ==
  ASSUME IInv, ~ Resident, BuildTables, host \in {"seed", "gate"}, call.kv # "kept",
         host' = "gate", UNCHANGED <<call, generated>>
  PROVE  Caches' /\ built' /\ bound' = VmCache
<1> DEFINE given == IF call.kv = "given" THEN content[CallerCache(call.prompt)] ELSE Zeros
           new == Pass(given, call.prompt)
<1>1. Session /\ Lists /\ Caches
  BY DEF IInv, DInv, SInv
<1>2. bound' = VmCache /\ content' = [content EXCEPT ![VmCache] = new] /\ built'
  BY DEF BuildTables
<1>3. Len(call.prompt) \in Nat /\ BasePos \in Int /\ call.kv \in {"given", "none"}
      /\ (call.kv = "given" => call.prompt \in Prompts)
  BY <1>1 DEF Session, OnDevice, Lists, IsList, BasePos
<1>4. IsCache(given)
  <2>1. CASE call.kv = "given"
    BY <1>1, <1>3, <2>1, TensorsDiffer DEF Caches
  <2>2. CASE call.kv # "given"
    BY <2>2 DEF IsCache, IsRow, Zeros, NoRow
  <2> QED
    BY <2>1, <2>2
<1>5. \A i \in 0 .. BasePos - 1 : i \in 0 .. MaxSeq - 1 /\ given[i] = Row(i)
  BY <1>1, SeedRows DEF Caches
<1> HIDE DEF given
<1>6. IsCache(new) /\ \A i \in 0 .. BasePos - 1 : new[i] = Row(i)
  <2>1. \A i \in 0 .. BasePos - 1 : i # Len(call.prompt) - 1
    BY <1>3 DEF BasePos
  <2> QED
    BY <1>4, <1>5, <2>1, PassCache
<1> HIDE DEF new
<1>7. /\ content' = [t \in Tensors |-> content'[t]] /\ content'[VmCache] = new
      /\ \A t \in Tensors : IsCache(content'[t])
      /\ \A t \in Tensors : t # VmCache => content'[t] = content[t]
  BY <1>1, <1>2, <1>6, TensorUpdate, TensorsDiffer
<1>8. Made' = 0 /\ BasePos' = BasePos /\ \A i : Row(i)' = Row(i)
  BY RowsSame DEF Made
<1>9. Rows(content[VmCache], BasePos + Made)'
  <2>1. \A i \in 0 .. BasePos + 0 - 1 : content'[VmCache][i] = Row(i)'
    <3>1. BasePos + 0 - 1 = BasePos - 1
      BY <1>3
    <3> QED
      BY <1>6, <1>7, <1>8, <3>1
  <2>2. BasePos' = BasePos /\ Made' = 0 /\ BasePos \in Int
    BY <1>3, <1>8
  <2> QED
    BY <2>1, <2>2 DEF Rows, VmCache
<1>10. Caches'
  BY <1>1, <1>2, <1>7, <1>9, TensorsDiffer DEF Caches, OnDevice
<1> QED
  BY <1>2, <1>10

LEMMA SeedKeepsValues ==
  ASSUME IInv, ~ Resident, SeedByBuild \/ SeedByCopy \/ Regrid
  PROVE  DInv'
<1>1. DInv /\ Tape /\ Session /\ Caches /\ MemShape /\ Lists
  BY DEF IInv, DInv, SInv
<1>2. /\ host \in {"seed", "gate"} /\ host' = "gate" /\ UNCHANGED <<mem, generated, call, passes>>
  BY DEF SeedByBuild, SeedByCopy, Regrid
<1>3. Tape' /\ MemShape' /\ Made = 0 /\ Made' = 0
  <2>1. Made = 0 /\ Made' = 0
    BY <1>2 DEF Made
  <2> QED
    BY <1>1, <1>2, <2>1 DEF Tape, MemShape
<1>4. CASE SeedByBuild \/ Regrid
  <2>1. BuildTables /\ call.kv # "kept"
    BY <1>1, <1>4 DEF SeedByBuild, Regrid, Session, OnDevice
  <2>2. Caches' /\ built'
    BY <1>2, <2>1, BuildKeepsCaches
  <2>3. Session'
    BY <1>1, <1>2, <2>1, <2>2 DEF Session, OnDevice, TotalPositions
  <2> QED
    BY <1>2, <1>3, <2>2, <2>3 DEF DInv
<1>5. CASE SeedByCopy
  <2>1. /\ host = "seed" /\ built /\ UNCHANGED <<bound, built, queues>>
        /\ content' = IF call.kv = "given" THEN [content EXCEPT ![bound] = content[CallerCache(call.prompt)]] ELSE content
    BY <1>5 DEF SeedByCopy
  <2>2. Session'
    BY <1>1, <1>2, <2>1 DEF Session, OnDevice, TotalPositions
  <2>3. BasePos' = BasePos /\ \A i : Row(i)' = Row(i)
    BY <1>2, RowsSame
  <2>4. BasePos \in Int /\ (call.kv = "given" => call.prompt \in Prompts) /\ call.kv \in {"given", "none", "kept"}
    BY <1>1, <2>1 DEF Session, OnDevice, Lists, IsList, BasePos
  <2>5. \A i \in 0 .. BasePos - 1 : content'[VmCache][i] = Row(i)
    <3>1. CASE call.kv = "given"
      <4>1. content'[VmCache] = Prefilled(call.prompt)
        BY <1>1, <2>1, <2>4, <3>1, TensorsDiffer DEF Caches
      <4> QED
        BY <1>1, <2>1, <3>1, <4>1, SeedRows
    <3>2. CASE call.kv = "none"
      BY <1>1, <2>1, <3>2, SeedRows
    <3>3. CASE call.kv = "kept"
      <4>1. Rows(content[VmCache], BasePos + Made)
        BY <1>1, <2>1, <3>3 DEF Caches, OnDevice
      <4> QED
        BY <1>3, <2>1, <2>4, <3>3, <4>1 DEF Rows
    <3> QED
      BY <2>4, <3>1, <3>2, <3>3
  <2>6. Rows(content[VmCache], BasePos + Made)'
    BY <1>3, <2>3, <2>4, <2>5 DEF Rows, VmCache
  <2>7. /\ content' = [t \in Tensors |-> content'[t]]
        /\ \A t \in Tensors : IsCache(content'[t])
        /\ \A t \in Tensors : t # VmCache => content'[t] = content[t]
    <3>1. CASE call.kv = "given"
      <4>1. IsCache(content[CallerCache(call.prompt)]) /\ bound = VmCache
        BY <1>1, <2>4, <3>1, TensorsDiffer DEF Caches
      <4> QED
        BY <1>1, <2>1, <3>1, <4>1, TensorUpdate, TensorsDiffer
    <3>2. CASE call.kv # "given"
      BY <1>1, <2>1, <3>2 DEF Caches
    <3> QED
      BY <3>1, <3>2
  <2>8. Caches'
    BY <1>1, <1>2, <2>1, <2>6, <2>7, TensorsDiffer DEF Caches, OnDevice
  <2> QED
    BY <1>2, <1>3, <2>2, <2>8 DEF DInv
<1> QED
  BY <1>4, <1>5

-----------------------------------------------------------------------------
(* generate().                                                             *)

LEMMA LoopEnds ==
  ASSUME IInv, RejectLength \/ GenerateReturns
  PROVE  DInv' /\ (host' = "ok" => Made = call.n) /\ host = "loop"
<1>1. DInv /\ Tape /\ Session /\ Caches /\ MemShape /\ Lists /\ Passes
  BY DEF IInv, DInv, SInv
<1>2. /\ host = "loop" /\ UNCHANGED <<mem, generated, content, bound, built, queues, call, passes>>
      /\ host' \in {"ok", "raised"}
  BY DEF RejectLength, GenerateReturns, device
<1>3. MemShape' /\ call.kv = "threaded"
  BY <1>1, <1>2 DEF MemShape, Session
<1>4. Session' /\ Caches'
  BY <1>1, <1>2, <1>3 DEF Session, Caches, OnDevice, Idle
<1>5. host' = "ok" => Made = call.n
  <2> SUFFICES ASSUME host' = "ok" PROVE Made = call.n
    OBVIOUS
  <2>1. passes.forward = TotalPositions
    BY DEF RejectLength, GenerateReturns
  <2>2. Len(call.prompt) \in Nat /\ call.n \in Nat /\ call.n >= 1
    BY <1>1, <1>2 DEF Lists, IsList, Session
  <2> QED
    BY <1>2, <2>1, <2>2 DEF Made, TotalPositions, BasePos
<1>6. Tape'
  <2>1. host' = "ok" => Made' = call.n
    BY <1>2 DEF Made
  <2> QED
    BY <1>1, <1>2, <1>5, <2>1 DEF Tape
<1> QED
  BY <1>2, <1>3, <1>4, <1>5, <1>6 DEF DInv

(* A forward pass extends the rows by the token fed, and once the prompt is *)
(* through, the tape by the model's choice.                                *)
LEMMA PassFacts ==
  ASSUME IInv, ForwardPass, NEW p, p = passes.forward
  PROVE  /\ p \in Nat /\ Len(call.prompt) \in Nat /\ Len(call.prompt) >= 1 /\ call.n \in Nat
         /\ p < Len(call.prompt) + call.n - 1 /\ Len(call.prompt) + call.n - 1 <= MaxSeq
         /\ p \in 0 .. MaxSeq - 1 /\ BasePos = Len(call.prompt) - 1
         /\ host = "loop" /\ host' = "loop" /\ call.kv = "threaded"
         /\ UNCHANGED <<mem, bound, built, queues, host, call>>
         /\ passes'.forward = p + 1
<1>1. Passes /\ Session /\ Lists
  BY DEF IInv, DInv, SInv
<1>2. /\ host = "loop" /\ p < TotalPositions /\ TotalPositions <= MaxSeq
      /\ passes' = [passes EXCEPT !.forward = p + 1]
      /\ UNCHANGED <<mem, bound, built, queues, host, call>>
  BY DEF ForwardPass
<1>3. Len(call.prompt) \in Nat /\ Len(call.prompt) >= 1 /\ call.n \in Nat /\ p \in Nat /\ MaxSeq \in Nat
  BY <1>1, <1>2, DecodeAssumption DEF Lists, IsList, Session, Passes
<1>4. p < Len(call.prompt) + call.n - 1 /\ Len(call.prompt) + call.n - 1 <= MaxSeq
  BY <1>2 DEF TotalPositions
<1>5. passes'.forward = p + 1
  BY <1>1, <1>2 DEF Passes
<1>6. p \in 0 .. MaxSeq - 1
  <2> DEFINE l == Len(call.prompt)
             k == call.n
  <2>1. l \in Nat /\ k \in Nat /\ p < l + k - 1 /\ l + k - 1 <= MaxSeq
    BY <1>3, <1>4
  <2> HIDE DEF l, k
  <2> QED
    BY <1>3, <2>1
<1>7. call.kv = "threaded"
  BY <1>1, <1>2 DEF Session
<1> QED
  BY <1>2, <1>3, <1>4, <1>5, <1>6, <1>7 DEF BasePos

LEMMA PassRows ==
  ASSUME IInv, ForwardPass, NEW p, p = passes.forward
  PROVE  \E cache :
           /\ content' = [content EXCEPT ![LoopCache] = cache]
           /\ generated' = IF p < BasePos THEN generated
                           ELSE [generated EXCEPT ![p - BasePos + 1] = Sampled(Right(LogitsBuffer, Prefix(p + 1)))]
           /\ IsCache(cache)
           /\ \A i \in 0 .. p : cache[i] = Row(i)
<1> DEFINE old == IF p = 0 THEN Zeros ELSE content[LoopCache]
           fed == SubSeq(call.prompt \o generated, 1, p + 1)
           cache == Pass(old, fed)
<1>1. Caches /\ p \in Nat /\ p \in 0 .. MaxSeq - 1 /\ host = "loop"
  BY PassFacts DEF IInv, DInv
<1>2. IsCache(old)
  <2>1. CASE p = 0
    BY <2>1 DEF IsCache, IsRow, Zeros, NoRow
  <2>2. CASE p # 0
    BY <1>1, <2>2, TensorsDiffer DEF Caches
  <2> QED
    BY <2>1, <2>2
<1>3. \A i \in 0 .. p - 1 : old[i] = Row(i)
  <2>1. CASE p = 0
    BY <1>1, <2>1
  <2>2. CASE p # 0
    <3>1. old = content[LoopCache] /\ Rows(content[LoopCache], p)
      BY <1>1, <2>2 DEF Caches
    <3> HIDE DEF old
    <3> QED
      BY <3>1 DEF Rows
  <2> QED
    BY <2>1, <2>2
<1>4. fed = Prefix(p + 1)
  <2> DEFINE l == Len(call.prompt)
  <2>1. p \in Nat /\ l \in Nat /\ call.n \in Nat /\ p < l + call.n - 1
    BY PassFacts
  <2> HIDE DEF l
  <2>2. p + 1 \in 0 .. l + call.n
    BY <2>1
  <2> HIDE DEF fed
  <2> QED
    BY <2>2, SequencePrefix DEF fed, l, IInv, SInv
<1> HIDE DEF fed, old
<1>5. Len(fed) = p + 1 /\ \A m \in 0 .. p + 1 : SubSeq(fed, 1, m) = Prefix(m)
  <2>1. PICK k \in Nat : k = p + 1
    BY <1>1
  <2>2. Len(Prefix(k)) = k /\ \A m \in 0 .. k : SubSeq(Prefix(k), 1, m) = Prefix(m)
    BY PrefixFacts
  <2> QED
    BY <1>4, <2>1, <2>2
<1>6. Follows(old, fed)
  <2> SUFFICES ASSUME NEW i \in 0 .. Len(fed) - 2, NEW x \in KVCaches
               PROVE  old[i][x] = Right(x, SubSeq(fed, 1, i + 1))
    BY DEF Follows
  <2>1. i \in 0 .. p - 1 /\ i + 1 \in 0 .. p + 1
    BY <1>1, <1>5
  <2>2. old[i] = Row(i) /\ SubSeq(fed, 1, i + 1) = Prefix(i + 1)
    BY <1>3, <1>5, <2>1
  <2> QED
    BY <2>2 DEF Row
<1>7. KVRow(fed) = Row(p)
  BY <1>4 DEF KVRow, Row
<1>8. IsCache(cache) /\ \A j \in 0 .. MaxSeq - 1 : cache[j] = IF j = p THEN Row(p) ELSE old[j]
  <2>1. Len(fed) - 1 = p
    BY <1>1, <1>5
  <2> QED
    BY <1>2, <1>6, <1>7, <2>1, PassCache
<1>9. PassLogits(old, fed) = Right(LogitsBuffer, Prefix(p + 1))
  BY <1>4, <1>6 DEF PassLogits
<1>10. /\ content' = [content EXCEPT ![LoopCache] = cache]
       /\ generated' = IF p < BasePos THEN generated
                       ELSE [generated EXCEPT ![p - BasePos + 1] = Sampled(PassLogits(old, fed))]
  BY DEF ForwardPass, old, fed
<1> HIDE DEF cache
<1>11. \A i \in 0 .. p : i = p \/ (i \in 0 .. p - 1 /\ i \in 0 .. MaxSeq - 1 /\ i # p)
  BY <1>1, DecodeAssumption
<1>12. \A i \in 0 .. p : cache[i] = Row(i)
  BY <1>1, <1>3, <1>8, <1>11
<1> QED
  BY <1>8, <1>9, <1>10, <1>12

LEMMA PassIsChoice ==
  ASSUME IInv, ForwardPass, NEW s, s = passes.forward - BasePos, passes.forward >= BasePos
  PROVE  /\ generated' = [generated EXCEPT ![s + 1] = Choice(s)] /\ Choice(s) \in Tokens
         /\ s \in Nat /\ s < call.n /\ Made = s /\ Made' = s + 1
<1> DEFINE p == passes.forward
           l == Len(call.prompt)
<1>1. /\ p \in Nat /\ l \in Nat /\ l >= 1 /\ call.n \in Nat
      /\ p < l + call.n - 1 /\ l + call.n - 1 <= MaxSeq /\ MaxSeq \in Nat
      /\ BasePos = l - 1 /\ p >= l - 1 /\ s = p - (l - 1)
      /\ host = "loop" /\ host' = "loop" /\ UNCHANGED call /\ passes'.forward = p + 1
  BY PassFacts, DecodeAssumption
<1>2. Tape /\ Lists /\ Session
  BY DEF IInv, DInv, SInv
<1>3. PICK cache :
        generated' = IF p < BasePos THEN generated
                     ELSE [generated EXCEPT ![p - BasePos + 1] = Sampled(Right(LogitsBuffer, Prefix(p + 1)))]
  BY PassRows
<1>4. BasePos' = BasePos
  BY <1>1 DEF BasePos
<1>5. Made = (IF p > BasePos THEN p - BasePos ELSE 0) /\ Made' = (IF p + 1 > BasePos THEN p + 1 - BasePos ELSE 0)
  BY <1>1, <1>4, SMTT(20) DEF Made
<1> HIDE DEF p, l
<1>6. /\ s \in Nat /\ s < call.n /\ s \in 0 .. call.n /\ l + s <= MaxSeq
      /\ BasePos + s + 1 = p + 1 /\ p - BasePos + 1 = s + 1 /\ ~ p < BasePos
  BY <1>1
<1>7. Made = s /\ Made' = s + 1
  BY <1>1, <1>5
<1>8. \A i \in 1 .. s : generated[i] \in Tokens
  <2>1. \A i \in 1 .. s : i \in 1 .. call.n /\ i <= s
    BY <1>1, <1>6
  <2> QED
    BY <1>1, <1>2, <1>7, <2>1 DEF Tape
<1>9. l + s = p + 1
  BY <1>1, <1>6
<1>10. Sampled(Right(LogitsBuffer, Prefix(l + s))) = Choice(s) /\ Choice(s) \in Tokens
  BY <1>1, <1>2, <1>6, <1>8, LogitsMakeChoice DEF l, Session
<1>11. generated' = [generated EXCEPT ![s + 1] = Choice(s)]
  BY <1>3, <1>6, <1>9, <1>10
<1> QED
  BY <1>6, <1>7, <1>10, <1>11

LEMMA PassKeepsValues ==
  ASSUME IInv, SInv', ForwardPass
  PROVE  DInv'
<1> DEFINE p == passes.forward
           l == Len(call.prompt)
<1>1. /\ p \in Nat /\ l \in Nat /\ l >= 1 /\ call.n \in Nat
      /\ p < l + call.n - 1 /\ l + call.n - 1 <= MaxSeq /\ MaxSeq \in Nat
      /\ BasePos = l - 1 /\ call.kv = "threaded"
      /\ host = "loop" /\ UNCHANGED <<mem, bound, built, queues, host, call>> /\ passes'.forward = p + 1
  BY PassFacts, DecodeAssumption
<1>2. Tape /\ Lists /\ Lists' /\ Session /\ Caches /\ MemShape
  BY DEF IInv, DInv, SInv
<1>3. PICK cache :
        /\ content' = [content EXCEPT ![LoopCache] = cache]
        /\ generated' = IF p < BasePos THEN generated
                        ELSE [generated EXCEPT ![p - BasePos + 1] = Sampled(Right(LogitsBuffer, Prefix(p + 1)))]
        /\ IsCache(cache)
        /\ \A i \in 0 .. p : cache[i] = Row(i)
  BY PassRows
<1>4. BasePos' = BasePos
  BY <1>1 DEF BasePos
<1>5. Tape' /\ \A i \in 0 .. p : Row(i)' = Row(i)
  <2>1. CASE p < BasePos
    <3>1. generated' = generated
      BY <1>3, <2>1
    <3>2. Made = 0 /\ Made' = 0
      <4>1. Made = (IF p > BasePos THEN p - BasePos ELSE 0) /\ Made' = (IF p + 1 > BasePos THEN p + 1 - BasePos ELSE 0)
        BY <1>1, <1>4 DEF Made
      <4> HIDE DEF p
      <4> QED
        BY <1>1, <2>1, <4>1
    <3> QED
      BY <1>1, <1>2, <3>1, <3>2, RowsSame DEF Tape
  <2>2. CASE p >= BasePos
    <3> DEFINE s == p - BasePos
    <3>1. /\ generated' = [generated EXCEPT ![s + 1] = Choice(s)] /\ Choice(s) \in Tokens
          /\ s \in Nat /\ s < call.n /\ Made = s /\ Made' = s + 1
      BY <2>2, PassIsChoice
    <3>2. l + s - 1 = p /\ s \in 0 .. call.n
      <4> HIDE DEF p, l
      <4> QED
        BY <1>1, <2>2, <3>1
    <3> HIDE DEF s
    <3>3. host # "raised"
      BY <1>1
    <3>4. Tape' /\ \A j \in 1 .. s : generated'[j] = generated[j]
      BY <1>1, <1>2, <3>1, <3>3, TapeGrows
    <3>5. \A i \in 0 .. l + s - 1 : Row(i)' = Row(i)
      BY <1>1, <1>2, <3>2, <3>4, RowsStay
    <3> QED
      BY <3>2, <3>4, <3>5
  <2>3. p < BasePos \/ p >= BasePos
    BY <1>1
  <2> QED
    BY <2>1, <2>2, <2>3, Zenon
<1>6. Session'
  <2>1. passes'.forward <= TotalPositions
    <3> HIDE DEF p, l
    <3> QED
      BY <1>1 DEF TotalPositions, l
  <2> QED
    BY <1>1, <1>2, <2>1 DEF Session, OnDevice, TotalPositions
<1>7. /\ content' = [t \in Tensors |-> content'[t]] /\ content'[LoopCache] = cache
      /\ \A t \in Tensors : t # LoopCache => content'[t] = content[t]
  BY <1>2, <1>3, TensorUpdate, TensorsDiffer
<1>8. \A i \in 0 .. passes'.forward - 1 : content'[LoopCache][i] = Row(i)'
  <2>1. passes'.forward - 1 = p
    <3> HIDE DEF p
    <3> QED
      BY <1>1
  <2> QED
    BY <1>3, <1>5, <1>7, <2>1
<1>9. Caches'
  <2>1. Rows(content[LoopCache], passes.forward)'
    BY <1>8 DEF Rows, LoopCache
  <2>2. \A t \in Tensors : IsCache(content'[t])
    BY <1>2, <1>3, <1>7 DEF Caches
  <2>3. \A q \in Prompts : content'[CallerCache(q)] = Prefilled(q)
    BY <1>2, <1>7, TensorsDiffer DEF Caches
  <2>4. bound' = VmCache /\ ~ OnDevice'
    BY <1>1, <1>2 DEF Caches, OnDevice
  <2> QED
    BY <1>7, <2>1, <2>2, <2>3, <2>4 DEF Caches
<1>10. MemShape'
  BY <1>1, <1>2 DEF MemShape
<1> QED
  BY <1>1, <1>5, <1>6, <1>9, <1>10 DEF DInv

-----------------------------------------------------------------------------
(* A call begins: on the rows of its prompt, if it goes on with a sequence. *)

LEMMA SeedsNothing ==
  ASSUME Caches, MemShape, Session', Lists', ~ Resident,
         host' \in {"seed", "loop"},
         generated' = [i \in 1 .. call'.n |-> Nothing],
         host' = "loop" => passes'.forward = 0,
         host' = "seed" /\ call'.kv = "kept" => \A i \in 0 .. BasePos' + 0 - 1 : content[VmCache][i] = Row(i)',
         UNCHANGED <<mem, content, bound, built, queues>>
  PROVE  DInv'
<1>1. BasePos' \in Nat /\ call'.n \in Nat
  <2>1. Len(call'.prompt) \in Nat /\ Len(call'.prompt) >= 1 /\ call'.n \in Nat
    BY DEF Lists, IsList, Session
  <2> QED
    BY <2>1 DEF BasePos
<1>2. Made' = 0
  <2>1. host' = "loop" => ~ passes'.forward > BasePos'
    BY <1>1
  <2> QED
    BY <2>1 DEF Made
<1>3. Tape'
  <2>1. \A i \in 1 .. call'.n : i > 0 /\ ~ i <= 0
    BY <1>1
  <2>2. 0 \in 0 .. call'.n /\ \A i \in 1 .. call'.n : generated'[i] = Nothing
    BY <1>1
  <2> QED
    BY <1>2, <2>1, <2>2 DEF Tape
<1>4. MemShape'
  BY DEF MemShape
<1>5. Caches'
  <2>1. ASSUME host' = "seed", call'.kv = "kept" PROVE Rows(content[VmCache], BasePos + Made)'
    <3>1. \A i \in 0 .. BasePos' + 0 - 1 : content'[VmCache][i] = Row(i)'
      BY <2>1
    <3>2. (BasePos' + Made') - 1 = BasePos' + 0 - 1
      BY <1>1, <1>2
    <3> QED
      BY <3>1, <3>2, Zenon DEF Rows, VmCache
  <2>2. host' = "loop" => Rows(content[LoopCache], passes.forward)'
    <3>1. \A i \in 0 .. 0 - 1 : FALSE
      OBVIOUS
    <3> QED
      BY <3>1 DEF Rows
  <2>3. OnDevice' => host' = "seed"
    BY DEF OnDevice
  <2> QED
    BY <2>1, <2>2, <2>3 DEF Caches
<1> QED
  BY <1>3, <1>4, <1>5 DEF DInv

(* All tokens of a call that returned are tokens: the next call may go on. *)
LEMMA KeptIsPrompt ==
  ASSUME IInv, host = "ok"
  PROVE  call.prompt \o generated \in Seq(Tokens)
<1>1. /\ IsList(generated) /\ Len(generated) = call.n /\ call.n \in Nat /\ call.prompt \in Seq(Tokens)
      /\ Tape /\ Made = call.n
  BY DEF IInv, DInv, SInv, Lists, Session, Made
<1>2. \A i \in 1 .. call.n : generated[i] \in Tokens
  BY <1>1 DEF Tape
<1>3. generated = [i \in 1 .. call.n |-> generated[i]]
  BY <1>1 DEF IsList
<1>4. generated \in Seq(Tokens)
  <2>1. generated \in [1 .. call.n -> Tokens]
    BY <1>2, <1>3
  <2> QED
    BY <1>1, <2>1
<1> QED
  BY <1>1, <1>4

LEMMA KeptRows ==
  ASSUME IInv, host = "ok", call.kv # "threaded", call'.prompt = call.prompt \o generated,
         Lists'
  PROVE  \A i \in 0 .. BasePos' + 0 - 1 : content[VmCache][i] = Row(i)'
<1> DEFINE p == call.prompt \o generated
<1>1. /\ IsList(call.prompt) /\ IsList(generated) /\ Len(generated) = call.n /\ IsList(p)
      /\ Len(p) = Len(call.prompt) + call.n /\ Len(call.prompt) \in Nat /\ call.n \in Nat
      /\ IsList(generated') /\ Len(p) \in Nat
  <2>1. IsList(call.prompt) /\ IsList(generated) /\ Len(generated) = call.n /\ IsList(generated')
    BY DEF IInv, SInv, Lists
  <2>2. IsList(p) /\ Len(p) = Len(call.prompt) + Len(generated)
    BY <2>1, ListConcat
  <2> QED
    BY <2>1, <2>2 DEF IsList
<1>2. Rows(content[VmCache], BasePos + call.n)
  BY DEF IInv, DInv, Caches, OnDevice, Made
<1> HIDE DEF p
<1>3. BasePos' = Len(p) - 1 /\ BasePos' + 0 - 1 = BasePos + call.n - 1
  <2>1. BasePos' = Len(p) - 1
    BY DEF BasePos, p
  <2> QED
    BY <1>1, <2>1 DEF BasePos
<1> SUFFICES ASSUME NEW i \in 0 .. BasePos' + 0 - 1
             PROVE  content[VmCache][i] = Row(i)'
  OBVIOUS
<1>4. content[VmCache][i] = Row(i)
  <2>1. i \in 0 .. BasePos + call.n - 1
    BY <1>3
  <2>2. BasePos \in Int /\ call.n \in Int
    BY <1>1 DEF BasePos
  <2>3. \A j \in 0 .. BasePos + call.n - 1 : content[VmCache][j] = Row(j)
    BY <1>2, <2>2 DEF Rows
  <2> QED
    BY <2>1, <2>3
<1>5. \A j \in 1 .. i + 1 : j \in 1 .. Len(p)
  BY <1>1, <1>3
<1>6. \A j \in 1 .. i + 1 : (p \o generated')[j] = p[j]
  BY <1>1, <1>5, ListConcat
<1>7. Prefix(i + 1)' = Prefix(i + 1)
  BY <1>6 DEF Prefix, p
<1> QED
  BY <1>4, <1>7 DEF Row

LEMMA CallKeepsValues ==
  ASSUME IInv, SInv', ~ Resident, Decode \/ Generate
  PROVE  DInv'
<1>1. Session /\ Caches /\ MemShape /\ Lists' /\ SInv
  BY DEF IInv, DInv, SInv
<1>3. /\ call'.n \in Nat /\ call'.n >= 1
      /\ generated' = [i \in 1 .. call'.n |-> Nothing]
      /\ UNCHANGED <<mem, content, bound, built, queues>>
  <2>1. /\ call'.n \in Lengths /\ generated' = [i \in 1 .. call'.n |-> Nothing]
        /\ UNCHANGED <<mem, content, bound, built, queues>>
    BY <1>1, CallBegins
  <2>2. call'.n \in Nat /\ call'.n # 0
    BY <2>1, DecodeAssumption
  <2> QED
    BY <2>1, <2>2
<1>4. Len(call'.prompt) \in Nat /\ Len(call'.prompt) >= 1
  <2>1. host' \in {"seed", "loop"}
    BY <1>1, CallBegins
  <2> QED
    BY <1>1, <2>1 DEF Lists, IsList
<1>5. CASE Generate
  <2>1. /\ host' = "loop" /\ call'.kv = "threaded" /\ call'.prompt \in Prompts /\ passes'.forward = 0
    BY <1>5 DEF Generate, Begin
  <2>2. passes'.forward <= TotalPositions'
    <3>1. TotalPositions' = Len(call'.prompt) + call'.n - 1
      BY DEF TotalPositions
    <3> QED
      BY <1>3, <1>4, <2>1, <3>1
  <2>3. Session'
    BY <1>3, <2>1, <2>2, PromptIsList DEF Session, OnDevice
  <2> QED
    BY <1>1, <1>3, <2>1, <2>3, SeedsNothing
<1>6. CASE Decode
  <2>1. \/ /\ host' = "seed" /\ call'.prompt \in Prompts /\ Len(call'.prompt) - 1 + call'.n <= MaxSeq
           /\ call'.kv = IF Len(call'.prompt) > 1 THEN "given" ELSE "none"
        \/ /\ host = "ok" /\ call.kv # "threaded" /\ host' = "seed" /\ call'.prompt = call.prompt \o generated
           /\ Len(call'.prompt) - 1 + call'.n <= MaxSeq /\ call'.kv = "kept"
    BY <1>6 DEF Decode, Begin
  <2>2. CASE call'.kv # "kept"
    <3>1. /\ host' = "seed" /\ call'.prompt \in Prompts /\ Len(call'.prompt) - 1 + call'.n <= MaxSeq
          /\ call'.kv = IF Len(call'.prompt) > 1 THEN "given" ELSE "none"
      BY <2>1, <2>2
    <3>2. call'.kv = "none" => Len(call'.prompt) = 1
      <4> DEFINE l == Len(call'.prompt)
      <4>1. l \in Nat /\ l >= 1 /\ call'.kv = IF l > 1 THEN "given" ELSE "none"
        BY <1>4, <3>1
      <4> HIDE DEF l
      <4>2. call'.kv = "none" => l = 1
        BY <4>1
      <4> QED
        BY <4>2 DEF l
    <3>3. Session'
      BY <1>3, <3>1, <3>2, PromptIsList DEF Session, OnDevice
    <3> QED
      BY <1>1, <1>3, <2>2, <3>1, <3>3, SeedsNothing
  <2>3. CASE call'.kv = "kept"
    <3>1. /\ host = "ok" /\ call.kv # "threaded" /\ host' = "seed" /\ call'.prompt = call.prompt \o generated
          /\ Len(call'.prompt) - 1 + call'.n <= MaxSeq
      BY <2>1, <2>3
    <3>2. built /\ ~ (Regrids /\ queues = Wide)
      BY <1>1, <3>1 DEF Session, OnDevice
    <3>3. Session'
      BY <1>3, <2>3, <3>1, <3>2, KeptIsPrompt DEF Session, OnDevice
    <3>4. \A i \in 0 .. BasePos' + 0 - 1 : content[VmCache][i] = Row(i)'
      BY <1>1, <3>1, KeptRows
    <3> QED
      BY <1>1, <1>3, <3>1, <3>3, <3>4, SeedsNothing
  <2> QED
    BY <2>2, <2>3
<1> QED
  BY <1>5, <1>6

LEMMA InitDInv == Init => DInv
<1> SUFFICES ASSUME Init PROVE DInv
  OBVIOUS
<1>1. /\ host = "idle" /\ call = [prompt |-> <<>>, n |-> 0, kv |-> "none"] /\ generated = <<>>
      /\ bound = VmCache /\ mem = Rubbish
      /\ content = [t \in Tensors |-> IF t.owner = "caller" THEN Prefilled(t.prompt) ELSE Zeros]
  BY DEF Init
<1>2. Made = 0 /\ call.n = 0 /\ call.prompt = <<>> /\ ~ OnDevice
  BY <1>1 DEF Made, OnDevice
<1>3. Tape
  BY <1>2 DEF Tape
<1>4. Session
  BY <1>1, <1>2 DEF Session, Idle
<1>5. MemShape
  BY <1>1 DEF MemShape, Rubbish
<1>6. Caches
  <2>1. content = [t \in Tensors |-> content[t]]
    BY <1>1
  <2>2. ASSUME NEW t \in Tensors PROVE IsCache(content[t])
    <3>1. content[t] = Prefilled(t.prompt) \/ content[t] = Zeros
      BY <1>1
    <3>2. IsCache(Zeros)
      BY DEF IsCache, IsRow, Zeros, NoRow
    <3>3. IsCache(Prefilled(t.prompt))
      <4>1. PICK cache : cache = Prefilled(t.prompt)
        OBVIOUS
      <4>2. /\ cache = [i \in 0 .. MaxSeq - 1 |-> cache[i]]
            /\ \A i \in 0 .. MaxSeq - 1 : cache[i] = NoRow \/ \E q : cache[i] = KVRow(q)
        BY <4>1 DEF Prefilled
      <4>3. IsRow(NoRow) /\ \A q : IsRow(KVRow(q))
        BY DEF IsRow, KVRow, NoRow
      <4> QED
        BY <4>1, <4>2, <4>3 DEF IsCache
    <3> QED
      BY <3>1, <3>2, <3>3
  <2>3. ASSUME NEW p \in Prompts PROVE content[CallerCache(p)] = Prefilled(p)
    <3>1. CallerCache(p) \in Tensors /\ CallerCache(p).owner = "caller" /\ CallerCache(p).prompt = p
      BY TensorsDiffer DEF CallerCache
    <3> QED
      BY <1>1, <3>1
  <2> QED
    BY <1>1, <1>2, <2>1, <2>2, <2>3 DEF Caches
<1> QED
  BY <1>1, <1>3, <1>4, <1>5, <1>6 DEF DInv

LEMMA StutterKeepsValues ==
  ASSUME IInv, UNCHANGED vars
  PROVE  DInv'
<1>1. /\ UNCHANGED <<pc, regs, counters, abort, cells, mem, generated, content>>
      /\ UNCHANGED <<bound, built, queues, host, call, passes>> /\ Blocks' = Blocks
  BY DEF vars, device, session, Blocks
<1>2. DInv /\ Tape /\ Session /\ Caches /\ MemShape
  BY DEF IInv, DInv
<1>3. Made' = Made
  BY <1>1 DEF Made, BasePos
<1>4. Tape' /\ Session' /\ Caches' /\ MemShape'
  BY <1>1, <1>2, <1>3, HostStays DEF MemShape
<1>5. \A c \in Blocks : Retired(c)' = Retired(c) /\ Current(c)' = Current(c) /\ (InQueue(c)' <=> InQueue(c))
  BY <1>1 DEF Retired, RetiredThisStep, Current, InQueue
<1>6. host = "launched" => 0 \in Blocks
  BY GridFacts DEF IInv, PInv, Shapes
<1>7. host = "launched" => Drained' /\ Ordered'
  BY <1>1, <1>2, <1>5, <1>6 DEF DInv, Drained, Ordered
<1>8. host = "launched" => RightValues'
  <2> SUFFICES ASSUME host = "launched", pc[0] \in Active, ~ abort, NEW t \in Computed' PROVE Done(t)'
    BY <1>1 DEF RightValues
  <2>1. t \in Computed
    BY <1>1, <1>5, <1>6 DEF Computed
  <2>2. Done(t)
    BY <1>2, <2>1 DEF DInv, RightValues
  <2> QED
    BY <1>1, <2>2, DoneStays
<1> QED
  BY <1>1, <1>4, <1>7, <1>8 DEF DInv

LEMMA NextDInv ==
  ASSUME ~ Resident, Unsplit
  PROVE  IInv /\ [Next]_vars => IInv'
<1> SUFFICES ASSUME IInv, [Next]_vars PROVE IInv'
  OBVIOUS
<1>1. PInv' /\ SInv' /\ Passes'
  BY NextPInv, NextSInv, NextPasses DEF IInv
<1>2. CASE UNCHANGED vars
  BY <1>2, StutterKeepsValues, <1>1 DEF IInv
<1>3. CASE Decode \/ Generate
  BY <1>1, <1>3, CallKeepsValues DEF IInv
<1>4. CASE HostStep \/ RunFails
  BY <1>1, <1>4, SeedKeepsValues, LaunchKeepsValues, EndKeepsValues, LoopEnds, PassKeepsValues DEF IInv, HostStep
<1>5. CASE \E b \in Blocks : BlockStep(b)
  BY <1>1, <1>5, BlockStepKeepsValues DEF IInv
<1> QED
  BY <1>2, <1>3, <1>4, <1>5 DEF Next

-----------------------------------------------------------------------------
(***************************************************************************)
(* The refinement.  A sample, or a forward pass behind the prompt, is one  *)
(* Produce; a call's begin and end are Call, Return and Raise; everything  *)
(* else the blocks and the host do is invisible to the caller.             *)
(***************************************************************************)
LEMMA CountsProduced ==
  ASSUME NEW g, IsList(g), NEW m \in 0 .. Len(g),
         \A i \in 1 .. Len(g) : g[i] # Nothing <=> i <= m
  PROVE  SubSeq(g, 1, Cardinality({i \in DOMAIN g : g[i] # Nothing})) = SubSeq(g, 1, m)
<1>1. Len(g) \in Nat /\ DOMAIN g = 1 .. Len(g)
  BY DEF IsList
<1>2. {i \in DOMAIN g : g[i] # Nothing} = 1 .. m
  BY <1>1
<1>3. Cardinality(1 .. m) = m
  BY <1>1, FS_Interval
<1> QED
  BY <1>2, <1>3

LEMMA GrownPrefix ==
  ASSUME NEW g, NEW h, IsList(g), IsList(h), Len(h) = Len(g), NEW s \in Nat, s < Len(g),
         \A j \in 1 .. s : h[j] = g[j]
  PROVE  /\ SubSeq(h, 1, s + 1) = Append(SubSeq(g, 1, s), h[s + 1])
         /\ Len(SubSeq(g, 1, s)) = s
<1>1. PICK S : g \in Seq(S) /\ h \in Seq(S)
  <2>1. PICK S : S = {g[i] : i \in 1 .. Len(g)} \cup {h[i] : i \in 1 .. Len(g)}
    OBVIOUS
  <2>2. g \in Seq(S) /\ h \in Seq(S)
    BY <2>1 DEF IsList
  <2> QED
    BY <2>2
<1>2. Len(g) \in Nat
  BY <1>1
<1> DEFINE a == SubSeq(g, 1, s)
           b == SubSeq(h, 1, s + 1)
<1>3. a \in Seq(S) /\ Len(a) = s /\ \A i \in 1 .. s : a[i] = g[i]
  BY <1>1, <1>2
<1>4. b \in Seq(S) /\ Len(b) = s + 1 /\ \A i \in 1 .. s + 1 : b[i] = h[i]
  BY <1>1, <1>2
<1>5. h[s + 1] \in S
  BY <1>1, <1>2
<1> HIDE DEF a, b
<1>6. Append(a, h[s + 1]) \in Seq(S) /\ Len(Append(a, h[s + 1])) = s + 1
      /\ \A i \in 1 .. s + 1 : Append(a, h[s + 1])[i] = b[i]
  BY <1>3, <1>4, <1>5
<1>7. Append(a, h[s + 1]) = b
  <2>1. Append(a, h[s + 1]) = [i \in 1 .. s + 1 |-> Append(a, h[s + 1])[i]]
    BY <1>6, SeqIsList DEF IsList
  <2>2. b = [i \in 1 .. s + 1 |-> b[i]]
    BY <1>4, SeqIsList DEF IsList
  <2> QED
    BY <1>6, <2>1, <2>2
<1> QED
  BY <1>3, <1>7 DEF a, b

(* What the caller cannot see.                                             *)
LEMMA CallerSeesNothing ==
  ASSUME UNCHANGED <<call, generated>>, host' = host \/ (host \notin Idle /\ host' \notin Idle)
  PROVE  UNCHANGED Decoder!vars
<1>1. Produced' = Produced
  BY DEF Produced
<1> QED
  BY <1>1 DEF Decoder!vars

LEMMA TokenIsProduced ==
  ASSUME Lists, Lists', Tape, Tape', call.n \in Nat, call' = call,
         host \notin Idle, host' \notin Idle,
         NEW s \in Nat, s < call.n, Made = s, Made' = s + 1,
         generated' = [generated EXCEPT ![s + 1] = Choice(s)], Choice(s) \in Tokens,
         host' = host
  PROVE  Decoder!Produce
<1>1. /\ IsList(generated) /\ Len(generated) = call.n /\ IsList(generated') /\ Len(generated') = call.n
      /\ host # "raised" /\ s + 1 \in 1 .. Len(generated)
  BY DEF Lists, Idle
<1>2. (\A j \in 1 .. s : generated'[j] = generated[j]) /\ generated'[s + 1] = Choice(s)
  BY <1>1, TapeGrows
<1>3. Produced = SubSeq(generated, 1, s)
  BY <1>1, ProducedIs
<1>4. Produced' = SubSeq(generated', 1, s + 1)
  <2>1. \A i \in 1 .. call.n : generated'[i] # Nothing <=> i <= s + 1
    BY <1>1, DecodeAssumption DEF Tape
  <2>2. s + 1 \in 0 .. Len(generated')
    BY <1>1
  <2>3. SubSeq(generated', 1, Cardinality({i \in DOMAIN generated' : generated'[i] # Nothing})) = SubSeq(generated', 1, s + 1)
    BY <1>1, <2>1, <2>2, CountsProduced
  <2> QED
    BY <2>3 DEF Produced
<1>5. /\ SubSeq(generated', 1, s + 1) = Append(SubSeq(generated, 1, s), generated'[s + 1])
      /\ Len(SubSeq(generated, 1, s)) = s
  BY <1>1, <1>2, GrownPrefix
<1>6. Produced' = Append(Produced, NextToken(call.prompt \o Produced)) /\ Len(Produced) < call.n
  BY <1>2, <1>3, <1>4, <1>5 DEF Choice
<1> QED
  BY <1>6 DEF Decoder!Produce

LEMMA CallIsCall ==
  ASSUME IInv, IInv', Decode \/ Generate
  PROVE  Decoder!Call
<1>1. /\ host \in Idle /\ host' \in {"seed", "loop"} /\ generated' = [i \in 1 .. call'.n |-> Nothing]
      /\ call'.n \in Lengths
  BY DEF Decode, Generate, Begin
<1>2. call'.prompt \in Seq(Tokens) /\ call'.n \in Nat /\ IsList(generated') /\ Len(generated') = call'.n
  BY DEF IInv, DInv, SInv, Session, Lists
<1>3. Produced' = <<>>
  <2>1. \A i \in 1 .. Len(generated') : generated'[i] # Nothing <=> i <= 0
    BY <1>1, <1>2
  <2>2. 0 \in 0 .. Len(generated')
    BY <1>2
  <2>3. SubSeq(generated', 1, Cardinality({i \in DOMAIN generated' : generated'[i] # Nothing})) = SubSeq(generated', 1, 0)
    BY <1>2, <2>1, <2>2, CountsProduced
  <2>4. SubSeq(generated', 1, 0) = <<>>
    <3>1. PICK S : generated' \in Seq(S)
      <4>1. PICK S : S = {generated'[i] : i \in 1 .. Len(generated')}
        OBVIOUS
      <4>2. generated' \in Seq(S)
        BY <1>2, <4>1 DEF IsList
      <4> QED
        BY <4>2
    <3> QED
      BY <3>1
  <2> QED
    BY <2>3, <2>4 DEF Produced
<1> QED
  BY <1>1, <1>2, <1>3 DEF Decoder!Call, Idle

LEMMA EndIsEnd ==
  ASSUME IInv, Collect \/ RunFails \/ RejectLength \/ GenerateReturns
  PROVE  Decoder!Return \/ Decoder!Raise
<1>1. /\ UNCHANGED <<call, generated>> /\ host \notin Idle /\ host' \in {"ok", "raised"}
  BY DEF Collect, RunFails, RejectLength, GenerateReturns, Idle, device
<1>2. Produced' = Produced
  BY <1>1 DEF Produced
<1>3. CASE host' = "raised"
  BY <1>1, <1>2, <1>3 DEF Decoder!Raise, Idle
<1>4. CASE host' = "ok"
  <2>1. Made = call.n
    BY <1>4, EndKeepsValues, LoopEnds
  <2>2. /\ IsList(generated) /\ Len(generated) = call.n /\ call.n \in Nat /\ host # "raised"
        /\ Produced = SubSeq(generated, 1, Made)
    BY <1>1, ProducedIs DEF IInv, DInv, SInv, Session, Lists, Idle
  <2>3. Len(SubSeq(generated, 1, call.n)) = call.n
    <3>1. PICK S : generated \in Seq(S)
      <4>1. PICK S : S = {generated[i] : i \in 1 .. Len(generated)}
        OBVIOUS
      <4>2. generated \in Seq(S)
        BY <2>2, <4>1 DEF IsList
      <4> QED
        BY <4>2
    <3> QED
      BY <2>2, <3>1
  <2> QED
    BY <1>1, <1>2, <1>4, <2>1, <2>2, <2>3 DEF Decoder!Return, Idle
<1> QED
  BY <1>1, <1>3, <1>4

LEMMA StepIsDecoderStep ==
  ASSUME ~ Resident, Unsplit
  PROVE  IInv /\ IInv' /\ [Next]_vars => [Decoder!Next]_Decoder!vars
<1> SUFFICES ASSUME IInv, IInv', [Next]_vars PROVE Decoder!Next \/ UNCHANGED Decoder!vars
  OBVIOUS
<1>1. Lists /\ Lists' /\ Tape /\ Tape' /\ call.n \in Nat
  BY DEF IInv, DInv, SInv, Session
<1>2. CASE UNCHANGED vars
  BY <1>2, CallerSeesNothing DEF vars, device, session
<1>3. CASE Decode \/ Generate
  BY <1>3, CallIsCall DEF Decoder!Next
<1>4. CASE Collect \/ RunFails \/ RejectLength \/ GenerateReturns
  BY <1>4, EndIsEnd DEF Decoder!Next
<1>5. CASE SeedByBuild \/ SeedByCopy \/ Regrid \/ Launch
  <2>1. UNCHANGED <<call, generated>> /\ host \notin Idle /\ host' \notin Idle
    BY <1>5 DEF SeedByBuild, SeedByCopy, Regrid, Launch, Idle
  <2> QED
    BY <2>1, CallerSeesNothing
<1>6. CASE ForwardPass
  <2>1. host = "loop" /\ host' = host /\ call' = call /\ host \notin Idle
    BY <1>6 DEF ForwardPass, Idle
  <2>2. CASE passes.forward < BasePos
    <3>1. generated' = generated
      BY <1>6, <2>2 DEF ForwardPass
    <3> QED
      BY <2>1, <3>1, CallerSeesNothing
  <2>3. CASE passes.forward >= BasePos
    <3>1. PICK s : s = passes.forward - BasePos
      OBVIOUS
    <3>2. /\ generated' = [generated EXCEPT ![s + 1] = Choice(s)] /\ Choice(s) \in Tokens
          /\ s \in Nat /\ s < call.n /\ Made = s /\ Made' = s + 1
      BY <1>6, <2>3, <3>1, PassIsChoice
    <3> QED
      BY <1>1, <2>1, <3>2, TokenIsProduced DEF Decoder!Next
  <2>4. passes.forward < BasePos \/ passes.forward >= BasePos
    BY <1>6, PassFacts
  <2> QED
    BY <2>2, <2>3, <2>4, Zenon
<1>7. CASE \E b \in Blocks : BlockStep(b)
  <2>1. PICK b \in Blocks : BlockStep(b)
    BY <1>7
  <2>2. host = "launched" /\ host' = host /\ call' = call /\ host \notin Idle
    BY <2>1 DEF BlockStep, session, Idle
  <2>3. CASE Sample(b) /\ b = 0
    <3>1. PICK s : s = regs[0].step
      OBVIOUS
    <3>2. /\ generated' = [generated EXCEPT ![s + 1] = Choice(s)] /\ Choice(s) \in Tokens
          /\ s \in Nat /\ s < call.n /\ Made = s
      BY <2>2, <2>3, <3>1, SampleIsChoice
    <3>3. Made' = s + 1
      <4>1. pc'[0] = "C" /\ regs' = regs
        <5>1. PInv /\ b \in DOMAIN Wide
          BY <2>2, BlockFacts DEF IInv
        <5> QED
          BY <2>3, <5>1 DEF Sample, Arrive, PInv, Shapes
      <4> QED
        BY <2>2, <3>1, <4>1 DEF Made
    <3> QED
      BY <1>1, <2>2, <3>2, <3>3, TokenIsProduced DEF Decoder!Next
  <2>4. CASE ~ (Sample(b) /\ b = 0)
    <3>1. generated' = generated
      BY <2>1, <2>4 DEF BlockStep, PassBarrier, Setup, LeaveLoop, BeginTask, DrainQueue, AbandonQueue,
         Compute, Signal, BreakOut, Sample, Reset, device
    <3> QED
      BY <2>2, <3>1, CallerSeesNothing
  <2> QED
    BY <2>3, <2>4
<1> QED
  BY <1>2, <1>3, <1>4, <1>5, <1>6, <1>7 DEF Next, HostStep

LEMMA InitIsDecoderInit == Init => Decoder!Init
<1> SUFFICES ASSUME Init PROVE Decoder!Init
  OBVIOUS
<1>1. generated = <<>> /\ call.prompt = <<>> /\ call.n = 0 /\ host = "idle"
  BY DEF Init
<1>2. Produced = <<>>
  <2>1. IsList(generated) /\ Len(generated) = 0
    BY <1>1 DEF IsList
  <2>2. 0 \in 0 .. Len(generated) /\ \A i \in 1 .. Len(generated) : generated[i] # Nothing <=> i <= 0
    BY <2>1
  <2>3. Produced = SubSeq(generated, 1, 0)
    BY <2>1, <2>2, CountsProduced DEF Produced
  <2>4. SubSeq(<<>>, 1, 0) = <<>>
    OBVIOUS
  <2> QED
    BY <1>1, <2>3, <2>4
<1> QED
  BY <1>1, <1>2 DEF Decoder!Init, Idle

(* Why attention has to be unsplit: a shard that does not start at the     *)
(* first key attends, at whatever position it is patched to, to other rows *)
(* than the shard of a program lowered for that position.                  *)
LEMMA ShardsMispatched ==
  ASSUME NEW b, NEW t, NEW x \in KVCaches, PatchedPos(b) \in Nat,
         KvStart(t) \in Nat \ {0}, Keys(t, PatchedPos(b)) \subseteq 0 .. PatchedPos(b)
  PROVE  DOMAIN WindowRows(b, t)[x] # Keys(t, PatchedPos(b))
<1> DEFINE last == KvStart(t) + PatchedPos(b)
<1>1. last \in KvStart(t) .. KvStart(t) + PatchedPos(b) /\ last \notin 0 .. PatchedPos(b)
  OBVIOUS
<1>2. DOMAIN WindowRows(b, t)[x] = KvStart(t) .. KvStart(t) + PatchedPos(b)
  BY DEF WindowRows
<1> QED
  BY <1>1, <1>2

(***************************************************************************)
(* Both decoders produce the model's own tokens, for every model and step  *)
(* program as ModelAssumption and StepAssumption describe them (any number *)
(* of layers), every grid, prompt and length: decode() through its         *)
(* launches, traps, regrids and kept caches, and the loop of generate().   *)
(* Two hypotheses the code does not check itself: attention is lowered     *)
(* unsplit, because a shard's window is patched wrong (ShardsMispatched),  *)
(* and decode() copies the caller's cache into a tensor of its own, for    *)
(* the run persist_on_device shows what happens otherwise.                 *)
(***************************************************************************)
THEOREM DecodersAreGreedy ==
  ASSUME ~ Resident, Unsplit
  PROVE  Spec => ImplementsGreedyDecode
<1>1. Init => IInv
  BY InitPInv, InitSInv, InitDInv DEF IInv
<1>2. IInv /\ [Next]_vars => IInv'
  BY NextDInv
<1>3. Init => Decoder!Init
  BY InitIsDecoderInit
<1>4. IInv /\ IInv' /\ [Next]_vars => [Decoder!Next]_Decoder!vars
  BY StepIsDecoderStep
<1> QED
  BY <1>1, <1>2, <1>3, <1>4, PTL DEF Spec, ImplementsGreedyDecode, Decoder!Spec
=============================================================================
