----------------------------- MODULE DeviceTables -----------------------------
(***************************************************************************)
(* The device side of MegakernelVM.run() (vm/loader.py) over a sequence of *)
(* calls: a full build binds the caller's tensors, uploads the tables and  *)
(* launches; a later call of the same fingerprint (shapes and dtypes, not  *)
(* values) copies its tensors into the ones bound before and launches the  *)
(* tables it finds.  Any step may raise, and the next call starts from     *)
(* whatever attributes the failed one left behind.                         *)
(*                                                                         *)
(* A build is named by the number of the call that made it.  A tensor's    *)
(* content is the name of the caller's tensor whose values it holds; what  *)
(* a pass computes is the contents its kernel read.  The rows a pass       *)
(* appends to a KV cache are a function of that and not kept apart.        *)
(***************************************************************************)
EXTENDS Integers, Sequences

CONSTANTS
  Names,         \* IO_INPUT and KV_CACHE buffers, in the order of prog.buffers
  KVCaches,      \* those that are KV_CACHE
  Tensors,       \* the caller's tensors
  Shape, Dtype,  \* of each of them
  BufferShape,   \* the shape the program declares for a KV cache
  Resident,      \* tensors on the device, contiguous, of their buffer's dtype:
                 \* .to(device, dtype).contiguous() returns them, not a copy
  Zeros,         \* content of torch.zeros
  Garbage,       \* content nobody can rely on
  Requests,      \* what a caller passes: [inputs, kv], both name -> tensor
  DisablePersistent,
  MaxCalls       \* bound on the calls of run() in one behaviour

NameSet == {Names[i] : i \in DOMAIN Names}
IOInputs == NameSet \ KVCaches

ASSUME TensorsAssumption ==
  /\ Names \in Seq(NameSet)
  /\ \A i, j \in DOMAIN Names : Names[i] = Names[j] => i = j
  /\ KVCaches \subseteq NameSet /\ Resident \subseteq Tensors
  /\ Zeros \notin Tensors /\ Garbage \notin Tensors /\ Zeros # Garbage
  /\ DisablePersistent \in BOOLEAN /\ MaxCalls \in Nat

ASSUME RequestsAssumption ==
  \A r \in Requests :
    /\ DOMAIN r.inputs \subseteq IOInputs /\ r.inputs \in [DOMAIN r.inputs -> Tensors]
    /\ DOMAIN r.kv \subseteq KVCaches /\ r.kv \in [DOMAIN r.kv -> Tensors]

Contents == Tensors \cup {Zeros, Garbage}

(* Device memory: the caller's own tensors, and those a build allocates.   *)
CallerCells == [gen : {0}, name : Tensors]
Cells == CallerCells \cup [gen : 1 .. MaxCalls, name : NameSet]

NoBuild == 0
NoFingerprint == <<>>

VARIABLES
  phase,    \* "idle", "bind", "copy", "launch", "ok" or "raised"
  calls,    \* calls of run() so far
  request,  \* the tensors of the current call
  given,    \* their contents when it began
  cursor,   \* position in Names
  bound,    \* _io_input_tensors and _kv_tensors: name -> [cell, shape]
  kept,     \* the build whose tables _keepalive holds
  args,     \* _launch_args: [gen, ptr], ptr the addresses in the buffer table
  outputs,  \* _buf_tensor, likewise
  built,    \* _built_fp
  content,  \* cell -> what it holds
  arena,    \* build -> what its scratch arena holds: name -> content read
  result    \* what the last call returned: [computed, cache]

attributes == <<bound, kept, args, outputs, built>>
memory == <<content, arena>>
vars == <<phase, calls, request, given, cursor, attributes, memory, result>>

Idle == {"idle", "ok", "raised"}
Unset == [gen |-> NoBuild, ptr |-> <<>>]
NothingRead == [n \in NameSet |-> Zeros]
Spoilt == [n \in NameSet |-> Garbage]

Init ==
  /\ phase = "idle" /\ calls = 0 /\ cursor = 1
  /\ request \in Requests
  /\ given = NothingRead
  /\ bound = <<>> /\ kept = NoBuild /\ args = Unset /\ outputs = Unset
  /\ built = NoFingerprint
  /\ content = [c \in Cells |-> IF c \in CallerCells THEN c.name ELSE Zeros]
  /\ arena = [g \in 1 .. MaxCalls |-> NothingRead]
  /\ result = [computed |-> NothingRead, cache |-> NothingRead]

Signature(passed) == [n \in DOMAIN passed |-> <<Shape[passed[n]], Dtype[passed[n]]>>]

(* Mutants: the signature of the KV caches is left out; shapes are.        *)
DtypesFingerprint(r) ==
  <<[n \in DOMAIN r.inputs |-> Dtype[r.inputs[n]]], [n \in DOMAIN r.kv |-> Dtype[r.kv[n]]]>>

InputsFingerprint(r) == <<Signature(r.inputs), <<>>>>

Fingerprint(r) == <<Signature(r.inputs), Signature(r.kv)>>

Passed(r, n) == n \in DOMAIN r.inputs \cup DOMAIN r.kv
TensorOf(r, n) == IF n \in DOMAIN r.inputs THEN r.inputs[n] ELSE r.kv[n]
CallerCell(t) == [gen |-> 0, name |-> t]

(* What the pass of a request has to read: a cache not passed is zeros.    *)
Wanted(r) ==
  [n \in NameSet |-> IF Passed(r, n) THEN content[CallerCell(TensorOf(r, n))] ELSE Zeros]

(* run(): the fingerprint picks the path.  A full build begins by dropping *)
(* the references to the tensors of the one before.                        *)
Begin(r) ==
  /\ phase \in Idle
  /\ calls < MaxCalls
  /\ calls' = calls + 1
  /\ request' = r
  /\ given' = Wanted(r)
  /\ cursor' = 1

RunSteady(r) ==
  /\ Begin(r)
  /\ ~ DisablePersistent
  /\ built = Fingerprint(r)
  /\ phase' = "copy"
  /\ UNCHANGED <<attributes, memory, result>>

RunBuild(r) ==
  /\ Begin(r)
  /\ DisablePersistent \/ built # Fingerprint(r)
  /\ phase' = "bind"
  /\ bound' = <<>>
  /\ kept' = calls + 1
  /\ UNCHANGED <<args, outputs, built, memory, result>>

Extend(f, n, v) == [m \in DOMAIN f \cup {n} |-> IF m = n THEN v ELSE f[m]]

(* _bind_external on the next buffer.                                      *)
Bind ==
  /\ phase = "bind"
  /\ cursor <= Len(Names)
  /\ LET n == Names[cursor]
         t == TensorOf(request, n)
         own == [gen |-> calls, name |-> n]
     IN  IF ~ Passed(request, n)
         THEN /\ n \in KVCaches
              /\ bound' = Extend(bound, n, [cell |-> own, shape |-> BufferShape])
              /\ content' = [content EXCEPT ![own] = Zeros]
         ELSE IF t \in Resident
              THEN /\ bound' = Extend(bound, n, [cell |-> CallerCell(t), shape |-> Shape[t]])
                   /\ UNCHANGED content
              ELSE /\ bound' = Extend(bound, n, [cell |-> own, shape |-> Shape[t]])
                   /\ content' = [content EXCEPT ![own] = content[CallerCell(t)]]
  /\ cursor' = cursor + 1
  /\ UNCHANGED <<phase, calls, request, given, kept, args, outputs, built, arena, result>>

(* A missing input is a KeyError; any allocation may find no memory.       *)
BuildRaises ==
  /\ phase = "bind"
  /\ phase' = "raised"
  /\ UNCHANGED <<calls, request, given, cursor, attributes, memory, result>>

(* Arena, tables and queues are on the device; _launch_args is set before  *)
(* the launch.                                                             *)
Upload ==
  /\ phase = "bind"
  /\ cursor = Len(Names) + 1
  /\ args' = [gen |-> calls, ptr |-> [n \in NameSet |-> bound[n].cell]]
  /\ arena' = [arena EXCEPT ![calls] = NothingRead]
  /\ phase' = "launch"
  /\ UNCHANGED <<calls, request, given, cursor, bound, kept, outputs, built, content, result>>

(* t.copy_(...) for the next tensor bound before.  A KV cache the caller   *)
(* does not pass keeps its contents.  Inputs come first in the code, here  *)
(* as in Names: only copies between aliases could tell the orders apart.   *)
Copy ==
  /\ phase = "copy"
  /\ cursor <= Len(Names)
  /\ LET n == Names[cursor] IN
       IF n \in DOMAIN bound /\ (n \in IOInputs \/ Passed(request, n))
       THEN /\ Passed(request, n)
            /\ Shape[TensorOf(request, n)] = bound[n].shape
            /\ content' = [content EXCEPT ![bound[n].cell] = content[CallerCell(TensorOf(request, n))]]
       ELSE UNCHANGED content
  /\ cursor' = cursor + 1
  /\ UNCHANGED <<phase, calls, request, given, attributes, arena, result>>

(* KeyError, or a shape copy_ refuses.                                     *)
CopyRaises ==
  /\ phase = "copy"
  /\ cursor <= Len(Names)
  /\ LET n == Names[cursor] IN
       /\ n \in DOMAIN bound
       /\ IF Passed(request, n) THEN Shape[TensorOf(request, n)] # bound[n].shape ELSE n \in IOInputs
  /\ phase' = "raised"
  /\ UNCHANGED <<calls, request, given, cursor, attributes, memory, result>>

Copied ==
  /\ phase = "copy"
  /\ cursor = Len(Names) + 1
  /\ phase' = "launch"
  /\ UNCHANGED <<calls, request, given, cursor, attributes, memory, result>>

(* What the kernel leaves in the arena of the tables it was launched with; *)
(* tables nobody holds any more may have been overwritten.                 *)
Computed == [n \in NameSet |-> content[args.ptr[n]]]
Outcomes == IF args.gen = kept THEN {Computed} ELSE {Computed, Spoilt}

Returned(tables, scratch) ==
  [computed |-> scratch[tables.gen],
   cache |-> [n \in NameSet |-> IF n \in KVCaches THEN content[tables.ptr[n]] ELSE Zeros]]

(* The launch of a steady-state call.                                      *)
FinishSteady ==
  /\ phase = "launch"
  /\ args.gen # calls
  /\ \E read \in Outcomes :
       /\ arena' = [arena EXCEPT ![args.gen] = read]
       /\ result' = Returned(outputs, arena')
  /\ phase' = "ok"
  /\ UNCHANGED <<calls, request, given, cursor, attributes, content>>

(* The launch of a build: only now are the outputs and the fingerprint     *)
(* recorded.                                                               *)
FinishBuild ==
  /\ phase = "launch"
  /\ args.gen = calls
  /\ arena' = [arena EXCEPT ![args.gen] = Computed]
  /\ outputs' = args
  /\ built' = Fingerprint(request)
  /\ result' = Returned(args, arena')
  /\ phase' = "ok"
  /\ UNCHANGED <<calls, request, given, cursor, bound, kept, args, content>>

(* TIMEOUT, ERROR or a trap, of either path.                               *)
LaunchFails ==
  /\ phase = "launch"
  /\ \E read \in Outcomes \cup {arena[args.gen], Spoilt} : arena' = [arena EXCEPT ![args.gen] = read]
  /\ phase' = "raised"
  /\ UNCHANGED <<calls, request, given, cursor, attributes, content, result>>

(* relaunch(): the kernel alone, for timing.  It checks neither the        *)
(* fingerprint nor the abort flag and returns no outputs.                  *)
Relaunch ==
  /\ phase \in Idle
  /\ args # Unset
  /\ \E read \in Outcomes \cup {arena[args.gen], Spoilt} : arena' = [arena EXCEPT ![args.gen] = read]
  /\ phase' = "idle"
  /\ UNCHANGED <<calls, request, given, cursor, attributes, content, result>>

Next ==
  \/ \E r \in Requests : RunSteady(r) \/ RunBuild(r)
  \/ Bind \/ BuildRaises \/ Upload
  \/ Copy \/ CopyRaises \/ Copied
  \/ FinishSteady \/ FinishBuild \/ LaunchFails
  \/ Relaunch

Spec == Init /\ [][Next]_vars

-----------------------------------------------------------------------------
Tables == [gen : 0 .. MaxCalls, ptr : {<<>>} \cup [NameSet -> Cells]]

(* Types of the host's attributes and of the memory they refer to.         *)
TypeOK ==
  /\ phase \in Idle \cup {"bind", "copy", "launch"}
  /\ calls \in 0 .. MaxCalls
  /\ request \in Requests
  /\ given \in [NameSet -> Contents]
  /\ cursor \in 1 .. Len(Names) + 1
  /\ DOMAIN bound \subseteq NameSet
  /\ \A n \in DOMAIN bound : bound[n].cell \in Cells
  /\ kept \in 0 .. calls
  /\ args \in Tables /\ outputs \in Tables
  /\ content \in [Cells -> Contents]
  /\ arena \in [1 .. MaxCalls -> [NameSet -> Contents]]

(* The attributes belong to different builds: a build failed after an      *)
(* earlier one had been recorded, and none has succeeded since.            *)
Torn == built # NoFingerprint /\ ~ (outputs = args /\ args.gen = kept)

(* A persistent tensor is the caller's own.                                *)
Aliased == \E n \in DOMAIN bound : bound[n].cell \in CallerCells

Expected ==
  [computed |-> given, cache |-> [n \in NameSet |-> IF n \in KVCaches THEN given[n] ELSE Zeros]]

(* The outputs run() returns are computed by this call's launch from the   *)
(* values this call passed, with zeros for a cache it did not pass,        *)
(* whatever the calls before it did and however they ended: what a run of  *)
(* the oracle would return.                                                *)
ForwardOfThisCall == phase = "ok" /\ ~ Torn /\ ~ Aliased => result = Expected

(* Tensors of the fingerprint of the build always fit the tensors of that  *)
(* build: a steady-state call never fails half way through its copies.     *)
SteadyCopyFits ==
  phase = "copy" /\ ~ Torn =>
    /\ DOMAIN bound = NameSet
    /\ \A n \in NameSet : Passed(request, n) => Shape[TensorOf(request, n)] = bound[n].shape
    /\ \A n \in IOInputs : Passed(request, n)

=============================================================================
