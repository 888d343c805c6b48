------------------------- MODULE DeviceMemoryProofs -------------------------
(***************************************************************************)
(* Theorems about what a kernel finds in the memory of the device, each    *)
(* machine on its own: in global memory the tables and tensors of the call *)
(* it runs for (DeviceTables, any buffers, tensors, requests and number of *)
(* calls); in shared memory the row and the weights a thread multiplies    *)
(* (GemvPipeline, any block, tile and ring); and as much of it as the      *)
(* instructions carve out (Provisioning, any knobs and tasks).             *)
(***************************************************************************)
EXTENDS DeviceTables, GemvPipeline, FiniteSetTheorems, SequenceTheorems, WellFoundedInduction, TLAPS


(* The tensors of S were bound for request r by the build kept holds.      *)
BoundFor(r, S) ==
  \A n \in S :
    /\ Passed(r, n) \/ n \in KVCaches
    /\ Passed(r, n) => bound[n].shape = Shape[TensorOf(r, n)]
    /\ bound[n].cell = [gen |-> kept, name |-> n] \/ bound[n].cell \in CallerCells
    /\ ~ Passed(r, n) =>
         bound[n].cell = [gen |-> kept, name |-> n] /\ content[bound[n].cell] = Zeros

Holds(n) == content[bound[n].cell] = given[n]

Wired == DOMAIN bound = NameSet /\ args.ptr = [n \in NameSet |-> bound[n].cell]

Ages ==
  /\ args.gen <= calls /\ outputs.gen <= calls
  /\ phase \in {"bind", "copy"} => args.gen < calls
  /\ phase = "bind" => kept = calls /\ outputs.gen < calls
  /\ phase # "idle" => calls > 0
  /\ args = Unset \/ (args.gen > 0 /\ args.ptr \in [NameSet -> Cells])
  /\ outputs = Unset \/ (outputs.gen > 0 /\ outputs.ptr \in [NameSet -> Cells])
  /\ built # NoFingerprint => args # Unset /\ outputs # Unset
  /\ phase = "launch" => args # Unset

Building ==
  phase = "bind" =>
    /\ DOMAIN bound = {Names[i] : i \in 1 .. cursor - 1}
    /\ BoundFor(request, DOMAIN bound)
    /\ \A n \in DOMAIN bound : Holds(n)
    /\ given = Wanted(request)

Whole ==
  built # NoFingerprint /\ ~ Torn =>
    Wired /\ \E r \in Requests : built = Fingerprint(r) /\ BoundFor(r, NameSet)

Copying ==
  phase = "copy" =>
    /\ built = Fingerprint(request)
    /\ ~ Torn /\ ~ Aliased =>
         given = Wanted(request) /\ \A i \in 1 .. cursor - 1 : Holds(Names[i])

Launching ==
  phase = "launch" =>
    /\ args.gen = calls =>
         /\ kept = calls /\ outputs.gen < calls /\ Wired /\ BoundFor(request, NameSet)
         /\ \A n \in NameSet : Holds(n)
    /\ args.gen # calls =>
         /\ built = Fingerprint(request)
         /\ ~ Torn /\ ~ Aliased => \A n \in NameSet : Holds(n)

DInv ==
  TypeOK /\ Ages /\ Building /\ Whole /\ Copying /\ Launching /\ ForwardOfThisCall

-----------------------------------------------------------------------------
LEMMA NamesFacts ==
  /\ Len(Names) \in Nat /\ DOMAIN Names = 1 .. Len(Names)
  /\ NameSet = {Names[i] : i \in 1 .. Len(Names)}
  /\ \A i, j \in 1 .. Len(Names) : Names[i] = Names[j] => i = j
BY TensorsAssumption DEF NameSet

LEMMA CellFacts ==
  /\ \A t \in Tensors : CallerCell(t) \in CallerCells /\ CallerCell(t) \in Cells
  /\ \A g \in 1 .. MaxCalls, n \in NameSet :
       [gen |-> g, name |-> n] \in Cells /\ [gen |-> g, name |-> n] \notin CallerCells
<1>1. \A t \in Tensors : CallerCell(t) \in CallerCells
  BY DEF CallerCell, CallerCells
<1>2. ASSUME NEW g \in 1 .. MaxCalls, NEW n \in NameSet
      PROVE  [gen |-> g, name |-> n] \in Cells /\ [gen |-> g, name |-> n] \notin CallerCells
  <2>1. g # 0
    BY TensorsAssumption
  <2>2. [gen |-> g, name |-> n].gen = g
    OBVIOUS
  <2> QED
    BY <2>1, <2>2 DEF Cells, CallerCells
<1> QED
  BY <1>1, <1>2 DEF Cells

LEMMA RequestFacts ==
  ASSUME NEW r \in Requests, NEW n \in NameSet, Passed(r, n)
  PROVE  TensorOf(r, n) \in Tensors
BY RequestsAssumption DEF Passed, TensorOf

LEMMA WantedType ==
  ASSUME NEW r \in Requests, content \in [Cells -> Contents]
  PROVE  Wanted(r) \in [NameSet -> Contents]
<1> SUFFICES ASSUME NEW n \in NameSet, Passed(r, n)
             PROVE  content[CallerCell(TensorOf(r, n))] \in Contents
  BY DEF Wanted, Contents
<1> QED
  BY RequestFacts, CellFacts

LEMMA FingerprintFacts ==
  ASSUME NEW q \in Requests, NEW r \in Requests, Fingerprint(q) = Fingerprint(r),
         NEW n \in NameSet
  PROVE  /\ Passed(q, n) <=> Passed(r, n)
         /\ Passed(r, n) => Shape[TensorOf(q, n)] = Shape[TensorOf(r, n)]
<1>1. Signature(q.inputs) = Signature(r.inputs) /\ Signature(q.kv) = Signature(r.kv)
  BY DEF Fingerprint
<1>2. /\ DOMAIN q.inputs = DOMAIN Signature(q.inputs) /\ DOMAIN r.inputs = DOMAIN Signature(r.inputs)
      /\ DOMAIN q.kv = DOMAIN Signature(q.kv) /\ DOMAIN r.kv = DOMAIN Signature(r.kv)
  BY DEF Signature
<1>3. DOMAIN q.inputs = DOMAIN r.inputs /\ DOMAIN q.kv = DOMAIN r.kv
  BY <1>1, <1>2
<1>4. CASE n \in DOMAIN r.inputs
  <2>1. /\ Signature(q.inputs)[n] = <<Shape[q.inputs[n]], Dtype[q.inputs[n]]>>
        /\ Signature(r.inputs)[n] = <<Shape[r.inputs[n]], Dtype[r.inputs[n]]>>
    BY <1>3, <1>4 DEF Signature
  <2>2. Shape[q.inputs[n]] = Shape[r.inputs[n]]
    BY <1>1, <2>1
  <2> QED
    BY <1>3, <1>4, <2>2 DEF Passed, TensorOf
<1>5. CASE n \notin DOMAIN r.inputs /\ n \in DOMAIN r.kv
  <2>1. /\ Signature(q.kv)[n] = <<Shape[q.kv[n]], Dtype[q.kv[n]]>>
        /\ Signature(r.kv)[n] = <<Shape[r.kv[n]], Dtype[r.kv[n]]>>
    BY <1>3, <1>5 DEF Signature
  <2>2. Shape[q.kv[n]] = Shape[r.kv[n]]
    BY <1>1, <2>1
  <2> QED
    BY <1>3, <1>5, <2>2 DEF Passed, TensorOf
<1>6. CASE n \notin DOMAIN r.inputs /\ n \notin DOMAIN r.kv
  BY <1>3, <1>6 DEF Passed
<1> QED
  BY <1>4, <1>5, <1>6

LEMMA FingerprintSet == \A r : Fingerprint(r) # NoFingerprint
<1> SUFFICES ASSUME NEW r PROVE Fingerprint(r) # NoFingerprint
  OBVIOUS
<1>1. 1 \in DOMAIN Fingerprint(r)
  BY DEF Fingerprint
<1>2. 1 \notin DOMAIN NoFingerprint
  BY DEF NoFingerprint
<1> QED
  BY <1>1, <1>2

(* A request of the fingerprint of the build fits what the build bound.    *)
LEMMA SameFingerprintFits ==
  ASSUME NEW q \in Requests, NEW r \in Requests, Fingerprint(q) = Fingerprint(r),
         BoundFor(q, NameSet)
  PROVE  BoundFor(r, NameSet)
BY FingerprintFacts DEF BoundFor

LEMMA InitDInv == Init => DInv
<1> SUFFICES ASSUME Init PROVE DInv
  OBVIOUS
<1>1. content \in [Cells -> Contents]
  <2>1. \A c \in CallerCells : c.name \in Tensors
    BY DEF CallerCells
  <2> QED
    BY <2>1 DEF Init, Contents
<1>2. NothingRead \in [NameSet -> Contents]
  BY DEF NothingRead, Contents
<1>3. TypeOK
  <2>1. 1 \in 1 .. Len(Names) + 1 /\ 0 \in 0 .. MaxCalls
    BY NamesFacts, TensorsAssumption
  <2>2. Unset \in Tables
    BY <2>1 DEF Unset, Tables, NoBuild
  <2>3. DOMAIN bound = {}
    BY DEF Init
  <2> QED
    BY <1>1, <1>2, <2>1, <2>2, <2>3 DEF Init, TypeOK, Idle, NoBuild
<1>4. Ages
  <2>1. Unset.gen = 0
    BY DEF Unset, NoBuild
  <2> QED
    BY <2>1 DEF Init, Ages
<1>5. Building /\ Whole /\ Copying /\ Launching /\ ForwardOfThisCall
  BY DEF Init, Building, Whole, Copying, Launching, ForwardOfThisCall
<1> QED
  BY <1>3, <1>4, <1>5 DEF DInv

-----------------------------------------------------------------------------
(* The steps, one lemma each.                                              *)

LEMMA CallTypes ==
  ASSUME DInv, NEW r \in Requests, Begin(r)
  PROVE  /\ calls \in Nat /\ calls + 1 \in 1 .. MaxCalls /\ calls' = calls + 1
         /\ request' \in Requests /\ given' \in [NameSet -> Contents]
         /\ cursor' \in 1 .. Len(Names) + 1
         /\ args.gen \in Nat /\ outputs.gen \in Nat /\ kept \in 0 .. calls
<1>1. calls \in Nat /\ calls + 1 \in 1 .. MaxCalls /\ calls' = calls + 1
  BY TensorsAssumption DEF DInv, TypeOK, Begin
<1>2. cursor' \in 1 .. Len(Names) + 1
  BY NamesFacts DEF Begin
<1>3. request' \in Requests /\ given' \in [NameSet -> Contents]
  BY WantedType DEF DInv, TypeOK, Begin
<1>4. args.gen \in Nat /\ outputs.gen \in Nat /\ kept \in 0 .. calls
  BY <1>1 DEF DInv, TypeOK, Tables
<1> QED
  BY <1>1, <1>2, <1>3, <1>4

LEMMA RunSteadyDInv ==
  ASSUME DInv, NEW r \in Requests, RunSteady(r)
  PROVE  DInv'
<1>1. /\ Begin(r) /\ built = Fingerprint(r) /\ phase' = "copy"
      /\ UNCHANGED <<bound, kept, args, outputs, built, content, arena, result>>
  BY DEF RunSteady, attributes, memory
<1>2. /\ calls \in Nat /\ calls + 1 \in 1 .. MaxCalls /\ calls' = calls + 1
      /\ request' \in Requests /\ given' \in [NameSet -> Contents]
      /\ cursor' \in 1 .. Len(Names) + 1
      /\ args.gen \in Nat /\ outputs.gen \in Nat /\ kept \in 0 .. calls
  BY <1>1, CallTypes
<1>3. request' = r /\ given' = Wanted(r) /\ cursor' = 1
  BY <1>1 DEF Begin
<1>4. TypeOK'
  <2>1. calls' \in 0 .. MaxCalls /\ kept' \in 0 .. calls'
    BY <1>1, <1>2
  <2> QED
    BY <1>1, <1>2, <2>1 DEF DInv, TypeOK, Idle, Tables, Cells
<1>5. Ages'
  BY <1>1, <1>2 DEF DInv, Ages
<1>6. Whole'
  BY <1>1 DEF DInv, Whole, Wired, Torn, BoundFor
<1>7. Copying'
  <2>1. \A i \in 1 .. cursor' - 1 : FALSE
    BY <1>3
  <2>2. given' = Wanted(request)'
    BY <1>1, <1>3 DEF Wanted
  <2>3. built' = Fingerprint(request)'
    BY <1>1, <1>3 DEF Fingerprint, Signature
  <2> QED
    BY <2>1, <2>2, <2>3 DEF Copying
<1>8. Building' /\ Launching' /\ ForwardOfThisCall'
  BY <1>1 DEF Building, Launching, ForwardOfThisCall
<1> QED
  BY <1>4, <1>5, <1>6, <1>7, <1>8 DEF DInv

LEMMA RunBuildDInv ==
  ASSUME DInv, NEW r \in Requests, RunBuild(r)
  PROVE  DInv'
<1>1. /\ Begin(r) /\ phase' = "bind" /\ bound' = <<>> /\ kept' = calls + 1
      /\ UNCHANGED <<args, outputs, built, content, arena, result>>
  BY DEF RunBuild, memory
<1>2. /\ calls \in Nat /\ calls + 1 \in 1 .. MaxCalls /\ calls' = calls + 1
      /\ request' \in Requests /\ given' \in [NameSet -> Contents]
      /\ cursor' \in 1 .. Len(Names) + 1
      /\ args.gen \in Nat /\ outputs.gen \in Nat /\ kept \in 0 .. calls
  BY <1>1, CallTypes
<1>3. request' = r /\ given' = Wanted(r) /\ cursor' = 1 /\ DOMAIN bound' = {}
  BY <1>1 DEF Begin
<1>4. TypeOK'
  <2>1. calls' \in 0 .. MaxCalls /\ kept' \in 0 .. calls'
    BY <1>1, <1>2
  <2> QED
    BY <1>1, <1>2, <1>3, <2>1 DEF DInv, TypeOK, Idle, Tables, Cells
<1>5. Ages'
  <2>1. args.gen < calls' /\ outputs.gen < calls' /\ calls' > 0
    BY <1>2 DEF DInv, Ages
  <2> QED
    BY <1>1, <1>2, <2>1 DEF DInv, Ages
<1>6. Whole'
  <2>1. args.gen # calls + 1
    BY <1>2 DEF DInv, Ages
  <2> QED
    BY <1>1, <2>1 DEF Whole, Torn
<1>7. Building'
  <2>1. {Names[i] : i \in 1 .. cursor' - 1} = {}
    BY <1>3
  <2>2. given' = Wanted(request)'
    BY <1>1, <1>3 DEF Wanted
  <2> QED
    BY <1>3, <2>1, <2>2 DEF Building, BoundFor
<1>8. Copying' /\ Launching' /\ ForwardOfThisCall'
  BY <1>1 DEF Copying, Launching, ForwardOfThisCall
<1> QED
  BY <1>4, <1>5, <1>6, <1>7, <1>8 DEF DInv

(* Steps that only leave a call or move to the next loop.                  *)
LEMMA QuietDInv ==
  ASSUME DInv, BuildRaises \/ CopyRaises \/ UNCHANGED vars
  PROVE  DInv'
<1>1. /\ UNCHANGED <<calls, request, given, cursor, bound, kept, args, outputs, built, content,
                     arena, result>>
      /\ phase' \in {phase, "raised"}
  BY DEF BuildRaises, CopyRaises, vars, attributes, memory
<1>2. phase' # "idle" => calls > 0
  BY <1>1 DEF BuildRaises, CopyRaises, vars, DInv, Ages
<1>3. TypeOK'
  BY <1>1 DEF DInv, TypeOK, Idle, Tables, Cells
<1>4. Ages'
  BY <1>1, <1>2 DEF DInv, Ages
<1>5. Whole'
  BY <1>1 DEF DInv, Whole, Wired, Torn, BoundFor
<1>6. Building' /\ Copying'
  BY <1>1 DEF DInv, Building, Copying, BoundFor, Holds, Wanted, Torn, Aliased
<1>7. Launching'
  BY <1>1 DEF DInv, Launching, Wired, BoundFor, Holds, Torn, Aliased
<1>8. ForwardOfThisCall'
  BY <1>1 DEF DInv, ForwardOfThisCall, Expected, Torn, Aliased
<1> QED
  BY <1>3, <1>4, <1>5, <1>6, <1>7, <1>8 DEF DInv

LEMMA CopiedDInv ==
  ASSUME DInv, Copied
  PROVE  DInv'
<1>1. /\ UNCHANGED <<calls, request, given, cursor, bound, kept, args, outputs, built, content,
                     arena, result>>
      /\ phase = "copy" /\ phase' = "launch" /\ cursor = Len(Names) + 1
  BY DEF Copied, attributes, memory
<1>2. TypeOK'
  BY <1>1 DEF DInv, TypeOK, Idle, Tables, Cells
<1>3. /\ built = Fingerprint(request) /\ args.gen < calls
      /\ args.gen \in Nat /\ calls \in Nat /\ built # NoFingerprint
  BY <1>1, FingerprintSet, TensorsAssumption DEF DInv, Copying, Ages, TypeOK, Tables
<1>4. Ages'
  BY <1>1, <1>3 DEF DInv, Ages
<1>5. Whole'
  BY <1>1 DEF DInv, Whole, Wired, Torn, BoundFor
<1>6. Launching'
  <2>1. args.gen # calls
    BY <1>3
  <2>2. ~ Torn /\ ~ Aliased => \A n \in NameSet : Holds(n)
    <3>1. cursor - 1 = Len(Names)
      BY <1>1, NamesFacts
    <3> QED
      BY <1>1, <3>1, NamesFacts DEF DInv, Copying
  <2>3. built' = Fingerprint(request)' /\ args'.gen # calls'
    BY <1>1, <1>3, <2>1 DEF Fingerprint, Signature
  <2>4. ~ Torn' /\ ~ Aliased' => \A n \in NameSet : Holds(n)'
    BY <1>1, <2>2 DEF Holds, Torn, Aliased
  <2> QED
    BY <2>3, <2>4 DEF Launching
<1>7. Building' /\ Copying' /\ ForwardOfThisCall'
  BY <1>1 DEF Building, Copying, ForwardOfThisCall
<1> QED
  BY <1>2, <1>4, <1>5, <1>6, <1>7 DEF DInv

LEMMA OutcomeTypes ==
  ASSUME DInv, args # Unset
  PROVE  /\ args.gen \in 1 .. MaxCalls
         /\ Computed \in [NameSet -> Contents]
         /\ \A read \in Outcomes \cup {arena[args.gen], Spoilt} : read \in [NameSet -> Contents]
<1>1. args.gen > 0 /\ args.ptr \in [NameSet -> Cells]
  BY DEF DInv, Ages
<1>2. args.gen \in 1 .. MaxCalls
  BY <1>1, TensorsAssumption DEF DInv, TypeOK, Tables
<1>3. content \in [Cells -> Contents] /\ arena \in [1 .. MaxCalls -> [NameSet -> Contents]]
  BY DEF DInv, TypeOK
<1>4. Computed \in [NameSet -> Contents]
  BY <1>1, <1>3 DEF Computed
<1>5. Spoilt \in [NameSet -> Contents]
  BY DEF Spoilt, Contents
<1>6. Outcomes \subseteq {Computed, Spoilt}
  BY DEF Outcomes
<1> QED
  BY <1>2, <1>3, <1>4, <1>5, <1>6

(* A launch that yields no result.                                         *)
LEMMA NoResultDInv ==
  ASSUME DInv, LaunchFails \/ Relaunch
  PROVE  DInv'
<1>1. /\ UNCHANGED <<calls, request, given, cursor, bound, kept, args, outputs, built, content,
                     result>>
      /\ phase' \in {"idle", "raised"}
      /\ phase' # "idle" => phase = "launch"
      /\ \E read \in Outcomes \cup {arena[args.gen], Spoilt} :
           arena' = [arena EXCEPT ![args.gen] = read]
  BY DEF LaunchFails, Relaunch, attributes
<1>2. args # Unset
  BY DEF LaunchFails, Relaunch, DInv, Ages
<1>3. arena' \in [1 .. MaxCalls -> [NameSet -> Contents]]
  BY <1>1, <1>2, OutcomeTypes DEF DInv, TypeOK
<1>4. TypeOK'
  BY <1>1, <1>3 DEF DInv, TypeOK, Idle, Tables, Cells
<1>5. Ages'
  BY <1>1 DEF DInv, Ages
<1>6. Whole'
  BY <1>1 DEF DInv, Whole, Wired, Torn, BoundFor
<1>7. Building' /\ Copying' /\ Launching' /\ ForwardOfThisCall'
  BY <1>1 DEF Building, Copying, Launching, ForwardOfThisCall
<1> QED
  BY <1>4, <1>5, <1>6, <1>7 DEF DInv

(* The kernel has read what the call passed.                               *)
LEMMA ReadsGiven ==
  ASSUME DInv, args # Unset, Wired, \A n \in NameSet : Holds(n)
  PROVE  /\ Computed = given
         /\ \A n \in NameSet : content[args.ptr[n]] = given[n]
<1>1. \A n \in NameSet : content[args.ptr[n]] = given[n]
  BY DEF Wired, Holds
<1>2. given \in [NameSet -> Contents]
  BY DEF DInv, TypeOK
<1>3. Computed = [n \in NameSet |-> given[n]]
  BY <1>1 DEF Computed
<1> QED
  BY <1>1, <1>2, <1>3

LEMMA FinishSteadyDInv ==
  ASSUME DInv, FinishSteady
  PROVE  DInv'
<1>1. /\ UNCHANGED <<calls, request, given, cursor, bound, kept, args, outputs, built, content>>
      /\ phase = "launch" /\ phase' = "ok" /\ args.gen # calls
  BY DEF FinishSteady, attributes
<1>2. PICK read \in Outcomes :
        arena' = [arena EXCEPT ![args.gen] = read] /\ result' = Returned(outputs, arena')
  BY DEF FinishSteady
<1>3. args # Unset
  BY <1>1 DEF DInv, Ages
<1>4. arena' \in [1 .. MaxCalls -> [NameSet -> Contents]]
  BY <1>2, <1>3, OutcomeTypes DEF DInv, TypeOK
<1>5. TypeOK'
  BY <1>1, <1>4 DEF DInv, TypeOK, Idle, Tables, Cells
<1>6. Ages'
  BY <1>1 DEF DInv, Ages
<1>7. Whole'
  BY <1>1 DEF DInv, Whole, Wired, Torn, BoundFor
<1>8. ForwardOfThisCall'
  <2> SUFFICES ASSUME ~ Torn', ~ Aliased' PROVE result' = Expected'
    BY DEF ForwardOfThisCall
  <2>1. ~ Torn /\ ~ Aliased
    BY <1>1 DEF Torn, Aliased
  <2>2. built # NoFingerprint
    BY <1>1, FingerprintSet DEF DInv, Launching
  <2>3. Wired /\ outputs = args /\ args.gen = kept
    BY <2>1, <2>2 DEF DInv, Whole, Torn
  <2>4. \A n \in NameSet : Holds(n)
    BY <1>1, <2>1 DEF DInv, Launching
  <2>5. Computed = given /\ \A n \in NameSet : content[args.ptr[n]] = given[n]
    BY <1>3, <2>3, <2>4, ReadsGiven
  <2>6. read = given
    BY <2>3, <2>5 DEF Outcomes
  <2>7. arena'[outputs.gen] = given
    BY <1>2, <1>3, <2>3, <2>6, OutcomeTypes DEF DInv, TypeOK
  <2>8. result' = [computed |-> arena'[outputs.gen],
                   cache |-> [n \in NameSet |-> IF n \in KVCaches THEN content[outputs.ptr[n]]
                                                ELSE Zeros]]
    BY <1>2 DEF Returned
  <2>9. result' = Expected
    BY <2>3, <2>5, <2>7, <2>8 DEF Expected
  <2> QED
    BY <1>1, <2>9 DEF Expected
<1>9. Building' /\ Copying' /\ Launching'
  BY <1>1 DEF Building, Copying, Launching
<1> QED
  BY <1>5, <1>6, <1>7, <1>8, <1>9 DEF DInv

LEMMA FinishBuildDInv ==
  ASSUME DInv, FinishBuild
  PROVE  DInv'
<1>1. /\ UNCHANGED <<calls, request, given, cursor, bound, kept, args, content>>
      /\ phase = "launch" /\ phase' = "ok" /\ args.gen = calls
      /\ arena' = [arena EXCEPT ![args.gen] = Computed]
      /\ outputs' = args /\ built' = Fingerprint(request) /\ result' = Returned(args, arena')
  BY DEF FinishBuild
<1>2. args # Unset /\ request \in Requests
  BY <1>1 DEF DInv, Ages, TypeOK
<1>3. arena' \in [1 .. MaxCalls -> [NameSet -> Contents]]
  BY <1>1, <1>2, OutcomeTypes DEF DInv, TypeOK
<1>4. TypeOK'
  BY <1>1, <1>3 DEF DInv, TypeOK, Idle, Tables, Cells
<1>5. kept = calls /\ Wired /\ BoundFor(request, NameSet) /\ \A n \in NameSet : Holds(n)
  BY <1>1 DEF DInv, Launching
<1>6. Ages'
  BY <1>1, <1>2 DEF DInv, Ages
<1>7. Whole'
  <2>1. BoundFor(request, NameSet)' /\ Wired'
    BY <1>1, <1>5 DEF BoundFor, Wired, Passed, TensorOf
  <2>2. built' = Fingerprint(request)' /\ request' \in Requests
    BY <1>1, <1>2 DEF Fingerprint, Signature
  <2> QED
    BY <2>1, <2>2 DEF Whole
<1>8. ForwardOfThisCall'
  <2>1. Computed = given /\ \A n \in NameSet : content[args.ptr[n]] = given[n]
    BY <1>2, <1>5, ReadsGiven
  <2>2. arena'[args.gen] = given
    BY <1>1, <1>2, <2>1, OutcomeTypes DEF DInv, TypeOK
  <2>3. result' = [computed |-> arena'[args.gen],
                   cache |-> [n \in NameSet |-> IF n \in KVCaches THEN content[args.ptr[n]]
                                                ELSE Zeros]]
    BY <1>1 DEF Returned
  <2>4. result' = Expected
    BY <2>1, <2>2, <2>3 DEF Expected
  <2> QED
    BY <1>1, <2>4 DEF Expected, ForwardOfThisCall
<1>9. Building' /\ Copying' /\ Launching'
  BY <1>1 DEF Building, Copying, Launching
<1> QED
  BY <1>4, <1>6, <1>7, <1>8, <1>9 DEF DInv

LEMMA UploadDInv ==
  ASSUME DInv, Upload
  PROVE  DInv'
<1>1. /\ UNCHANGED <<calls, request, given, cursor, bound, kept, outputs, built, content>>
      /\ phase = "bind" /\ phase' = "launch" /\ cursor = Len(Names) + 1
      /\ args' = [gen |-> calls, ptr |-> [n \in NameSet |-> bound[n].cell]]
      /\ arena' = [arena EXCEPT ![calls] = NothingRead]
  BY DEF Upload
<1>2. /\ kept = calls /\ outputs.gen < calls /\ calls \in 1 .. MaxCalls
      /\ outputs.gen \in Nat
  BY <1>1, TensorsAssumption DEF DInv, Ages, TypeOK, Tables
<1>3. DOMAIN bound = NameSet
  <2>1. cursor - 1 = Len(Names)
    BY <1>1, NamesFacts
  <2> QED
    BY <1>1, <2>1, NamesFacts DEF DInv, Building
<1>4. args'.gen = calls /\ args'.ptr \in [NameSet -> Cells]
  BY <1>1, <1>3 DEF DInv, TypeOK
<1>5. arena' \in [1 .. MaxCalls -> [NameSet -> Contents]]
  <2>1. NothingRead \in [NameSet -> Contents]
    BY DEF NothingRead, Contents
  <2> QED
    BY <1>1, <2>1 DEF DInv, TypeOK
<1>6. args' \in Tables
  <2>1. calls \in 0 .. MaxCalls
    BY <1>2
  <2> QED
    BY <1>1, <1>4, <2>1 DEF Tables
<1>7. TypeOK'
  BY <1>1, <1>5, <1>6 DEF DInv, TypeOK, Idle, Tables, Cells
<1>8. Ages'
  <2>1. args' # Unset /\ args'.gen > 0
    BY <1>2, <1>4 DEF Unset, NoBuild
  <2>2. outputs' = outputs /\ calls' = calls /\ phase' = "launch" /\ built' = built /\ calls > 0
    BY <1>1, <1>2
  <2> QED
    BY <1>2, <1>4, <2>1, <2>2 DEF DInv, Ages
<1>9. Whole'
  <2>1. outputs' # args'
    BY <1>1, <1>2, <1>4
  <2> QED
    BY <2>1 DEF Whole, Torn
<1>10. Launching'
  <2>1. BoundFor(request, NameSet)' /\ Wired' /\ \A n \in NameSet : Holds(n)'
    BY <1>1, <1>3 DEF DInv, Building, BoundFor, Wired, Holds, Passed, TensorOf
  <2>2. args'.gen = calls' /\ kept' = calls' /\ outputs'.gen < calls'
    BY <1>1, <1>2, <1>4
  <2> QED
    BY <2>1, <2>2 DEF Launching
<1>11. Building' /\ Copying' /\ ForwardOfThisCall'
  BY <1>1 DEF Building, Copying, ForwardOfThisCall
<1> QED
  BY <1>7, <1>8, <1>9, <1>10, <1>11 DEF DInv

LEMMA BindDInv ==
  ASSUME DInv, Bind
  PROVE  DInv'
<1> DEFINE n == Names[cursor]
           own == [gen |-> calls, name |-> n]
           t == TensorOf(request, n)
<1>1. /\ UNCHANGED <<calls, request, given, kept, args, outputs, built, arena, result>>
      /\ phase = "bind" /\ phase' = "bind" /\ cursor <= Len(Names) /\ cursor' = cursor + 1
  BY DEF Bind
<1>2. /\ calls \in 1 .. MaxCalls /\ kept = calls /\ outputs.gen < calls /\ args.gen < calls
      /\ args.gen \in Nat /\ request \in Requests
  BY <1>1, TensorsAssumption DEF DInv, Ages, TypeOK, Tables
<1>3. cursor \in 1 .. Len(Names)
  BY <1>1, NamesFacts DEF DInv, TypeOK
<1>4. /\ DOMAIN bound = {Names[i] : i \in 1 .. cursor - 1}
      /\ BoundFor(request, DOMAIN bound) /\ (\A m \in DOMAIN bound : Holds(m))
      /\ given = Wanted(request)
  BY <1>1 DEF DInv, Building
<1>5. n \in NameSet /\ n \notin DOMAIN bound /\ DOMAIN bound \subseteq NameSet
  <2>1. \A i \in 1 .. cursor - 1 : i \in 1 .. Len(Names) /\ i # cursor
    <3>1. Len(Names) \in Nat
      BY NamesFacts
    <3> HIDE DEF n, own, t
    <3> QED
      BY <1>3, <3>1
  <2> QED
    BY <1>3, <1>4, <2>1, NamesFacts
<1>6. own \in Cells /\ own \notin CallerCells
  BY <1>2, <1>5, CellFacts
<1>7. content \in [Cells -> Contents]
  BY DEF DInv, TypeOK
<1>8. given[n] = IF Passed(request, n) THEN content[CallerCell(t)] ELSE Zeros
  BY <1>4, <1>5 DEF Wanted
<1>9. Passed(request, n) => CallerCell(t) \in CallerCells /\ CallerCell(t) \in Cells
  BY <1>2, <1>5, RequestFacts, CellFacts
<1>10. PICK e :
         /\ bound' = Extend(bound, n, e)
         /\ content' \in [Cells -> Contents]
         /\ \A c \in Cells : c # own => content'[c] = content[c]
         /\ e.cell = own \/ e.cell \in CallerCells
         /\ content'[e.cell] = given[n]
         /\ Passed(request, n) => e.shape = Shape[t]
         /\ ~ Passed(request, n) => n \in KVCaches /\ e.cell = own /\ content'[own] = Zeros
  <2>1. CASE ~ Passed(request, n)
    <3>1. /\ n \in KVCaches
          /\ bound' = Extend(bound, n, [cell |-> own, shape |-> BufferShape])
          /\ content' = [content EXCEPT ![own] = Zeros]
      BY <2>1 DEF Bind
    <3>2. Zeros \in Contents
      BY DEF Contents
    <3> QED
      BY <1>6, <1>7, <1>8, <2>1, <3>1, <3>2
  <2>2. CASE Passed(request, n) /\ t \in Resident
    <3>1. /\ bound' = Extend(bound, n, [cell |-> CallerCell(t), shape |-> Shape[t]])
          /\ content' = content
      BY <2>2 DEF Bind
    <3> QED
      BY <1>7, <1>8, <1>9, <2>2, <3>1
  <2>3. CASE Passed(request, n) /\ t \notin Resident
    <3>1. /\ bound' = Extend(bound, n, [cell |-> own, shape |-> Shape[t]])
          /\ content' = [content EXCEPT ![own] = content[CallerCell(t)]]
      BY <2>3 DEF Bind
    <3>2. content[CallerCell(t)] \in Contents
      BY <1>7, <1>9, <2>3
    <3> QED
      BY <1>6, <1>7, <1>8, <2>3, <3>1, <3>2
  <2> QED
    BY <2>1, <2>2, <2>3
<1>11. DOMAIN bound' = DOMAIN bound \cup {n}
  BY <1>10 DEF Extend
<1>12. bound'[n] = e /\ \A m \in DOMAIN bound : bound'[m] = bound[m]
  BY <1>5, <1>10 DEF Extend
<1>13. CallerCells \subseteq Cells
  BY DEF Cells
<1>14. \A m \in DOMAIN bound : content'[bound[m].cell] = content[bound[m].cell]
  <2> SUFFICES ASSUME NEW m \in DOMAIN bound
               PROVE  bound[m].cell \in Cells /\ bound[m].cell # own
    BY <1>10
  <2>1. bound[m].cell \in Cells
    BY DEF DInv, TypeOK
  <2>2. bound[m].cell = [gen |-> kept, name |-> m] \/ bound[m].cell \in CallerCells
    BY <1>4 DEF BoundFor
  <2>3. [gen |-> kept, name |-> m].name # own.name
    BY <1>5
  <2> QED
    BY <1>6, <2>1, <2>2, <2>3
<1>15. TypeOK'
  <2>1. cursor' \in 1 .. Len(Names) + 1
    BY <1>1, <1>3, NamesFacts
  <2>2. DOMAIN bound' \subseteq NameSet
    BY <1>5, <1>11
  <2>3. \A m \in DOMAIN bound' : bound'[m].cell \in Cells
    BY <1>6, <1>10, <1>11, <1>12, <1>13 DEF DInv, TypeOK
  <2> QED
    BY <1>1, <1>10, <2>1, <2>2, <2>3 DEF DInv, TypeOK, Tables, Cells
<1>16. Ages'
  BY <1>1 DEF DInv, Ages
<1>17. Whole'
  <2>1. args.gen # kept
    BY <1>2
  <2> QED
    BY <1>1, <2>1 DEF Whole, Torn
<1>18. Building'
  <2>1. DOMAIN bound' = {Names[i] : i \in 1 .. cursor' - 1}
    <3>1. 1 .. cursor' - 1 = 1 .. cursor - 1 \cup {cursor}
      BY <1>1, <1>3
    <3> QED
      BY <1>4, <1>11, <3>1
  <2>2. BoundFor(request, DOMAIN bound)'
    <3>1. BoundFor(request, DOMAIN bound)' <=>
            \A m \in DOMAIN bound' :
              /\ Passed(request, m) \/ m \in KVCaches
              /\ Passed(request, m) => bound'[m].shape = Shape[TensorOf(request, m)]
              /\ bound'[m].cell = [gen |-> kept, name |-> m] \/ bound'[m].cell \in CallerCells
              /\ ~ Passed(request, m) =>
                   bound'[m].cell = [gen |-> kept, name |-> m] /\ content'[bound'[m].cell] = Zeros
      BY <1>1 DEF BoundFor, Passed, TensorOf
    <3>2. ASSUME NEW m \in DOMAIN bound
          PROVE  /\ Passed(request, m) \/ m \in KVCaches
                 /\ Passed(request, m) => bound'[m].shape = Shape[TensorOf(request, m)]
                 /\ bound'[m].cell = [gen |-> kept, name |-> m] \/ bound'[m].cell \in CallerCells
                 /\ ~ Passed(request, m) =>
                     bound'[m].cell = [gen |-> kept, name |-> m] /\ content'[bound'[m].cell] = Zeros
      BY <1>4, <1>12, <1>14 DEF BoundFor
    <3> QED
      BY <1>2, <1>10, <1>11, <1>12, <3>1, <3>2
  <2>3. \A m \in DOMAIN bound' : Holds(m)'
    BY <1>1, <1>4, <1>10, <1>11, <1>12, <1>14 DEF Holds
  <2>4. given' = Wanted(request)'
    <3>1. \A m \in NameSet :
            Passed(request, m) =>
              content'[CallerCell(TensorOf(request, m))] = content[CallerCell(TensorOf(request, m))]
      BY <1>2, <1>6, <1>10, RequestFacts, CellFacts
    <3>2. given' = [m \in NameSet |-> IF Passed(request, m)
                                       THEN content'[CallerCell(TensorOf(request, m))] ELSE Zeros]
      BY <1>1, <1>4, <3>1 DEF Wanted
    <3> QED
      BY <1>1, <3>2 DEF Wanted, Passed, TensorOf, CallerCell
  <2> QED
    BY <2>1, <2>2, <2>3, <2>4 DEF Building
<1>19. Copying' /\ Launching' /\ ForwardOfThisCall'
  BY <1>1 DEF Copying, Launching, ForwardOfThisCall
<1> QED
  BY <1>15, <1>16, <1>17, <1>18, <1>19 DEF DInv

(* A steady-state copy only changes a tensor the call passed.              *)
LEMMA CopyDInv ==
  ASSUME DInv, Copy
  PROVE  DInv'
<1> DEFINE n == Names[cursor]
           b == bound[n].cell
           t == TensorOf(request, n)
<1>1. /\ UNCHANGED <<calls, request, given, bound, kept, args, outputs, built, arena, result>>
      /\ phase = "copy" /\ phase' = "copy" /\ cursor <= Len(Names) /\ cursor' = cursor + 1
  BY DEF Copy, attributes
<1>2. cursor \in 1 .. Len(Names) /\ n \in NameSet /\ request \in Requests
  BY <1>1, NamesFacts DEF DInv, TypeOK
<1>3. content \in [Cells -> Contents] /\ \A m \in DOMAIN bound : bound[m].cell \in Cells
  BY DEF DInv, TypeOK
<1>4. built = Fingerprint(request) /\ built # NoFingerprint
  BY <1>1, FingerprintSet DEF DInv, Copying
<1>5. Passed(request, n) => CallerCell(t) \in CallerCells /\ CallerCell(t) \in Cells
  BY <1>2, RequestFacts, CellFacts
<1>6. \/ /\ Passed(request, n) /\ n \in DOMAIN bound
         /\ content' = [content EXCEPT ![b] = content[CallerCell(t)]]
      \/ /\ ~ (n \in DOMAIN bound /\ Passed(request, n))
         /\ content' = content
  BY DEF Copy
<1>7. content' \in [Cells -> Contents]
  BY <1>3, <1>5, <1>6
<1>8. TypeOK'
  <2>1. cursor' \in 1 .. Len(Names) + 1
    BY <1>1, <1>2, NamesFacts
  <2> QED
    BY <1>1, <1>7, <2>1 DEF DInv, TypeOK, Tables, Cells
<1>9. Ages'
  BY <1>1 DEF DInv, Ages
<1>10. ASSUME ~ Torn
       PROVE  /\ Wired /\ BoundFor(request, NameSet) /\ kept \in 1 .. MaxCalls
              /\ \E r \in Requests : built = Fingerprint(r) /\ BoundFor(r, NameSet)
  <2>1. Wired /\ \E r \in Requests : built = Fingerprint(r) /\ BoundFor(r, NameSet)
    BY <1>4, <1>10 DEF DInv, Whole
  <2>2. BoundFor(request, NameSet)
    BY <1>2, <1>4, <2>1, SameFingerprintFits
  <2>3. args.gen = kept /\ args # Unset
    BY <1>4, <1>10 DEF DInv, Ages, Torn
  <2>4. args.gen \in 1 .. MaxCalls
    BY <2>3, OutcomeTypes
  <2> QED
    BY <2>1, <2>2, <2>3, <2>4
<1>11. Whole'
  <2> SUFFICES ASSUME ~ Torn
               PROVE  Wired' /\ \E r \in Requests : built' = Fingerprint(r)' /\ BoundFor(r, NameSet)'
    BY <1>1 DEF Whole, Torn
  <2>1. Wired'
    BY <1>1, <1>10 DEF Wired
  <2>2. ASSUME NEW m \in NameSet, ~ Passed(request, m)
        PROVE  content'[bound[m].cell] = Zeros
    <3>1. bound[m].cell = [gen |-> kept, name |-> m] /\ content[bound[m].cell] = Zeros
      BY <1>10, <2>2 DEF BoundFor
    <3>2. CASE Passed(request, n) /\ content' = [content EXCEPT ![b] = content[CallerCell(t)]]
      <4>1. b = [gen |-> kept, name |-> n] \/ b \in CallerCells
        BY <1>2, <1>10 DEF BoundFor
      <4>2. [gen |-> kept, name |-> m] \in Cells /\ [gen |-> kept, name |-> m] \notin CallerCells
        BY <1>10, CellFacts
      <4>3. m # n
        BY <2>2, <3>2
      <4>4. [gen |-> kept, name |-> n].name # [gen |-> kept, name |-> m].name
        BY <4>3
      <4>5. b # [gen |-> kept, name |-> m]
        BY <4>1, <4>2, <4>4
      <4> QED
        BY <1>3, <3>1, <3>2, <4>2, <4>5
    <3>3. CASE content' = content
      BY <3>1, <3>3
    <3> QED
      BY <1>6, <3>2, <3>3
  <2>3. PICK r \in Requests : built = Fingerprint(r) /\ BoundFor(r, NameSet)
    BY <1>10
  <2>4. \A m \in NameSet : Passed(request, m) <=> Passed(r, m)
    BY <1>2, <1>4, <2>3, FingerprintFacts
  <2>5. \A m \in NameSet : ~ Passed(r, m) => content'[bound[m].cell] = Zeros
    BY <2>2, <2>4
  <2>6. BoundFor(r, NameSet)'
    BY <1>1, <2>3, <2>5 DEF BoundFor, Passed, TensorOf
  <2>7. built' = Fingerprint(r)'
    BY <1>1, <2>3 DEF Fingerprint, Signature
  <2> QED
    BY <2>1, <2>6, <2>7
<1>12. Copying'
  <2>1. built' = Fingerprint(request)'
    BY <1>1, <1>4 DEF Fingerprint, Signature
  <2> SUFFICES ASSUME ~ Torn, ~ Aliased
               PROVE  given' = Wanted(request)' /\ \A i \in 1 .. cursor' - 1 : Holds(Names[i])'
    BY <1>1, <2>1 DEF Copying, Torn, Aliased
  <2>2. DOMAIN bound = NameSet /\ BoundFor(request, NameSet) /\ kept \in 1 .. MaxCalls
    BY <1>10 DEF Wired
  <2>3. given = Wanted(request) /\ \A i \in 1 .. cursor - 1 : Holds(Names[i])
    BY <1>1 DEF DInv, Copying
  <2>4. \A m \in NameSet :
          /\ bound[m].cell \notin CallerCells
          /\ bound[m].cell = [gen |-> kept, name |-> m]
    BY <2>2 DEF Aliased, BoundFor
  <2>5. \A m \in NameSet : m # n => bound[m].cell # b
    <3>1. ASSUME NEW m \in NameSet
          PROVE  bound[m].cell.name = m
      <4>1. bound[m].cell = [gen |-> kept, name |-> m]
        BY <2>4
      <4>2. [gen |-> kept, name |-> m].name = m
        OBVIOUS
      <4> QED
        BY <4>1, <4>2
    <3> QED
      BY <1>2, <3>1
  <2>6. \A c \in Cells : c # b => content'[c] = content[c]
    BY <1>3, <1>6
  <2>7. content'[b] = given[n]
    <3>1. given[n] = IF Passed(request, n) THEN content[CallerCell(t)] ELSE Zeros
      BY <1>2, <2>3 DEF Wanted
    <3>2. CASE Passed(request, n)
      BY <1>2, <1>3, <1>6, <2>2, <3>1, <3>2
    <3>3. CASE ~ Passed(request, n)
      <4>1. content[b] = Zeros
        BY <1>2, <2>2, <3>3 DEF BoundFor
      <4> QED
        BY <1>6, <3>1, <3>3, <4>1
    <3> QED
      BY <3>2, <3>3
  <2>8. \A i \in 1 .. cursor' - 1 : Holds(Names[i])'
    <3> SUFFICES ASSUME NEW i \in 1 .. cursor' - 1
                 PROVE  content'[bound[Names[i]].cell] = given[Names[i]]
      BY <1>1 DEF Holds
    <3>1. i \in 1 .. Len(Names) /\ (i \in 1 .. cursor - 1 \/ i = cursor)
      BY <1>1, <1>2, NamesFacts
    <3>2. CASE i = cursor
      BY <2>7, <3>2
    <3>3. CASE i \in 1 .. cursor - 1
      <4>1. i # cursor
        BY <1>2, <3>3
      <4>2. Names[i] \in NameSet /\ Names[i] # n
        BY <1>2, <3>1, <4>1, NamesFacts
      <4>3. content[bound[Names[i]].cell] = given[Names[i]]
        BY <2>3, <3>3 DEF Holds
      <4> QED
        BY <1>3, <2>2, <2>5, <2>6, <4>2, <4>3
    <3> QED
      BY <3>1, <3>2, <3>3
  <2>9. given' = Wanted(request)'
    <3>1. \A m \in NameSet :
            Passed(request, m) =>
              content'[CallerCell(TensorOf(request, m))] = content[CallerCell(TensorOf(request, m))]
      BY <1>2, <2>4, <2>6, RequestFacts, CellFacts
    <3>2. given' = [m \in NameSet |-> IF Passed(request, m)
                                       THEN content'[CallerCell(TensorOf(request, m))] ELSE Zeros]
      BY <1>1, <2>3, <3>1 DEF Wanted
    <3> QED
      BY <1>1, <3>2 DEF Wanted, Passed, TensorOf, CallerCell
  <2> QED
    BY <2>8, <2>9
<1>13. Building' /\ Launching' /\ ForwardOfThisCall'
  BY <1>1 DEF Building, Launching, ForwardOfThisCall
<1> QED
  BY <1>8, <1>9, <1>11, <1>12, <1>13 DEF DInv

LEMMA NextDInv == DInv /\ [Next]_vars => DInv'
BY RunSteadyDInv, RunBuildDInv, QuietDInv, CopiedDInv, NoResultDInv, FinishSteadyDInv,
   FinishBuildDInv, UploadDInv, BindDInv, CopyDInv
   DEF Next

LEMMA SpecDInv == Spec => []DInv
BY InitDInv, NextDInv, PTL DEF Spec

-----------------------------------------------------------------------------
(* The attributes run() leaves behind, the memory they refer to and the    *)
(* table a launch is given stay typed, after any sequence of calls and     *)
(* failures.                                                               *)
THEOREM DeviceTypes == Spec => []TypeOK
<1>1. DInv => TypeOK
  BY DEF DInv
<1> QED
  BY <1>1, SpecDInv, PTL

(* A call of run() that returns, by a full build or by the steady state,   *)
(* returns the forward of its own tensors, for as many calls as one likes, *)
(* unless a build failed part way or a tensor of the VM is the caller's.   *)
THEOREM ResultsFresh == Spec => []ForwardOfThisCall
<1>1. DInv => ForwardOfThisCall
  BY DEF DInv
<1> QED
  BY <1>1, SpecDInv, PTL

(* A call _run_steady_state accepts by its fingerprint never raises in its *)
(* copies: every buffer is bound, with the shape of the tensor passed.     *)
THEOREM CopiesFit == Spec => []SteadyCopyFits
<1>1. DInv => SteadyCopyFits
  <2> SUFFICES ASSUME DInv, phase = "copy", ~ Torn
               PROVE  /\ DOMAIN bound = NameSet
                      /\ \A n \in NameSet :
                           Passed(request, n) => Shape[TensorOf(request, n)] = bound[n].shape
                      /\ \A n \in IOInputs : Passed(request, n)
    BY DEF SteadyCopyFits
  <2>1. request \in Requests /\ built = Fingerprint(request) /\ built # NoFingerprint
    BY FingerprintSet DEF DInv, TypeOK, Copying
  <2>2. Wired /\ \E r \in Requests : built = Fingerprint(r) /\ BoundFor(r, NameSet)
    BY <2>1 DEF DInv, Whole
  <2>3. BoundFor(request, NameSet)
    BY <2>1, <2>2, SameFingerprintFits
  <2> QED
    BY <2>2, <2>3 DEF Wired, BoundFor, IOInputs
<1> QED
  BY <1>1, SpecDInv, PTL

-----------------------------------------------------------------------------
(***************************************************************************)
(* A projection tile.  First the arithmetic of its shares: the lanes deal  *)
(* the K axis, the warps the runs of columns, the slots the chunks.        *)
(***************************************************************************)

LEMMA DivisionOf ==
  ASSUME NEW a \in Nat, NEW d \in Nat \ {0}
  PROVE  /\ a \div d \in Nat /\ a % d \in 0 .. d - 1
         /\ a = (a \div d) * d + (a % d)
  OBVIOUS

LEMMA MultiplesApart ==
  ASSUME NEW p \in Int, NEW q \in Int, p < q, NEW d \in Nat
  PROVE  p * d + d <= q * d
<1>1. PICK e \in Nat : q = p + 1 + e
  <2> WITNESS q - p - 1 \in Nat
  <2> QED OBVIOUS
<1>2. q * d = p * d + d + e * d
  BY <1>1
<1>3. e * d >= 0
  OBVIOUS
<1> QED
  BY <1>2, <1>3

LEMMA DivisionUnique ==
  ASSUME NEW q \in Nat, NEW d \in Nat \ {0}, NEW r \in 0 .. d - 1
  PROVE  q * d + r \in Nat /\ (q * d + r) \div d = q /\ (q * d + r) % d = r
<1> DEFINE a == q * d + r
<1>1. a \in Nat /\ a = q * d + r
  OBVIOUS
<1> HIDE DEF a
<1>2. PICK p \in Nat, s \in 0 .. d - 1 : a \div d = p /\ a % d = s /\ a = p * d + s
  BY <1>1, DivisionOf
<1>3. ~ (p < q) /\ ~ (q < p)
  BY <1>1, <1>2, MultiplesApart
<1>4. p = q
  BY <1>3
<1>5. s = r
  BY <1>1, <1>2, <1>4
<1> QED
  BY <1>1, <1>2, <1>4, <1>5 DEF a

(* Numbers less than d apart have different remainders.                    *)
LEMMA RemaindersApart ==
  ASSUME NEW a \in Nat, NEW b \in Nat, NEW d \in Nat \ {0}, a < b, b < a + d
  PROVE  a % d # b % d
<1> SUFFICES ASSUME a % d = b % d PROVE FALSE
  OBVIOUS
<1>1. PICK p \in Nat, r \in 0 .. d - 1 : a % d = r /\ a = p * d + r
  BY DivisionOf
<1>2. PICK q \in Nat, s \in 0 .. d - 1 : b % d = s /\ b = q * d + s
  BY DivisionOf
<1>3. CASE p < q
  <2>1. p * d + d <= q * d
    BY <1>3, MultiplesApart
  <2> QED
    BY <1>1, <1>2, <2>1
<1>4. CASE q < p
  <2>1. q * d + d <= p * d
    BY <1>4, MultiplesApart
  <2> QED
    BY <1>1, <1>2, <2>1
<1>5. CASE p = q
  BY <1>1, <1>2, <1>5
<1> QED
  BY <1>3, <1>4, <1>5

-----------------------------------------------------------------------------
PCs == {"cache", "cached", "run", "issue", "wait", "reduce", "finished", "done"}
Working == {"run", "issue", "wait", "reduce", "finished"}
Slots == Warps \X (0 .. STAGES - 1) \X Lanes
Granules == [m : Nat, t : Nat, k : Nat]

(* What a lane contributes to the value of row m and run t in n chunks.    *)
Share(m, t, l, n) == [c \in 1 .. n |-> [k |-> (c - 1) * req.lanes + l, x |-> m, w |-> <<t, (c - 1) * req.lanes + l>>]]
Rounds(l) == IF Chunks * req.lanes + l < req.K THEN Chunks + 1 ELSE Chunks
Dot(m, t) == [l \in Lanes |-> Share(m, t, l, Rounds(l))]

RunIndex(n) == (n - req.n_off) \div CPC

ThreadShape(s) ==
  /\ s \in [pc : PCs, m : 0 .. req.M - 1, t : Nat, ci : 0 .. Chunks, flight : Seq(BOOLEAN), acc : {s.acc}]
  /\ s.pc = "wait" => s.ci < Chunks

TileShape ==
  /\ req \in Tiles
  /\ DOMAIN th = Threads
  /\ \A wl \in Threads : ThreadShape(th[wl])
  /\ th = [wl \in Threads |-> th[wl]]
  /\ xs \in [Ks -> Nat \cup {None}] /\ ring \in [Slots -> Granules \cup {None}]
  /\ DOMAIN out = (0 .. req.M - 1) \X Columns

(* A warp works on the runs of its own residue.                            *)
OnTurn(t, w) == t = (t \div CPC) * CPC /\ (t \div CPC) % req.warps = w

Turns == \A wl \in Threads : OnTurn(th[wl].t, wl[1])

(* With a cache the block goes through the rows together.                  *)
InStep ==
  req.smem =>
    /\ \A a, b \in Threads : th[a].m = th[b].m
    /\ \/ \A wl \in Threads : th[wl].pc \in {"cache", "cached"}
       \/ \A wl \in Threads : th[wl].pc \in Working
       \/ \A wl \in Threads : th[wl].pc = "done"

(* A thread that is past the caching has cached its share of the row.      *)
ShareCached ==
  req.smem =>
    \A wl \in Threads : th[wl].pc \in {"cached"} \cup Working =>
      \A k \in Ks : k % (req.warps * req.lanes) = wl[1] * req.lanes + wl[2] => xs[k] = th[wl].m

InFlight(s) ==
  IF Staged(s.m, s.t) THEN AtMost(s.ci + AHEAD + (IF s.pc = "wait" THEN 1 ELSE 0), Chunks) ELSE 0

(* The pipeline of a thread: all it consumed had landed, what landed since *)
(* is in its slot, and what it consumed are the chunks before ci.          *)
PipedAs(wl, s, held) ==
  /\ s.pc \notin {"issue", "wait"} => \A i \in 1 .. Len(s.flight) : s.flight[i]
  /\ s.pc \in {"issue", "wait", "reduce"} => s.t < req.N_tile
  /\ s.pc \in {"issue", "wait"} =>
       /\ Len(s.flight) = InFlight(s)
       /\ \A i \in 1 .. Len(s.flight) : i <= s.ci => s.flight[i]
       /\ \A i \in 1 .. Len(s.flight) : i > s.ci /\ s.flight[i] =>
            held[<<wl[1], (i - 1) % STAGES, wl[2]>>] = [m |-> s.m, t |-> s.t, k |-> (i - 1) * req.lanes + wl[2]]
       /\ s.acc = Share(s.m, s.t, wl[2], s.ci)
  /\ s.pc = "reduce" => s.acc = Share(s.m, s.t, wl[2], Rounds(wl[2]))

Pipelines == \A wl \in Threads : PipedAs(wl, th[wl], ring)

Ended ==
  \A wl \in Threads :
    /\ th[wl].pc \in {"finished", "done"} => th[wl].t >= req.N_tile
    /\ th[wl].pc = "done" /\ req.kind # "wmma" => th[wl].m = req.M - 1

(* A thread at s has left row m of run q behind.                           *)
Behind(s, m, q) ==
  IF req.kind = "wmma" THEN s.t \div CPC > q \/ (s.t \div CPC = q /\ s.m > m)
                       ELSE s.m > m \/ (s.m = m /\ s.t \div CPC > q)

Stored ==
  \A wl \in Threads, m \in 0 .. req.M - 1, n \in Columns :
    RunIndex(n) % req.warps = wl[1] =>
      out[<<m, n>>] = IF Behind(th[wl], m, RunIndex(n)) THEN <<Dot(m, Run(n))>> ELSE <<>>

-----------------------------------------------------------------------------
(* What the assumptions say of the tile a block works on.                  *)
LEMMA TileFacts ==
  ASSUME req \in Tiles
  PROVE  /\ req.kind \in {"fp", "quant", "wmma", "sync"} /\ req.smem \in BOOLEAN
         /\ req.warps \in Nat \ {0} /\ req.lanes \in Nat \ {0} /\ req.M \in Nat \ {0}
         /\ req.K \in Nat \ {0} /\ req.N_tile \in Nat \ {0} /\ req.n_off \in Nat
         /\ STAGES \in Nat \ {0} /\ AHEAD \in Nat /\ AHEAD = STAGES - 1
         /\ CPC \in Nat \ {0}
         /\ req.kind = "wmma" => ~ req.smem
         /\ Chunks \in Nat /\ Chunks * req.lanes \in Nat
         /\ Chunks * req.lanes <= req.K /\ req.K < Chunks * req.lanes + req.lanes
<1>1. req \in [kind : {"fp", "quant", "wmma", "sync"}, warps : Nat \ {0}, lanes : Nat \ {0}, M : Nat \ {0},
               K : Nat \ {0}, N_tile : Nat \ {0}, n_off : Nat, stages : Nat \ {0}, smem : BOOLEAN, shortRows : BOOLEAN]
  BY TilesAssumption
<1>2. req.kind = "wmma" => ~ req.smem
  BY PathsAssumption
<1>3. PICK q \in Nat, r \in 0 .. req.lanes - 1 : req.K \div req.lanes = q /\ req.K = q * req.lanes + r
  <2>1. req.K \in Nat /\ req.lanes \in Nat \ {0}
    BY <1>1
  <2> QED
    BY <2>1, DivisionOf
<1>4. /\ Chunks \in Nat /\ Chunks * req.lanes \in Nat
      /\ Chunks * req.lanes <= req.K /\ req.K < Chunks * req.lanes + req.lanes
  BY <1>1, <1>3 DEF Chunks
<1> QED
  BY <1>1, <1>2, <1>4, RunAssumption DEF STAGES, AHEAD

LEMMA SlotsOfThread ==
  ASSUME req \in Tiles, NEW wl \in Threads, NEW a \in Nat
  PROVE  <<wl[1], a % STAGES, wl[2]>> \in Slots
<1>1. a % STAGES \in 0 .. STAGES - 1
  BY TileFacts, DivisionOf
<1> QED
  BY <1>1 DEF Slots, Threads

LEMMA InitShape == TileInit => TileShape
<1> SUFFICES ASSUME TileInit PROVE TileShape
  OBVIOUS
<1>1. req \in Tiles
  BY DEF TileInit
<1>2. \A wl \in Threads : wl[1] \in Nat
  BY <1>1, TileFacts DEF Threads, Warps
<1>3. \A wl \in Threads : wl[1] * CPC \in Nat
  BY <1>1, <1>2, TileFacts
<1>4. \A wl \in Threads : th[wl] = [pc |-> "cache", m |-> 0, t |-> wl[1] * CPC, ci |-> 0, flight |-> <<>>, acc |-> <<>>]
  BY DEF TileInit
<1>5. 0 \in 0 .. req.M - 1 /\ 0 \in 0 .. Chunks /\ <<>> \in Seq(BOOLEAN)
  BY <1>1, TileFacts
<1>6. ASSUME NEW wl \in Threads
      PROVE  ThreadShape(th[wl])
  <2>0. th[wl] = [pc |-> "cache", m |-> 0, t |-> wl[1] * CPC, ci |-> 0, flight |-> <<>>, acc |-> <<>>]
    BY <1>4
  <2>1. th[wl].acc = <<>>
    BY <2>0
  <2> QED
    BY <1>3, <1>5, <2>0, <2>1 DEF PCs, ThreadShape
<1> QED
  BY <1>1, <1>6 DEF TileInit, TileShape, Slots

LEMMA NextRowShape ==
  ASSUME TileShape, NEW wl \in Threads
  PROVE  /\ ThreadShape(NextRow(wl))
         /\ NextRow(wl).flight = th[wl].flight
         /\ NextRow(wl).pc \in {"cache", "done"}
         /\ NextRow(wl).pc = "cache" =>
              /\ req.kind # "wmma" /\ th[wl].m + 1 < req.M
              /\ NextRow(wl).m = th[wl].m + 1 /\ NextRow(wl).t = wl[1] * CPC
         /\ NextRow(wl).pc = "done" =>
              /\ NextRow(wl).m = th[wl].m /\ NextRow(wl).t = th[wl].t
              /\ req.kind = "wmma" \/ th[wl].m = req.M - 1
<1>1. req \in Tiles /\ ThreadShape(th[wl])
  BY DEF TileShape, ThreadShape
<1>2. wl[1] * CPC \in Nat
  BY <1>1, TileFacts DEF Threads, Warps
<1>3. req.M \in Nat \ {0}
  BY <1>1, TileFacts
<1>4. CASE req.kind # "wmma" /\ th[wl].m + 1 < req.M
  <2>1. NextRow(wl) = [th[wl] EXCEPT !.pc = "cache", !.m = th[wl].m + 1, !.t = wl[1] * CPC]
    BY <1>4 DEF NextRow
  <2>2. th[wl].m + 1 \in 0 .. req.M - 1
    BY <1>1, <1>3, <1>4 DEF ThreadShape
  <2> QED
    BY <1>1, <1>2, <1>4, <2>1, <2>2 DEF ThreadShape, PCs
<1>5. CASE ~ (req.kind # "wmma" /\ th[wl].m + 1 < req.M)
  <2>1. NextRow(wl) = [th[wl] EXCEPT !.pc = "done"]
    BY <1>5 DEF NextRow
  <2>2. req.kind = "wmma" \/ th[wl].m = req.M - 1
    BY <1>1, <1>3, <1>5 DEF ThreadShape
  <2> QED
    BY <1>1, <2>1, <2>2 DEF ThreadShape, PCs
<1> QED
  BY <1>4, <1>5

LEMMA MovesShape ==
  ASSUME TileShape, NEW wl \in Threads, NEW s, ThreadShape(s), Moves(wl, s)
  PROVE  /\ th' = [u \in Threads |-> th'[u]] /\ \A u \in Threads : ThreadShape(th'[u])
         /\ th'[wl] = s /\ \A u \in Threads : u # wl => th'[u] = th[u]
<1>1. \A u \in Threads : ThreadShape(th[u])
  BY DEF TileShape, ThreadShape
<1>2. th' = [th EXCEPT ![wl] = s]
  BY DEF Moves
<1>3. th'[wl] = s /\ \A u \in Threads : u # wl => th'[u] = th[u]
  BY <1>2 DEF TileShape
<1>4. th' = [u \in Threads |-> th'[u]]
  BY <1>2 DEF TileShape
<1> QED
  BY <1>1, <1>3, <1>4

(* A primed run: as many copies under way as fit in the ring.              *)
Primed(m, t) == [i \in 1 .. IF Staged(m, t) THEN AtMost(AHEAD, Chunks) ELSE 0 |-> FALSE]

LEMMA PrimedIsSeq ==
  ASSUME req \in Tiles, NEW m \in Nat, NEW t \in Nat
  PROVE  /\ Primed(m, t) \in Seq(BOOLEAN)
         /\ Len(Primed(m, t)) = (IF Staged(m, t) THEN AtMost(AHEAD, Chunks) ELSE 0)
         /\ \A i \in 1 .. Len(Primed(m, t)) : Primed(m, t)[i] = FALSE
<1> DEFINE n == IF Staged(m, t) THEN AtMost(AHEAD, Chunks) ELSE 0
<1>1. n \in Nat
  BY TileFacts DEF AtMost
<1>2. Primed(m, t) = [i \in 1 .. n |-> FALSE]
  BY DEF Primed
<1> HIDE DEF n
<1>3. Primed(m, t) \in Seq(BOOLEAN) /\ Len(Primed(m, t)) = n /\ \A i \in 1 .. n : Primed(m, t)[i] = FALSE
  BY <1>1, <1>2
<1> QED
  BY <1>3 DEF n

(* What StartRun makes of a thread. *)
LEMMA StartRunFacts ==
  ASSUME TileShape, NEW wl \in Threads, StartRun(wl)
  PROVE  \E s :
           /\ ThreadShape(s) /\ Moves(wl, s) /\ th[wl].pc = "run"
           /\ \/ /\ th[wl].t < req.N_tile
                 /\ s = [th[wl] EXCEPT !.pc = "issue", !.ci = 0, !.acc = <<>>, !.flight = Primed(th[wl].m, th[wl].t)]
              \/ /\ ~ (th[wl].t < req.N_tile) /\ req.smem
                 /\ s = [th[wl] EXCEPT !.pc = "finished"]
              \/ /\ ~ (th[wl].t < req.N_tile) /\ ~ req.smem
                 /\ s = NextRow(wl)
<1>1. ThreadShape(th[wl]) /\ req \in Tiles /\ th[wl].pc = "run"
  BY DEF TileShape, ThreadShape, StartRun
<1>2. Primed(th[wl].m, th[wl].t) \in Seq(BOOLEAN) /\ 0 \in 0 .. Chunks
  <2>1. th[wl].m \in Nat /\ th[wl].t \in Nat
    BY <1>1 DEF ThreadShape
  <2>2. Primed(th[wl].m, th[wl].t) \in Seq(BOOLEAN)
    BY <1>1, <2>1, PrimedIsSeq
  <2>3. Chunks \in Nat
    BY <1>1, TileFacts
  <2> QED
    BY <2>2, <2>3
<1>3. CASE th[wl].t < req.N_tile
  <2> DEFINE s == [th[wl] EXCEPT !.pc = "issue", !.ci = 0, !.acc = <<>>, !.flight = Primed(th[wl].m, th[wl].t)]
  <2>1. Moves(wl, s)
    BY <1>3 DEF StartRun, Primed
  <2>2. ThreadShape(s)
    BY <1>1, <1>2 DEF ThreadShape, PCs
  <2> QED
    BY <1>1, <1>3, <2>1, <2>2
<1>4. CASE ~ (th[wl].t < req.N_tile) /\ req.smem
  <2> DEFINE s == [th[wl] EXCEPT !.pc = "finished"]
  <2>1. Moves(wl, s)
    BY <1>4 DEF StartRun
  <2>2. ThreadShape(s)
    BY <1>1 DEF ThreadShape, PCs
  <2> QED
    BY <1>1, <1>4, <2>1, <2>2
<1>5. CASE ~ (th[wl].t < req.N_tile) /\ ~ req.smem
  <2>1. Moves(wl, NextRow(wl))
    BY <1>5 DEF StartRun
  <2> QED
    BY <1>1, <1>5, <2>1, NextRowShape
<1> QED
  BY <1>1, <1>3, <1>4, <1>5, TileFacts

LEMMA LandFacts ==
  ASSUME TileShape, NEW wl \in Threads, Land(wl)
  PROVE  \E i \in 1 .. Len(th[wl].flight) :
           LET s == [th[wl] EXCEPT !.flight[i] = TRUE]
               g == [m |-> th[wl].m, t |-> th[wl].t, k |-> (i - 1) * req.lanes + wl[2]]
           IN  /\ ~ th[wl].flight[i] /\ ThreadShape(s) /\ Moves(wl, s) /\ g \in Granules
               /\ ring' = [ring EXCEPT ![<<wl[1], (i - 1) % STAGES, wl[2]>>] = g]
<1>1. ThreadShape(th[wl]) /\ req \in Tiles
  BY DEF TileShape, ThreadShape
<1>2. th[wl].flight \in Seq(BOOLEAN)
  BY <1>1 DEF ThreadShape
<1>3. PICK i \in DOMAIN th[wl].flight :
       /\ ~ th[wl].flight[i]
       /\ ring' = [ring EXCEPT ![<<wl[1], (i - 1) % STAGES, wl[2]>>] =
                     [m |-> th[wl].m, t |-> th[wl].t, k |-> (i - 1) * req.lanes + wl[2]]]
       /\ Moves(wl, [th[wl] EXCEPT !.flight[i] = TRUE])
  BY DEF Land
<1>4. i \in 1 .. Len(th[wl].flight) /\ [th[wl].flight EXCEPT ![i] = TRUE] \in Seq(BOOLEAN)
  BY <1>2, <1>3
<1>5. ThreadShape([th[wl] EXCEPT !.flight[i] = TRUE])
  BY <1>1, <1>4 DEF ThreadShape
<1>6. (i - 1) * req.lanes + wl[2] \in Nat
  <2>1. i - 1 \in Nat
    BY <1>2, <1>4
  <2>2. req.lanes \in Nat /\ wl[2] \in Nat
    BY <1>1, TileFacts DEF Threads, Lanes
  <2> QED
    BY <2>1, <2>2
<1>7. [m |-> th[wl].m, t |-> th[wl].t, k |-> (i - 1) * req.lanes + wl[2]] \in Granules
  BY <1>1, <1>6 DEF Granules, ThreadShape
<1> QED
  BY <1>3, <1>4, <1>5, <1>7

LEMMA IssueFacts ==
  ASSUME TileShape, NEW wl \in Threads, Issue(wl)
  PROVE  LET more == Staged(th[wl].m, th[wl].t) /\ th[wl].ci + AHEAD < Chunks
             s == [th[wl] EXCEPT !.pc = "wait",
                     !.flight = IF more THEN Append(th[wl].flight, FALSE) ELSE th[wl].flight]
         IN  th[wl].pc = "issue" /\ th[wl].ci < Chunks /\ ThreadShape(s) /\ Moves(wl, s)
<1>1. ThreadShape(th[wl]) /\ req \in Tiles
  BY DEF TileShape, ThreadShape
<1>2. th[wl].flight \in Seq(BOOLEAN) /\ Append(th[wl].flight, FALSE) \in Seq(BOOLEAN)
  BY <1>1 DEF ThreadShape
<1> DEFINE s == [th[wl] EXCEPT !.pc = "wait",
                     !.flight = IF Staged(th[wl].m, th[wl].t) /\ th[wl].ci + AHEAD < Chunks
                                THEN Append(th[wl].flight, FALSE) ELSE th[wl].flight]
<1>3. Moves(wl, s) /\ th[wl].pc = "issue" /\ th[wl].ci < Chunks
  BY DEF Issue
<1>4. (IF Staged(th[wl].m, th[wl].t) /\ th[wl].ci + AHEAD < Chunks THEN Append(th[wl].flight, FALSE) ELSE th[wl].flight)
        \in Seq(BOOLEAN)
  BY <1>2
<1>5. ThreadShape(s)
  BY <1>1, <1>3, <1>4 DEF ThreadShape, PCs
<1> QED
  BY <1>3, <1>5

LEMMA ConsumedShape ==
  ASSUME TileShape, NEW wl \in Threads, th[wl].pc = "wait"
  PROVE  ThreadShape(Consumed(wl))
<1>1. ThreadShape(th[wl]) /\ req \in Tiles
  BY DEF TileShape, ThreadShape
<1>2. th[wl].ci + 1 \in 0 .. Chunks
  <2>1. th[wl].ci \in 0 .. Chunks /\ th[wl].ci < Chunks
    BY <1>1 DEF ThreadShape
  <2> QED
    BY <1>1, <2>1, TileFacts
<1> QED
  BY <1>1, <1>2 DEF ThreadShape, Consumed, PCs

LEMMA RaggedEndFacts ==
  ASSUME TileShape, NEW wl \in Threads, RaggedEnd(wl)
  PROVE  LET k == Chunks * req.lanes + wl[2]
             s == [th[wl] EXCEPT !.pc = "reduce",
                     !.acc = IF k \in Ks THEN Append(th[wl].acc, Direct(wl, k)) ELSE th[wl].acc]
         IN  th[wl].pc = "issue" /\ th[wl].ci = Chunks /\ Landed(wl) /\ ThreadShape(s) /\ Moves(wl, s)
<1> DEFINE k == Chunks * req.lanes + wl[2]
           s == [th[wl] EXCEPT !.pc = "reduce",
                   !.acc = IF k \in Ks THEN Append(th[wl].acc, Direct(wl, k)) ELSE th[wl].acc]
<1>1. ThreadShape(th[wl])
  BY DEF TileShape, ThreadShape
<1>2. ThreadShape(s)
  BY <1>1 DEF ThreadShape, PCs
<1>3. Moves(wl, s) /\ th[wl].pc = "issue" /\ th[wl].ci = Chunks /\ Landed(wl)
  BY DEF RaggedEnd
<1> QED
  BY <1>2, <1>3

(* What Reduce makes of a thread of the warp, t and m being its lane 0's.  *)
Reduced(wl, t, m) ==
  LET inner == req.kind = "wmma" /\ m + 1 < req.M
  IN  [th[wl] EXCEPT !.pc = "run", !.flight = <<>>,
         !.m = IF inner THEN m + 1 ELSE IF req.kind = "wmma" THEN 0 ELSE m,
         !.t = IF inner THEN t ELSE t + req.warps * CPC]

LEMMA ReducedShape ==
  ASSUME TileShape, NEW wl \in Threads, NEW u \in Threads
  PROVE  ThreadShape(Reduced(wl, th[u].t, th[u].m))
<1> DEFINE t == th[u].t
           m == th[u].m
           inner == req.kind = "wmma" /\ m + 1 < req.M
<1>1. ThreadShape(th[wl]) /\ ThreadShape(th[u]) /\ req \in Tiles
  BY DEF TileShape, ThreadShape
<1>2. t \in Nat /\ m \in 0 .. req.M - 1
  BY <1>1 DEF ThreadShape
<1>3. req.warps * CPC \in Nat /\ req.M \in Nat \ {0}
  BY <1>1, TileFacts
<1>4. (IF inner THEN m + 1 ELSE IF req.kind = "wmma" THEN 0 ELSE m) \in 0 .. req.M - 1
  BY <1>2, <1>3
<1>5. (IF inner THEN t ELSE t + req.warps * CPC) \in Nat
  BY <1>2, <1>3
<1>6. <<>> \in Seq(BOOLEAN)
  OBVIOUS
<1> QED
  BY <1>1, <1>4, <1>5, <1>6 DEF ThreadShape, Reduced, PCs

LEMMA ReduceFacts ==
  ASSUME TileShape, NEW w \in Warps, Reduce(w)
  PROVE  LET t == th[<<w, 0>>].t
             m == th[<<w, 0>>].m
         IN  /\ <<w, 0>> \in Threads
             /\ \A l \in Lanes : th[<<w, l>>].pc = "reduce"
             /\ out' = [mn \in DOMAIN out |->
                          IF mn[1] = m /\ mn[2] - req.n_off \in t .. AtMost(t + CPC, req.N_tile) - 1
                          THEN Append(out[mn], [l \in Lanes |-> th[<<w, l>>].acc]) ELSE out[mn]]
             /\ th' = [wl \in Threads |-> IF wl[1] = w THEN Reduced(wl, t, m) ELSE th[wl]]
<1>1. 0 \in Lanes
  BY TileFacts DEF TileShape, Lanes
<1>2. th' = [wl \in Threads |-> IF wl[1] = w THEN Reduced(wl, th[<<w, 0>>].t, th[<<w, 0>>].m) ELSE th[wl]]
  BY DEF Reduce, Reduced
<1> QED
  BY <1>1, <1>2 DEF Reduce, Threads

LEMMA NextShape ==
  ASSUME TileShape, [TileNext]_tilevars
  PROVE  TileShape' /\ req' = req
<1>1. req \in Tiles /\ (\A wl \in Threads : ThreadShape(th[wl])) /\ th = [wl \in Threads |-> th[wl]]
  BY DEF TileShape, ThreadShape
<1>2. req' = req
  BY DEF TileNext, tilevars, SyncCached, SyncRow, Terminated, CacheRow, StartRun, Land, Issue, Consume,
     RaggedEnd, ConsumeWarp, Reduce
<1> DEFINE Good == th' = [wl \in Threads |-> th'[wl]] /\ \A wl \in Threads : ThreadShape(th'[wl])
<1> DEFINE Memory == xs' \in [Ks -> Nat \cup {None}] /\ ring' \in [Slots -> Granules \cup {None}] /\ DOMAIN out' = DOMAIN out
<1>3. Good /\ Memory => TileShape'
  <2> SUFFICES ASSUME Good, Memory PROVE TileShape'
    OBVIOUS
  <2>1. DOMAIN th' = Threads
    OBVIOUS
  <2> QED
    BY <1>1, <1>2, <2>1 DEF TileShape, ThreadShape, Threads, Warps, Lanes, Ks, Slots, Columns, STAGES, Chunks
<1>4. UNCHANGED <<xs, ring, out>> => Memory
  BY DEF TileShape
<1>5. CASE UNCHANGED tilevars
  BY <1>1, <1>2, <1>3, <1>4, <1>5 DEF tilevars
<1>6. CASE SyncCached
  <2>1. th' = [wl \in Threads |-> [th[wl] EXCEPT !.pc = "run"]] /\ UNCHANGED <<xs, ring, out>>
    BY <1>6 DEF SyncCached
  <2>2. \A wl \in Threads : ThreadShape([th[wl] EXCEPT !.pc = "run"])
    BY <1>1 DEF ThreadShape, PCs
  <2> QED
    BY <1>2, <1>3, <1>4, <2>1, <2>2
<1>7. CASE SyncRow
  <2>1. th' = [wl \in Threads |-> NextRow(wl)] /\ UNCHANGED <<xs, ring, out>>
    BY <1>7 DEF SyncRow
  <2> QED
    BY <1>2, <1>3, <1>4, <2>1, NextRowShape
<1>8. ASSUME NEW wl \in Threads, CacheRow(wl) PROVE TileShape'
  <2>1. xs' \in [Ks -> Nat \cup {None}]
    <3>1. xs \in [Ks -> Nat \cup {None}] /\ th[wl].m \in Nat
      BY <1>1 DEF TileShape, ThreadShape
    <3> QED
      BY <1>8, <3>1 DEF CacheRow
  <2>2. PICK s : Moves(wl, s) /\ s \in {[th[wl] EXCEPT !.pc = "cached"], [th[wl] EXCEPT !.pc = "run"]}
    BY <1>8 DEF CacheRow
  <2>3. ThreadShape(s)
    BY <1>1, <2>2 DEF ThreadShape, PCs
  <2>4. Good
    BY <2>2, <2>3, MovesShape
  <2>5. UNCHANGED <<ring, out>>
    BY <1>8 DEF CacheRow
  <2> QED
    BY <1>3, <2>1, <2>4, <2>5 DEF TileShape
<1>9. ASSUME NEW wl \in Threads, StartRun(wl) PROVE TileShape'
  <2>1. Good
    BY <1>9, StartRunFacts, MovesShape
  <2> QED
    BY <1>3, <1>4, <1>9, <2>1 DEF StartRun
<1>10. ASSUME NEW wl \in Threads, Land(wl) PROVE TileShape'
  <2>1. PICK i \in 1 .. Len(th[wl].flight) :
          LET s == [th[wl] EXCEPT !.flight[i] = TRUE]
              g == [m |-> th[wl].m, t |-> th[wl].t, k |-> (i - 1) * req.lanes + wl[2]]
          IN  /\ ThreadShape(s) /\ Moves(wl, s) /\ g \in Granules
              /\ ring' = [ring EXCEPT ![<<wl[1], (i - 1) % STAGES, wl[2]>>] = g]
    BY <1>10, LandFacts
  <2>2. Good
    BY <2>1, MovesShape
  <2>3. ring' \in [Slots -> Granules \cup {None}]
    BY <2>1 DEF TileShape
  <2>4. UNCHANGED <<xs, out>>
    BY <1>10 DEF Land
  <2> QED
    BY <1>3, <2>2, <2>3, <2>4 DEF TileShape
<1>11. ASSUME NEW wl \in Threads, Issue(wl) PROVE TileShape'
  <2>1. Good
    BY <1>11, IssueFacts, MovesShape
  <2> QED
    BY <1>3, <1>4, <1>11, <2>1 DEF Issue
<1>12. ASSUME NEW wl \in Threads, Consume(wl) PROVE TileShape'
  <2>1. Moves(wl, Consumed(wl)) /\ UNCHANGED <<xs, ring, out>> /\ th[wl].pc = "wait"
    BY <1>12 DEF Consume
  <2> QED
    BY <1>3, <1>4, <2>1, ConsumedShape, MovesShape
<1>13. ASSUME NEW wl \in Threads, RaggedEnd(wl) PROVE TileShape'
  <2>1. Good
    BY <1>13, RaggedEndFacts, MovesShape
  <2> QED
    BY <1>3, <1>4, <1>13, <2>1 DEF RaggedEnd
<1>14. ASSUME NEW w \in Warps, ConsumeWarp(w) PROVE TileShape'
  <2>1. th' = [wl \in Threads |-> IF wl[1] = w THEN Consumed(wl) ELSE th[wl]] /\ UNCHANGED <<xs, ring, out>>
    BY <1>14 DEF ConsumeWarp
  <2>2. \A wl \in Threads : wl[1] = w => th[wl].pc = "wait"
    BY <1>14 DEF ConsumeWarp, Threads
  <2>3. Good
    BY <1>1, <2>1, <2>2, ConsumedShape
  <2> QED
    BY <1>3, <1>4, <2>1, <2>3
<1>15. ASSUME NEW w \in Warps, Reduce(w) PROVE TileShape'
  <2> DEFINE t == th[<<w, 0>>].t
             m == th[<<w, 0>>].m
  <2>1. /\ <<w, 0>> \in Threads /\ DOMAIN out' = DOMAIN out
        /\ th' = [wl \in Threads |-> IF wl[1] = w THEN Reduced(wl, t, m) ELSE th[wl]]
    BY <1>15, ReduceFacts
  <2>2. Good
    BY <1>1, <2>1, ReducedShape
  <2>3. UNCHANGED <<xs, ring>>
    BY <1>15 DEF Reduce
  <2> QED
    BY <1>3, <2>1, <2>2, <2>3 DEF TileShape
<1> QED
  BY <1>2, <1>5, <1>6, <1>7, <1>8, <1>9, <1>10, <1>11, <1>12, <1>13, <1>14, <1>15
  DEF TileNext, Terminated

-----------------------------------------------------------------------------
(* A warp starts on a run of its own residue and stays on one.             *)
LEMMA FirstTurn ==
  ASSUME req \in Tiles, NEW w \in Warps
  PROVE  w * CPC \in Nat /\ (w * CPC) \div CPC = w /\ OnTurn(w * CPC, w)
<1>1. CPC \in Nat \ {0} /\ req.warps \in Nat \ {0} /\ w \in 0 .. req.warps - 1
  BY TileFacts DEF Warps
<1>2. w * CPC + 0 \in Nat /\ (w * CPC + 0) \div CPC = w
  <2>1. w \in Nat /\ 0 \in 0 .. CPC - 1
    BY <1>1
  <2> QED
    BY <1>1, <2>1, DivisionUnique
<1>3. (0 * req.warps + w) % req.warps = w
  BY <1>1, DivisionUnique
<1>4. w * CPC + 0 = w * CPC /\ 0 * req.warps + w = w
  <2>1. w * CPC \in Nat
    BY <1>1
  <2> QED
    BY <1>1, <2>1
<1> QED
  BY <1>2, <1>3, <1>4 DEF OnTurn

LEMMA NextTurn ==
  ASSUME req \in Tiles, NEW w \in Warps, NEW t \in Nat, OnTurn(t, w)
  PROVE  /\ (t + req.warps * CPC) \div CPC = (t \div CPC) + req.warps
         /\ OnTurn(t + req.warps * CPC, w)
<1>1. CPC \in Nat \ {0} /\ req.warps \in Nat \ {0}
  BY TileFacts
<1>2. PICK q \in Nat : q = t \div CPC
  BY <1>1, DivisionOf
<1>3. t = q * CPC /\ q % req.warps = w
  BY <1>2 DEF OnTurn
<1>4. PICK p \in Nat : q = p * req.warps + w
  <2>1. q = (q \div req.warps) * req.warps + (q % req.warps) /\ q \div req.warps \in Nat
    BY <1>1, DivisionOf
  <2> QED
    BY <1>3, <2>1
<1>5. w \in 0 .. req.warps - 1 /\ w \in Nat
  BY <1>1 DEF Warps
<1>6. q + req.warps = (p + 1) * req.warps + w
  <2>1. \A d \in Nat : (p + 1) * d + w = (p * d + w) + d
    BY <1>5
  <2> QED
    BY <1>1, <1>4, <2>1
<1>7. (q + req.warps) % req.warps = w
  <2>1. p + 1 \in Nat
    OBVIOUS
  <2>2. ((p + 1) * req.warps + w) % req.warps = w
    BY <1>1, <1>5, <2>1, DivisionUnique
  <2> QED
    BY <1>6, <2>2
<1>8. t + req.warps * CPC = (q + req.warps) * CPC + 0
  BY <1>1, <1>3
<1>9. (t + req.warps * CPC) \div CPC = q + req.warps
  <2>1. q + req.warps \in Nat /\ 0 \in 0 .. CPC - 1
    BY <1>1
  <2> QED
    BY <1>1, <1>8, <2>1, DivisionUnique
<1>10. t + req.warps * CPC = (q + req.warps) * CPC
  BY <1>1, <1>3
<1> QED
  BY <1>2, <1>7, <1>9, <1>10 DEF OnTurn

(* How a step may move a thread: it stays on its row and run, starts the   *)
(* next row, or goes on with its warp.                                     *)
LEMMA Positions ==
  ASSUME TileShape, [TileNext]_tilevars, NEW wl \in Threads
  PROVE  \/ th'[wl].t = th[wl].t /\ th'[wl].m = th[wl].m
         \/ /\ th[wl].pc = "finished" \/ (th[wl].pc = "run" /\ ~ (th[wl].t < req.N_tile) /\ ~ req.smem)
            /\ th'[wl] = NextRow(wl)
         \/ /\ Reduce(wl[1]) /\ th'[wl] = Reduced(wl, th[<<wl[1], 0>>].t, th[<<wl[1], 0>>].m)
<1>1. ThreadShape(th[wl])
  BY DEF TileShape
<1>2. CASE UNCHANGED tilevars
  BY <1>2 DEF tilevars
<1>3. CASE SyncCached
  <2>1. th'[wl] = [th[wl] EXCEPT !.pc = "run"]
    BY <1>3 DEF SyncCached
  <2> QED
    BY <1>1, <2>1 DEF ThreadShape
<1>4. CASE SyncRow
  BY <1>4 DEF SyncRow
<1>5. ASSUME NEW u \in Threads, NEW s, Moves(u, s), ThreadShape(s)
      PROVE  th'[wl] = IF u = wl THEN s ELSE th[wl]
  BY <1>5, MovesShape
<1>6. ASSUME NEW u \in Threads, CacheRow(u) PROVE th'[wl].t = th[wl].t /\ th'[wl].m = th[wl].m
  <2>1. ThreadShape(th[u])
    BY DEF TileShape
  <2>2. PICK s : Moves(u, s) /\ s \in {[th[u] EXCEPT !.pc = "cached"], [th[u] EXCEPT !.pc = "run"]}
    BY <1>6 DEF CacheRow
  <2>3. ThreadShape(s) /\ s.t = th[u].t /\ s.m = th[u].m
    BY <2>1, <2>2 DEF ThreadShape, PCs
  <2> QED
    BY <1>5, <2>2, <2>3
<1>7. ASSUME NEW u \in Threads, StartRun(u)
      PROVE  \/ th'[wl].t = th[wl].t /\ th'[wl].m = th[wl].m
             \/ /\ th[wl].pc = "run" /\ ~ (th[wl].t < req.N_tile) /\ ~ req.smem
                /\ th'[wl] = NextRow(wl)
  <2>1. ThreadShape(th[u])
    BY DEF TileShape
  <2>2. PICK s :
           /\ ThreadShape(s) /\ Moves(u, s) /\ th[u].pc = "run"
           /\ \/ /\ th[u].t < req.N_tile
                 /\ s = [th[u] EXCEPT !.pc = "issue", !.ci = 0, !.acc = <<>>, !.flight = Primed(th[u].m, th[u].t)]
              \/ /\ ~ (th[u].t < req.N_tile) /\ req.smem
                 /\ s = [th[u] EXCEPT !.pc = "finished"]
              \/ /\ ~ (th[u].t < req.N_tile) /\ ~ req.smem
                 /\ s = NextRow(u)
    BY <1>7, StartRunFacts
  <2>3. \/ s.t = th[u].t /\ s.m = th[u].m
        \/ ~ (th[u].t < req.N_tile) /\ ~ req.smem /\ s = NextRow(u)
    BY <2>1, <2>2 DEF ThreadShape
  <2> QED
    BY <1>5, <2>2, <2>3
<1>8. ASSUME NEW u \in Threads, Land(u) PROVE th'[wl].t = th[wl].t /\ th'[wl].m = th[wl].m
  <2>1. ThreadShape(th[u])
    BY DEF TileShape
  <2>2. PICK i : ThreadShape([th[u] EXCEPT !.flight[i] = TRUE]) /\ Moves(u, [th[u] EXCEPT !.flight[i] = TRUE])
    BY <1>8, LandFacts
  <2>3. [th[u] EXCEPT !.flight[i] = TRUE].t = th[u].t /\ [th[u] EXCEPT !.flight[i] = TRUE].m = th[u].m
    BY <2>1 DEF ThreadShape
  <2> QED
    BY <1>5, <2>2, <2>3
<1>9. ASSUME NEW u \in Threads, Issue(u) PROVE th'[wl].t = th[wl].t /\ th'[wl].m = th[wl].m
  <2>1. ThreadShape(th[u])
    BY DEF TileShape
  <2>2. PICK f : ThreadShape([th[u] EXCEPT !.pc = "wait", !.flight = f])
                 /\ Moves(u, [th[u] EXCEPT !.pc = "wait", !.flight = f])
    BY <1>9, IssueFacts
  <2> DEFINE s == [th[u] EXCEPT !.pc = "wait", !.flight = f]
  <2>3. s.t = th[u].t /\ s.m = th[u].m
    BY <2>1 DEF ThreadShape
  <2>4. ThreadShape(s) /\ Moves(u, s)
    BY <2>2
  <2> HIDE DEF s
  <2>5. th'[wl] = IF u = wl THEN s ELSE th[wl]
    BY <1>5, <2>4
  <2> QED
    BY <2>3, <2>5
<1>10. ASSUME NEW u \in Threads, Consume(u) PROVE th'[wl].t = th[wl].t /\ th'[wl].m = th[wl].m
  <2>1. ThreadShape(th[u]) /\ th[u].pc = "wait" /\ Moves(u, Consumed(u))
    BY <1>10 DEF TileShape, Consume
  <2>2. Consumed(u).t = th[u].t /\ Consumed(u).m = th[u].m
    BY <2>1 DEF ThreadShape, Consumed
  <2>3. ThreadShape(Consumed(u))
    BY <2>1, ConsumedShape
  <2> QED
    BY <1>5, <2>1, <2>2, <2>3
<1>11. ASSUME NEW u \in Threads, RaggedEnd(u) PROVE th'[wl].t = th[wl].t /\ th'[wl].m = th[wl].m
  <2>1. ThreadShape(th[u])
    BY DEF TileShape
  <2>2. PICK a : ThreadShape([th[u] EXCEPT !.pc = "reduce", !.acc = a])
                 /\ Moves(u, [th[u] EXCEPT !.pc = "reduce", !.acc = a])
    BY <1>11, RaggedEndFacts
  <2>3. [th[u] EXCEPT !.pc = "reduce", !.acc = a].t = th[u].t /\ [th[u] EXCEPT !.pc = "reduce", !.acc = a].m = th[u].m
    BY <2>1 DEF ThreadShape
  <2> QED
    BY <1>5, <2>2, <2>3
<1>12. ASSUME NEW w \in Warps, ConsumeWarp(w) PROVE th'[wl].t = th[wl].t /\ th'[wl].m = th[wl].m
  <2>1. th'[wl] = IF wl[1] = w THEN Consumed(wl) ELSE th[wl]
    BY <1>12 DEF ConsumeWarp
  <2> QED
    BY <1>1, <2>1 DEF ThreadShape, Consumed
<1>13. ASSUME NEW w \in Warps, Reduce(w)
       PROVE  \/ th'[wl] = th[wl]
              \/ w = wl[1] /\ th'[wl] = Reduced(wl, th[<<w, 0>>].t, th[<<w, 0>>].m)
  BY <1>13, ReduceFacts
<1> QED
  BY <1>2, <1>3, <1>4, <1>6, <1>7, <1>8, <1>9, <1>10, <1>11, <1>12, <1>13 DEF TileNext, Terminated, SyncRow

LEMMA ReducedPosition ==
  ASSUME TileShape, NEW wl \in Threads, NEW t, NEW m
  PROVE  /\ Reduced(wl, t, m).pc = "run" /\ Reduced(wl, t, m).flight = <<>>
         /\ req.kind = "wmma" /\ m + 1 < req.M => Reduced(wl, t, m).t = t /\ Reduced(wl, t, m).m = m + 1
         /\ req.kind = "wmma" /\ ~ (m + 1 < req.M) =>
              Reduced(wl, t, m).t = t + req.warps * CPC /\ Reduced(wl, t, m).m = 0
         /\ req.kind # "wmma" => Reduced(wl, t, m).t = t + req.warps * CPC /\ Reduced(wl, t, m).m = m
<1>1. ThreadShape(th[wl])
  BY DEF TileShape
<1> QED
  BY <1>1 DEF ThreadShape, Reduced

LEMMA NextTurns ==
  ASSUME TileShape, Turns, [TileNext]_tilevars
  PROVE  Turns'
<1>1. req \in Tiles /\ req' = req
  BY NextShape DEF TileShape
<1>2. ASSUME NEW wl \in Threads PROVE OnTurn(th'[wl].t, wl[1])
  <2>1. CASE th'[wl].t = th[wl].t
    BY <2>1 DEF Turns
  <2>2. CASE th'[wl] = NextRow(wl)
    <3>1. OnTurn(th[wl].t, wl[1]) /\ OnTurn(wl[1] * CPC, wl[1])
      BY <1>1, FirstTurn DEF Turns, Threads
    <3>2. NextRow(wl).t \in {th[wl].t, wl[1] * CPC}
      BY NextRowShape
    <3> QED
      BY <2>2, <3>1, <3>2
  <2>3. CASE Reduce(wl[1]) /\ th'[wl] = Reduced(wl, th[<<wl[1], 0>>].t, th[<<wl[1], 0>>].m)
    <3> DEFINE t == th[<<wl[1], 0>>].t
    <3>1. wl[1] \in Warps /\ <<wl[1], 0>> \in Threads
      BY <2>3, ReduceFacts DEF Threads
    <3>2. t \in Nat /\ OnTurn(t, wl[1])
      BY <3>1 DEF Turns, TileShape, ThreadShape
    <3>3. OnTurn(t + req.warps * CPC, wl[1])
      BY <1>1, <3>1, <3>2, NextTurn
    <3>4. th'[wl].t \in {t, t + req.warps * CPC}
      BY <2>3, ReducedPosition
    <3> QED
      BY <3>2, <3>3, <3>4
  <2> QED
    BY <2>1, <2>2, <2>3, Positions
<1>3. Threads' = Threads
  BY <1>1 DEF Threads, Warps, Lanes
<1> QED
  BY <1>1, <1>2, <1>3 DEF Turns, OnTurn

(* What a step does to one thread and its slots: nothing, unless it is the *)
(* thread's own, or its warp's, or a barrier's.                            *)
Untouched(wl) ==
  th'[wl] = th[wl] /\ \A a \in Nat : ring'[<<wl[1], a % STAGES, wl[2]>>] = ring[<<wl[1], a % STAGES, wl[2]>>]

LEMMA ThreadSteps ==
  ASSUME TileShape, [TileNext]_tilevars, NEW wl \in Threads
  PROVE  \/ Untouched(wl)
         \/ SyncCached /\ th'[wl] = [th[wl] EXCEPT !.pc = "run"]
         \/ SyncRow /\ th'[wl] = NextRow(wl)
         \/ CacheRow(wl) \/ StartRun(wl) \/ Land(wl) \/ Issue(wl) \/ RaggedEnd(wl)
         \/ /\ Consume(wl) \/ ConsumeWarp(wl[1])
            /\ th[wl].pc = "wait" /\ Landed(wl) /\ th'[wl] = Consumed(wl)
         \/ Reduce(wl[1]) /\ th'[wl] = Reduced(wl, th[<<wl[1], 0>>].t, th[<<wl[1], 0>>].m)
<1>1. ThreadShape(th[wl]) /\ req \in Tiles
  BY DEF TileShape
<1>2. UNCHANGED ring /\ th'[wl] = th[wl] => Untouched(wl)
  BY DEF Untouched
<1>3. CASE UNCHANGED tilevars
  BY <1>2, <1>3 DEF tilevars
<1>4. CASE SyncCached
  BY <1>4 DEF SyncCached
<1>5. CASE SyncRow
  BY <1>5 DEF SyncRow
<1>6. ASSUME NEW u \in Threads, u # wl, NEW s, Moves(u, s)
      PROVE  th'[wl] = th[wl]
  BY <1>6 DEF Moves, TileShape
<1>7. ASSUME NEW u \in Threads, u # wl, CacheRow(u) \/ StartRun(u) \/ Issue(u) \/ Consume(u) \/ RaggedEnd(u)
      PROVE  Untouched(wl)
  <2>1. \E s : Moves(u, s)
    BY <1>7 DEF CacheRow, StartRun, Issue, Consume, RaggedEnd
  <2>2. UNCHANGED ring
    BY <1>7 DEF CacheRow, StartRun, Issue, Consume, RaggedEnd
  <2> QED
    BY <1>2, <1>6, <1>7, <2>1, <2>2
<1>8. ASSUME NEW u \in Threads, u # wl, Land(u)
      PROVE  Untouched(wl)
  <2>1. PICK i, s, g : i \in Nat /\ Moves(u, s) /\ ring' = [ring EXCEPT ![<<u[1], i % STAGES, u[2]>>] = g]
    <3>1. PICK i, s, g :
            i \in 1 .. Len(th[u].flight) /\ Moves(u, s) /\ ring' = [ring EXCEPT ![<<u[1], (i - 1) % STAGES, u[2]>>] = g]
      BY <1>8, LandFacts
    <3>2. i - 1 \in Nat
      <4>1. th[u].flight \in Seq(BOOLEAN)
        BY DEF TileShape, ThreadShape
      <4> QED
        BY <3>1, <4>1
    <3> QED
      BY <3>1, <3>2
  <2>2. ASSUME NEW a \in Nat
        PROVE  ring'[<<wl[1], a % STAGES, wl[2]>>] = ring[<<wl[1], a % STAGES, wl[2]>>]
    <3>1. <<wl[1], a % STAGES, wl[2]>> \in Slots /\ <<u[1], i % STAGES, u[2]>> \in Slots
      BY <1>1, <2>1, SlotsOfThread
    <3>2. wl[1] # u[1] \/ wl[2] # u[2]
      BY <1>8 DEF Threads
    <3>3. <<wl[1], a % STAGES, wl[2]>> # <<u[1], i % STAGES, u[2]>>
      BY <3>2
    <3> QED
      BY <2>1, <3>1, <3>3 DEF TileShape
  <2> QED
    BY <1>6, <1>8, <2>1, <2>2 DEF Untouched
<1>9. ASSUME NEW w \in Warps, ConsumeWarp(w)
      PROVE  \/ Untouched(wl)
             \/ w = wl[1] /\ th[wl].pc = "wait" /\ Landed(wl) /\ th'[wl] = Consumed(wl)
  <2>1. th'[wl] = (IF wl[1] = w THEN Consumed(wl) ELSE th[wl]) /\ UNCHANGED ring
    BY <1>9 DEF ConsumeWarp
  <2>2. CASE wl[1] = w
    <3>1. wl = <<w, wl[2]>> /\ wl[2] \in Lanes
      BY <2>2 DEF Threads
    <3>2. th[<<w, wl[2]>>].pc = "wait" /\ Landed(<<w, wl[2]>>)
      BY <1>9, <3>1 DEF ConsumeWarp
    <3> QED
      BY <2>1, <2>2, <3>1, <3>2
  <2>3. CASE wl[1] # w
    BY <1>2, <2>1, <2>3
  <2> QED
    BY <2>2, <2>3
<1>10. ASSUME NEW w \in Warps, Reduce(w)
       PROVE  \/ Untouched(wl)
              \/ w = wl[1] /\ th'[wl] = Reduced(wl, th[<<w, 0>>].t, th[<<w, 0>>].m)
  <2>1. th'[wl] = IF wl[1] = w THEN Reduced(wl, th[<<w, 0>>].t, th[<<w, 0>>].m) ELSE th[wl]
    BY <1>10, ReduceFacts
  <2>2. UNCHANGED ring
    BY <1>10 DEF Reduce
  <2> QED
    BY <1>2, <2>1, <2>2
<1>11. ASSUME Consume(wl)
       PROVE  th[wl].pc = "wait" /\ Landed(wl) /\ th'[wl] = Consumed(wl)
  BY <1>11 DEF Consume, Moves, TileShape
<1>12. CASE SyncCached \/ SyncRow \/ Terminated
  BY <1>3, <1>4, <1>5, <1>12 DEF Terminated
<1>13. ASSUME NEW u \in Threads,
              CacheRow(u) \/ StartRun(u) \/ Land(u) \/ Issue(u) \/ Consume(u) \/ RaggedEnd(u)
       PROVE  \/ Untouched(wl)
              \/ CacheRow(wl) \/ StartRun(wl) \/ Land(wl) \/ Issue(wl) \/ RaggedEnd(wl)
              \/ Consume(wl) /\ th[wl].pc = "wait" /\ Landed(wl) /\ th'[wl] = Consumed(wl)
  <2>1. CASE u = wl
    BY <1>11, <1>13, <2>1
  <2>2. CASE u # wl
    BY <1>7, <1>8, <1>13, <2>2
  <2> QED
    BY <2>1, <2>2
<1>14. CASE TileNext
  <2>1. CASE \E u \in Threads :
               CacheRow(u) \/ StartRun(u) \/ Land(u) \/ Issue(u) \/ Consume(u) \/ RaggedEnd(u)
    BY <1>13, <2>1
  <2>2. CASE \E w \in Warps : ConsumeWarp(w) \/ Reduce(w)
    BY <1>9, <1>10, <2>2
  <2> QED
    BY <1>3, <1>4, <1>5, <1>12, <1>14, <2>1, <2>2 DEF TileNext
<1> QED
  BY <1>3, <1>14

(* With a cache only SyncRow takes a thread to another row.                *)
LEMMA PhaseSteps ==
  ASSUME TileShape, InStep, [TileNext]_tilevars, NEW wl \in Threads, req.smem, ~ SyncRow
  PROVE  /\ th'[wl].m = th[wl].m
         /\ \/ th'[wl].pc = th[wl].pc
            \/ SyncCached /\ th'[wl].pc = "run"
            \/ CacheRow(wl) /\ th[wl].pc = "cache" /\ th'[wl].pc = "cached"
            \/ th[wl].pc \in Working /\ th'[wl].pc \in Working
<1>1. ThreadShape(th[wl]) /\ req \in Tiles
  BY DEF TileShape
<1>2. req.kind # "wmma"
  BY <1>1, TileFacts
<1>3. CASE Untouched(wl)
  BY <1>3 DEF Untouched
<1>4. CASE SyncCached /\ th'[wl] = [th[wl] EXCEPT !.pc = "run"]
  BY <1>1, <1>4 DEF ThreadShape
<1>5. ASSUME NEW s, Moves(wl, s) PROVE th'[wl] = s
  BY <1>5 DEF Moves, TileShape
<1>6. CASE CacheRow(wl)
  <2>1. th[wl].pc = "cache" /\ Moves(wl, [th[wl] EXCEPT !.pc = "cached"])
    BY <1>6 DEF CacheRow
  <2> QED
    BY <1>1, <1>5, <1>6, <2>1 DEF ThreadShape
<1>7. CASE StartRun(wl)
  <2>1. PICK s :
           /\ Moves(wl, s) /\ th[wl].pc = "run"
           /\ \/ s = [th[wl] EXCEPT !.pc = "issue", !.ci = 0, !.acc = <<>>, !.flight = Primed(th[wl].m, th[wl].t)]
              \/ s = [th[wl] EXCEPT !.pc = "finished"]
    BY <1>7, StartRunFacts
  <2>2. s.m = th[wl].m /\ s.pc \in {"issue", "finished"}
    BY <1>1, <2>1 DEF ThreadShape
  <2> QED
    BY <1>5, <2>1, <2>2 DEF Working
<1>8. CASE Land(wl)
  <2>1. PICK i : Moves(wl, [th[wl] EXCEPT !.flight[i] = TRUE])
    BY <1>8 DEF Land
  <2>2. [th[wl] EXCEPT !.flight[i] = TRUE].m = th[wl].m /\ [th[wl] EXCEPT !.flight[i] = TRUE].pc = th[wl].pc
    BY <1>1 DEF ThreadShape
  <2> QED
    BY <1>5, <2>1, <2>2
<1>9. CASE Issue(wl)
  <2>1. PICK f : Moves(wl, [th[wl] EXCEPT !.pc = "wait", !.flight = f]) /\ th[wl].pc = "issue"
    BY <1>9, IssueFacts
  <2>2. [th[wl] EXCEPT !.pc = "wait", !.flight = f].m = th[wl].m
        /\ [th[wl] EXCEPT !.pc = "wait", !.flight = f].pc = "wait"
    BY <1>1 DEF ThreadShape
  <2>3. th'[wl] = [th[wl] EXCEPT !.pc = "wait", !.flight = f]
    BY <1>5, <2>1
  <2> QED
    BY <2>1, <2>2, <2>3 DEF Working
<1>10. CASE RaggedEnd(wl)
  <2>1. PICK a : Moves(wl, [th[wl] EXCEPT !.pc = "reduce", !.acc = a]) /\ th[wl].pc = "issue"
    BY <1>10, RaggedEndFacts
  <2>2. [th[wl] EXCEPT !.pc = "reduce", !.acc = a].m = th[wl].m
        /\ [th[wl] EXCEPT !.pc = "reduce", !.acc = a].pc = "reduce"
    BY <1>1 DEF ThreadShape
  <2>3. th'[wl] = [th[wl] EXCEPT !.pc = "reduce", !.acc = a]
    BY <1>5, <2>1
  <2> QED
    BY <2>1, <2>2, <2>3 DEF Working
<1>11. CASE th[wl].pc = "wait" /\ th'[wl] = Consumed(wl)
  <2>1. Consumed(wl).m = th[wl].m /\ Consumed(wl).pc = "issue"
    BY <1>1 DEF ThreadShape, Consumed
  <2> QED
    BY <1>11, <2>1 DEF Working
<1>12. CASE Reduce(wl[1]) /\ th'[wl] = Reduced(wl, th[<<wl[1], 0>>].t, th[<<wl[1], 0>>].m)
  <2>1. <<wl[1], 0>> \in Threads /\ th[wl].pc = "reduce"
    <3>1. wl[1] \in Warps /\ wl[2] \in Lanes /\ wl = <<wl[1], wl[2]>>
      BY DEF Threads
    <3> QED
      BY <1>12, <3>1, ReduceFacts
  <2>2. th[<<wl[1], 0>>].m = th[wl].m
    BY <2>1 DEF InStep
  <2>3. th'[wl].m = th[wl].m /\ th'[wl].pc = "run"
    BY <1>2, <1>12, <2>2, ReducedPosition
  <2> QED
    BY <2>1, <2>3 DEF Working
<1> QED
  BY <1>3, <1>4, <1>6, <1>7, <1>8, <1>9, <1>10, <1>11, <1>12, ThreadSteps

LEMMA NextInStep ==
  ASSUME TileShape, InStep, [TileNext]_tilevars
  PROVE  InStep'
<1>1. req \in Tiles /\ req' = req /\ Threads' = Threads
  BY NextShape DEF TileShape, Threads, Warps, Lanes
<1> SUFFICES ASSUME req.smem
             PROVE  /\ \A a, b \in Threads : th'[a].m = th'[b].m
                    /\ \/ \A wl \in Threads : th'[wl].pc \in {"cache", "cached"}
                       \/ \A wl \in Threads : th'[wl].pc \in Working
                       \/ \A wl \in Threads : th'[wl].pc = "done"
  BY <1>1 DEF InStep
<1>2. /\ \A a, b \in Threads : th[a].m = th[b].m
      /\ \/ \A wl \in Threads : th[wl].pc \in {"cache", "cached"}
         \/ \A wl \in Threads : th[wl].pc \in Working
         \/ \A wl \in Threads : th[wl].pc = "done"
  BY DEF InStep
<1>3. CASE SyncRow
  <2>1. \A wl \in Threads : th'[wl] = NextRow(wl)
    BY <1>3 DEF SyncRow
  <2>2. CASE \E a \in Threads : NextRow(a).pc = "cache"
    <3>1. \A a \in Threads : NextRow(a).pc = "cache" /\ NextRow(a).m = th[a].m + 1
      <4>1. PICK b \in Threads : NextRow(b).pc = "cache"
        BY <2>2
      <4>2. req.kind # "wmma" /\ th[b].m + 1 < req.M
        BY <4>1, NextRowShape
      <4>3. ASSUME NEW a \in Threads PROVE NextRow(a).pc = "cache" /\ NextRow(a).m = th[a].m + 1
        <5>1. th[a].m + 1 < req.M
          BY <1>2, <4>2
        <5>2. NextRow(a) = [th[a] EXCEPT !.pc = "cache", !.m = th[a].m + 1, !.t = a[1] * CPC]
          BY <4>2, <5>1 DEF NextRow
        <5>3. ThreadShape(th[a])
          BY DEF TileShape
        <5> QED
          BY <5>2, <5>3 DEF ThreadShape
      <4> QED
        BY <4>3
    <3> QED
      BY <1>2, <2>1, <3>1
  <2>3. CASE ~ \E a \in Threads : NextRow(a).pc = "cache"
    <3>1. \A a \in Threads : NextRow(a).pc = "done" /\ NextRow(a).m = th[a].m
      BY <2>3, NextRowShape
    <3> QED
      BY <1>2, <2>1, <3>1
  <2> QED
    BY <2>2, <2>3
<1>4. CASE ~ SyncRow
  <2>1. \A a, b \in Threads : th'[a].m = th'[b].m
    BY <1>2, <1>4, PhaseSteps
  <2>2. CASE SyncCached
    <3>1. \A wl \in Threads : ThreadShape(th[wl]) /\ th'[wl] = [th[wl] EXCEPT !.pc = "run"]
      BY <2>2 DEF SyncCached, TileShape
    <3>2. \A wl \in Threads : th'[wl].pc = "run"
      BY <3>1 DEF ThreadShape
    <3> QED
      BY <2>1, <3>2 DEF Working
  <2>3. CASE ~ SyncCached
    <3>1. \A wl \in Threads : \/ th'[wl].pc = th[wl].pc
                              \/ th[wl].pc = "cache" /\ th'[wl].pc = "cached"
                              \/ th[wl].pc \in Working /\ th'[wl].pc \in Working
      BY <1>4, <2>3, PhaseSteps
    <3> QED
      BY <1>2, <2>1, <3>1 DEF Working
  <2> QED
    BY <2>2, <2>3
<1> QED
  BY <1>3, <1>4

LEMMA NextShareCached ==
  ASSUME TileShape, InStep, ShareCached, [TileNext]_tilevars
  PROVE  ShareCached'
<1>1. req \in Tiles /\ req' = req /\ Threads' = Threads /\ Ks' = Ks
  BY NextShape DEF TileShape, Threads, Warps, Lanes, Ks
<1> SUFFICES ASSUME req.smem, NEW wl \in Threads, th'[wl].pc \in {"cached"} \cup Working, NEW k \in Ks,
                    k % (req.warps * req.lanes) = wl[1] * req.lanes + wl[2]
             PROVE  xs'[k] = th'[wl].m
  BY <1>1 DEF ShareCached, Working
<1>2. CASE SyncRow
  <2>1. th'[wl].pc \in {"cache", "done"}
    BY <1>2, NextRowShape DEF SyncRow
  <2> QED
    BY <2>1 DEF Working
<1>3. CASE ~ SyncRow
  <2>1. th'[wl].m = th[wl].m
    BY <1>3, PhaseSteps
  <2>2. CASE CacheRow(wl)
    BY <2>1, <2>2 DEF CacheRow
  <2>3. CASE ~ CacheRow(wl)
    <3>1. th[wl].pc \in {"cached"} \cup Working
      <4>1. CASE SyncCached
        BY <4>1 DEF SyncCached
      <4>2. CASE ~ SyncCached
        BY <1>3, <2>3, <4>2, PhaseSteps
      <4> QED
        BY <4>1, <4>2
    <3>2. xs[k] = th[wl].m
      BY <3>1 DEF ShareCached
    <3>3. xs'[k] = xs[k] \/ \E u \in Threads : xs'[k] = th[u].m
      <4>1. ASSUME NEW u \in Threads, CacheRow(u) PROVE xs'[k] = xs[k] \/ xs'[k] = th[u].m
        BY <4>1 DEF CacheRow
      <4>2. (\E u \in Threads : CacheRow(u)) \/ UNCHANGED xs
        BY DEF TileNext, tilevars, SyncCached, SyncRow, Terminated, StartRun, Land, Issue, Consume,
           RaggedEnd, ConsumeWarp, Reduce
      <4> QED
        BY <4>1, <4>2
    <3> QED
      BY <2>1, <3>2, <3>3 DEF InStep
  <2> QED
    BY <2>2, <2>3
<1> QED
  BY <1>2, <1>3

(* While a block works on a row the whole row is cached.                   *)
LEMMA RowCached ==
  ASSUME TileShape, InStep, ShareCached, req.smem, NEW wl \in Threads, th[wl].pc \in Working, NEW k \in Ks
  PROVE  xs[k] = th[wl].m
<1>1. req \in Tiles /\ req.warps \in Nat \ {0} /\ req.lanes \in Nat \ {0} /\ k \in Nat
  BY TileFacts DEF TileShape, Ks
<1> DEFINE W == req.warps
           L == req.lanes
           r == k % (W * L)
<1>2. W * L \in Nat \ {0}
  BY <1>1
<1>3. r \in 0 .. W * L - 1
  BY <1>1, <1>2, DivisionOf
<1>4. PICK q \in Nat, s \in 0 .. L - 1 : r = q * L + s
  <2>1. r \in Nat
    BY <1>3
  <2> HIDE DEF r
  <2>2. r = (r \div L) * L + (r % L) /\ r \div L \in Nat /\ r % L \in 0 .. L - 1
    BY <1>1, <2>1, DivisionOf
  <2> QED
    BY <2>2
<1>5. q < W
  <2> SUFFICES ASSUME ~ (q < W) PROVE FALSE
    OBVIOUS
  <2>1. (W - 1) * L + L <= q * L
    BY <1>1, MultiplesApart
  <2>2. (W - 1) * L + L = W * L
    BY <1>1
  <2>3. q * L \in Nat /\ W * L \in Nat
    BY <1>1
  <2> QED
    BY <1>1, <1>2, <1>3, <1>4, <2>1, <2>2, <2>3
<1> DEFINE u == <<q, s>>
<1>6. u \in Threads
  BY <1>1, <1>4, <1>5 DEF Threads, Warps, Lanes
<1>7. th[u].pc \in Working
  BY <1>6 DEF InStep, Working
<1>8. xs[k] = th[u].m
  BY <1>4, <1>6, <1>7 DEF ShareCached
<1> QED
  BY <1>6, <1>8 DEF InStep

LEMMA NextEnded ==
  ASSUME TileShape, Ended, [TileNext]_tilevars
  PROVE  Ended'
<1>1. req \in Tiles /\ req' = req /\ Threads' = Threads
  BY NextShape DEF TileShape, Threads, Warps, Lanes
<1> SUFFICES ASSUME NEW wl \in Threads
             PROVE  /\ th'[wl].pc \in {"finished", "done"} => th'[wl].t >= req.N_tile
                    /\ th'[wl].pc = "done" /\ req.kind # "wmma" => th'[wl].m = req.M - 1
  BY <1>1 DEF Ended
<1>2. ThreadShape(th[wl]) /\ req.N_tile \in Nat
  BY <1>1, TileFacts DEF TileShape
<1>3. ASSUME NEW s, Moves(wl, s) PROVE th'[wl] = s
  BY <1>3 DEF Moves, TileShape
<1>4. CASE Untouched(wl)
  BY <1>4 DEF Untouched, Ended
<1>5. CASE th'[wl] = NextRow(wl) /\ th[wl].t >= req.N_tile
  BY <1>5, NextRowShape
<1>6. CASE SyncRow /\ th'[wl] = NextRow(wl)
  <2>1. th[wl].t >= req.N_tile
    BY <1>6 DEF SyncRow, Ended
  <2> QED
    BY <1>5, <1>6, <2>1
<1>7. CASE StartRun(wl)
  <2>1. PICK s :
           /\ Moves(wl, s)
           /\ \/ s = [th[wl] EXCEPT !.pc = "issue", !.ci = 0, !.acc = <<>>, !.flight = Primed(th[wl].m, th[wl].t)]
              \/ ~ (th[wl].t < req.N_tile) /\ s = [th[wl] EXCEPT !.pc = "finished"]
              \/ ~ (th[wl].t < req.N_tile) /\ s = NextRow(wl)
    BY <1>7, StartRunFacts
  <2>2. ~ (th[wl].t < req.N_tile) => th[wl].t >= req.N_tile
    BY <1>2 DEF ThreadShape
  <2>3. CASE s = [th[wl] EXCEPT !.pc = "issue", !.ci = 0, !.acc = <<>>, !.flight = Primed(th[wl].m, th[wl].t)]
    <3>1. s.pc = "issue"
      BY <1>2, <2>3 DEF ThreadShape
    <3> QED
      BY <1>3, <2>1, <3>1
  <2>4. CASE ~ (th[wl].t < req.N_tile) /\ s = [th[wl] EXCEPT !.pc = "finished"]
    <3>1. s.pc = "finished" /\ s.t = th[wl].t
      BY <1>2, <2>4 DEF ThreadShape
    <3> QED
      BY <1>3, <2>1, <2>2, <2>4, <3>1
  <2> QED
    BY <1>3, <1>5, <2>1, <2>2, <2>3, <2>4
<1>8. CASE SyncCached /\ th'[wl] = [th[wl] EXCEPT !.pc = "run"]
  BY <1>2, <1>8 DEF ThreadShape
<1>9. CASE CacheRow(wl)
  <2>1. PICK s : Moves(wl, s) /\ s \in {[th[wl] EXCEPT !.pc = "cached"], [th[wl] EXCEPT !.pc = "run"]}
    BY <1>9 DEF CacheRow
  <2>2. s.pc \in {"cached", "run"}
    BY <1>2, <2>1 DEF ThreadShape
  <2> QED
    BY <1>3, <2>1, <2>2
<1>10. CASE Land(wl)
  <2>1. PICK i : Moves(wl, [th[wl] EXCEPT !.flight[i] = TRUE])
    BY <1>10 DEF Land
  <2>2. LET s == [th[wl] EXCEPT !.flight[i] = TRUE]
        IN  s.m = th[wl].m /\ s.t = th[wl].t /\ s.pc = th[wl].pc
    BY <1>2 DEF ThreadShape
  <2> QED
    BY <1>3, <2>1, <2>2 DEF Ended
<1>11. CASE Issue(wl)
  <2>1. PICK f : Moves(wl, [th[wl] EXCEPT !.pc = "wait", !.flight = f])
    BY <1>11, IssueFacts
  <2>2. [th[wl] EXCEPT !.pc = "wait", !.flight = f].pc = "wait"
    BY <1>2 DEF ThreadShape
  <2>3. th'[wl] = [th[wl] EXCEPT !.pc = "wait", !.flight = f]
    BY <1>3, <2>1
  <2> QED
    BY <2>2, <2>3
<1>12. CASE RaggedEnd(wl)
  <2>1. PICK a : Moves(wl, [th[wl] EXCEPT !.pc = "reduce", !.acc = a])
    BY <1>12, RaggedEndFacts
  <2>2. [th[wl] EXCEPT !.pc = "reduce", !.acc = a].pc = "reduce"
    BY <1>2 DEF ThreadShape
  <2>3. th'[wl] = [th[wl] EXCEPT !.pc = "reduce", !.acc = a]
    BY <1>3, <2>1
  <2> QED
    BY <2>2, <2>3
<1>13. CASE th[wl].pc = "wait" /\ th'[wl] = Consumed(wl)
  <2>1. Consumed(wl).pc = "issue"
    BY <1>2 DEF ThreadShape, Consumed
  <2> QED
    BY <1>13, <2>1
<1>14. CASE Reduce(wl[1]) /\ th'[wl] = Reduced(wl, th[<<wl[1], 0>>].t, th[<<wl[1], 0>>].m)
  <2>1. th'[wl].pc = "run"
    BY <1>14, ReducedPosition
  <2> QED
    BY <2>1
<1> QED
  BY <1>4, <1>6, <1>7, <1>8, <1>9, <1>10, <1>11, <1>12, <1>13, <1>14, ThreadSteps

-----------------------------------------------------------------------------
LEMMA SeqAppend ==
  ASSUME NEW s, NEW n \in Nat, NEW r, NEW e, DOMAIN s = 1 .. n, DOMAIN r = 1 .. n + 1, s = [i \in 1 .. n |-> s[i]],
         r = [i \in 1 .. n + 1 |-> r[i]], \A i \in 1 .. n : r[i] = s[i], r[n + 1] = e
  PROVE  Append(s, e) = r
<1> DEFINE S == {s[i] : i \in 1 .. n} \cup {e}
<1>1. s \in Seq(S) /\ Len(s) = n
  <2>1. s \in [1 .. n -> S]
    OBVIOUS
  <2> QED
    BY <2>1
<1>2. /\ Append(s, e) \in Seq(S) /\ Len(Append(s, e)) = n + 1
      /\ \A i \in 1 .. n : Append(s, e)[i] = s[i]
      /\ Append(s, e)[n + 1] = e
  BY <1>1, AppendProperties
<1>3. Append(s, e) = [i \in 1 .. n + 1 |-> Append(s, e)[i]]
  BY <1>2
<1>4. \A i \in 1 .. n + 1 : Append(s, e)[i] = r[i]
  <2>1. \A i \in 1 .. n + 1 : i \in 1 .. n \/ i = n + 1
    OBVIOUS
  <2> QED
  BY <1>2, <2>1
<1> QED
  BY <1>3, <1>4

LEMMA ShareGrows ==
  ASSUME NEW m, NEW t, NEW l, NEW n \in Nat
  PROVE  Append(Share(m, t, l, n), [k |-> n * req.lanes + l, x |-> m, w |-> <<t, n * req.lanes + l>>]) = Share(m, t, l, n + 1)
<1> DEFINE e == [k |-> n * req.lanes + l, x |-> m, w |-> <<t, n * req.lanes + l>>]
<1>1. \A i \in 1 .. n : Share(m, t, l, n + 1)[i] = Share(m, t, l, n)[i]
  BY DEF Share
<1>2. Share(m, t, l, n + 1)[n + 1] = e
  <2>1. n + 1 \in 1 .. n + 1 /\ (n + 1) - 1 = n
    OBVIOUS
  <2> QED
    BY <2>1 DEF Share
<1>3. /\ DOMAIN Share(m, t, l, n) = 1 .. n /\ DOMAIN Share(m, t, l, n + 1) = 1 .. n + 1
      /\ Share(m, t, l, n) = [i \in 1 .. n |-> Share(m, t, l, n)[i]]
      /\ Share(m, t, l, n + 1) = [i \in 1 .. n + 1 |-> Share(m, t, l, n + 1)[i]]
  BY DEF Share
<1> HIDE DEF e
<1>4. Append(Share(m, t, l, n), e) = Share(m, t, l, n + 1)
  BY <1>1, <1>2, <1>3, SeqAppend
<1> QED
  BY <1>4 DEF e

LEMMA IdlePiped ==
  ASSUME NEW wl, NEW s, NEW held, s.pc \notin {"issue", "wait", "reduce"}, \A i \in 1 .. Len(s.flight) : s.flight[i]
  PROVE  PipedAs(wl, s, held)
BY DEF PipedAs

(* The ring never holds more than STAGES chunks a lane has not consumed.   *)
LEMMA FlightFits ==
  ASSUME TileShape, NEW wl \in Threads, PipedAs(wl, th[wl], ring), th[wl].pc \in {"issue", "wait"}
  PROVE  /\ Len(th[wl].flight) \in Nat /\ th[wl].ci \in Nat
         /\ Len(th[wl].flight) = InFlight(th[wl])
         /\ Len(th[wl].flight) <= th[wl].ci + STAGES
         /\ Len(th[wl].flight) <= Chunks
<1>1. req \in Tiles /\ ThreadShape(th[wl])
  BY DEF TileShape
<1>2. th[wl].flight \in Seq(BOOLEAN) /\ th[wl].ci \in 0 .. Chunks /\ Chunks \in Nat
  BY <1>1, TileFacts DEF ThreadShape
<1>3. Len(th[wl].flight) \in Nat /\ th[wl].ci \in Nat
  BY <1>2
<1>4. Len(th[wl].flight) = InFlight(th[wl])
  BY DEF PipedAs
<1>5. STAGES \in Nat \ {0} /\ AHEAD = STAGES - 1
  BY <1>1, TileFacts
<1>6. InFlight(th[wl]) <= th[wl].ci + STAGES /\ InFlight(th[wl]) <= Chunks
  BY <1>2, <1>3, <1>5 DEF InFlight, AtMost
<1> QED
  BY <1>3, <1>4, <1>6

LEMMA LandPiped ==
  ASSUME TileShape, NEW wl \in Threads, PipedAs(wl, th[wl], ring), Land(wl)
  PROVE  PipedAs(wl, th'[wl], ring')
<1>1. req \in Tiles /\ ThreadShape(th[wl])
  BY DEF TileShape
<1>2. PICK i \in 1 .. Len(th[wl].flight) :
        /\ ~ th[wl].flight[i] /\ Moves(wl, [th[wl] EXCEPT !.flight[i] = TRUE])
        /\ ring' = [ring EXCEPT ![<<wl[1], (i - 1) % STAGES, wl[2]>>] =
                      [m |-> th[wl].m, t |-> th[wl].t, k |-> (i - 1) * req.lanes + wl[2]]]
  BY LandFacts
<1> DEFINE f == [th[wl].flight EXCEPT ![i] = TRUE]
           s == [th[wl] EXCEPT !.flight = f]
<1>3. th'[wl] = s
  BY <1>2 DEF Moves, TileShape
<1>4. s.pc = th[wl].pc /\ s.t = th[wl].t /\ s.m = th[wl].m /\ s.ci = th[wl].ci /\ s.acc = th[wl].acc /\ s.flight = f
  BY <1>1 DEF ThreadShape
<1>5. th[wl].pc \in {"issue", "wait"}
  BY <1>2 DEF PipedAs
<1>6. th[wl].flight \in Seq(BOOLEAN) /\ Len(f) = Len(th[wl].flight)
      /\ f[i] = TRUE /\ \A j \in 1 .. Len(f) : j # i => f[j] = th[wl].flight[j]
  <2>1. th[wl].flight \in Seq(BOOLEAN)
    BY <1>1 DEF ThreadShape
  <2> QED
    BY <1>2, <2>1
<1>7. InFlight(s) = InFlight(th[wl])
  BY <1>4 DEF InFlight
<1>8. i > th[wl].ci
  BY <1>2, <1>5, FlightFits DEF PipedAs
<1>9. ASSUME NEW j \in 1 .. Len(f), j > th[wl].ci, f[j]
      PROVE  ring'[<<wl[1], (j - 1) % STAGES, wl[2]>>] =
               [m |-> th[wl].m, t |-> th[wl].t, k |-> (j - 1) * req.lanes + wl[2]]
  <2>1. Len(th[wl].flight) \in Nat /\ th[wl].ci \in Nat /\ Len(th[wl].flight) <= th[wl].ci + STAGES
        /\ STAGES \in Nat \ {0}
    BY <1>1, <1>5, FlightFits, TileFacts
  <2>2. i - 1 \in Nat /\ j - 1 \in Nat /\ j \in 1 .. Len(th[wl].flight)
    BY <1>6, <2>1
  <2>3. <<wl[1], (i - 1) % STAGES, wl[2]>> \in Slots /\ <<wl[1], (j - 1) % STAGES, wl[2]>> \in Slots
    BY <1>1, <2>2, SlotsOfThread
  <2>4. CASE j = i
    BY <1>2, <2>3, <2>4 DEF TileShape
  <2>5. CASE j # i
    <3>1. (i - 1) % STAGES # (j - 1) % STAGES
      <4>1. \/ i - 1 < j - 1 /\ j - 1 < (i - 1) + STAGES
            \/ j - 1 < i - 1 /\ i - 1 < (j - 1) + STAGES
        BY <1>8, <1>9, <2>1, <2>2, <2>5
      <4> QED
        BY <2>1, <2>2, <4>1, RemaindersApart
    <3>2. ring'[<<wl[1], (j - 1) % STAGES, wl[2]>>] = ring[<<wl[1], (j - 1) % STAGES, wl[2]>>]
      BY <1>2, <2>3, <3>1 DEF TileShape
    <3>3. th[wl].flight[j]
      BY <1>6, <1>9, <2>5
    <3> QED
      BY <1>5, <1>9, <2>2, <3>2, <3>3 DEF PipedAs
  <2> QED
    BY <2>4, <2>5
<1>10. \A j \in 1 .. Len(f) : j <= th[wl].ci => f[j]
  BY <1>5, <1>6 DEF PipedAs
<1>11. PipedAs(wl, s, ring')
  <2> HIDE DEF f, s
  <2> QED
    BY <1>4, <1>5, <1>6, <1>7, <1>9, <1>10 DEF PipedAs
<1> QED
  BY <1>3, <1>11

LEMMA IssuePiped ==
  ASSUME TileShape, NEW wl \in Threads, PipedAs(wl, th[wl], ring), Issue(wl)
  PROVE  PipedAs(wl, th'[wl], ring')
<1>1. req \in Tiles /\ ThreadShape(th[wl])
  BY DEF TileShape
<1> DEFINE more == Staged(th[wl].m, th[wl].t) /\ th[wl].ci + AHEAD < Chunks
           f == IF more THEN Append(th[wl].flight, FALSE) ELSE th[wl].flight
           s == [th[wl] EXCEPT !.pc = "wait", !.flight = f]
<1>2. th[wl].pc = "issue" /\ th[wl].ci < Chunks /\ Moves(wl, s)
  BY IssueFacts
<1>3. th'[wl] = s /\ ring' = ring
  BY <1>2 DEF Moves, TileShape, Issue
<1>4. s.pc = "wait" /\ s.t = th[wl].t /\ s.m = th[wl].m /\ s.ci = th[wl].ci /\ s.acc = th[wl].acc /\ s.flight = f
  BY <1>1 DEF ThreadShape
<1>5. /\ Len(th[wl].flight) \in Nat /\ th[wl].ci \in Nat /\ Len(th[wl].flight) = InFlight(th[wl])
      /\ AHEAD \in Nat /\ Chunks \in Nat
  BY <1>1, <1>2, FlightFits, TileFacts
<1>6. th[wl].flight \in Seq(BOOLEAN)
  BY <1>1 DEF ThreadShape
<1>7. /\ Len(f) = Len(th[wl].flight) + (IF more THEN 1 ELSE 0)
      /\ (\A j \in 1 .. Len(th[wl].flight) : f[j] = th[wl].flight[j])
      /\ more => f[Len(th[wl].flight) + 1] = FALSE
  <2>1. CASE more
    <3>1. f = Append(th[wl].flight, FALSE)
      BY <2>1
    <3>2. FALSE \in BOOLEAN
      OBVIOUS
    <3> HIDE DEF f, more
    <3>3. /\ Len(f) = Len(th[wl].flight) + 1
          /\ \A j \in 1 .. Len(th[wl].flight) : f[j] = th[wl].flight[j]
          /\ f[Len(th[wl].flight) + 1] = FALSE
      BY <1>6, <3>1, <3>2, AppendProperties
    <3> QED
      BY <2>1, <3>3
  <2>2. CASE ~ more
    <3>1. f = th[wl].flight
      BY <2>2
    <3> HIDE DEF f, more
    <3> QED
      BY <1>5, <2>2, <3>1
  <2> QED
    BY <2>1, <2>2
<1>8. Len(f) = InFlight(s)
  <2>1. InFlight(s) = IF Staged(th[wl].m, th[wl].t) THEN AtMost(th[wl].ci + AHEAD + 1, Chunks) ELSE 0
    BY <1>4 DEF InFlight
  <2>2. InFlight(th[wl]) = IF Staged(th[wl].m, th[wl].t) THEN AtMost(th[wl].ci + AHEAD + 0, Chunks) ELSE 0
    BY <1>2 DEF InFlight
  <2>3. CASE more
    <3>1. Len(f) = Len(th[wl].flight) + 1
      BY <1>7, <2>3
    <3>2. InFlight(s) = th[wl].ci + AHEAD + 1 /\ InFlight(th[wl]) = th[wl].ci + AHEAD
      BY <1>5, <2>1, <2>2, <2>3 DEF AtMost
    <3> QED
      BY <1>5, <3>1, <3>2
  <2>4. CASE ~ more
    <3>1. Len(f) = Len(th[wl].flight)
      BY <2>4
    <3>2. InFlight(s) = InFlight(th[wl])
      BY <1>5, <2>1, <2>2, <2>4 DEF AtMost
    <3> QED
      BY <1>5, <3>1, <3>2
  <2> QED
    BY <2>3, <2>4
<1>9. ASSUME NEW j \in 1 .. Len(f)
      PROVE  \/ j \in 1 .. Len(th[wl].flight) /\ f[j] = th[wl].flight[j]
             \/ j > th[wl].ci /\ f[j] = FALSE
  <2>1. CASE more
    <3>1. Len(f) = Len(th[wl].flight) + 1 /\ f[Len(th[wl].flight) + 1] = FALSE
      BY <1>7, <2>1
    <3>2. j \in 1 .. Len(th[wl].flight) \/ j = Len(th[wl].flight) + 1
      BY <1>5, <3>1
    <3>3. Len(th[wl].flight) = th[wl].ci + AHEAD
      BY <1>2, <1>5, <2>1 DEF InFlight, AtMost
    <3>4. Len(th[wl].flight) + 1 > th[wl].ci
      BY <1>5, <3>3
    <3> HIDE DEF f, more
    <3>5. CASE j \in 1 .. Len(th[wl].flight)
      BY <1>7, <3>5
    <3>6. CASE j = Len(th[wl].flight) + 1
      BY <3>1, <3>4, <3>6
    <3> QED
      BY <3>2, <3>5, <3>6
  <2>2. CASE ~ more
    <3>1. f = th[wl].flight
      BY <2>2
    <3> HIDE DEF f
    <3> QED
      BY <3>1
  <2> QED
    BY <2>1, <2>2
<1>10. th[wl].t < req.N_tile /\ th[wl].acc = Share(th[wl].m, th[wl].t, wl[2], th[wl].ci)
  BY <1>2 DEF PipedAs
<1>11. ASSUME NEW j \in 1 .. Len(f), j <= th[wl].ci PROVE f[j]
  <2>1. Len(f) \in Nat
    BY <1>5, <1>7
  <2>2. j \in Nat
    BY <2>1
  <2> HIDE DEF f
  <2>3. j \in 1 .. Len(th[wl].flight) /\ f[j] = th[wl].flight[j]
    <3>1. ~ (j > th[wl].ci)
      BY <1>5, <1>11, <2>2
    <3> QED
      BY <1>9, <3>1
  <2>4. th[wl].flight[j]
    BY <1>2, <1>11, <2>3 DEF PipedAs
  <2> QED
    BY <2>3, <2>4
<1>12. ASSUME NEW j \in 1 .. Len(f), j > th[wl].ci, f[j]
       PROVE  ring[<<wl[1], (j - 1) % STAGES, wl[2]>>] =
               [m |-> th[wl].m, t |-> th[wl].t, k |-> (j - 1) * req.lanes + wl[2]]
  <2> HIDE DEF f
  <2> QED
    BY <1>2, <1>9, <1>12 DEF PipedAs
<1>13. PipedAs(wl, s, ring)
  <2> HIDE DEF f, s
  <2> QED
    BY <1>4, <1>8, <1>10, <1>11, <1>12 DEF PipedAs
<1> QED
  BY <1>3, <1>13

(* What a lane reads directly are the factors of its own run and row.      *)
LEMMA DirectFactors ==
  ASSUME TileShape, InStep, ShareCached, NEW wl \in Threads, th[wl].pc \in Working, NEW k \in Ks
  PROVE  Direct(wl, k) = [k |-> k, x |-> th[wl].m, w |-> <<th[wl].t, k>>]
<1>1. req.smem => xs[k] = th[wl].m
  BY RowCached
<1> QED
  BY <1>1 DEF Direct

LEMMA ProductFactors ==
  ASSUME TileShape, InStep, ShareCached, NEW wl \in Threads, PipedAs(wl, th[wl], ring), th[wl].pc = "wait", Landed(wl)
  PROVE  LET k == th[wl].ci * req.lanes + wl[2]
         IN  Product(wl) = [k |-> k, x |-> th[wl].m, w |-> <<th[wl].t, k>>]
<1> DEFINE k == th[wl].ci * req.lanes + wl[2]
<1>1. req \in Tiles /\ ThreadShape(th[wl]) /\ th[wl].pc \in Working
  BY DEF TileShape, Working
<1>2. th[wl].ci \in 0 .. Chunks /\ th[wl].ci < Chunks /\ th[wl].m \in Nat /\ th[wl].t \in Nat
  BY <1>1 DEF ThreadShape
<1>3. /\ Chunks \in Nat /\ Chunks * req.lanes \in Nat /\ Chunks * req.lanes <= req.K
      /\ req.lanes \in Nat \ {0} /\ req.K \in Nat /\ AHEAD \in Nat /\ STAGES \in Nat \ {0}
  BY <1>1, TileFacts
<1>4. wl[2] \in 0 .. req.lanes - 1
  BY DEF Threads, Lanes
<1>5. k \in Ks
  <2>1. th[wl].ci * req.lanes + req.lanes <= Chunks * req.lanes
    BY <1>2, <1>3, MultiplesApart
  <2>2. th[wl].ci \in Nat
    BY <1>2, <1>3
  <2>3. th[wl].ci * req.lanes \in Nat
    BY <1>3, <2>2
  <2> QED
    BY <1>3, <1>4, <2>1, <2>3 DEF Ks
<1>6. CASE ~ Staged(th[wl].m, th[wl].t)
  <2>1. Product(wl) = Direct(wl, k)
    BY <1>6 DEF Product
  <2> QED
    BY <1>1, <1>5, <2>1, DirectFactors
<1>7. CASE Staged(th[wl].m, th[wl].t)
  <2> DEFINE held == ring[<<wl[1], th[wl].ci % STAGES, wl[2]>>]
             i == th[wl].ci + 1
  <2>1. Len(th[wl].flight) = AtMost(th[wl].ci + AHEAD + 1, Chunks) /\ Len(th[wl].flight) \in Nat
    BY <1>7, FlightFits DEF InFlight
  <2>2. th[wl].ci \in Nat
    BY <1>2, <1>3
  <2>3. i <= Len(th[wl].flight) /\ i \in Nat
    <3>1. i \in Nat /\ i <= Chunks
      BY <1>2, <1>3, <2>2
    <3>2. i <= th[wl].ci + AHEAD + 1
      BY <1>3, <2>2
    <3> HIDE DEF i
    <3> QED
      BY <2>1, <3>1, <3>2 DEF AtMost
  <2>4. i \in 1 .. AtMost(th[wl].ci + 1, Len(th[wl].flight)) /\ i \in 1 .. Len(th[wl].flight)
    BY <2>1, <2>2, <2>3 DEF AtMost
  <2>5. th[wl].flight[i]
    BY <2>4 DEF Landed
  <2>6. ring[<<wl[1], (i - 1) % STAGES, wl[2]>>] =
          [m |-> th[wl].m, t |-> th[wl].t, k |-> (i - 1) * req.lanes + wl[2]]
    <3>1. i > th[wl].ci
      BY <2>2
    <3> HIDE DEF i
    <3> QED
      BY <2>4, <2>5, <3>1 DEF PipedAs
  <2>7. i - 1 = th[wl].ci
    BY <2>2
  <2>8. held = [m |-> th[wl].m, t |-> th[wl].t, k |-> k]
    <3> HIDE DEF i
    <3> QED
      BY <2>6, <2>7
  <2>9. k \in Nat
    BY <1>3, <1>5 DEF Ks
  <2>10. held \in [m : Nat, t : Nat, k : Nat]
    <3> HIDE DEF k, held
    <3> QED
      BY <1>2, <2>8, <2>9
  <2>11. held # None
    BY <2>10, RunAssumption
  <2>12. Product(wl) = [k |-> k, x |-> IF req.smem THEN xs[k] ELSE held.m, w |-> <<held.t, held.k>>]
    BY <1>7, <2>11 DEF Product
  <2>13. req.smem => xs[k] = th[wl].m
    BY <1>1, <1>5, RowCached
  <2>14. Product(wl) = [k |-> k, x |-> th[wl].m, w |-> <<th[wl].t, k>>]
    <3> HIDE DEF k, held
    <3> QED
      BY <2>8, <2>12, <2>13
  <2> QED
    BY <2>14
<1> QED
  BY <1>6, <1>7

LEMMA ConsumedPiped ==
  ASSUME TileShape, InStep, ShareCached, NEW wl \in Threads, PipedAs(wl, th[wl], ring), th[wl].pc = "wait", Landed(wl)
  PROVE  PipedAs(wl, Consumed(wl), ring)
<1>1. req \in Tiles /\ ThreadShape(th[wl])
  BY DEF TileShape
<1> DEFINE s == Consumed(wl)
           k == th[wl].ci * req.lanes + wl[2]
<1>2. /\ s.pc = "issue" /\ s.t = th[wl].t /\ s.m = th[wl].m /\ s.ci = th[wl].ci + 1 /\ s.flight = th[wl].flight
      /\ s.acc = Append(th[wl].acc, Product(wl))
  BY <1>1 DEF Consumed, ThreadShape
<1>3. th[wl].ci < Chunks /\ AHEAD \in Nat /\ Chunks \in Nat
  BY <1>1, TileFacts DEF ThreadShape
<1>4. /\ Len(th[wl].flight) \in Nat /\ th[wl].ci \in Nat
      /\ Len(th[wl].flight) = InFlight(th[wl])
  BY FlightFits
<1>5. s.acc = Share(th[wl].m, th[wl].t, wl[2], th[wl].ci + 1)
  <2>1. th[wl].acc = Share(th[wl].m, th[wl].t, wl[2], th[wl].ci)
    BY DEF PipedAs
  <2>2. Product(wl) = [k |-> k, x |-> th[wl].m, w |-> <<th[wl].t, k>>]
    BY ProductFactors
  <2>3. Append(Share(th[wl].m, th[wl].t, wl[2], th[wl].ci), [k |-> k, x |-> th[wl].m, w |-> <<th[wl].t, k>>])
          = Share(th[wl].m, th[wl].t, wl[2], th[wl].ci + 1)
    BY <1>4, ShareGrows
  <2> HIDE DEF s, k
  <2> QED
    BY <1>2, <2>1, <2>2, <2>3
<1>6. InFlight(s) = InFlight(th[wl])
  <2> HIDE DEF s
  <2>1. InFlight(s) = IF Staged(th[wl].m, th[wl].t) THEN AtMost(th[wl].ci + 1 + AHEAD + 0, Chunks) ELSE 0
    BY <1>2 DEF InFlight
  <2>2. InFlight(th[wl]) = IF Staged(th[wl].m, th[wl].t) THEN AtMost(th[wl].ci + AHEAD + 1, Chunks) ELSE 0
    BY DEF InFlight
  <2>3. th[wl].ci + 1 + AHEAD + 0 = th[wl].ci + AHEAD + 1
    BY <1>3, <1>4
  <2> QED
    BY <2>1, <2>2, <2>3
<1>7. ASSUME NEW i \in 1 .. Len(s.flight), i <= s.ci PROVE s.flight[i]
  <2> HIDE DEF s
  <2>1. i \in 1 .. AtMost(th[wl].ci + 1, Len(th[wl].flight))
    BY <1>2, <1>4, <1>7 DEF AtMost
  <2> QED
    BY <1>2, <2>1 DEF Landed
<1>8. ASSUME NEW i \in 1 .. Len(s.flight), i > s.ci, s.flight[i]
      PROVE  ring[<<wl[1], (i - 1) % STAGES, wl[2]>>] =
               [m |-> th[wl].m, t |-> th[wl].t, k |-> (i - 1) * req.lanes + wl[2]]
  <2> HIDE DEF s
  <2>1. i \in 1 .. Len(th[wl].flight) /\ th[wl].flight[i]
    BY <1>2, <1>8
  <2>2. i > th[wl].ci
    BY <1>2, <1>4, <1>8, <2>1
  <2> QED
    BY <2>1, <2>2 DEF PipedAs
<1>9. th[wl].t < req.N_tile
  BY DEF PipedAs
<1> HIDE DEF s
<1>10. PipedAs(wl, s, ring)
  BY <1>2, <1>4, <1>5, <1>6, <1>7, <1>8, <1>9 DEF PipedAs
<1> QED
  BY <1>10 DEF s

LEMMA RaggedEndPiped ==
  ASSUME TileShape, InStep, ShareCached, NEW wl \in Threads, PipedAs(wl, th[wl], ring), RaggedEnd(wl)
  PROVE  PipedAs(wl, th'[wl], ring')
<1>1. req \in Tiles /\ ThreadShape(th[wl])
  BY DEF TileShape
<1> DEFINE k == Chunks * req.lanes + wl[2]
           acc == IF k \in Ks THEN Append(th[wl].acc, Direct(wl, k)) ELSE th[wl].acc
           s == [th[wl] EXCEPT !.pc = "reduce", !.acc = acc]
<1>2. th[wl].pc = "issue" /\ th[wl].ci = Chunks /\ Landed(wl) /\ Moves(wl, s)
  BY RaggedEndFacts
<1>3. th'[wl] = s
  BY <1>2 DEF Moves, TileShape
<1>4. s.pc = "reduce" /\ s.t = th[wl].t /\ s.m = th[wl].m /\ s.flight = th[wl].flight /\ s.acc = acc
  BY <1>1 DEF ThreadShape
<1>5. Len(th[wl].flight) \in Nat /\ Len(th[wl].flight) <= Chunks /\ Chunks \in Nat
  BY <1>1, <1>2, FlightFits, TileFacts
<1>6. ASSUME NEW i \in 1 .. Len(th[wl].flight) PROVE th[wl].flight[i]
  <2>1. i \in 1 .. AtMost(th[wl].ci + 1, Len(th[wl].flight))
    BY <1>2, <1>5 DEF AtMost
  <2> QED
    BY <1>2, <2>1 DEF Landed
<1>7. th[wl].t < req.N_tile /\ th[wl].acc = Share(th[wl].m, th[wl].t, wl[2], Chunks)
  BY <1>2 DEF PipedAs
<1>8. k \in Ks <=> k < req.K
  <2>1. k \in Nat
    BY <1>1, TileFacts DEF Threads, Lanes
  <2>2. req.K \in Nat
    BY <1>1, TileFacts
  <2> HIDE DEF k
  <2> QED
    BY <2>1, <2>2 DEF Ks
<1>9. acc = Share(th[wl].m, th[wl].t, wl[2], Rounds(wl[2]))
  <2>1. CASE k \in Ks
    <3>1. Direct(wl, k) = [k |-> k, x |-> th[wl].m, w |-> <<th[wl].t, k>>]
      <4>1. th[wl].pc \in Working
        BY <1>2 DEF Working
      <4> HIDE DEF k
      <4> QED
        BY <2>1, <4>1, DirectFactors
    <3>2. Append(th[wl].acc, Direct(wl, k)) = Share(th[wl].m, th[wl].t, wl[2], Chunks + 1)
      BY <1>5, <1>7, <3>1, ShareGrows
    <3>3. Rounds(wl[2]) = Chunks + 1
      BY <1>8, <2>1 DEF Rounds
    <3> QED
      BY <2>1, <3>2, <3>3
  <2>2. CASE k \notin Ks
    <3>1. Rounds(wl[2]) = Chunks
      BY <1>8, <2>2 DEF Rounds
    <3> QED
      BY <1>7, <2>2, <3>1
  <2> QED
    BY <2>1, <2>2
<1> HIDE DEF s, acc
<1>10. PipedAs(wl, s, ring')
  BY <1>4, <1>6, <1>7, <1>9 DEF PipedAs
<1> QED
  BY <1>3, <1>10

LEMMA NextPipelines ==
  ASSUME TileShape, InStep, ShareCached, Pipelines, [TileNext]_tilevars
  PROVE  Pipelines'
<1>1. req \in Tiles /\ req' = req /\ Threads' = Threads
  BY NextShape DEF TileShape, Threads, Warps, Lanes
<1>2. ASSUME NEW wl \in Threads PROVE PipedAs(wl, th'[wl], ring')
  <2>1. ThreadShape(th[wl]) /\ PipedAs(wl, th[wl], ring)
    BY DEF TileShape, Pipelines
  <2>2. th[wl].flight \in Seq(BOOLEAN)
    BY <2>1 DEF ThreadShape
  <2>3. ASSUME NEW s, Moves(wl, s) PROVE th'[wl] = s
    BY <2>3 DEF Moves, TileShape
  <2>4. ASSUME NEW s, s.flight = th[wl].flight, s.pc \notin {"issue", "wait", "reduce"},
               th[wl].pc \notin {"issue", "wait"}
        PROVE  PipedAs(wl, s, ring')
    <3>1. \A i \in 1 .. Len(th[wl].flight) : th[wl].flight[i]
      BY <2>1, <2>4 DEF PipedAs
    <3> QED
      BY <2>4, <3>1, IdlePiped
  <2>5. CASE Untouched(wl)
    <3>1. th'[wl] = th[wl]
      BY <2>5 DEF Untouched
    <3>2. ASSUME NEW i \in 1 .. Len(th[wl].flight)
          PROVE  ring'[<<wl[1], (i - 1) % STAGES, wl[2]>>] = ring[<<wl[1], (i - 1) % STAGES, wl[2]>>]
      <4>1. i - 1 \in Nat
        BY <2>2
      <4> QED
        BY <2>5, <4>1 DEF Untouched
    <3> QED
      BY <2>1, <3>1, <3>2 DEF PipedAs
  <2>6. CASE SyncCached /\ th'[wl] = [th[wl] EXCEPT !.pc = "run"]
    <3>1. th[wl].pc = "cached" /\ th'[wl].flight = th[wl].flight /\ th'[wl].pc = "run"
      BY <2>1, <2>6 DEF SyncCached, ThreadShape
    <3> QED
      BY <2>4, <3>1
  <2>7. CASE SyncRow /\ th'[wl] = NextRow(wl)
    <3>1. th[wl].pc = "finished" /\ th'[wl].flight = th[wl].flight /\ th'[wl].pc \in {"cache", "done"}
      BY <2>7, NextRowShape DEF SyncRow
    <3> QED
      BY <2>4, <3>1
  <2>8. CASE CacheRow(wl)
    <3>1. PICK s : Moves(wl, s) /\ s \in {[th[wl] EXCEPT !.pc = "cached"], [th[wl] EXCEPT !.pc = "run"]}
      BY <2>8 DEF CacheRow
    <3>2. s.flight = th[wl].flight /\ s.pc \in {"cached", "run"} /\ th[wl].pc = "cache"
      BY <2>1, <2>8, <3>1 DEF ThreadShape, CacheRow
    <3> QED
      BY <2>3, <2>4, <3>1, <3>2
  <2>9. CASE StartRun(wl)
    <3>1. PICK s :
           /\ Moves(wl, s) /\ th[wl].pc = "run"
           /\ \/ /\ th[wl].t < req.N_tile
                 /\ s = [th[wl] EXCEPT !.pc = "issue", !.ci = 0, !.acc = <<>>, !.flight = Primed(th[wl].m, th[wl].t)]
              \/ s = [th[wl] EXCEPT !.pc = "finished"]
              \/ s = NextRow(wl)
      BY <2>9, StartRunFacts
    <3>2. th'[wl] = s
      BY <2>3, <3>1
    <3>3. CASE s = [th[wl] EXCEPT !.pc = "finished"]
      <4>1. s.flight = th[wl].flight /\ s.pc = "finished"
        BY <2>1, <3>3 DEF ThreadShape
      <4> QED
        BY <2>4, <3>1, <3>2, <4>1
    <3>4. CASE s = NextRow(wl)
      <4>1. s.flight = th[wl].flight /\ s.pc \in {"cache", "done"}
        BY <3>4, NextRowShape
      <4> QED
        BY <2>4, <3>1, <3>2, <4>1
    <3>5. CASE /\ th[wl].t < req.N_tile
               /\ s = [th[wl] EXCEPT !.pc = "issue", !.ci = 0, !.acc = <<>>, !.flight = Primed(th[wl].m, th[wl].t)]
      <4>1. /\ s.pc = "issue" /\ s.ci = 0 /\ s.acc = <<>> /\ s.flight = Primed(th[wl].m, th[wl].t)
            /\ s.t = th[wl].t /\ s.m = th[wl].m
        BY <2>1, <3>5 DEF ThreadShape
      <4>2. th[wl].m \in Nat /\ th[wl].t \in Nat
        BY <2>1 DEF ThreadShape
      <4>3. /\ Len(Primed(th[wl].m, th[wl].t)) = (IF Staged(th[wl].m, th[wl].t) THEN AtMost(AHEAD, Chunks) ELSE 0)
            /\ \A i \in 1 .. Len(Primed(th[wl].m, th[wl].t)) : Primed(th[wl].m, th[wl].t)[i] = FALSE
        BY <1>1, <4>2, PrimedIsSeq
      <4>4. AHEAD \in Nat /\ Chunks \in Nat
        BY <1>1, TileFacts
      <4>5. InFlight(s) = IF Staged(th[wl].m, th[wl].t) THEN AtMost(0 + AHEAD + 0, Chunks) ELSE 0
        BY <4>1 DEF InFlight
      <4>6. Len(s.flight) = InFlight(s)
        BY <4>1, <4>3, <4>4, <4>5
      <4>7. Len(s.flight) \in Nat
        BY <4>4, <4>5, <4>6 DEF AtMost
      <4>8. ASSUME NEW i \in 1 .. Len(s.flight) PROVE s.flight[i] = FALSE /\ ~ (i <= s.ci)
        <5>1. i \in Nat /\ i >= 1
          BY <4>7
        <5> QED
          BY <4>1, <4>3, <5>1
      <4>9. Share(s.m, s.t, wl[2], 0) = <<>>
        BY DEF Share
      <4>10. PipedAs(wl, s, ring')
        BY <3>5, <4>1, <4>6, <4>8, <4>9 DEF PipedAs
      <4> QED
        BY <3>2, <4>10
    <3> QED
      BY <3>1, <3>3, <3>4, <3>5
  <2>10. CASE th[wl].pc = "wait" /\ Landed(wl) /\ th'[wl] = Consumed(wl) /\ (Consume(wl) \/ ConsumeWarp(wl[1]))
    <3>1. ring' = ring
      BY <2>10 DEF Consume, ConsumeWarp
    <3> QED
      BY <2>1, <2>10, <3>1, ConsumedPiped
  <2>11. CASE th'[wl] = Reduced(wl, th[<<wl[1], 0>>].t, th[<<wl[1], 0>>].m)
    <3>1. th'[wl].pc = "run" /\ th'[wl].flight = <<>>
      BY <2>11, ReducedPosition
    <3>2. \A i \in 1 .. Len(<<>>) : FALSE
      OBVIOUS
    <3> QED
      BY <3>1, <3>2, IdlePiped
  <2> QED
    BY <2>1, <2>5, <2>6, <2>7, <2>8, <2>9, <2>10, <2>11, ThreadSteps, LandPiped, IssuePiped, RaggedEndPiped
<1>3. \A wl \in Threads : PipedAs(wl, th'[wl], ring') => PipedAs(wl, th[wl], ring)'
  BY <1>1 DEF PipedAs, InFlight, Staged, Share, Rounds, Chunks, AHEAD, STAGES
<1> QED
  BY <1>1, <1>2, <1>3 DEF Pipelines

-----------------------------------------------------------------------------
LEMMA SameTurn ==
  ASSUME NEW W \in Nat \ {0}, NEW p \in Nat, NEW q \in Nat, p % W = q % W, p < q
  PROVE  p + W <= q
<1>1. PICK a \in Nat, r \in 0 .. W - 1 : p % W = r /\ p = a * W + r
  BY DivisionOf
<1>2. PICK b \in Nat, s \in 0 .. W - 1 : q % W = s /\ q = b * W + s
  BY DivisionOf
<1>3. r = s /\ a * W \in Nat /\ b * W \in Nat
  BY <1>1, <1>2
<1>4. ~ (b * W <= a * W)
  BY <1>1, <1>2, <1>3
<1>5. a < b
  <2>1. CASE a = b
    BY <1>4, <1>3, <2>1
  <2>2. CASE b < a
    <3>1. b * W + W <= a * W
      BY <2>2, MultiplesApart
    <3> QED
      BY <1>3, <1>4, <3>1
  <2> QED
    BY <2>1, <2>2
<1>6. a * W + W <= b * W
  BY <1>5, MultiplesApart
<1> QED
  BY <1>1, <1>2, <1>3, <1>6

LEMMA OwnTurn ==
  ASSUME NEW W \in Nat \ {0}, NEW q \in Nat
  PROVE  q % W <= q
<1>1. PICK a \in Nat, r \in 0 .. W - 1 : q % W = r /\ q = a * W + r
  BY DivisionOf
<1>2. a * W \in Nat
  OBVIOUS
<1> QED
  BY <1>1, <1>2

(* Where a column lies in the tile.                                        *)
LEMMA ColumnFacts ==
  ASSUME req \in Tiles, NEW n \in Columns
  PROVE  /\ RunIndex(n) \in Nat /\ Run(n) = RunIndex(n) * CPC /\ Run(n) \in Nat
         /\ n - req.n_off \in 0 .. req.N_tile - 1
         /\ Run(n) <= n - req.n_off /\ n - req.n_off < Run(n) + CPC
<1>1. req.n_off \in Nat /\ req.N_tile \in Nat \ {0} /\ CPC \in Nat \ {0}
  BY TileFacts
<1>2. n - req.n_off \in Nat /\ n - req.n_off \in 0 .. req.N_tile - 1
  BY <1>1 DEF Columns
<1>3. PICK q \in Nat, r \in 0 .. CPC - 1 : (n - req.n_off) \div CPC = q /\ n - req.n_off = q * CPC + r
  <2> DEFINE c == n - req.n_off
  <2>1. c \in Nat
    BY <1>2
  <2> HIDE DEF c
  <2>2. c \div CPC \in Nat /\ c % CPC \in 0 .. CPC - 1 /\ c = (c \div CPC) * CPC + (c % CPC)
    BY <1>1, <2>1, DivisionOf
  <2> QED
    BY <2>2 DEF c
<1>4. RunIndex(n) = q /\ Run(n) = q * CPC
  BY <1>3 DEF RunIndex, Run
<1>5. q * CPC \in Nat
  BY <1>1
<1> QED
  BY <1>1, <1>2, <1>3, <1>4, <1>5

LEMMA RunOfColumn ==
  ASSUME req \in Tiles, NEW n \in Columns, NEW p \in Nat, p * CPC < req.N_tile
  PROVE  n - req.n_off \in p * CPC .. AtMost(p * CPC + CPC, req.N_tile) - 1 <=> RunIndex(n) = p
<1> DEFINE c == n - req.n_off
           q == RunIndex(n)
<1>1. CPC \in Nat \ {0} /\ req.N_tile \in Nat
  BY TileFacts
<1>2. q \in Nat /\ Run(n) = q * CPC /\ q * CPC \in Nat /\ c \in 0 .. req.N_tile - 1
      /\ q * CPC <= c /\ c < q * CPC + CPC
  BY ColumnFacts
<1>3. p * CPC \in Nat
  BY <1>1
<1> HIDE DEF c, q
<1>4. c \in p * CPC .. AtMost(p * CPC + CPC, req.N_tile) - 1 <=> p * CPC <= c /\ c < p * CPC + CPC
  BY <1>1, <1>2, <1>3 DEF AtMost
<1>5. q < p => ~ (p * CPC <= c)
  BY <1>1, <1>2, <1>3, MultiplesApart
<1>6. p < q => ~ (c < p * CPC + CPC)
  <2> SUFFICES ASSUME p < q PROVE ~ (c < p * CPC + CPC)
    OBVIOUS
  <2>1. p * CPC + CPC <= q * CPC
    BY <1>1, <1>2, MultiplesApart
  <2> QED
    BY <1>1, <1>2, <1>3, <2>1
<1>7. q = p => p * CPC <= c /\ c < p * CPC + CPC
  BY <1>2
<1>8. q < p \/ q = p \/ p < q
  BY <1>2
<1>9. c \in p * CPC .. AtMost(p * CPC + CPC, req.N_tile) - 1 <=> q = p
  BY <1>4, <1>5, <1>6, <1>7, <1>8
<1> QED
  BY <1>9 DEF c, q

(* A thread past the end of the tile has every run of the row behind it.   *)
LEMMA PastTheEnd ==
  ASSUME req \in Tiles, NEW w \in Warps, NEW t \in Nat, OnTurn(t, w), t >= req.N_tile, NEW n \in Columns
  PROVE  t \div CPC > RunIndex(n)
<1>1. CPC \in Nat \ {0} /\ req.N_tile \in Nat
  BY TileFacts
<1>2. PICK p \in Nat : t \div CPC = p /\ t = p * CPC
  <2>1. t \div CPC \in Nat
    BY <1>1, DivisionOf
  <2> QED
    BY <2>1 DEF OnTurn
<1>3. PICK q \in Nat : RunIndex(n) = q /\ q * CPC \in Nat /\ q * CPC <= n - req.n_off
                       /\ n - req.n_off \in 0 .. req.N_tile - 1
  BY ColumnFacts
<1>4. ~ (p < q)
  <2> SUFFICES ASSUME p < q PROVE FALSE
    OBVIOUS
  <2>1. p * CPC + CPC <= q * CPC
    BY <1>1, MultiplesApart
  <2> QED
    BY <1>1, <1>2, <1>3, <2>1
<1>5. p # q
  BY <1>1, <1>2, <1>3
<1> QED
  BY <1>2, <1>3, <1>4, <1>5

(* The lanes of a warp reduce the same run of the same row: the one would  *)
(* otherwise have stored what the other has still to store.                *)
LEMMA LanesAgree ==
  ASSUME TileShape, Turns, Pipelines, Stored, NEW a \in Threads, NEW b \in Threads, a[1] = b[1],
         th[a].pc = "reduce", th[b].pc = "reduce"
  PROVE  th[a].t = th[b].t /\ th[a].m = th[b].m
<1>1. req \in Tiles /\ ThreadShape(th[a]) /\ ThreadShape(th[b])
  BY DEF TileShape
<1>2. CPC \in Nat \ {0} /\ req.N_tile \in Nat /\ req.n_off \in Nat /\ req.M \in Nat
  BY <1>1, TileFacts
<1>3. ASSUME NEW u \in Threads, NEW v \in Threads, u[1] = v[1], th[u].pc = "reduce"
      PROVE  ~ Behind(th[v], th[u].m, th[u].t \div CPC)
  <2>1. ThreadShape(th[u]) /\ OnTurn(th[u].t, u[1])
    BY DEF TileShape, Turns
  <2>2. th[u].t \in Nat /\ th[u].m \in 0 .. req.M - 1 /\ th[u].t < req.N_tile
    BY <1>3, <2>1 DEF Pipelines, PipedAs, ThreadShape
  <2> DEFINE n == req.n_off + th[u].t
             q == th[u].t \div CPC
  <2>3. n \in Columns /\ n - req.n_off = th[u].t
    BY <1>2, <2>2 DEF Columns
  <2>4. RunIndex(n) = q /\ q % req.warps = u[1]
    BY <2>1, <2>3 DEF RunIndex, OnTurn
  <2> HIDE DEF n, q
  <2>5. ~ Behind(th[u], th[u].m, q)
    <3>1. ~ (th[u].m > th[u].m) /\ q \in Nat
      BY <1>2, <2>2, DivisionOf DEF q
    <3>2. ~ (q > q)
      BY <3>1
    <3> QED
      BY <3>1, <3>2 DEF Behind, q
  <2>6. out[<<th[u].m, n>>] = <<>>
    BY <2>2, <2>3, <2>4, <2>5 DEF Stored
  <2>7. Behind(th[v], th[u].m, q) => out[<<th[u].m, n>>] = <<Dot(th[u].m, Run(n))>>
    BY <1>3, <2>2, <2>3, <2>4 DEF Stored
  <2>8. <<>> # <<Dot(th[u].m, Run(n))>>
    OBVIOUS
  <2> QED
    BY <2>6, <2>7, <2>8 DEF q
<1>4. ~ Behind(th[a], th[b].m, th[b].t \div CPC) /\ ~ Behind(th[b], th[a].m, th[a].t \div CPC)
  BY <1>3
<1>5. th[a].m \in Nat /\ th[b].m \in Nat /\ th[a].t \in Nat /\ th[b].t \in Nat
  BY <1>1, <1>2 DEF ThreadShape
<1>6. th[a].t \div CPC \in Nat /\ th[b].t \div CPC \in Nat
  BY <1>2, <1>5, DivisionOf
<1>7. th[a].m = th[b].m /\ th[a].t \div CPC = th[b].t \div CPC
  BY <1>4, <1>5, <1>6 DEF Behind
<1>8. th[a].t = (th[a].t \div CPC) * CPC /\ th[b].t = (th[b].t \div CPC) * CPC
  BY DEF Turns, OnTurn
<1> QED
  BY <1>7, <1>8

LEMMA NextRowBehind ==
  ASSUME TileShape, Turns, NEW wl \in Threads, th[wl].t >= req.N_tile,
         NEW m \in 0 .. req.M - 1, NEW n \in Columns, RunIndex(n) % req.warps = wl[1]
  PROVE  Behind(NextRow(wl), m, RunIndex(n)) <=> Behind(th[wl], m, RunIndex(n))
<1>1. req \in Tiles /\ ThreadShape(th[wl]) /\ wl[1] \in Warps
  BY DEF TileShape, Threads
<1>2. req.M \in Nat /\ req.warps \in Nat \ {0} /\ CPC \in Nat \ {0}
  BY <1>1, TileFacts
<1>3. th[wl].t \in Nat /\ th[wl].m \in Nat /\ m \in Nat
  BY <1>1, <1>2 DEF ThreadShape
<1>4. CASE NextRow(wl).pc = "done"
  <2>1. NextRow(wl).m = th[wl].m /\ NextRow(wl).t = th[wl].t
    BY <1>4, NextRowShape
  <2> QED
    BY <2>1 DEF Behind
<1>5. CASE NextRow(wl).pc = "cache"
  <2>1. req.kind # "wmma" /\ NextRow(wl).m = th[wl].m + 1 /\ NextRow(wl).t = wl[1] * CPC
    BY <1>5, NextRowShape
  <2>2. th[wl].t \div CPC > RunIndex(n)
    BY <1>1, <1>3, PastTheEnd DEF Turns
  <2>3. (wl[1] * CPC) \div CPC = wl[1]
    BY <1>1, FirstTurn
  <2>4. RunIndex(n) \in Nat /\ wl[1] <= RunIndex(n) /\ wl[1] \in Nat
    BY <1>1, <1>2, ColumnFacts, OwnTurn DEF Warps
  <2>5. ~ (wl[1] > RunIndex(n))
    BY <2>4
  <2> QED
    BY <1>3, <2>1, <2>2, <2>3, <2>5 DEF Behind
<1> QED
  BY <1>4, <1>5, NextRowShape

LEMMA ReduceBehind ==
  ASSUME TileShape, Turns, NEW wl \in Threads, NEW m \in 0 .. req.M - 1, NEW q \in Nat, q % req.warps = wl[1]
  PROVE  LET t == th[wl].t
             mm == th[wl].m
         IN  /\ ~ Behind(th[wl], mm, t \div CPC)
             /\ Behind(Reduced(wl, t, mm), mm, t \div CPC)
             /\ m # mm \/ q # t \div CPC => (Behind(Reduced(wl, t, mm), m, q) <=> Behind(th[wl], m, q))
<1> DEFINE t == th[wl].t
           mm == th[wl].m
           s == Reduced(wl, t, mm)
<1>1. req \in Tiles /\ ThreadShape(th[wl]) /\ wl[1] \in Warps
  BY DEF TileShape, Threads
<1>2. req.M \in Nat /\ req.warps \in Nat \ {0} /\ CPC \in Nat \ {0}
  BY <1>1, TileFacts
<1>3. t \in Nat /\ mm \in Nat /\ mm <= req.M - 1 /\ m \in Nat /\ m <= req.M - 1
  BY <1>1, <1>2 DEF ThreadShape
<1>4. PICK p \in Nat : t \div CPC = p
  BY <1>2, <1>3, DivisionOf
<1>5. p % req.warps = q % req.warps
  BY <1>4 DEF Turns, OnTurn
<1>6. p < q => p + req.warps <= q
  BY <1>2, <1>5, SameTurn
<1>7. (t + req.warps * CPC) \div CPC = p + req.warps
  BY <1>1, <1>3, <1>4, NextTurn DEF Turns
<1>8. ~ (p > p) /\ ~ (mm > mm) /\ p + req.warps > p /\ mm + 1 > mm
  BY <1>2, <1>3
<1>9. q < p \/ q = p \/ p < q
  OBVIOUS
<1>10. q < p => p + req.warps > q /\ p > q
  BY <1>2
<1> SUFFICES /\ ~ Behind(th[wl], mm, p) /\ Behind(s, mm, p)
             /\ m # mm \/ q # p => (Behind(s, m, q) <=> Behind(th[wl], m, q))
  BY <1>4
<1>12. CASE req.kind = "wmma" /\ mm + 1 < req.M
  <2>1. s.t = t /\ s.m = mm + 1
    BY <1>12, ReducedPosition
  <2>2. m # mm => (mm + 1 > m <=> mm > m)
    BY <1>3
  <2> HIDE DEF s, t, mm
  <2> QED
    BY <1>4, <1>8, <1>12, <2>1, <2>2 DEF Behind, t, mm
<1>13. CASE req.kind = "wmma" /\ ~ (mm + 1 < req.M)
  <2>1. s.t = t + req.warps * CPC /\ s.m = 0
    BY <1>13, ReducedPosition
  <2>2. Behind(s, m, q) <=> p + req.warps > q
    <3>1. ~ (0 > m)
      BY <1>3
    <3> HIDE DEF s
    <3> QED
      BY <1>7, <1>13, <2>1, <3>1 DEF Behind
  <2>3. Behind(th[wl], m, q) <=> p > q \/ (p = q /\ mm > m)
    BY <1>4, <1>13 DEF Behind
  <2>4. Behind(s, mm, p)
    <3> HIDE DEF s
    <3> QED
      BY <1>7, <1>8, <1>13, <2>1 DEF Behind
  <2>5. ~ Behind(th[wl], mm, p)
    BY <1>4, <1>8, <1>13 DEF Behind
  <2>6. m # mm => mm > m
    BY <1>2, <1>3, <1>13
  <2>7. p < q => ~ (p + req.warps > q) /\ ~ (p > q) /\ p # q
    BY <1>2, <1>6
  <2> HIDE DEF s, t, mm
  <2> QED
    BY <1>8, <1>9, <1>10, <2>2, <2>3, <2>4, <2>5, <2>6, <2>7
<1>14. CASE req.kind # "wmma"
  <2>1. s.t = t + req.warps * CPC /\ s.m = mm
    BY <1>14, ReducedPosition
  <2>2. Behind(s, m, q) <=> mm > m \/ (mm = m /\ p + req.warps > q)
    <3> HIDE DEF s
    <3> QED
      BY <1>7, <1>14, <2>1 DEF Behind
  <2>3. Behind(th[wl], m, q) <=> mm > m \/ (mm = m /\ p > q)
    BY <1>4, <1>14 DEF Behind
  <2>4. Behind(s, mm, p)
    <3> HIDE DEF s
    <3> QED
      BY <1>7, <1>8, <1>14, <2>1 DEF Behind
  <2>5. ~ Behind(th[wl], mm, p)
    BY <1>4, <1>8, <1>14 DEF Behind
  <2>7. p < q => ~ (p + req.warps > q) /\ ~ (p > q)
    BY <1>2, <1>6
  <2> HIDE DEF s, t, mm
  <2> QED
    BY <1>9, <1>10, <2>2, <2>3, <2>4, <2>5, <2>7
<1> QED
  BY <1>12, <1>13, <1>14

LEMMA NextStored ==
  ASSUME TileShape, Turns, Pipelines, Ended, Stored, [TileNext]_tilevars
  PROVE  Stored'
<1>1. req \in Tiles /\ req' = req /\ Threads' = Threads
  BY NextShape DEF TileShape, Threads, Warps, Lanes
<1>2. ASSUME NEW wl \in Threads, NEW m \in 0 .. req.M - 1, NEW n \in Columns, RunIndex(n) % req.warps = wl[1]
      PROVE  out'[<<m, n>>] = IF Behind(th'[wl], m, RunIndex(n)) THEN <<Dot(m, Run(n))>> ELSE <<>>
  <2> DEFINE q == RunIndex(n)
             mn == <<m, n>>
  <2>1. mn \in DOMAIN out
    BY <1>2 DEF TileShape
  <2>2. out[mn] = IF Behind(th[wl], m, q) THEN <<Dot(m, Run(n))>> ELSE <<>>
    BY <1>2 DEF Stored
  <2>3. ThreadShape(th[wl]) /\ req.N_tile \in Nat /\ q \in Nat /\ Run(n) = q * CPC /\ wl[1] \in Warps /\ CPC \in Nat \ {0}
    BY <1>1, TileFacts, ColumnFacts DEF TileShape, Threads
  <2>4. (Behind(th'[wl], m, q) <=> Behind(th[wl], m, q)) /\ out'[mn] = out[mn]
          => out'[mn] = IF Behind(th'[wl], m, q) THEN <<Dot(m, Run(n))>> ELSE <<>>
    BY <2>2
  <2>5. CASE ~ \E w \in Warps : Reduce(w)
    <3>1. out' = out
      BY <2>5 DEF TileNext, tilevars, SyncCached, SyncRow, Terminated, CacheRow, StartRun, Land, Issue, Consume,
         RaggedEnd, ConsumeWarp
    <3>2. CASE th'[wl].t = th[wl].t /\ th'[wl].m = th[wl].m
      <4>1. Behind(th'[wl], m, q) <=> Behind(th[wl], m, q)
        BY <3>2 DEF Behind
      <4> QED
        BY <2>4, <3>1, <4>1
    <3>3. CASE /\ th[wl].pc = "finished" \/ (th[wl].pc = "run" /\ ~ (th[wl].t < req.N_tile) /\ ~ req.smem)
               /\ th'[wl] = NextRow(wl)
      <4>1. th[wl].t >= req.N_tile
        <5>1. th[wl].t \in Nat
          BY <2>3 DEF ThreadShape
        <5> QED
          BY <2>3, <3>3, <5>1 DEF Ended
      <4>2. Behind(th'[wl], m, q) <=> Behind(th[wl], m, q)
        BY <1>2, <3>3, <4>1, NextRowBehind
      <4> QED
        BY <2>4, <3>1, <4>2
    <3> QED
      BY <2>3, <2>5, <3>2, <3>3, Positions
  <2>6. ASSUME NEW w \in Warps, Reduce(w)
        PROVE  out'[mn] = IF Behind(th'[wl], m, q) THEN <<Dot(m, Run(n))>> ELSE <<>>
    <3> DEFINE u == <<w, 0>>
               t == th[u].t
               mm == th[u].m
               sums == [l \in Lanes |-> th[<<w, l>>].acc]
    <3>1. /\ u \in Threads /\ \A l \in Lanes : th[<<w, l>>].pc = "reduce"
          /\ out' = [xn \in DOMAIN out |->
                       IF xn[1] = mm /\ xn[2] - req.n_off \in t .. AtMost(t + CPC, req.N_tile) - 1
                       THEN Append(out[xn], sums) ELSE out[xn]]
          /\ th' = [v \in Threads |-> IF v[1] = w THEN Reduced(v, t, mm) ELSE th[v]]
      BY <2>6, ReduceFacts
    <3>2. ThreadShape(th[u]) /\ OnTurn(t, w) /\ th[u].pc = "reduce"
      <4>1. 0 \in Lanes
        BY <1>1, TileFacts DEF Lanes
      <4> QED
        BY <3>1, <4>1 DEF TileShape, Turns
    <3>3. t \in Nat /\ t < req.N_tile
      BY <3>1, <3>2 DEF ThreadShape, Pipelines, PipedAs
    <3>4. PICK p \in Nat : t \div CPC = p /\ t = p * CPC /\ p % req.warps = w
      <4>1. t \div CPC \in Nat
        BY <2>3, <3>3, DivisionOf
      <4> QED
        BY <3>2, <4>1 DEF OnTurn
    <3>5. n - req.n_off \in t .. AtMost(t + CPC, req.N_tile) - 1 <=> q = p
      BY <1>1, <3>3, <3>4, RunOfColumn
    <3>6. out'[mn] = IF m = mm /\ q = p THEN Append(out[mn], sums) ELSE out[mn]
      <4> HIDE DEF t, mm, sums, q
      <4> QED
        BY <2>1, <3>1, <3>5
    <3>7. CASE wl[1] # w
      <4>1. th'[wl] = th[wl] /\ q # p
        BY <1>2, <3>1, <3>4, <3>7
      <4>2. out'[mn] = out[mn]
        BY <3>6, <4>1
      <4> QED
        BY <2>4, <4>1, <4>2
    <3>8. CASE wl[1] = w
      <4>1. \A v \in Threads : v[1] = w => th[v].pc = "reduce"
        BY <3>1 DEF Threads
      <4>2. \A v \in Threads : v[1] = w => th[v].t = t /\ th[v].m = mm
        <5> TAKE v \in Threads
        <5> HAVE v[1] = w
        <5>1. v[1] = u[1] /\ th[v].pc = "reduce" /\ th[u].pc = "reduce"
          BY <3>2, <4>1
        <5> QED
          BY <3>1, <5>1, LanesAgree
      <4>3. th'[wl] = Reduced(wl, th[wl].t, th[wl].m) /\ th[wl].t = t /\ th[wl].m = mm
        <5>1. th'[wl] = Reduced(wl, t, mm)
          BY <3>1, <3>8
        <5> QED
          BY <3>8, <4>2, <5>1
      <4>4. /\ ~ Behind(th[wl], mm, p) /\ Behind(th'[wl], mm, p)
            /\ m # mm \/ q # p => (Behind(th'[wl], m, q) <=> Behind(th[wl], m, q))
        <5>1. LET tt == th[wl].t
                  mw == th[wl].m
              IN  /\ ~ Behind(th[wl], mw, tt \div CPC)
                  /\ Behind(Reduced(wl, tt, mw), mw, tt \div CPC)
                  /\ m # mw \/ q # tt \div CPC => (Behind(Reduced(wl, tt, mw), m, q) <=> Behind(th[wl], m, q))
          BY <1>2, <2>3, ReduceBehind
        <5> QED
          BY <3>4, <4>3, <5>1
      <4>5. CASE m = mm /\ q = p
        <5>1. out[mn] = <<>>
          BY <2>2, <4>4, <4>5
        <5>2. sums = Dot(mm, t)
          <6>1. ASSUME NEW l \in Lanes PROVE th[<<w, l>>].acc = Share(mm, t, l, Rounds(l))
            <7>1. <<w, l>> \in Threads /\ <<w, l>>[1] = w /\ <<w, l>>[2] = l
              BY <6>1 DEF Threads
            <7>2. PipedAs(<<w, l>>, th[<<w, l>>], ring) /\ th[<<w, l>>].pc = "reduce"
                  /\ th[<<w, l>>].t = t /\ th[<<w, l>>].m = mm
              BY <3>1, <4>2, <7>1 DEF Pipelines
            <7> QED
              BY <7>1, <7>2 DEF PipedAs
          <6> QED
            BY <6>1 DEF Dot
        <5>3. Append(out[mn], sums) = <<Dot(m, Run(n))>>
          <6>1. Dot(mm, t) = Dot(m, Run(n))
            BY <2>3, <3>4, <4>5
          <6> HIDE DEF sums, t, mm, mn
          <6> QED
            BY <5>1, <5>2, <6>1
        <5>4. Behind(th'[wl], m, q)
          BY <4>4, <4>5
        <5> QED
          BY <3>6, <4>5, <5>3, <5>4
      <4>6. CASE ~ (m = mm /\ q = p)
        <5>1. out'[mn] = out[mn] /\ (Behind(th'[wl], m, q) <=> Behind(th[wl], m, q))
          BY <3>6, <4>4, <4>6
        <5> QED
          BY <2>4, <5>1
      <4> QED
        BY <4>5, <4>6
    <3> QED
      BY <3>7, <3>8
  <2> QED
    BY <2>5, <2>6
<1>3. \A wl \in Threads, m \in 0 .. req.M - 1, n \in Columns :
        /\ Behind(th'[wl], m, RunIndex(n)) <=> Behind(th[wl], m, RunIndex(n))'
        /\ <<Dot(m, Run(n))>> = <<Dot(m, Run(n))>>' /\ RunIndex(n)' = RunIndex(n)
  BY <1>1 DEF Behind, RunIndex, Run, Dot, Share, Rounds, Chunks, Lanes
<1>4. Columns' = Columns
  BY <1>1 DEF Columns
<1>5. SUFFICES ASSUME NEW wl \in Threads, NEW m \in 0 .. req.M - 1, NEW n \in Columns,
                      RunIndex(n) % req.warps = wl[1]
               PROVE  out'[<<m, n>>] = (IF Behind(th[wl], m, RunIndex(n)) THEN <<Dot(m, Run(n))>> ELSE <<>>)'
  BY <1>1, <1>3, <1>4 DEF Stored
<1>6. out'[<<m, n>>] = IF Behind(th'[wl], m, RunIndex(n)) THEN <<Dot(m, Run(n))>> ELSE <<>>
  BY <1>2, <1>5
<1> QED
  BY <1>3, <1>6

-----------------------------------------------------------------------------
(***************************************************************************)
(* The invariant of a tile.                                                *)
(***************************************************************************)
TileInv == TileShape /\ Turns /\ InStep /\ ShareCached /\ Pipelines /\ Ended /\ Stored

LEMMA InitTileInv == TileInit => TileInv
<1> SUFFICES ASSUME TileInit PROVE TileInv
  OBVIOUS
<1>1. TileShape /\ req \in Tiles
  BY InitShape DEF TileShape
<1>2. \A wl \in Threads :
        th[wl] = [pc |-> "cache", m |-> 0, t |-> wl[1] * CPC, ci |-> 0, flight |-> <<>>, acc |-> <<>>]
  BY DEF TileInit
<1>3. \A wl \in Threads :
        th[wl].pc = "cache" /\ th[wl].m = 0 /\ th[wl].t = wl[1] * CPC /\ th[wl].flight = <<>>
  <2> TAKE wl \in Threads
  <2>1. th[wl] = [pc |-> "cache", m |-> 0, t |-> wl[1] * CPC, ci |-> 0, flight |-> <<>>, acc |-> <<>>]
    BY <1>2
  <2> QED
    BY <2>1
<1>4. Turns
  BY <1>1, <1>3, FirstTurn DEF Turns, Threads
<1>5. InStep /\ ShareCached /\ Ended
  BY <1>3 DEF InStep, ShareCached, Ended, Working
<1>6. Pipelines
  <2>1. \A i \in 1 .. Len(<<>>) : FALSE
    OBVIOUS
  <2> QED
    BY <1>3, <2>1, IdlePiped DEF Pipelines
<1>7. Stored
  <2> SUFFICES ASSUME NEW wl \in Threads, NEW m \in 0 .. req.M - 1, NEW n \in Columns,
                      RunIndex(n) % req.warps = wl[1]
               PROVE  out[<<m, n>>] = IF Behind(th[wl], m, RunIndex(n)) THEN <<Dot(m, Run(n))>> ELSE <<>>
    BY DEF Stored
  <2>1. out[<<m, n>>] = <<>>
    BY DEF TileInit
  <2>2. req.warps \in Nat \ {0} /\ req.M \in Nat /\ wl[1] \in Warps /\ RunIndex(n) \in Nat
    BY <1>1, TileFacts, ColumnFacts DEF Threads
  <2>3. wl[1] <= RunIndex(n) /\ wl[1] \in Nat
    BY <2>2, OwnTurn DEF Warps
  <2>4. th[wl].t \div CPC = wl[1]
    BY <1>1, <1>3, <2>2, FirstTurn
  <2>5. ~ Behind(th[wl], m, RunIndex(n))
    <3>1. ~ (wl[1] > RunIndex(n)) /\ ~ (0 > m)
      BY <2>2, <2>3
    <3> QED
      BY <1>3, <2>4, <3>1 DEF Behind
  <2> QED
    BY <2>1, <2>5
<1> QED
  BY <1>1, <1>4, <1>5, <1>6, <1>7 DEF TileInv

LEMMA NextTileInv ==
  ASSUME TileInv, [TileNext]_tilevars
  PROVE  TileInv'
BY NextShape, NextTurns, NextInStep, NextShareCached, NextPipelines, NextEnded, NextStored DEF TileInv

-----------------------------------------------------------------------------
(* Every k below K is the index of one product: the one of lane k % L in   *)
(* its chunk k \div L.                                                     *)
LEMMA ShareInK ==
  ASSUME req \in Tiles, NEW l \in Lanes, NEW c \in 1 .. Rounds(l)
  PROVE  c \in Nat \ {0} /\ (c - 1) * req.lanes + l \in Ks
<1>1. /\ req.lanes \in Nat \ {0} /\ req.K \in Nat /\ Chunks \in Nat /\ Chunks * req.lanes \in Nat
      /\ Chunks * req.lanes <= req.K
  BY TileFacts
<1>2. l \in 0 .. req.lanes - 1
  BY DEF Lanes
<1>3. Rounds(l) \in Nat
  BY <1>1 DEF Rounds
<1>4. c \in Nat /\ c >= 1 /\ c <= Rounds(l)
  BY <1>3
<1>5. c - 1 \in Nat /\ (c - 1) * req.lanes \in Nat
  <2>1. c - 1 \in Nat
    BY <1>4
  <2> QED
    BY <1>1, <2>1
<1>6. (c - 1) * req.lanes + l < req.K
  <2>1. CASE c <= Chunks
    <3>1. c - 1 < Chunks
      BY <1>1, <1>4, <2>1
    <3>2. (c - 1) * req.lanes + req.lanes <= Chunks * req.lanes
      BY <1>1, <1>5, <3>1, MultiplesApart
    <3> QED
      BY <1>1, <1>2, <1>5, <3>2
  <2>2. CASE ~ (c <= Chunks)
    <3>1. Chunks * req.lanes + l < req.K /\ c = Chunks + 1
      BY <1>1, <1>4, <2>2 DEF Rounds
    <3>2. c - 1 = Chunks
      BY <1>1, <3>1
    <3> QED
      BY <3>1, <3>2
  <2> QED
    BY <2>1, <2>2
<1> QED
  BY <1>1, <1>2, <1>4, <1>5, <1>6 DEF Ks

LEMMA KInShare ==
  ASSUME req \in Tiles, NEW k \in Ks
  PROVE  \E l \in Lanes : \E c \in 1 .. Rounds(l) : k = (c - 1) * req.lanes + l
<1>1. /\ req.lanes \in Nat \ {0} /\ req.K \in Nat /\ Chunks \in Nat /\ Chunks * req.lanes \in Nat
      /\ req.K < Chunks * req.lanes + req.lanes
  BY TileFacts
<1>2. k \in Nat /\ k < req.K
  BY <1>1 DEF Ks
<1>3. PICK q \in Nat, l \in 0 .. req.lanes - 1 : k = q * req.lanes + l
  BY <1>1, <1>2, DivisionOf
<1>4. l \in Lanes /\ q * req.lanes \in Nat
  BY <1>1 DEF Lanes
<1>5. ~ (Chunks < q)
  <2> SUFFICES ASSUME Chunks < q PROVE FALSE
    OBVIOUS
  <2>1. Chunks * req.lanes + req.lanes <= q * req.lanes
    BY <1>1, MultiplesApart
  <2> QED
    BY <1>1, <1>2, <1>3, <1>4, <2>1
<1>6. q + 1 <= Rounds(l)
  <2>1. CASE q < Chunks
    <3>1. q + 1 <= Chunks
      BY <1>1, <2>1
    <3> QED
      BY <1>1, <3>1 DEF Rounds
  <2>2. CASE q = Chunks
    <3>1. Chunks * req.lanes + l < req.K
      BY <1>2, <1>3, <2>2
    <3> QED
      BY <2>2, <3>1 DEF Rounds
  <2> QED
    BY <1>1, <1>5, <2>1, <2>2
<1>7. Rounds(l) \in Nat
  BY <1>1 DEF Rounds
<1>8. q + 1 \in 1 .. Rounds(l) /\ (q + 1) - 1 = q
  BY <1>6, <1>7
<1> QED
  BY <1>3, <1>4, <1>8

LEMMA DotIsDot ==
  ASSUME req \in Tiles, NEW m, NEW n \in Columns
  PROVE  IsDot(Dot(m, Run(n)), m, n)
<1> DEFINE L == req.lanes
           t == Run(n)
           v == Dot(m, t)
           Term(k) == [k |-> k, x |-> m, w |-> <<t, k>>]
<1>1. ASSUME NEW p \in Terms(v)
      PROVE  /\ p[1] \in Lanes /\ p[2] \in 1 .. Rounds(p[1]) /\ p = <<p[1], p[2]>>
             /\ v[p[1]][p[2]] = Term((p[2] - 1) * L + p[1])
  <2>1. PICK l \in DOMAIN v : p \in {l} \X DOMAIN v[l]
    BY DEF Terms
  <2>2. l \in Lanes /\ v[l] = Share(m, t, l, Rounds(l))
    BY <2>1 DEF Dot
  <2>3. DOMAIN v[l] = 1 .. Rounds(l)
    BY <2>2 DEF Share
  <2>4. p[1] = l /\ p[2] \in 1 .. Rounds(l) /\ p = <<p[1], p[2]>>
    <3> HIDE DEF v
    <3> QED
      BY <2>1, <2>3
  <2>5. v[l][p[2]] = Term((p[2] - 1) * L + l)
    <3> HIDE DEF v, t
    <3> QED
      BY <2>2, <2>4 DEF Share
  <2> QED
    BY <2>2, <2>4, <2>5
<1>2. ASSUME NEW l \in Lanes, NEW c \in 1 .. Rounds(l)
      PROVE  <<l, c>> \in Terms(v) /\ v[l][c] = Term((c - 1) * L + l)
  <2>1. l \in DOMAIN v /\ v[l] = Share(m, t, l, Rounds(l))
    BY DEF Dot
  <2>2. c \in DOMAIN v[l] /\ v[l][c] = Term((c - 1) * L + l)
    <3> HIDE DEF v, t
    <3> QED
      BY <2>1 DEF Share
  <2> HIDE DEF v
  <2> QED
    BY <2>1, <2>2 DEF Terms
<1> HIDE DEF v
<1>3. \A p \in Terms(v) : v[p[1]][p[2]] \in {Term(k) : k \in Ks}
  BY <1>1, ShareInK
<1>4. ASSUME NEW k \in Ks PROVE \E p \in Terms(v) : v[p[1]][p[2]] = Term(k)
  <2>1. PICK l \in Lanes : \E c \in 1 .. Rounds(l) : k = (c - 1) * L + l
    BY KInShare
  <2>2. PICK c \in 1 .. Rounds(l) : k = (c - 1) * L + l
    BY <2>1
  <2>3. <<l, c>> \in Terms(v) /\ v[l][c] = Term((c - 1) * L + l)
    BY <1>2
  <2> DEFINE p == <<l, c>>
  <2>4. p \in Terms(v) /\ v[p[1]][p[2]] = Term(k)
    <3>1. p[1] = l /\ p[2] = c
      OBVIOUS
    <3> HIDE DEF p, Term
    <3>2. v[p[1]][p[2]] = Term(k)
      BY <2>2, <2>3, <3>1
    <3> QED
      BY <2>3, <3>2 DEF p
  <2> QED
    BY <2>4
<1>5. {v[p[1]][p[2]] : p \in Terms(v)} = {Term(k) : k \in Ks}
  <2> HIDE DEF Term
  <2> QED
    BY <1>3, <1>4
<1>6. ASSUME NEW p \in Terms(v), NEW q \in Terms(v), v[p[1]][p[2]] = v[q[1]][q[2]] PROVE p = q
  <2>1. Term((p[2] - 1) * L + p[1]) = Term((q[2] - 1) * L + q[1])
    <3> HIDE DEF Term
    <3> QED
      BY <1>1, <1>6
  <2>2. (p[2] - 1) * L + p[1] = (q[2] - 1) * L + q[1]
    BY <2>1
  <2>3. /\ p[2] \in Nat \ {0} /\ q[2] \in Nat \ {0}
    BY <1>1, ShareInK
  <2>4. L \in Nat \ {0} /\ p[1] \in 0 .. L - 1 /\ q[1] \in 0 .. L - 1
    BY <1>1, TileFacts DEF Lanes
  <2>5. p[2] - 1 \in Nat /\ q[2] - 1 \in Nat
    BY <2>3
  <2>6. ((p[2] - 1) * L + p[1]) \div L = p[2] - 1 /\ ((p[2] - 1) * L + p[1]) % L = p[1]
    BY <2>4, <2>5, DivisionUnique
  <2>7. ((q[2] - 1) * L + q[1]) \div L = q[2] - 1 /\ ((q[2] - 1) * L + q[1]) % L = q[1]
    BY <2>4, <2>5, DivisionUnique
  <2>8. p[1] = q[1] /\ p[2] - 1 = q[2] - 1
    BY <2>2, <2>6, <2>7
  <2>9. p[2] = q[2]
    BY <2>3, <2>8
  <2> QED
    BY <1>1, <2>8, <2>9
<1> QED
  BY <1>5, <1>6 DEF IsDot, v

LEMMA ColumnOwner ==
  ASSUME TileInv, NEW mn \in DOMAIN out
  PROVE  \E wl \in Threads :
           /\ mn[1] \in 0 .. req.M - 1 /\ mn[2] \in Columns
           /\ out[mn] = IF Behind(th[wl], mn[1], RunIndex(mn[2])) THEN <<Dot(mn[1], Run(mn[2]))>> ELSE <<>>
<1>1. req \in Tiles /\ mn \in (0 .. req.M - 1) \X Columns
  BY DEF TileInv, TileShape
<1>2. PICK m \in 0 .. req.M - 1, n \in Columns : mn = <<m, n>>
  BY <1>1
<1>3. req.warps \in Nat \ {0} /\ req.lanes \in Nat \ {0} /\ RunIndex(n) \in Nat
  BY <1>1, TileFacts, ColumnFacts
<1> DEFINE wl == <<RunIndex(n) % req.warps, 0>>
<1>4. wl \in Threads /\ wl[1] = RunIndex(n) % req.warps
  <2>1. \A q \in Nat : q % req.warps \in 0 .. req.warps - 1
    BY <1>3, DivisionOf
  <2>2. 0 \in 0 .. req.lanes - 1
    BY <1>3
  <2> QED
    BY <1>3, <2>1, <2>2 DEF Threads, Warps, Lanes
<1> HIDE DEF wl
<1>5. out[<<m, n>>] = IF Behind(th[wl], m, RunIndex(n)) THEN <<Dot(m, Run(n))>> ELSE <<>>
  BY <1>4 DEF TileInv, Stored
<1> QED
  BY <1>2, <1>4, <1>5

LEMMA TileInvMeans == TileInv => StoredDots /\ TileComplete
<1> SUFFICES ASSUME TileInv PROVE StoredDots /\ TileComplete
  OBVIOUS
<1>1. req \in Tiles
  BY DEF TileInv, TileShape
<1>2. ASSUME NEW mn \in DOMAIN out
      PROVE  Len(out[mn]) <= 1 /\ (Len(out[mn]) = 1 => IsDot(out[mn][1], mn[1], mn[2]))
  <2>1. mn[2] \in Columns /\ out[mn] \in {<<Dot(mn[1], Run(mn[2]))>>, <<>>}
    BY ColumnOwner
  <2>2. CASE out[mn] = <<>>
    <3>1. Len(out[mn]) = 0
      BY <2>2
    <3> QED
      BY <3>1
  <2>3. CASE out[mn] = <<Dot(mn[1], Run(mn[2]))>>
    <3>1. Len(out[mn]) = 1 /\ out[mn][1] = Dot(mn[1], Run(mn[2]))
      BY <2>3
    <3> QED
      BY <1>1, <2>1, <3>1, DotIsDot
  <2> QED
    BY <2>1, <2>2, <2>3
<1>3. ASSUME Finished, NEW mn \in DOMAIN out PROVE Len(out[mn]) = 1
  <2>1. PICK wl \in Threads :
           /\ mn[1] \in 0 .. req.M - 1 /\ mn[2] \in Columns
           /\ out[mn] = IF Behind(th[wl], mn[1], RunIndex(mn[2])) THEN <<Dot(mn[1], Run(mn[2]))>> ELSE <<>>
    BY ColumnOwner
  <2>2. /\ th[wl].t >= req.N_tile
        /\ req.kind # "wmma" => th[wl].m = req.M - 1
        /\ ThreadShape(th[wl]) /\ OnTurn(th[wl].t, wl[1]) /\ wl[1] \in Warps
    BY <1>3 DEF Finished, TileInv, Ended, TileShape, Turns, Threads
  <2>3. th[wl].t \div CPC > RunIndex(mn[2])
    BY <1>1, <2>1, <2>2, PastTheEnd DEF ThreadShape
  <2>4. req.M \in Nat
    BY <1>1, TileFacts
  <2>5. Behind(th[wl], mn[1], RunIndex(mn[2]))
    <3>1. CASE req.kind = "wmma"
      BY <2>3, <3>1 DEF Behind
    <3>2. CASE req.kind # "wmma"
      <4>1. th[wl].m > mn[1] \/ th[wl].m = mn[1]
        BY <2>1, <2>2, <2>4, <3>2
      <4> QED
        BY <2>3, <3>2, <4>1 DEF Behind
    <3> QED
      BY <3>1, <3>2
  <2>6. out[mn] = <<Dot(mn[1], Run(mn[2]))>>
    BY <2>1, <2>5
  <2> QED
    BY <2>6
<1> QED
  BY <1>2, <1>3 DEF StoredDots, TileComplete

(* The invariant of the projection kernels: the warps keep to their runs,  *)
(* the block to its row, the caches and rings hold what their flags say,   *)
(* and what is stored is what the warps have left behind.                  *)
THEOREM TileInvariant == TileSpec => []TileInv
<1>1. TileInit => TileInv
  BY InitTileInv
<1>2. TileInv /\ [TileNext]_tilevars => TileInv'
  BY NextTileInv
<1> QED
  BY <1>1, <1>2, PTL DEF TileSpec

(* Every column a kernel of ops.cuh stores is the dot product of its own   *)
(* row of x and its own column of W, every k once and nothing else: no     *)
(* slot is read before its cp.async landed or after it was reused, no      *)
(* cached x belongs to another row, whatever the block, the K axis, the    *)
(* tile, the depth of the ring and the order the copies land in.           *)
THEOREM StoresAreDots == TileSpec => []StoredDots
<1>1. TileInv => StoredDots
  BY TileInvMeans
<1> QED
  BY <1>1, TileInvariant, PTL

(* When the threads of a block have finished a tile every column of every  *)
(* row has been stored: the ragged end of K, the run the end of the tile   *)
(* cuts short and the last row are left to somebody.                       *)
THEOREM TilesAreComplete == TileSpec => []TileComplete
<1>1. TileInv => TileComplete
  BY TileInvMeans
<1> QED
  BY <1>1, TileInvariant, PTL

-----------------------------------------------------------------------------
(***************************************************************************)
(* The memory of a block: what the host counts is no less than what the    *)
(* device carves out.                                                      *)
(***************************************************************************)

(* A finite set of integers, not empty, has a maximum: a smallest subset   *)
(* without one would have one after all.                                   *)
LEMMA FiniteMax ==
  ASSUME NEW S, IsFiniteSet(S), S \subseteq Int, S # {}
  PROVE  Max(S) \in S /\ \A x \in S : x <= Max(S)
<1> DEFINE Topped(T) == \E x \in T : \A y \in T : x >= y
           Bad == {T \in SUBSET S : T # {} /\ ~ Topped(T)}
           Sizes == {Cardinality(T) : T \in Bad}
           R == {p \in Nat \X Nat : p[1] < p[2]}
<1>1. \A T \in SUBSET S : IsFiniteSet(T) /\ Cardinality(T) \in Nat
  BY FS_Subset, FS_CardinalityType
<1>2. IsWellFoundedOn(R, Nat)
  <2>1. R = OpToRel(<, Nat)
    BY DEF OpToRel
  <2> QED
    BY <2>1, NatLessThanWellFounded
<1>3. Sizes = {}
  <2> SUFFICES ASSUME Sizes # {} PROVE FALSE
    OBVIOUS
  <2>1. Sizes \in SUBSET Nat
    BY <1>1
  <2>2. PICK n \in Sizes : \A k \in Sizes : ~ (<<k, n>> \in R)
    <3> HIDE DEF Sizes, R
    <3> QED
      BY <1>2, <2>1, WFMin
  <2>3. PICK T \in Bad : n = Cardinality(T)
    BY <2>2
  <2>4. PICK x \in T : TRUE
    BY <2>3
  <2> DEFINE U == T \ {x}
  <2>5. U \in SUBSET S /\ Cardinality(U) = n - 1 /\ Cardinality(U) \in Nat /\ n \in Nat
    BY <1>1, <2>3, FS_RemoveElement
  <2>6. U \notin Bad
    <3> SUFFICES ASSUME U \in Bad PROVE FALSE
      OBVIOUS
    <3>1. Cardinality(U) \in Sizes
      OBVIOUS
    <3>2. Cardinality(U) < n
      BY <2>5
    <3>3. <<Cardinality(U), n>> \in R
      <4> HIDE DEF U
      <4> QED
        BY <2>5, <3>2
    <3> QED
      BY <2>2, <3>1, <3>3
  <2>7. x \in Int /\ T \subseteq Int /\ ~ Topped(T)
    BY <2>3, <2>4
  <2>8. CASE U = {}
    <3>1. \A y \in T : y = x
      BY <2>8
    <3>2. Topped(T)
      BY <2>7, <3>1
    <3> QED
      BY <2>7, <3>2
  <2>9. CASE U # {}
    <3>1. PICK z \in U : \A y \in U : z >= y
      BY <2>5, <2>6, <2>9
    <3>2. z \in T /\ z \in Int /\ \A y \in T : y = x \/ y \in U
      BY <2>7, <3>1
    <3>3. CASE z >= x
      <4>1. \A y \in T : z >= y
        BY <3>1, <3>2, <3>3
      <4> QED
        BY <2>7, <3>2, <4>1
    <3>4. CASE ~ (z >= x)
      <4>1. \A y \in T : x >= y
        BY <2>7, <3>1, <3>2, <3>4
      <4> QED
        BY <2>4, <2>7, <4>1
    <3> QED
      BY <3>3, <3>4
  <2> QED
    BY <2>8, <2>9
<1>4. Topped(S)
  BY <1>3
<1>5. Max(S) \in S /\ \A y \in S : Max(S) >= y
  BY <1>4 DEF Max
<1> QED
  BY <1>5

(* A launch as the loader is asked for it.                                 *)
Asked(l) ==
  /\ l \in [knobs : {l.knobs}, tasks : {l.tasks}, threads : Nat, smem : Nat, cap : Nat,
            capability : Nat, scalar : BOOLEAN, noinline : BOOLEAN]
  /\ \A n \in DOMAIN l.knobs : l.knobs[n] \in Int
  /\ IsFiniteSet(l.tasks)
  /\ \A t \in l.tasks :
       /\ t \in [op : {"gemv", "gemm", "attention"}, qdtype : {"fp", "int8", "int4"}, K : Nat \ {0},
                 M : Nat, half : BOOLEAN, unitStride : BOOLEAN]
       /\ t.op = "attention" \/ (t.op = "gemm" /\ t.half) => t.qdtype = "fp"

LEMMA NormalizedKnobs ==
  ASSUME NEW l, Asked(l)
  PROVE  /\ DOMAIN Normalized(l.knobs) = KnobNames
         /\ \A n \in KnobNames : Normalized(l.knobs)[n] \in Int
<1>1. \A n \in KnobNames : KnobDefaults[n] \in Int
  BY DEF KnobNames, KnobDefaults
<1> QED
  BY <1>1 DEF Normalized, Asked

LEMMA KnobNamesAre ==
  KnobNames = {"cols_per_warp", "kunroll", "lb_maxthreads", "lb_minblocks", "gemv_max_k", "cpasync",
               "cpa_cols", "cpa_stages", "cpa_vpl", "qc", "qcpasync", "gemm_wmma", "qfastdeq"}
BY DEF KnobNames, KnobDefaults

LEMMA WorstKBounds ==
  ASSUME NEW l, Asked(l), NEW op, NEW qdtypes
  PROVE  /\ WorstK(l.tasks, op, qdtypes) \in Nat
         /\ \A t \in l.tasks : t.op = op /\ t.qdtype \in qdtypes => t.K <= WorstK(l.tasks, op, qdtypes)
<1> DEFINE Mine == {u \in l.tasks : u.op = op /\ u.qdtype \in qdtypes}
           S == {t.K : t \in Mine}
<1>1. S \subseteq Nat
  BY DEF Asked
<1>2. IsFiniteSet(S)
  <2>1. IsFiniteSet(Mine)
    BY FS_Subset DEF Asked
  <2> DEFINE f == [t \in Mine |-> t.K]
  <2>2. f \in Surjection(Mine, S)
    BY DEF Surjection
  <2> HIDE DEF f, Mine, S
  <2> QED
    BY <2>1, <2>2, FS_Surjection
<1>3. WorstK(l.tasks, op, qdtypes) = IF S = {} THEN 0 ELSE Max(S)
  BY DEF WorstK, Worst
<1>4. S # {} => Max(S) \in S /\ \A x \in S : x <= Max(S)
  <2>1. S \subseteq Int
    BY <1>1
  <2> HIDE DEF S
  <2> SUFFICES ASSUME S # {} PROVE Max(S) \in S /\ \A x \in S : x <= Max(S)
    OBVIOUS
  <2> QED
    BY <1>2, <2>1, FiniteMax
<1>5. \A t \in l.tasks : t.op = op /\ t.qdtype \in qdtypes => t.K \in S
  OBVIOUS
<1> HIDE DEF S
<1>6. WorstK(l.tasks, op, qdtypes) \in Nat
  <2>1. CASE S = {}
    BY <1>3, <2>1
  <2>2. CASE S # {}
    <3>1. WorstK(l.tasks, op, qdtypes) \in S
      BY <1>3, <1>4, <2>2
    <3> QED
      BY <1>1, <3>1
  <2> QED
    BY <2>1, <2>2
<1>7. \A x \in S : x <= WorstK(l.tasks, op, qdtypes)
  BY <1>3, <1>4
<1> QED
  BY <1>5, <1>6, <1>7

LEMMA FlagCases ==
  ASSUME NEW l, NEW f \in Flags(l)
  PROVE  LET k == Normalized(l.knobs)
         IN  \/ \E n \in {"cols_per_warp", "kunroll", "gemv_max_k", "cpa_cols", "cpa_stages", "cpa_vpl", "qc"} :
                  f = <<n, k[n]>> /\ k[n] # KnobDefaults[n]
             \/ \E n \in {"cpasync", "qcpasync", "gemm_wmma"} : f = <<n, k[n]>> /\ k[n] # 0 /\ l.capability >= 8
             \/ \E n \in {"qfastdeq", "lb_maxthreads", "lb_minblocks"} : f = <<n, k[n]>>
             \/ f = <<"scalar", 1>> \/ f = <<"noinline", 1>>
<1> DEFINE k == Normalized(l.knobs)
<1>1. \/ f \in Values(k, {"cols_per_warp", "kunroll", "gemv_max_k", "cpa_cols", "cpa_stages", "cpa_vpl", "qc"})
      \/ l.capability >= 8 /\ f \in Switches(k, {"cpasync", "qcpasync", "gemm_wmma"})
      \/ f \in Switches(k, {"qfastdeq"}) \/ f \in Switches(k, {"lb_maxthreads", "lb_minblocks"})
      \/ f = <<"scalar", 1>> \/ f = <<"noinline", 1>>
  <2> HIDE DEF k
  <2>1. f \in Values(k, {"cols_per_warp", "kunroll", "gemv_max_k", "cpa_cols", "cpa_stages", "cpa_vpl", "qc"})
      \cup (IF l.capability >= 8 THEN Switches(k, {"cpasync", "qcpasync", "gemm_wmma"}) ELSE {})
      \cup (IF l.capability >= 6 THEN Switches(k, {"qfastdeq"}) ELSE {})
      \cup (IF k.lb_minblocks > 0 THEN Switches(k, {"lb_maxthreads", "lb_minblocks"}) ELSE {})
      \cup (IF l.scalar THEN {<<"scalar", 1>>} ELSE {})
      \cup (IF l.noinline THEN {<<"noinline", 1>>} ELSE {})
    BY DEF Flags, k
  <2> QED
    BY <2>1
<1> HIDE DEF k
<1>2. ASSUME NEW N, f \in Values(k, N) PROVE \E n \in N : f = <<n, k[n]>> /\ k[n] # KnobDefaults[n]
  BY <1>2 DEF Values
<1>3. ASSUME NEW N, f \in Switches(k, N) PROVE \E n \in N : f = <<n, k[n]>> /\ k[n] # 0
  BY <1>3 DEF Switches
<1>4. CASE f \in Values(k, {"cols_per_warp", "kunroll", "gemv_max_k", "cpa_cols", "cpa_stages", "cpa_vpl", "qc"})
  BY <1>2, <1>4 DEF k
<1>5. CASE l.capability >= 8 /\ f \in Switches(k, {"cpasync", "qcpasync", "gemm_wmma"})
  BY <1>3, <1>5 DEF k
<1>6. CASE f \in Switches(k, {"qfastdeq"}) \/ f \in Switches(k, {"lb_maxthreads", "lb_minblocks"})
  <2>1. PICK N \in {{"qfastdeq"}, {"lb_maxthreads", "lb_minblocks"}} : f \in Switches(k, N)
    BY <1>6
  <2>2. PICK n \in N : f = <<n, k[n]>>
    BY <1>3, <2>1
  <2>3. n \in {"qfastdeq", "lb_maxthreads", "lb_minblocks"}
    BY <2>1, <2>2
  <2> QED
    BY <2>2, <2>3 DEF k
<1> QED
  BY <1>1, <1>4, <1>5, <1>6

LEMMA SetFlags ==
  ASSUME NEW l, NEW n
  PROVE  LET k == Normalized(l.knobs)
         IN  /\ n \in {"cpa_cols", "cpa_stages", "cpa_vpl"} /\ k[n] # KnobDefaults[n] => <<n, k[n]>> \in Flags(l)
             /\ n \in {"cpasync", "qcpasync", "gemm_wmma"} /\ k[n] # 0 /\ l.capability >= 8 => <<n, k[n]>> \in Flags(l)
<1> DEFINE k == Normalized(l.knobs)
<1>1. ASSUME NEW N, n \in N, k[n] # KnobDefaults[n] PROVE <<n, k[n]>> \in Values(k, N)
  <2> HIDE DEF k
  <2> QED
    BY <1>1 DEF Values
<1>2. ASSUME NEW N, n \in N, k[n] # 0 PROVE <<n, k[n]>> \in Switches(k, N)
  <2> HIDE DEF k
  <2> QED
    BY <1>2 DEF Switches
<1>3. /\ Values(k, {"cols_per_warp", "kunroll", "gemv_max_k", "cpa_cols", "cpa_stages", "cpa_vpl", "qc"}) \subseteq Flags(l)
      /\ l.capability >= 8 => Switches(k, {"cpasync", "qcpasync", "gemm_wmma"}) \subseteq Flags(l)
  <2> HIDE DEF k
  <2>1. Flags(l) = Values(k, {"cols_per_warp", "kunroll", "gemv_max_k", "cpa_cols", "cpa_stages", "cpa_vpl", "qc"})
      \cup (IF l.capability >= 8 THEN Switches(k, {"cpasync", "qcpasync", "gemm_wmma"}) ELSE {})
      \cup (IF l.capability >= 6 THEN Switches(k, {"qfastdeq"}) ELSE {})
      \cup (IF k.lb_minblocks > 0 THEN Switches(k, {"lb_maxthreads", "lb_minblocks"}) ELSE {})
      \cup (IF l.scalar THEN {<<"scalar", 1>>} ELSE {})
      \cup (IF l.noinline THEN {<<"noinline", 1>>} ELSE {})
    BY DEF Flags, k
  <2> QED
    BY <2>1
<1>4. n \in {"cpa_cols", "cpa_stages", "cpa_vpl"} /\ k[n] # KnobDefaults[n] => <<n, k[n]>> \in Flags(l)
  <2> SUFFICES ASSUME n \in {"cpa_cols", "cpa_stages", "cpa_vpl"}, k[n] # KnobDefaults[n]
               PROVE  <<n, k[n]>> \in Flags(l)
    OBVIOUS
  <2>1. <<n, k[n]>> \in Values(k, {"cols_per_warp", "kunroll", "gemv_max_k", "cpa_cols", "cpa_stages", "cpa_vpl", "qc"})
    <3>1. n \in {"cols_per_warp", "kunroll", "gemv_max_k", "cpa_cols", "cpa_stages", "cpa_vpl", "qc"}
      OBVIOUS
    <3> HIDE DEF k
    <3> QED
      BY <1>1, <3>1
  <2> HIDE DEF k
  <2> QED
    BY <1>3, <2>1
<1>5. n \in {"cpasync", "qcpasync", "gemm_wmma"} /\ k[n] # 0 /\ l.capability >= 8 => <<n, k[n]>> \in Flags(l)
  <2> HIDE DEF k
  <2> QED
    BY <1>2, <1>3
<1> QED
  BY <1>4, <1>5

(* The macros a kernel was compiled with are the knobs of the launch.      *)
LEMMA MacroFacts ==
  ASSUME NEW l, Asked(l)
  PROVE  LET k == Normalized(l.knobs)
             flags == Flags(l)
         IN  /\ \A n \in {"cpa_cols", "cpa_stages", "cpa_vpl"} : Macro(flags, n) = k[n]
             /\ \A n \in {"cpasync", "qcpasync", "gemm_wmma"} :
                  Defined(flags, n) => /\ k[n] # 0 /\ l.capability >= 8
                                       /\ Macro(flags, n) = k[n]
<1> DEFINE k == Normalized(l.knobs)
           flags == Flags(l)
<1>1. ASSUME NEW n \in {"cpa_cols", "cpa_stages", "cpa_vpl"}, NEW f \in flags, f[1] = n
      PROVE  f[2] = k[n] /\ k[n] # KnobDefaults[n]
  <2> HIDE DEF k
  <2> QED
    BY <1>1, FlagCases DEF k
<1>2. ASSUME NEW n \in {"cpasync", "qcpasync", "gemm_wmma"}, NEW f \in flags, f[1] = n
      PROVE  f[2] = k[n] /\ k[n] # 0 /\ l.capability >= 8
  <2> HIDE DEF k
  <2> QED
    BY <1>2, FlagCases DEF k
<1> HIDE DEF flags
<1>3. ASSUME NEW n \in {"cpa_cols", "cpa_stages", "cpa_vpl"} PROVE Macro(flags, n) = k[n]
  <2>1. CASE \E f \in flags : f[1] = n
    <3> DEFINE c == CHOOSE f \in flags : f[1] = n
    <3>1. c \in flags /\ c[1] = n
      BY <2>1
    <3>2. Macro(flags, n) = c[2]
      BY <2>1 DEF Macro
    <3> HIDE DEF c, k
    <3> QED
      BY <1>1, <3>1, <3>2
  <2>2. CASE ~ \E f \in flags : f[1] = n
    <3>1. Macro(flags, n) = MacroDefaults[n]
      BY <2>2 DEF Macro
    <3>2. k[n] = KnobDefaults[n]
      <4> SUFFICES ASSUME k[n] # KnobDefaults[n] PROVE FALSE
        OBVIOUS
      <4>1. <<n, k[n]>> \in flags
        BY SetFlags DEF flags
      <4>2. <<n, k[n]>>[1] = n
        OBVIOUS
      <4> HIDE DEF k
      <4> QED
        BY <2>2, <4>1, <4>2
    <3>3. MacroDefaults[n] = KnobDefaults[n]
      BY DEF MacroDefaults, KnobDefaults
    <3> QED
      BY <3>1, <3>2, <3>3
  <2> QED
    BY <2>1, <2>2
<1>4. ASSUME NEW n \in {"cpasync", "qcpasync", "gemm_wmma"}, Defined(flags, n)
      PROVE  /\ k[n] # 0 /\ l.capability >= 8
             /\ Macro(flags, n) = k[n]
  <2> DEFINE c == CHOOSE f \in flags : f[1] = n
  <2>1. c \in flags /\ c[1] = n
    BY <1>4 DEF Defined
  <2>2. Macro(flags, n) = c[2]
    BY <1>4 DEF Macro, Defined
  <2> HIDE DEF c, k
  <2> QED
    BY <1>2, <2>1, <2>2
<1> QED
  BY <1>3, <1>4 DEF flags

(* _EXT_CACHE: the launches that share a kernel have the same flags.       *)
LEMMA VariantFlags ==
  ASSUME NEW l, NEW j, Asked(l), Asked(j), Variant(l) = Variant(j), l.capability = j.capability
  PROVE  Flags(l) = Flags(j)
<1> DEFINE k == Normalized(l.knobs)
           i == Normalized(j.knobs)
<1>1. l.scalar = j.scalar /\ l.noinline = j.noinline /\ KnobSuffix(k) = KnobSuffix(i)
  BY DEF Variant
<1>2. ASSUME NEW a, NEW b, KnobSuffix(a) = KnobSuffix(b), NEW n \in KnobNames, a[n] # KnobDefaults[n]
      PROVE  b[n] = a[n]
  <2>1. <<n, a[n]>> \in {<<m, b[m]>> : m \in {m \in KnobNames : b[m] # KnobDefaults[m]}}
    BY <1>2 DEF KnobSuffix, Values
  <2>2. PICK m \in KnobNames : <<n, a[n]>> = <<m, b[m]>>
    BY <2>1
  <2> QED
    BY <2>2
<1>3. \A n \in KnobNames : k[n] = i[n]
  <2> HIDE DEF k, i
  <2> QED
    BY <1>1, <1>2
<1>4. k = i
  <2>1. k = [n \in KnobNames |-> k[n]] /\ i = [n \in KnobNames |-> i[n]]
    BY DEF Normalized
  <2> HIDE DEF k, i
  <2> QED
    BY <1>3, <2>1
<1> HIDE DEF k, i
<1> QED
  BY <1>1, <1>4 DEF Flags, k, i

LEMMA RoundedFacts ==
  ASSUME NEW a \in Nat, NEW b \in Nat, a <= b
  PROVE  Rounded(a) \in Nat /\ a <= Rounded(a) /\ Rounded(a) <= Rounded(b)
<1>1. PICK p \in Nat, r \in 0 .. 3 : (a + 3) \div 4 = p /\ a + 3 = p * 4 + r
  BY DivisionOf
<1>2. PICK q \in Nat, s \in 0 .. 3 : (b + 3) \div 4 = q /\ b + 3 = q * 4 + s
  BY DivisionOf
<1>3. p <= q
  BY <1>1, <1>2
<1> QED
  BY <1>1, <1>2, <1>3 DEF Rounded

LEMMA WarpCountType ==
  ASSUME NEW n \in Nat
  PROVE  WarpCount(n) \in Nat
<1>1. (n + 31) \div 32 \in Nat
  BY DivisionOf
<1> QED
  BY <1>1 DEF WarpCount

(* The knobs the rings are sized with, in a launch the loader accepts.     *)
LEMMA RingTypes ==
  ASSUME NEW l, Asked(l), KnobsAccepted(l.knobs)
  PROVE  LET k == Normalized(l.knobs)
         IN  /\ k.cpa_stages \in Nat \ {0} /\ k.cpa_cols \in Nat \ {0} /\ k.cpa_vpl \in Nat \ {0}
             /\ WarpCount(l.threads) \in Nat /\ RingBytes(k, l.threads) \in Nat
<1> DEFINE k == Normalized(l.knobs)
<1>1. k["cpa_stages"] \in 1 .. 16 /\ k["cpa_cols"] \in 1 .. 16 /\ k["cpa_vpl"] \in 1 .. 8
  <2>1. \A n \in DOMAIN KnobRanges : k[n] \in KnobRanges[n]
    BY DEF KnobsAccepted
  <2>2. {"cpa_stages", "cpa_cols", "cpa_vpl"} \subseteq DOMAIN KnobRanges
    BY DEF KnobRanges
  <2>3. KnobRanges["cpa_stages"] = 1 .. 16 /\ KnobRanges["cpa_cols"] = 1 .. 16 /\ KnobRanges["cpa_vpl"] = 1 .. 8
    BY DEF KnobRanges
  <2> HIDE DEF k
  <2> QED
    BY <2>1, <2>2, <2>3
<1>2. l.threads \in Nat
  BY DEF Asked
<1>3. WarpCount(l.threads) \in Nat
  BY <1>2, WarpCountType
<1> HIDE DEF k
<1>4. k.cpa_stages \in Nat \ {0} /\ k.cpa_cols \in Nat \ {0} /\ k.cpa_vpl \in Nat \ {0}
  BY <1>1
<1>5. RingBytes(k, l.threads) \in Nat
  <2>1. k.cpa_vpl * 32 * 16 \in Nat /\ WarpCount(l.threads) * k.cpa_stages \in Nat
    BY <1>3, <1>4
  <2>2. WarpCount(l.threads) * k.cpa_stages * k.cpa_cols \in Nat
    BY <1>4, <2>1
  <2> QED
    BY <2>1, <2>2 DEF RingBytes
<1> QED
  BY <1>3, <1>4, <1>5 DEF k

(* What DynSmem is the maximum of.                                         *)
LEMMA DynSmemBounds ==
  ASSUME NEW l, Asked(l), KnobsAccepted(l.knobs)
  PROVE  LET k == Normalized(l.knobs)
             D == DynSmem(l)
         IN  /\ D \in Nat /\ AttentionSmem(l.tasks, l.threads) <= D /\ QuantCacheSmem(l.tasks) <= D
             /\ l.capability >= 8 => /\ GemvSmem(k, l.tasks, l.threads) <= D
                                     /\ QGemvSmem(k, l.tasks, l.threads) <= D
                                     /\ WmmaSmem(k, l.tasks, l.threads) <= D
<1> DEFINE k == Normalized(l.knobs)
           A == {l.smem, AttentionSmem(l.tasks, l.threads), QuantCacheSmem(l.tasks)}
           B == {GemvSmem(k, l.tasks, l.threads), QGemvSmem(k, l.tasks, l.threads), WmmaSmem(k, l.tasks, l.threads)}
           S == A \cup (IF l.capability < 8 THEN {} ELSE B)
<1>1. /\ WarpCount(l.threads) \in Nat /\ RingBytes(k, l.threads) \in Nat
      /\ \A op, q : WorstK(l.tasks, op, q) \in Nat
      /\ l.smem \in Nat /\ l.capability \in Nat
  BY RingTypes, WorstKBounds DEF Asked
<1>2. \A K \in Nat : AtMost(K, QGEMV_SMEM_MAX_K) \in Nat /\ Rounded(K) \in Nat
  BY RoundedFacts DEF AtMost, QGEMV_SMEM_MAX_K
<1>3. AttentionSmem(l.tasks, l.threads) \in Nat
  <2>1. WarpCount(l.threads) * 2 \in Nat /\ WorstK(l.tasks, "attention", {"fp"}) \in Nat
    BY <1>1
  <2>2. WarpCount(l.threads) * 2 * WorstK(l.tasks, "attention", {"fp"}) \in Nat
    BY <2>1
  <2> QED
    BY <2>2 DEF AttentionSmem
<1>4. QuantCacheSmem(l.tasks) \in Nat
  BY <1>1, <1>2 DEF QuantCacheSmem
<1>5. GemvSmem(k, l.tasks, l.threads) \in Nat
  <2>1. Rounded(WorstK(l.tasks, "gemv", {"fp"})) \in Nat
    BY <1>1, <1>2
  <2> HIDE DEF k
  <2> QED
    BY <1>1, <2>1 DEF GemvSmem
<1>6. QGemvSmem(k, l.tasks, l.threads) \in Nat
  <2>1. Rounded(AtMost(WorstK(l.tasks, "gemv", {"int8"}), QGEMV_SMEM_MAX_K)) \in Nat
    BY <1>1, <1>2
  <2> HIDE DEF k
  <2> QED
    BY <1>1, <2>1 DEF QGemvSmem
<1>7. WmmaSmem(k, l.tasks, l.threads) \in Nat
  <2> HIDE DEF k
  <2> QED
    BY <1>1 DEF WmmaSmem
<1>8. S \subseteq Int /\ S # {}
  <2>1. A \subseteq Nat /\ A # {}
    BY <1>1, <1>3, <1>4
  <2>2. B \subseteq Nat
    BY <1>5, <1>6, <1>7
  <2> HIDE DEF A, B
  <2> QED
    BY <2>1, <2>2
<1>9. IsFiniteSet(S)
  <2>1. \A a, b, c : IsFiniteSet({a, b, c})
    <3> TAKE a, b, c
    <3>1. IsFiniteSet({a} \cup ({b} \cup {c}))
      BY FS_Singleton, FS_Union
    <3>2. {a, b, c} = {a} \cup ({b} \cup {c})
      OBVIOUS
    <3> QED
      BY <3>1, <3>2
  <2>2. IsFiniteSet(A) /\ IsFiniteSet(B)
    BY <2>1
  <2> HIDE DEF A, B
  <2> QED
    BY <2>2, FS_EmptySet, FS_Union
<1>10. DynSmem(l) = Max(S)
  BY DEF DynSmem
<1>11. \A x \in S : x <= DynSmem(l)
  <2> HIDE DEF S
  <2> QED
    BY <1>8, <1>9, <1>10, FiniteMax
<1>12. DynSmem(l) \in Nat
  <2>1. DynSmem(l) \in Int
    <3> HIDE DEF S
    <3> QED
      BY <1>8, <1>9, <1>10, FiniteMax
  <2>2. l.smem <= DynSmem(l)
    BY <1>11
  <2> QED
    BY <1>1, <2>1, <2>2
<1>13. AttentionSmem(l.tasks, l.threads) <= DynSmem(l) /\ QuantCacheSmem(l.tasks) <= DynSmem(l)
  BY <1>11
<1>14. ASSUME l.capability >= 8 PROVE \A x \in B : x <= DynSmem(l)
  <2>1. ~ (l.capability < 8)
    BY <1>1, <1>14
  <2> HIDE DEF B
  <2> QED
    BY <1>11, <2>1
<1> HIDE DEF k
<1> QED
  BY <1>12, <1>13, <1>14 DEF k

(* The flags of a kernel say no more than the knobs its launch was sized   *)
(* with.                                                                   *)
Honest(l, flags) ==
  LET k == Normalized(l.knobs)
  IN  /\ \A n \in {"cpasync", "qcpasync", "gemm_wmma"} :
           Defined(flags, n) => k[n] # 0 /\ l.capability >= 8 /\ Macro(flags, n) = k[n]
      /\ Defined(flags, "cpasync") \/ Defined(flags, "qcpasync") =>
           \A n \in {"cpa_cols", "cpa_stages", "cpa_vpl"} : Macro(flags, n) = k[n]

LEMMA RingIsSized ==
  ASSUME NEW l, Asked(l), KnobsAccepted(l.knobs), NEW flags, Honest(l, flags),
         Defined(flags, "cpasync") \/ Defined(flags, "qcpasync")
  PROVE  /\ Ring(flags, l.threads) = RingBytes(Normalized(l.knobs), l.threads)
         /\ Ring(flags, l.threads) \in Nat
         /\ ChunkElements(flags, 4) \in Nat \ {0}
<1> DEFINE k == Normalized(l.knobs)
<1>1. /\ k.cpa_stages \in Nat \ {0} /\ k.cpa_cols \in Nat \ {0} /\ k.cpa_vpl \in Nat \ {0}
      /\ WarpCount(l.threads) \in Nat /\ RingBytes(k, l.threads) \in Nat
  BY RingTypes
<1>2. /\ Macro(flags, "cpa_stages") = k["cpa_stages"] /\ Macro(flags, "cpa_cols") = k["cpa_cols"]
      /\ Macro(flags, "cpa_vpl") = k["cpa_vpl"]
  BY DEF Honest
<1> HIDE DEF k
<1>3. 32 * k.cpa_vpl * 16 = k.cpa_vpl * 32 * 16 /\ 32 * k.cpa_vpl * 4 \in Nat \ {0}
  BY <1>1
<1>4. Ring(flags, l.threads) = RingBytes(k, l.threads)
  BY <1>2, <1>3 DEF Ring, RingBytes
<1>5. ChunkElements(flags, 4) = 32 * k.cpa_vpl * 4
  <2>1. 16 \div 4 = 4
    OBVIOUS
  <2> QED
    BY <1>2, <2>1 DEF ChunkElements
<1> QED
  BY <1>1, <1>3, <1>4, <1>5 DEF k

LEMMA NeedFits ==
  ASSUME NEW l, Asked(l), KnobsAccepted(l.knobs), NEW flags, Honest(l, flags), NEW t \in l.tasks
  PROVE  Need(t, flags, l.threads) <= DynSmem(l)
<1> DEFINE k == Normalized(l.knobs)
           D == DynSmem(l)
<1>1. /\ D \in Nat /\ AttentionSmem(l.tasks, l.threads) <= D /\ QuantCacheSmem(l.tasks) <= D
      /\ l.capability >= 8 => /\ GemvSmem(k, l.tasks, l.threads) <= D
                              /\ QGemvSmem(k, l.tasks, l.threads) <= D
                              /\ WmmaSmem(k, l.tasks, l.threads) <= D
  BY DynSmemBounds
<1>2. /\ t.op \in {"gemv", "gemm", "attention"} /\ t.qdtype \in {"fp", "int8", "int4"} /\ t.K \in Nat \ {0} /\ t.M \in Nat
      /\ t.op = "attention" \/ (t.op = "gemm" /\ t.half) => t.qdtype = "fp"
  BY DEF Asked
<1>3. WarpCount(l.threads) \in Nat
  BY WarpCountType DEF Asked
<1>4. \A op, q : /\ WorstK(l.tasks, op, q) \in Nat
                 /\ t.op = op /\ t.qdtype \in q => t.K <= WorstK(l.tasks, op, q)
  BY WorstKBounds
<1>5. \A n \in {"cpasync", "qcpasync", "gemm_wmma"} :
        Defined(flags, n) => k[n] # 0 /\ l.capability >= 8 /\ Macro(flags, n) = k[n]
  BY DEF Honest
<1> HIDE DEF k, D
<1>6. CASE t.op = "gemv" /\ t.qdtype = "fp"
  <2>1. Need(t, flags, l.threads) = GemvNeed(t, flags, l.threads)
    BY <1>6 DEF Need
  <2> DEFINE K == WorstK(l.tasks, "gemv", {"fp"})
  <2>2. K \in Nat /\ t.K <= K
    BY <1>4, <1>6
  <2> HIDE DEF K
  <2>3. CASE ~ Defined(flags, "cpasync")
    <3>1. GemvNeed(t, flags, l.threads) = 0
      BY <2>3 DEF GemvNeed
    <3> QED
      BY <1>1, <2>1, <3>1 DEF D
  <2>4. CASE Defined(flags, "cpasync")
    <3>1. k["cpasync"] # 0 /\ l.capability >= 8
      BY <1>5, <2>4
    <3>2. GemvSmem(k, l.tasks, l.threads) = Rounded(K) * 4 + RingBytes(k, l.threads)
      <4>1. ~ (k.cpasync = 0 \/ K = 0)
        BY <1>2, <2>2, <3>1
      <4> QED
        BY <4>1 DEF GemvSmem, K
    <3>3. Ring(flags, l.threads) = RingBytes(k, l.threads) /\ Ring(flags, l.threads) \in Nat
      BY <2>4, RingIsSized DEF k
    <3>4. Rounded(t.K) \in Nat /\ t.K <= Rounded(t.K) /\ Rounded(t.K) <= Rounded(K) /\ Rounded(K) \in Nat
      BY <1>2, <2>2, RoundedFacts
    <3>5. GemvNeed(t, flags, l.threads) \in {0, t.K * 4, Rounded(t.K) * 4 + Ring(flags, l.threads)}
      BY DEF GemvNeed
    <3>6. GemvNeed(t, flags, l.threads) <= Rounded(K) * 4 + RingBytes(k, l.threads)
      BY <1>2, <3>3, <3>4, <3>5
    <3>7. GemvNeed(t, flags, l.threads) \in Nat
      BY <1>2, <3>3, <3>4, <3>5
    <3>8. Rounded(K) * 4 + RingBytes(k, l.threads) <= D
      BY <1>1, <3>1, <3>2
    <3>9. Rounded(K) * 4 + RingBytes(k, l.threads) \in Nat
      BY <3>3, <3>4
    <3> QED
      BY <1>1, <2>1, <3>6, <3>7, <3>8, <3>9 DEF D
  <2> QED
    BY <2>3, <2>4
<1>7. CASE t.op = "gemv" /\ t.qdtype # "fp"
  <2>1. Need(t, flags, l.threads) = QuantNeed(t, flags, l.threads)
    BY <1>7 DEF Need
  <2>2. CASE ~ (t.unitStride /\ t.K <= QGEMV_SMEM_MAX_K)
    <3>1. QuantNeed(t, flags, l.threads) = 0
      BY <2>2 DEF QuantNeed
    <3> QED
      BY <1>1, <2>1, <3>1 DEF D
  <2>3. CASE /\ t.K <= QGEMV_SMEM_MAX_K
             /\ QuantNeed(t, flags, l.threads) = t.K * 4
    <3> DEFINE K == WorstK(l.tasks, "gemv", {"int8", "int4"})
    <3>1. K \in Nat /\ t.K <= K
      <4>1. t.qdtype \in {"int8", "int4"}
        BY <1>2, <1>7
      <4> QED
        BY <1>4, <1>7, <4>1
    <3> HIDE DEF K
    <3>2. t.K <= AtMost(K, QGEMV_SMEM_MAX_K) /\ AtMost(K, QGEMV_SMEM_MAX_K) \in Nat
      BY <1>2, <2>3, <3>1 DEF AtMost, QGEMV_SMEM_MAX_K
    <3>3. AtMost(K, QGEMV_SMEM_MAX_K) * 4 <= D
      BY <1>1 DEF QuantCacheSmem, K
    <3> QED
      BY <1>1, <1>2, <2>1, <2>3, <3>2, <3>3 DEF D
  <2>4. CASE /\ t.K <= QGEMV_SMEM_MAX_K
             /\ Defined(flags, "qcpasync") /\ t.qdtype = "int8" /\ t.unitStride
             /\ QuantNeed(t, flags, l.threads) = Rounded(t.K) * 4 + Ring(flags, l.threads)
    <3> DEFINE K == WorstK(l.tasks, "gemv", {"int8"})
               C == AtMost(K, QGEMV_SMEM_MAX_K)
    <3>1. K \in Nat /\ t.K <= K
      BY <1>4, <1>7, <2>4
    <3> HIDE DEF K
    <3>2. C \in Nat /\ t.K <= C
      BY <1>2, <2>4, <3>1 DEF AtMost, QGEMV_SMEM_MAX_K
    <3>3. k["qcpasync"] # 0 /\ l.capability >= 8
      BY <1>5, <2>4
    <3>4. Ring(flags, l.threads) = RingBytes(k, l.threads) /\ Ring(flags, l.threads) \in Nat
      BY <2>4, RingIsSized DEF k
    <3> HIDE DEF C
    <3>5. Rounded(t.K) \in Nat /\ Rounded(t.K) <= Rounded(C) /\ Rounded(C) \in Nat
      BY <1>2, <3>2, RoundedFacts
    <3>6. QGemvSmem(k, l.tasks, l.threads) = Rounded(C) * 4 + RingBytes(k, l.threads)
      <4>1. ~ (k.qcpasync = 0 \/ K = 0)
        BY <1>2, <3>1, <3>3
      <4> QED
        BY <4>1 DEF QGemvSmem, C, K
    <3>7. Rounded(C) * 4 + RingBytes(k, l.threads) <= D
      BY <1>1, <3>3, <3>6
    <3>8. Rounded(t.K) * 4 + Ring(flags, l.threads) <= Rounded(C) * 4 + RingBytes(k, l.threads)
      BY <3>4, <3>5
    <3> QED
      BY <1>1, <2>1, <2>4, <3>4, <3>5, <3>7, <3>8 DEF D
  <2> QED
    BY <2>2, <2>3, <2>4 DEF QuantNeed
<1>8. CASE t.op = "gemm"
  <2>1. Need(t, flags, l.threads) = WmmaNeed(t, flags, l.threads)
    BY <1>8 DEF Need
  <2>2. CASE ~ (Defined(flags, "gemm_wmma") /\ t.M >= 16 /\ t.unitStride /\ t.half)
    <3>1. WmmaNeed(t, flags, l.threads) = 0
      BY <2>2 DEF WmmaNeed
    <3> QED
      BY <1>1, <2>1, <3>1 DEF D
  <2>3. CASE Defined(flags, "gemm_wmma") /\ t.M >= 16 /\ t.unitStride /\ t.half
    <3>1. k["gemm_wmma"] # 0 /\ l.capability >= 8 /\ Macro(flags, "gemm_wmma") = k["gemm_wmma"]
      BY <1>5, <2>3
    <3>2. t.op = "gemm" /\ t.qdtype = "fp"
      BY <1>2, <1>8, <2>3
    <3>3. WmmaSmem(k, l.tasks, l.threads)
            = WarpCount(l.threads) * (IF k.gemm_wmma >= 2 THEN 3 * 1024 + 1024 ELSE 2048)
      <4>1. ~ (k.gemm_wmma = 0 \/ ~ \E u \in l.tasks : u.op = "gemm" /\ u.qdtype = "fp")
        BY <3>1, <3>2
      <4> QED
        BY <4>1 DEF WmmaSmem
    <3>4. WmmaNeed(t, flags, l.threads)
            = WarpCount(l.threads) * ((IF k.gemm_wmma >= 2 THEN 3 * 256 * 2 ELSE 256 * 2) * 2 + 256 * 4)
      BY <2>3, <3>1 DEF WmmaNeed
    <3>5. WmmaNeed(t, flags, l.threads) = WmmaSmem(k, l.tasks, l.threads)
      <4>1. CASE k.gemm_wmma >= 2
        BY <1>3, <3>3, <3>4, <4>1
      <4>2. CASE ~ (k.gemm_wmma >= 2)
        BY <1>3, <3>3, <3>4, <4>2
      <4> QED
        BY <4>1, <4>2
    <3> QED
      BY <1>1, <2>1, <3>1, <3>5 DEF D
  <2> QED
    BY <2>2, <2>3
<1>9. CASE t.op = "attention"
  <2>1. Need(t, flags, l.threads) = WarpCount(l.threads) * 2 * t.K * 4
    BY <1>9 DEF Need
  <2> DEFINE K == WorstK(l.tasks, "attention", {"fp"})
  <2>2. K \in Nat /\ t.K <= K
    BY <1>2, <1>4, <1>9
  <2>3. AttentionSmem(l.tasks, l.threads) = WarpCount(l.threads) * 2 * K * 4
    BY DEF AttentionSmem
  <2> HIDE DEF K
  <2>4. PICK d \in Nat : K = t.K + d
    <3>1. K - t.K \in Nat /\ K = t.K + (K - t.K)
      BY <1>2, <2>2
    <3> QED
      BY <3>1
  <2>5. WarpCount(l.threads) * 2 * K * 4 = WarpCount(l.threads) * 2 * t.K * 4 + WarpCount(l.threads) * 2 * d * 4
    BY <1>2, <1>3, <2>4
  <2>6. WarpCount(l.threads) * 2 * t.K * 4 \in Nat /\ WarpCount(l.threads) * 2 * d * 4 \in Nat
    BY <1>2, <1>3
  <2> QED
    BY <1>1, <2>1, <2>3, <2>5, <2>6 DEF D
<1> QED
  BY <1>2, <1>6, <1>7, <1>8, <1>9

LEMMA FlagsAreHonest ==
  ASSUME NEW l, Asked(l)
  PROVE  Honest(l, Flags(l))
BY MacroFacts DEF Honest

LEMMA BorrowedIsAsked ==
  ASSUME NEW l, Asked(l)
  PROVE  Asked(Borrowed(l)) /\ Borrowed(l).tasks = l.tasks /\ Borrowed(l).threads = l.threads
<1> DEFINE b == Borrowed(l)
<1>1. l \in [knobs : {l.knobs}, tasks : {l.tasks}, threads : Nat, smem : Nat, cap : Nat,
            capability : Nat, scalar : BOOLEAN, noinline : BOOLEAN]
  BY DEF Asked
<1>2. b.knobs = [cpasync |-> 0] /\ b.tasks = l.tasks /\ b.threads = l.threads
  BY <1>1 DEF Borrowed
<1>3. b \in [knobs : {b.knobs}, tasks : {b.tasks}, threads : Nat, smem : Nat, cap : Nat,
            capability : Nat, scalar : BOOLEAN, noinline : BOOLEAN]
  BY <1>1, <1>2 DEF Borrowed
<1>4. \A n \in DOMAIN b.knobs : b.knobs[n] \in Int
  BY <1>2
<1> HIDE DEF b
<1>5. Asked(b)
  BY <1>2, <1>3, <1>4 DEF Asked
<1> QED
  BY <1>2, <1>5 DEF b

(* The dynamic shared memory the loader requests for a launch is never     *)
(* less than what the instructions of its tasks carve out of it under the  *)
(* flags of the extension it runs on, the one it built or one built before *)
(* by the same process, for any knobs, tasks and block size.               *)
THEOREM MemorySuffices == TileSpec => []SmemSuffices
<1>1. \A l \in Launches : Asked(l)
  BY LaunchesAssumption DEF Asked
<1>2. ASSUME NEW l, Asked(l), NEW flags, Honest(l, flags), NEW kind, Loads(l)
      PROVE  \A t \in l.tasks : Kernel(t, flags) = kind => Need(t, flags, l.threads) <= DynSmem(l)
  BY <1>2, NeedFits DEF Loads
<1>3. ASSUME NEW l \in Launches, NEW kind PROVE Fits(l, Extensions(l), kind)
  <2>1. ASSUME NEW flags \in Extensions(l) PROVE Honest(l, flags)
    <3>1. PICK j \in Launches : j.capability = l.capability /\ Variant(j) = Variant(l) /\ flags = Flags(j)
      BY DEF Extensions, Built
    <3>2. flags = Flags(l)
      BY <1>1, <3>1, VariantFlags
    <3> QED
      BY <1>1, <3>2, FlagsAreHonest
  <2> QED
    BY <1>1, <1>2, <2>1 DEF Fits
<1>4. ASSUME NEW l \in Launches, NEW kind PROVE Fits(Borrowed(l), {{}}, kind)
  <2>1. Asked(Borrowed(l))
    BY <1>1, BorrowedIsAsked
  <2>2. Honest(Borrowed(l), {})
    BY DEF Honest, Defined
  <2> QED
    BY <1>2, <2>1, <2>2 DEF Fits
<1>5. SmemSuffices
  BY <1>3, <1>4 DEF SmemSuffices
<1> QED
  BY <1>5, PTL
=============================================================================
