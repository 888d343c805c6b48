----------------------------- MODULE GreedyDecode -----------------------------
(***************************************************************************)
(* What a decoder promises its caller: the tokens it produces for a prompt *)
(* are, one after the other, the model's own choice after everything       *)
(* before them.  No cache, no launches, no blocks.  The host loop of       *)
(* generate.py and the single-launch kernel of scheduler_persist.cu are    *)
(* both shown to implement it (PersistDecode).                             *)
(***************************************************************************)
EXTENDS Integers, Sequences

CONSTANTS
  Tokens,
  NextToken(_)  \* the eager model's argmax after a sequence of tokens

VARIABLES
  prompt,    \* the tokens the call starts from
  n,         \* how many to produce
  produced,  \* the tokens produced so far
  outcome    \* "idle", "decoding", "ok" or "raised"

vars == <<prompt, n, produced, outcome>>

Init == prompt = <<>> /\ n = 0 /\ produced = <<>> /\ outcome = "idle"

Call ==
  /\ outcome # "decoding"
  /\ outcome' = "decoding"
  /\ prompt' \in Seq(Tokens)
  /\ n' \in Nat
  /\ produced' = <<>>

Produce ==
  /\ outcome = "decoding"
  /\ Len(produced) < n
  /\ produced' = Append(produced, NextToken(prompt \o produced))
  /\ UNCHANGED <<prompt, n, outcome>>

Return ==
  /\ outcome = "decoding"
  /\ Len(produced) = n
  /\ outcome' = "ok"
  /\ UNCHANGED <<prompt, n, produced>>

Raise ==
  /\ outcome = "decoding"
  /\ outcome' = "raised"
  /\ UNCHANGED <<prompt, n, produced>>

Next == Call \/ Produce \/ Return \/ Raise

Spec == Init /\ [][Next]_vars
=============================================================================
