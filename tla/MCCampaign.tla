----------------------------- MODULE MCCampaign -----------------------------
(***************************************************************************)
(* Model checking Campaign: a default, a warm seed and a candidate each    *)
(* that the validator and the oracle turn down; readings in us around a    *)
(* floor of 400.                                                           *)
(***************************************************************************)
EXTENDS Campaign, TLC

CONSTANTS default, seed, racy, wrong

MCCandidates == {default, seed, racy, wrong}
MCWarmStarts == {<<>>, <<seed, racy>>}
MCPredicted == (default :> 500) @@ (seed :> 430) @@ (racy :> 430) @@ (wrong :> 300)

Called(gpu, evaluator, overnight, proposer) ==
  [gpu |-> gpu, evaluator |-> evaluator, overnight |-> overnight, proposer |-> proposer,
   command |-> FALSE]

MCArguments == {Called(TRUE, TRUE, FALSE, FALSE), Called(TRUE, TRUE, TRUE, TRUE),
                Called(TRUE, FALSE, TRUE, FALSE)}
=============================================================================
