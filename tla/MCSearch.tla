------------------------------ MODULE MCSearch ------------------------------
(***************************************************************************)
(* Model checking Search: two tile widths by two block sizes, one of the   *)
(* four combinations rejected (a search may start from it all the same)    *)
(* and two predicted alike.                                                *)
(***************************************************************************)
EXTENDS Search, TLC

MCKnobChoices == [n_tile |-> {64, 512}, threads |-> {128, 256}]
MCStartConfigs == {[n_tile |-> 64, threads |-> 256], [n_tile |-> 512, threads |-> 256]}
MCValid(c) == ~(c.n_tile = 512 /\ c.threads = 256)
MCPredicted(c) == IF c.n_tile = 512 THEN 90 ELSE 100
=============================================================================
