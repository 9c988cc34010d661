-------------------------- MODULE MCMatchingEngine --------------------------
(* Model-checking instance of MatchingEngine.                              *)
EXTENDS MatchingEngine, TLC

(* Order ids are interchangeable: nothing in the engine compares them.     *)
Interchangeable == Permutations(OrderId)

=============================================================================
