-------------------------- MODULE MCAccountCallers --------------------------
(* Model-checking instance of AccountCallers.                              *)
EXTENDS AccountCallers, TLC

(* The service compares users and assets only for equality.                *)
Interchangeable == Permutations(Users) \cup Permutations(Assets)

=============================================================================
