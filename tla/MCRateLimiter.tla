--------------------------- MODULE MCRateLimiter ----------------------------
(* The instance of RateLimiter that is checked.                            *)
EXTENDS RateLimiter, TLC

RequestsSymmetry == Permutations(Requests)
=============================================================================
