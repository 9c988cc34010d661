\* One request more than the limit, in any interleaving of their commands, with
\* one broken connection, after which Redis may go on with what it has.
SPECIFICATION LimiterSpec
CONSTANTS
  Requests = {r1, r2, r3}
  Limit = 2
  Window = 3
  MaxTime = 5
  MaxFailures = 1
SYMMETRY RequestsSymmetry
INVARIANTS
  AtMostLimitOneByOne
  RejectedForCause
\* All requests answered and the clock at its bound.
CHECK_DEADLOCK FALSE
