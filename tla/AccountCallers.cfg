\* Two users, two assets; every sequence of calls that writes up to 5 entries (6 when the last call writes two).
\* Half is far above every reachable balance, so that nothing wraps.
CONSTANTS
  Users = {alice, bob}
  Assets = {BTC, USDT}
  Amounts = {1, 2}
  Half = 1024
  MaxEntries = 5
SPECIFICATION CallerSpec
SYMMETRY Interchangeable
\* The ledger bound stops the callers.
CHECK_DEADLOCK FALSE
INVARIANTS
  BalancesNonNegative
  LedgerExplains
