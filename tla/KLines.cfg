\* Four trades in any order over two long and four short periods.
SPECIFICATION MarketSpec
CONSTANTS
  Intervals <- MCIntervals
  Duration <- MCDuration
  Trades <- MCTrades
  MCTimes = {0, 1, 3, 4, 6}
  MaxHistory = 2
  MaxTrades = 4
  MaxRestarts = 1
INVARIANTS
  CandlesSummarise
  CoarserAddUp
  ClientsAreUpToDate
\* The number of trades is bounded.
CHECK_DEADLOCK FALSE
