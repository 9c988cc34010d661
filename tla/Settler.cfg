\* The seeds and prices of main.go scaled down: alice has 3 of 6 base units
\* frozen, bob 6 of 8 quote units; a trade moves 1 or 2 units at price 2.
\* carol starts with nothing.  Half is above every reachable balance.  Three trades
\* in two partitions.
CONSTANTS
  Users = {alice, bob, carol}
  Assets = {BTC, USDT}
  Half = 1024
  Alice = alice
  Bob = bob
  Carol = carol
  Base = BTC
  Quote = USDT
  BaseSeed = 6
  BaseFrozen = 3
  QuoteSeed = 8
  QuoteFrozen = 6
  MCPrices = {2}
  MCQuantities = {1, 2}
  Partitions = {1, 2}
  TradeMessages <- MCTradeMessages
  MaxTrades = 3
  MaxFailures = 1
  MaxRestarts = 1
SPECIFICATION FairSpec
\* The topic is bounded.
CHECK_DEADLOCK FALSE
INVARIANTS
  TotalsExplained
PROPERTIES
  FrozenOnlyShrinks
  TopicIsDrained
