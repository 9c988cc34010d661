\* Faults and withdrawals between every two steps of the chain client, which reads
\* trades from two partitions.
SPECIFICATION Spec
CONSTANTS
  a = a
  b = b
  Addresses = {a, b}
  Tokens = {"usdt", "btc"}
  USDT = "usdt"
  BTC = "btc"
  Operators = {op1, op2}
  op1 = op1
  op2 = op2
  FirstOperator = op1
  Backend = op1
  Minted <- MCMinted
  UserAddressMap <- MCUserAddressMap
  USDTDecimals = 1
  BTCDecimals = 1
  Half = 8
  UintRange = 1000
  Partitions = {1, 2}
  TradeMessages <- MCTradeMessages
  Amounts = {2}
  MaxTrades = 3
  MaxCalls = 3
  MaxFailures = 1
  MaxStops = 1
  MaxRotations = 1
INVARIANTS
  Solvent
  DeliveryVersusPayment
  SubmittedOnceInOrder
  LossesAreFaults
PROPERTIES
  OnlyOwnersAndTradesTake
  CatchesUp
CHECK_DEADLOCK FALSE
