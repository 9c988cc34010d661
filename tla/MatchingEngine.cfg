\* Four orders, two price levels, two quantities, two CreatedAt stamps: a taker
\* can meet three resting orders, at one or two prices, some cancelled, some
\* partially filled, some with equal stamps.
CONSTANTS
  OrderId = {o1, o2, o3, o4}
  Prices = {1, 2}
  Quantities = {1, 2}
  Times = {1, 2}
  NoOrder = NoOrder
SPECIFICATION Spec
SYMMETRY Interchangeable
\* Every order has been placed once and no call is running.
CHECK_DEADLOCK FALSE
INVARIANTS
  NoCross
  HeapsHoldRestingOrders
  QuantityConserved
  ServedInPriority
  TradeIdsUnique
PROPERTIES
  FinalStatusStays
  ImplementsOrderBook
