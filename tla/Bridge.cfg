\* Three messages in two partitions; one repeated write, of an order or of a trade;
\* one failed commit, or one failed or lost write of a trade; and one restart, all at
\* any point.  Three orders are enough for one to be filled in two calls, with a
\* restart in between.
CONSTANTS
  OrderId = {o1, o2, o3}
  Prices = {1, 2}
  Quantities = {1, 2}
  Times = {1}
  NoOrder = NoOrder
  Partitions = {p1, p2}
  alice = alice
  bob = bob
  Users = {alice, bob}
  Submissions <- MCSubmissions
  NoUser = NoUser
  Unwritten = Unwritten
  MaxDuplicates = 1
  MaxFailures = 1
  MaxRestarts = 1
SPECIFICATION FairBridgeSpec
\* Only OrderId bounds what is sent; Run then waits for messages.
CHECK_DEADLOCK FALSE
INVARIANTS
  EachMessageOnce
  TradesNameOwners
  NeverOverfilled
  PublishedExplainsFills
PROPERTIES
  OrdersAreProcessed
