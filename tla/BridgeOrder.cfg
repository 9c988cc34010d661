\* Two orders sent one after the other, no failure of any kind; what matters is
\* only that the topic has two partitions.
CONSTANTS
  OrderId = {o1, o2}
  Prices = {1, 2}
  Quantities = {1, 2}
  Times = {1}
  NoOrder = NoOrder
  Partitions = {p1, p2}
  alice = alice
  bob = bob
  Users = {alice, bob}
  Submissions <- MCSubmissions
  NoUser = NoUser
  Unwritten = Unwritten
  MaxDuplicates = 0
  MaxFailures = 0
  MaxRestarts = 0
SPECIFICATION BridgeSpec
\* Only OrderId bounds what is sent; Run then waits for messages.
CHECK_DEADLOCK FALSE
INVARIANTS
  PlacedAsSent
