\* The thresholds of engine.py scaled down: an alert at 2 orders in the window,
\* suspicion at 2 of the last 2 orders on one side.  Two orders are too many for a
\* window, three are more than the latest ones, and one tick is enough to leave it.
\* Two partitions, read in any order; one exception or restart, at any point, next to
\* a stop at any point.  The partitions are interchangeable, so the first message is
\* taken to be in partition 1 (FirstInOne; symmetry sets do not go with liveness).
SPECIFICATION FairSpec
CONSTANTS
  Ann = ann
  Ben = ben
  Users = {ann, ben}
  Partitions = {1, 2}
  OrderMessages <- MCOrderMessages
  TradeMessages <- MCTradeMessages
  WindowSec = 1
  MaxOrders = 1
  LargeOrder = 1
  MinOrders = 1
  Recent = 2
  MinSuspect = 2
  MaxTime = 1
  MaxMessages = 3
  MaxFaults = 1
\* The topic and the clock are bounded, and a thread may end.
CHECK_DEADLOCK FALSE
CONSTRAINT FirstInOne
INVARIANTS
  AlertsAsPlaced
  CommittedWasTaken
  TradesCountedOnce
PROPERTIES
  NothingCommittedAgain
  EverythingIsTaken
