\* Browsers that come, stall and go during the broadcast of three messages.
SPECIFICATION FairSpec
CONSTANTS
  Conns = {c1, c2}
  MaxMessages = 3
INVARIANTS
  StayingClientsGetAll
PROPERTIES
  GoneAreRemoved
\* All messages sent and all browsers gone.
CHECK_DEADLOCK FALSE
