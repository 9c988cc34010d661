\* Two persons and one name, so that they get into each other's way; two requests,
\* of one person or of both, and any two faults: a restart of either process, a
\* write that fails, an attempt that is repeated though it had gone out, a copy of an
\* order that gets lost.
SPECIFICATION FairSpec
CONSTANTS
  Ann = ann
  Ben = ben
  Persons = {ann, ben}
  Names = {name}
  Nobody = nobody
  LoggedOut = loggedOut
  Intents <- MCIntents
  MaxRequests = 2
  MaxFaults = 2
\* The requests are bounded.
CHECK_DEADLOCK FALSE
INVARIANTS
  OneOrderPerRequest
  SuccessMeansSent
  OnePersonPerName
PROPERTIES
  EveryRequestIsAnswered
  AcceptedOrdersArrive
