SPECIFICATION FairSpec
CONSTANTS
  Requests = {r1}
  Timeout = 1
  MaxCommandAge = 2
  ReclaimMinIdle = 3
  MaxTime = 4
  MaxFaults = 3
INVARIANTS TypeOK AtMostOnce OkIsTrue
PROPERTIES QueueKeepsPromise RunsOnFirstDelivery EveryEntryIsAcknowledged
CHECK_DEADLOCK FALSE
