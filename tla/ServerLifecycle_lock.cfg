SPECIFICATION FairSpec
CONSTANTS
  Servers = {s1}
  Requests = {}
  Updates = {u1, u2}
  MaxFaults = 2
INVARIANT OneUpdateAtATime
PROPERTY LockIsReleased
CHECK_DEADLOCK FALSE
