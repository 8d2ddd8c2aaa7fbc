SPECIFICATION FairSpec
CONSTANTS
  Servers = {s1, s2}
  Parts = {roles}
  Handlers = {"loop"}
  MaxConsecutiveFailures = 3
  MaxEnqueues = 1
  Enabled = {"removal"}
  MaxEvents = 1
 
PROPERTIES AppliedIsFinal 
CHECK_DEADLOCK FALSE
