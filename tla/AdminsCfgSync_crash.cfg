SPECIFICATION Spec
CONSTANTS
  Servers = {s1}
  Parts = {roles, admins}
  Handlers = {"loop", "reclaim"}
  MaxConsecutiveFailures = 3
  MaxEnqueues = 2
  Enabled = {"crash"}
  MaxEvents = 1
SYMMETRY Symmetry
INVARIANTS AppliedIsOnDisk SettledIsCurrent
PROPERTIES FileNeverGoesBack KeepsPromise
CHECK_DEADLOCK FALSE
