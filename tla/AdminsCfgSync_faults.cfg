SPECIFICATION FairSpec
CONSTANTS
  Servers = {s1}
  Parts = {roles}
  Handlers = {"loop", "reclaim"}
  MaxConsecutiveFailures = 1
  MaxEnqueues = 1
  Enabled = {"bridge", "late_write", "xadd", "late_xadd", "throw", "crash", "rcon"}
  MaxEvents = 2
INVARIANTS NoStrandedRow
PROPERTIES EveryRowIsApplied
CHECK_DEADLOCK FALSE
