SPECIFICATION Spec
CONSTANTS
  Servers = {s1}
  Parts = {roles}
  Handlers = {"loop", "drift"}
  MaxConsecutiveFailures = 1
  MaxEnqueues = 2
  Enabled = {"lifecycle", "rcon", "edit", "force_sync", "refresh", "loss", "removal", "cleanup"}
  MaxEvents = 2
INVARIANTS TypeOK ConfirmedIsLoaded
CHECK_DEADLOCK FALSE
