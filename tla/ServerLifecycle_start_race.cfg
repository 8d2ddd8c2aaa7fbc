SPECIFICATION Spec
CONSTANTS
  Servers = {s1}
  Requests = {r1}
  Updates = {u1}
  MaxFaults = 0
INVARIANT StartOrUpdate
