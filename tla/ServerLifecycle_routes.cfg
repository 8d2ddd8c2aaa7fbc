SPECIFICATION FairSpec
CONSTANTS
  Servers = {s1}
  Requests = {r1}
  Updates = {u1}
  MaxFaults = 1
INVARIANTS TypeOK StartExcludesUpdate
PROPERTY StatusSettles
