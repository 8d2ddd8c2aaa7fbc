SPECIFICATION Spec
CONSTANTS
  m1 = m1
  m2 = m2
  Media = {m1, m2}
  Sha <- MCSha
  Deletes = {d1}
  Workers = {w1, w2}
  None = None
  NoOne = NoOne
  MaxFaults = 2
  Destinations = {"youtube", "telegram"}
  Configured = {"youtube", "telegram"}
  Posts = {q1}
  MaxAttempts = 1
  BatchSize = 2
SYMMETRY Symmetry
INVARIANTS
  TypeOK
  StoredBytesExist
  NoOrphanBytes
CHECK_DEADLOCK FALSE
