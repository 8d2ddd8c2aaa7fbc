SPECIFICATION FairSpec
CONSTANTS
  m1 = m1
  m2 = m2
  Media = {m1}
  Sha <- MCSha
  Deletes = {d1}
  Workers = {w1, w2}
  None = None
  NoOne = NoOne
  MaxFaults = 2
  Destinations = {"youtube", "telegram"}
  Configured = {"youtube"}
  Posts = {q1}
  MaxAttempts = 2
  BatchSize = 2
INVARIANTS
  ClaimIsExclusive
  UploadsBounded
  OneVideoUnlessInterrupted
PROPERTIES
  PublisherKeepsPromise
  PublicationsFinish
CHECK_DEADLOCK FALSE
