SPECIFICATION FairSpec
CONSTANTS
  Sends = {s1, s2}
  Workers = {w1, w2}
  MaxAttempts = 1
  BatchLimit = 1
  MaxFaults = 1
  LockMayDrop = TRUE
  None = None
INVARIANTS
  CopiesWithinAttempts
PROPERTIES
  EverySendSettles
  LockIsReturned
