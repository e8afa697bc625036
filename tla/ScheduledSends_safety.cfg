SPECIFICATION Spec
CONSTANTS
  Sends = {s1, s2}
  Workers = {w1, w2}
  MaxAttempts = 2
  BatchLimit = 2
  MaxFaults = 1
  LockMayDrop = FALSE
  None = None
SYMMETRY Symmetry
INVARIANTS
  TypeOK
  OneDispatcher
  Accounting
PROPERTIES
  ImplementsLifecycle
