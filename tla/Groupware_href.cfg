SPECIFICATION Spec
CONSTANTS
  Uids = {u1, u2}
  Handlers = {h1, h2}
  Plans <- MCPlans
  Fold = 4
PROPERTY UpdateReachesFound
CHECK_DEADLOCK FALSE
