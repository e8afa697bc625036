SPECIFICATION Spec
CONSTANTS
  f1 = f1
  Files = {f1}
  MaxCount = 2
  Plans <- MCPlans
INVARIANT TypedInputKept
CHECK_DEADLOCK FALSE
