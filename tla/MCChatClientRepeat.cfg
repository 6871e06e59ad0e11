CONSTANTS
  g1 = g1
  None = None
  Generations = {g1}
  MayAsk = {g1}
  MaxEvents = 2
  MaxFetches = 1
SPECIFICATION Spec
INVARIANT AppendedOnce
CHECK_DEADLOCK FALSE
