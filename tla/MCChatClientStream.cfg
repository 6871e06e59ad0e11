CONSTANTS
  g1 = g1
  None = None
  Generations = {g1}
  MayAsk = {}
  MaxEvents = 2
  MaxFetches = 1
SPECIFICATION FairSpec
PROPERTY StreamGoesOn
CHECK_DEADLOCK FALSE
