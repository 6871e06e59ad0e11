CONSTANTS
  g1 = g1
  Generations = {g1}
  Relays = {r1}
  None = None
  MaxEvents = 2
  BatchLimit = 2
  Invalid <- FirstInvalid
  Conversations = {c1}
  Executors = {x1, x2}
  UserLimit = 1
  MaxAttempts = 2
  MaxBlocks = 1
  MaxUpdates = 1
SPECIFICATION BothSpec
PROPERTIES
  EventuallySettled
  EventuallyDelivered
CHECK_DEADLOCK FALSE
