CONSTANTS
  Generations = {g1, g2}
  Conversations = {c1}
  Executors = {x1, x2}
  None = None
  UserLimit = 2
  MaxAttempts = 2
  MaxBlocks = 1
  MaxUpdates = 0
SPECIFICATION Spec
SYMMETRY Symmetry
INVARIANTS
  DoneClosesLog
  SnapshotMatchesLog
  DraftStaysFresh
PROPERTIES
  CommitsOnlyCompletions
  KeepsPromise
CHECK_DEADLOCK FALSE
