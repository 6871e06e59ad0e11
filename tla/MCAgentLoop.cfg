CONSTANTS
  Queries = {q}
  Codes = {c}
  Earlier = {e}
  Fresh = {f}
  MaxBatch = 2
  MaxRounds = 3
SPECIFICATION Spec
INVARIANT HistoryIsPaired
INVARIANT ChartsOfSeenEvidence
INVARIANT FinishedIsDelivered
PROPERTY AbortStops
CHECK_DEADLOCK FALSE
