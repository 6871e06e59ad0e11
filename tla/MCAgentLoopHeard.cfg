CONSTANTS
  Queries = {q}
  Codes = {c}
  Earlier = {e}
  Fresh = {f}
  MaxBatch = 1
  MaxRounds = 3
SPECIFICATION Spec
INVARIANT AnswerIsHeard
CHECK_DEADLOCK FALSE
