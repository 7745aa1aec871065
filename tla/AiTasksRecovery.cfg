SPECIFICATION Spec
CONSTANTS
  score = score
  interview = interview
  w1 = w1
  w2 = w2
  w3 = w3
  output = output
  None = None
  Tasks = {interview}
  SensitiveTasks = {interview}
  Workers = {w1, w2}
  Results = {output}
  MaxAttempts = 2
  MaxCycles = 2
  MaxRecoveries = 2
  MaxLosses = 1
  MaxStrays = 1
SYMMETRY WorkerSymmetry
INVARIANTS
  AttemptNumbering
  CycleNumbering
  PendingHasDispatch
  PersistedOnce
PROPERTIES
  ClosedAttemptFrozen
CHECK_DEADLOCK FALSE
