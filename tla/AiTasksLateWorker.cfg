SPECIFICATION Spec
CONSTANTS
  score = score
  interview = interview
  w1 = w1
  w2 = w2
  w3 = w3
  output = output
  None = None
  Tasks = {score}
  SensitiveTasks = {}
  Workers = {w1, w2}
  Results = {output}
  MaxAttempts = 2
  MaxCycles = 0
  MaxRecoveries = 1
  MaxLosses = 0
  MaxStrays = 0
SYMMETRY WorkerSymmetry
INVARIANTS
  RecoveredStaysFailed
CHECK_DEADLOCK FALSE
