SPECIFICATION Spec
CONSTANTS
  score = score
  interview = interview
  w1 = w1
  w2 = w2
  w3 = w3
  output = output
  None = None
  Tasks = {score, interview}
  SensitiveTasks = {interview}
  Workers = {w1, w2}
  Results = {output}
  MaxAttempts = 2
  MaxCycles = 1
  MaxRecoveries = 0
  MaxLosses = 0
  MaxStrays = 1
SYMMETRY WorkerSymmetry
INVARIANTS
  TypeOK
  SoleOwner
  RunningAttemptIsLast
  CleanSuccess
PROPERTIES
  ImplementsLifecycle
CHECK_DEADLOCK FALSE
