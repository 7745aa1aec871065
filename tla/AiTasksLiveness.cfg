SPECIFICATION FairSpec
CONSTANTS
  score = score
  interview = interview
  w1 = w1
  w2 = w2
  w3 = w3
  output = output
  None = None
  Tasks = {interview}
  SensitiveTasks = {interview}
  Workers = {w1, w2}
  Results = {output}
  MaxAttempts = 3
  MaxCycles = 1
  MaxRecoveries = 1
  MaxLosses = 0
  MaxStrays = 2
PROPERTIES
  EventuallySettled
CHECK_DEADLOCK FALSE
