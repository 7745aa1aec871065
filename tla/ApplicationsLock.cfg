CONSTANTS
  Jobs = {j1, j2}
  Apps = {a1, a2}
  Clients = {c1, c2}
  Tasks = {t1, t2}
  Keys = {k1}
  None = None
  Lost = Lost
  MaxVersions = 2
  MaxCandidates = 1
  MaxRequests = 3
  MaxDecisions = 3
SPECIFICATION Spec
SYMMETRY Symmetry
CHECK_DEADLOCK FALSE
INVARIANT
  OneDecisionPerLock
