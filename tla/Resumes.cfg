CONSTANTS
  Jobs = {j1, j2}
  Clients = {c1, c2}
  Contents = {k1}
  Blank = Blank
  None = None
  Deleted = Deleted
  MaxVersions = 2
  MaxRequests = 3
  MaxCandidates = 2
  MaxResumes = 1
  MaxResumeRows = 3
  MaxTasks = 2
  MaxWorkers = 1
  MaxApps = 2
SPECIFICATION Spec
SYMMETRY Symmetry
CHECK_DEADLOCK FALSE
INVARIANTS
  TypeOK
  PointersRight
  BoundToReleased
  ParsingAwaitsTask
