CONSTANTS
  Rounds = {r1}
  Clients = {c1, c2}
  Segments = {s1}
  None = None
  MaxDrafts = 2
  MaxSaves = 2
  MaxQuestions = 2
  MaxTasks = 3
SPECIFICATION Spec
SYMMETRY Symmetry
CHECK_DEADLOCK FALSE
INVARIANTS
  TypeOK
  CompletionMatchesTranscript
  EvidenceStands
  ApprovedAsSeen
PROPERTIES
  StaleForGood
