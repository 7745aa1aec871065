CONSTANTS
  Rounds = {r1, r2}
  Clients = {c1, c2}
  Slots = {s1, s2}
  Keys = {k1, k2}
  Places = {}
  Recipients = {candidate}
  WithEmail = {candidate}
  None = None
  MaxSchedules = 2
  MaxRequests = 3
SPECIFICATION Spec
SYMMETRY Symmetry
CHECK_DEADLOCK FALSE
INVARIANTS
  TypeOK
  RoundsDistinct
  ScheduleMatchesStatus
  InvitationsAreCurrent
  OverlapOnlyInFlight
PROPERTIES
  TerminalForGood
