SPECIFICATION Spec
CONSTANTS
  o1 = o1
  o2 = o2
  a1 = a1
  a2 = a2
  a3 = a3
  a4 = a4
  w1 = w1
  w2 = w2
  admin = admin
  None = None
  Offers = {o1, o2}
  Attempts = {a1, a2, a3, a4}
  Workers = {w1, w2}
  Admins = {admin}
  MaxAuto = 2
  MaxVersions = 3
  MaxSends = 2
  MaxRecoveries = 1
  MaxLosses = 1
  MaxStrays = 1
SYMMETRY Symmetry
INVARIANTS
  TypeOK
  MailAccounted
  SentAsConfirmed
  RetryChains
  OneLiveAttempt
  PendingHasMail
  LockedStaysRunning
PROPERTIES
  ImplementsLifecycle
CHECK_DEADLOCK FALSE
