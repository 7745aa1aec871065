SPECIFICATION FairSpec
CONSTANTS
  o1 = o1
  o2 = o2
  a1 = a1
  a2 = a2
  a3 = a3
  a4 = a4
  w1 = w1
  w2 = w2
  admin = admin
  None = None
  Offers = {o1}
  Attempts = {a1, a2, a3, a4}
  Workers = {w1, w2}
  Admins = {admin}
  MaxAuto = 2
  MaxVersions = 2
  MaxSends = 2
  MaxRecoveries = 1
  MaxLosses = 0
  MaxStrays = 0
PROPERTIES
  EventuallyDecided
CHECK_DEADLOCK FALSE
