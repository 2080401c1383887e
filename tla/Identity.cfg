CONSTANTS
  p1 = p1
  p2 = p2
  p3 = p3
  c1 = c1
  c2 = c2
  t1 = t1
  t2 = t2
  t3 = t3
  Requests <- MCRequests
  Codes <- MCCodes
  Tokens <- MCTokens
  LockTiers <- MCLockTiers
  maxCountedFailedLogins = 3
  None = None
SYMMETRY MCSymmetry
SPECIFICATION Spec
INVARIANTS
  TypeOK
  OneLiveTokenPerLogin
  OnlyRotationOutlivesDeletion
  CodeVerifiesOnce
PROPERTIES
  LockoutHolds
CHECK_DEADLOCK FALSE
