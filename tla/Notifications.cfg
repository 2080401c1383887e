CONSTANTS
  m1 = m1
  m2 = m2
  i1 = i1
  i2 = i2
  ann = ann
  bob = bob
  cid = cid
  nil = nil
  Messages <- MCMessages
  Instances <- MCInstances
  Accounts <- MCAccounts
  Leaving <- MCLeaving
  Nobody = nil
  Histories <- MCHistories
  MaxDeliver = 2
  Prefetch = 1
  MaxFaults = 1
SYMMETRY MCSymmetry
SPECIFICATION Spec
INVARIANTS
  ToldOnce
  FeedOK
  VanishesOnlyWhenCutShort
CHECK_DEADLOCK FALSE
