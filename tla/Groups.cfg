CONSTANTS
  creator = creator
  ann = ann
  ben = ben
  w1 = w1
  w2 = w2
  Users <- MCUsers
  Creator = creator
  Workers <- MCWorkers
  Consumer = consumer
  Capacity = 2
  Deletable <- MCDeletable
  Targets <- MCTargets
  MaxInvites = 0
SYMMETRY MCSymmetry
SPECIFICATION Spec
CHECK_DEADLOCK FALSE
INVARIANTS
  OverCapacityOnlyUncounted
  GroupOK
