CONSTANTS
  creator = creator
  ann = ann
  w1 = w1
  w2 = w2
  Users <- MCUsers
  Creator = creator
  Workers <- MCWorkers
  Consumer = consumer
  Capacity = 2
  Deletable <- MCDeletable
  Targets <- MCTargets
  MaxInvites = 2
SYMMETRY MCSymmetry
SPECIFICATION Spec
CHECK_DEADLOCK FALSE
INVARIANTS
  OneOpenInvite
  DeletedStaysOut
