CONSTANTS
  creator = creator
  ann = ann
  ben = ben
  Users <- MCUsers
  Creator = creator
  Members <- MCUsers
  Capacities <- MCCapacities
SYMMETRY MCSymmetry
SPECIFICATION Spec
INVARIANTS
  TypeOK
  RowsOK
PROPERTIES
  OverbookedOnlyByCapacityCut
  PromotionIsFIFO
  SpotNotLeftIdle
  ImplementsGoingList
