CONSTANTS
  ann = ann
  ben = ben
  cat = cat
  Users <- MCUsers
  Requesters <- MCRequesters
  TeamSetups <- MCTeamSetups
  PickOrders <- MCPickOrders
  CaptainPairs <- MCCaptainPairs
  Divisions <- MCDivisions
SPECIFICATION Spec
INVARIANTS
  FormationOK
PROPERTIES
  NobodyOutvoted
  OnlyLateRejectionStrands
  ImplementsGoingList
