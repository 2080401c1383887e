CONSTANTS
  ann = ann
  ben = ben
  cat = cat
  dan = dan
  eve = eve
  Users <- MCUsers
  Requesters <- MCRequesters
  TeamSetups <- MCTeamSetups
  PickOrders <- MCPickOrders
  CaptainPairs <- MCCaptainPairs
  Divisions <- MCDivisions
SYMMETRY MCSymmetry
SPECIFICATION Spec
INVARIANTS
  DraftIsFair
PROPERTIES
  EverybodyDrafted
