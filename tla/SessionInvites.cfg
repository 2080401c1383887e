CONSTANTS
  creator = creator
  ann = ann
  w1 = w1
  w2 = w2
  Users <- MCUsers
  Creator = creator
  Members <- MCMembers
  Capacities <- MCCapacities
  Workers <- MCWorkers
  Consumer = consumer
  Invitees <- MCInvitees
  Deletable <- MCInvitees
  MaxInvites = 2
SYMMETRY MCSymmetry
SPECIFICATION InvitesSpec
INVARIANTS
  InvitesTellWhoJoined
  DeletedLeavesSession
PROPERTIES
  ImplementsAttendance
CHECK_DEADLOCK FALSE
