CONSTANTS
  ann = ann
  activity = activity
  notifications = notifications
  visibility = visibility
  language = language
  h1 = h1
  h2 = h2
  Accounts <- MCAccounts
  Others <- MCOthers
  Keys <- MCKeys
  Requests <- MCRequests
  Handlers <- MCHandlers
  MaxVersion = 3
  Batch = 1
SYMMETRY MCSymmetry
SPECIFICATION Spec
CHECK_DEADLOCK FALSE
INVARIANTS
  SettingsKept
  ProfilesOK
  ErasureNotForgotten
