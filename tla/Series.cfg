CONSTANTS
  c1 = c1
  c2 = c2
  api = api
  e1 = e1
  Crons <- MCCrons
  Sweepers <- MCSweepers
  Editors <- MCEditors
  EditKinds <- MCEditKinds
  Rules <- MCRules
  DaysPerWeek = 2
  MonthLengths <- MCMonthLengths
  MaxMonthSearches = 3
  Lookahead = 2
  MaxTime = 3
  MaxSessions = 2
  MaxEdits = 2
  MaxFaults = 1
SYMMETRY MCSymmetry
CONSTRAINT MCBound
SPECIFICATION SeriesSpec
CHECK_DEADLOCK FALSE
INVARIANTS
  FollowsCalendar
  OneSessionPerDate
  SessionsOK
  
