CONSTANTS
  Period = 4
  Confirm = 1
  Switchover = 4
  Space = 3
  MinFruits = 1
  MaxFruits = 2
  Roles <- MCRoles
  FeedSize = 1
  MaxSnail = 5
  MaxFast = 8
  MaxFaults = 1
  MaxSwitches = 1
SPECIFICATION MCSpec
INVARIANTS HistoryExact RightServiceRuns OneServiceRuns 
PROPERTIES HandsOver InsertionResumes
CHECK_DEADLOCK FALSE
