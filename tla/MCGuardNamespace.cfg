SPECIFICATION MaintenanceSpec
CONSTANTS
  TableOrder <- MCTwoTables
  MaxTime = 2
  MaxFiles = 1
  RetentionThreshold = 2
  MaxAge = 1
  Deadline = 1
  NightlyNamespace = "datalake-orchestration"
INVARIANT
  GuardCanDefer
