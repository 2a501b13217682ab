SPECIFICATION MaintenanceSpec
CONSTANTS
  TableOrder <- MCOneTable
  MaxTime = 4
  MaxFiles = 3
  RetentionThreshold = 2
  MaxAge = 1
  Deadline = 1
  NightlyNamespace = "datalake-orchestration"
INVARIANT
  FreshnessAnswers
