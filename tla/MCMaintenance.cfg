SPECIFICATION MaintenanceSpec
CONSTANTS
  TableOrder <- MCOneTable
  MaxTime = 4
  MaxFiles = 4
  RetentionThreshold = 2
  MaxAge = 1
  Deadline = 1
  NightlyNamespace = "argo-workflows"
INVARIANTS
  MaintenanceTypeOK
  SnapshotsReadable
  ScanOfActiveTableSurvives
PROPERTIES
  NoBatchLost
  FreshnessIsExact
