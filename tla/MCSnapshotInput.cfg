SPECIFICATION ExtractSpec
CONSTANTS
  TableOrder <- MCTables
  ExtractTables <- MCTables
  KeyOf <- MCKeyOf
  MaxTime = 3
  MaxFiles = 3
  RetentionThreshold = 1
  MaxRuns = 1
INVARIANT SnapshotHasTheInput
CHECK_DEADLOCK FALSE
