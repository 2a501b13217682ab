SPECIFICATION ExtractSpec
CONSTANTS
  TableOrder <- MCTables
  ExtractTables <- MCTwice
  KeyOf <- MCKeyOf
  MaxTime = 3
  MaxFiles = 3
  RetentionThreshold = 1
  MaxRuns = 2
INVARIANTS
  ExtractTypeOK
  ManifestMatchesFiles
  SnapshotFollowsFile
  RecordedSnapshotIsKept
  FallbackIsExplained
CHECK_DEADLOCK FALSE
