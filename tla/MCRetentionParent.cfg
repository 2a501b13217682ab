SPECIFICATION FairSpec
CONSTANTS
  Jobs = {1, 2}
  MaxTime = 3
  MaxLag = 0
  Feeds <- JobInfoAndJdls
  CorruptStamps <- NoCorruption
  OrderedLanding = TRUE
  Passes = {p1}
  RetentionDays = 1
  BatchSize = 1
  PlausibleMin = 1
  PlausibleMax = 4
  MaxCrashes = 1
INVARIANTS TypeOK CleanExitCollects ExitZeroMeansReplicated
PROPERTIES PassTerminates JdlLeavesWithItsParent
