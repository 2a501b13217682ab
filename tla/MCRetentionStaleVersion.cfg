SPECIFICATION Spec
CONSTANTS
  Jobs = {1}
  MaxTime = 4
  MaxLag = 0
  Feeds <- JobInfoOnly
  CorruptStamps <- NoCorruption
  OrderedLanding = TRUE
  Passes = {p1}
  RetentionDays = 1
  BatchSize = 1
  PlausibleMin = 1
  PlausibleMax = 5
  MaxCrashes = 1

PROPERTIES DeletesOnlyCurrentVersion
