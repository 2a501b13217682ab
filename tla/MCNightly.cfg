SPECIFICATION FairNightlySpec
CONSTANTS
  Jobs = {1, 2}
  MaxTime = 4
  MaxLag = 0
  Feeds <- JobInfoOnly
  CorruptStamps <- NoCorruption
  OrderedLanding = FALSE
  Runs = {r1}
  InitialValue <- FromTheStart
  MaxKills = 1
  Passes = {p1}
  RetentionDays = 1
  BatchSize = 1
  PlausibleMin = 1
  PlausibleMax = 5
  MaxCrashes = 1
  Deadline = 1
INVARIANTS NightlyTypeOK NothingUnverified
PROPERTIES NightlyDeletesOnlyCurrent LandingIsTrimmed
