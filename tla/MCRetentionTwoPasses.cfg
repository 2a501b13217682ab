SPECIFICATION Spec
CONSTANTS
  Jobs = {1}
  MaxTime = 3
  MaxLag = 0
  Feeds <- JobInfoAndTrace
  CorruptStamps <- MCCorruptStamps
  OrderedLanding = FALSE
  Passes = {p1, p2}
  RetentionDays = 1
  BatchSize = 1
  PlausibleMin = 1
  PlausibleMax = 4
  MaxCrashes = 0
SYMMETRY SomePasses
INVARIANTS AbortDeletesNothing
PROPERTIES DeletesOnlyReplicated DeletesOnlyOld ImplementsHandoff
