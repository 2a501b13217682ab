SPECIFICATION ResetSpec
CONSTANTS
  Jobs = {1, 2}
  MaxTime = 3
  MaxLag = 0
  Feeds <- JobInfoOnly
  CorruptStamps <- NoCorruption
  OrderedLanding = TRUE
  Runs = {r1}
  InitialValue <- FromTheStart
  MaxKills = 1
  MaxResets = 2
INVARIANTS ResetTypeOK CleanSlateCovers
PROPERTIES CatchesUpAgain
