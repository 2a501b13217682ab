SPECIFICATION FairSonarSpec
CONSTANTS
  Epochs = {1, 2, 3}
  Hosts = {"h1", "h2"}
  Dump <- MCDump
  Limits <- ProbesToo
  MaxKills = 2
INVARIANTS SonarTypeOK SkippedAreProcessed DuplicatesOnlyByRetry
PROPERTIES BacklogDrains
