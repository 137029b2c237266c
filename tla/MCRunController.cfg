SPECIFICATION SetupSpec
CONSTANTS
  Runs = {1, 2}
  MaxRevision = 5
  MaxNumber = 2
  Mishaps = {"run", "shutdown"}
  QueueSize = 0
  Profiles <- MCProfiles
  FoldersFound <- MCFolders
  MaxAttempts = 2
  MaxArchives = 1
  MaxKills = 1
INVARIANTS
  OneUserOfTheDatabase
  StopHitsItsRun
  ResultAboveBarrier
  ResultsKeptApart
CHECK_DEADLOCK FALSE
