SPECIFICATION FairSpec
CONSTANTS
  MaxOpenersTried = 3
  Frames <- MCFrames
  OutputMode = "table_per_page"
  Retries = 2
  JsonAttempts = 3
  Answers <- MCAnswers
  MaxBrackets = 4
  SampleTexts <- BoundedTexts
  SampleRows <- BoundedRows
  SamplePages <- BoundedPages
INVARIANTS
  OkCoversSentPages
  LastReplyIsKept
  RepliesAreReadRight
PROPERTIES
  ContractSpec
  EveryPostIsWarranted
  StopSettles
  RequestEnds
CHECK_DEADLOCK FALSE
