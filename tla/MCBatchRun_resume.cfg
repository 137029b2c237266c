SPECIFICATION Spec
CONSTANTS
  c1 = c1
  c2 = c2
  c3 = c3
  NumFiles = 1
  Unsupported = {}
  Unstorable = {}
  Contents = {c1, c2}
  SizeOf <- MCSizeOfTwo
  NoDigest = NoDigest
  AiChoices = {TRUE, FALSE}
  PerRequest = 1
  MaxFailures = 2
  HaltOnBadJson = TRUE
  HaltOnParseError = FALSE
  NoRetryChoices <- OkOrPartial
  OfferedPages = {"ok"}
  OfferedReplies = {"ok", "invalid_json_answer"}
  MaxPages = 1
  MaxEdits = 2
  MaxRuns = 2
INVARIANTS
  CompleteFromOneVersion
  SkippedWasConverted
  NothingSentTwice
CHECK_DEADLOCK FALSE
