SPECIFICATION Spec
CONSTANTS
  c1 = c1
  c2 = c2
  c3 = c3
  NumFiles = 2
  Unsupported = {2}
  Unstorable = {2}
  Contents = {c1}
  SizeOf <- MCSizeOfOne
  NoDigest = NoDigest
  AiChoices = {FALSE}
  PerRequest = 1
  MaxFailures = 2
  HaltOnBadJson = FALSE
  HaltOnParseError = FALSE
  NoRetryChoices <- OkOrFail
  OfferedPages = {"ok"}
  OfferedReplies = {"ok", "network_failure", "invalid_json_answer", "token_limit_exceeded"}
  MaxPages = 1
  MaxEdits = 0
  MaxRuns = 2
INVARIANTS
  DoneCoversEveryFile
CHECK_DEADLOCK FALSE
