SPECIFICATION Spec
CONSTANTS
  c1 = c1
  c2 = c2
  c3 = c3
  NumFiles = 2
  Unsupported = {1}
  Unstorable = {1}
  Contents = {c1}
  SizeOf <- MCSizeOfOne
  NoDigest = NoDigest
  AiChoices = {TRUE}
  PerRequest = 2
  MaxFailures = 2
  HaltOnBadJson = FALSE
  HaltOnParseError = TRUE
  NoRetryChoices <- OnlyOk
  OfferedPages = {"ok", "failure"}
  OfferedReplies = {"ok", "provider_reply_parse_error"}
  MaxPages = 3
  MaxEdits = 0
  MaxRuns = 2
INVARIANTS
  CompleteIsWhole
  FinalizeNeverRefused
PROPERTIES
  LedgerSpec
CHECK_DEADLOCK FALSE
