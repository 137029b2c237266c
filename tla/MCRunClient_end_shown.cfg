SPECIFICATION FairClientSpec
CONSTANTS
  Runs = {1}
  MaxRevision = 0
  MaxNumber = 0
  Mishaps = {"run"}
  QueueSize = 8
  Faults = {"start", "stop", "break", "resend"}
  MaxStops = 1
  MaxExports = 0
  MaxFaults = 2
PROPERTIES
  RunBegunOnce
  EndIsShown
CHECK_DEADLOCK FALSE
