SPECIFICATION ClientSpec
CONSTANTS
  Runs = {1}
  MaxRevision = 0
  MaxNumber = 9
  Mishaps = {}
  QueueSize = 8
  Faults = {}
  MaxStops = 0
  MaxExports = 1
  MaxFaults = 0
INVARIANTS
  SavingMeansSaving
CHECK_DEADLOCK FALSE
