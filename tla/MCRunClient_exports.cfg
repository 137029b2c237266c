SPECIFICATION ClientSpec
CONSTANTS
  Runs = {1, 2}
  MaxRevision = 0
  MaxNumber = 9
  Mishaps = {}
  QueueSize = 2
  Faults = {"export"}
  MaxStops = 0
  MaxExports = 1
  MaxFaults = 1
PROPERTIES
  AutomaticResultIsNews
CHECK_DEADLOCK FALSE
