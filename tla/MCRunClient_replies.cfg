SPECIFICATION ClientSpec
CONSTANTS
  Runs = {1, 2}
  MaxRevision = 0
  MaxNumber = 0
  Mishaps = {}
  QueueSize = 2
  Faults = {"start", "stop", "status"}
  MaxStops = 1
  MaxExports = 0
  MaxFaults = 1
INVARIANTS
  ShownAsPublished
  StartNotOfferedTwice
PROPERTIES
  NeverGoesBack
CHECK_DEADLOCK FALSE
