SPECIFICATION Spec
CONSTANTS
  Calls = {a, b}
  MaxMsgs = 6
  MaxCuts = 0
PROPERTIES SavedResultsReachDisk
CHECK_DEADLOCK FALSE
