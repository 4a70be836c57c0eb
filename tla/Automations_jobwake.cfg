SPECIFICATION FairSpec
CONSTANTS
  Slots = {1}
  MaxTime = 1
  Cap = None
  MaxJobs = 1
  Requests = {q1}
  MaxEdits = 0
  Timers = {w1}
  JobWakes = {w2}
  WakeAt = 1
  MaxCrashes = 0
  None = None
PROPERTIES JobWakesFire
CHECK_DEADLOCK FALSE
