SPECIFICATION FairSpec
CONSTANTS
  Slots = {1, 2}
  MaxTime = 2
  Cap = 1
  MaxJobs = 2
  Requests = {q1}
  MaxEdits = 1
  Timers = {w1}
  JobWakes = {w2}
  WakeAt = 1
  MaxCrashes = 1
  None = None
INVARIANTS TypeOK NoOverlap CountIsRuns DecisionsStick WakesFireOnce
PROPERTIES FiringStartsOnce DueRuns WakesFire
CHECK_DEADLOCK FALSE
