SPECIFICATION Spec
CONSTANTS
  Calls = {1, 2, 3}
  IdsRestart = TRUE
  MaxBlock = 2
  MaxCalls = 3
  MaxSaid = 3
  MaxCrashes = 2
INVARIANTS AnswersAreOwn
CHECK_DEADLOCK FALSE
