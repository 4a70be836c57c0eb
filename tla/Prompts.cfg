SPECIFICATION FairSpec
CONSTANTS
  Calls = {a, c}
  Asks = {c}
  MaxBlock = 2
  MaxRuns = 3
  MaxCrashes = 2
  None = None
INVARIANTS TypeOK ExecutedOnce RanWithConsent ParkedPromptIsSaved 
PROPERTIES StopEndsTheTurn
CHECK_DEADLOCK FALSE
