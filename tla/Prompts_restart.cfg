SPECIFICATION Spec
CONSTANTS
  Calls = {a, c}
  Asks = {c}
  MaxBlock = 2
  MaxRuns = 1
  MaxCrashes = 1
  None = None
PROPERTIES ParkedPromptSurvivesRestart
CHECK_DEADLOCK FALSE
