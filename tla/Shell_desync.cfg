SPECIFICATION Spec
CONSTANTS
  MaxCommands = 3
  Kinds = {"eats"}
  MaxShells = 2
INVARIANTS ResultsStayInStep
CHECK_DEADLOCK FALSE
