SPECIFICATION Spec
CONSTANTS
  Msgs = {m1, m2}
  Sockets = {s1}
  MaxTurns = 2
  MaxFaults = 1
  None = None
INVARIANTS NothingStranded
CHECK_DEADLOCK FALSE
