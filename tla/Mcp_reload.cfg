SPECIFICATION Spec
CONSTANTS
  Servers = {a, b}
  Callers = {k1, k2}
  MaxCalls = 2
  MaxReloads = 1
INVARIANTS ReloadedReconnects
CHECK_DEADLOCK FALSE
