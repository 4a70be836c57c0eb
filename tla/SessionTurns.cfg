SPECIFICATION FairSpec
CONSTANTS
  Msgs = {m1, m2}
  Sockets = {s1}
  MaxTurns = 3
  MaxFaults = 1
  None = None
INVARIANTS TypeOK OneRunAtATime StuckFlagIsReleasable MessageInOnePlace QueuedKeepOrder
PROPERTIES OnlyKnownUsurpers ClaimsAreReturned ImplementsLock
CHECK_DEADLOCK FALSE
