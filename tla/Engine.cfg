SPECIFICATION Spec
CONSTANTS
  Calls = {a, b, c}
  LowRisk = {a, b}
  MaxBlock = 3
  MaxIter = 3
  MaxSteered = 1
  MaxMsgs = 12
  Trigger = 4
  KeepTokens = 2
  UsersMax = 1
  MaxCrashes = 2
  Sessions = {s1, s2}
  Proposals <- MCProposals
  NoArg = "none"
  RepoCommands = {"git"}
  AutoTools = {"mcp__tool"}
  Writable = {"inside"}
  MaxDecisions = 3
  Stores = {settings, e1}
  Engines = {e1}
  Workers = {w1, w2}
  Grants = {g1, g2}
  MaxWrites = 3
  NoWorker = NoWorker
  LogCalls = {d, e}
  MaxLog = 7
  MaxCuts = 2
  Ids = {1, 2, 3}
  IdsRestart = FALSE
  MaxReply = 2
  MaxCalls = 3
  MaxSaid = 3
INVARIANTS TypeOK   SummaryHolds  GrantsAreCurrent LogFollowsEngine CallsKeepTheirIds
PROPERTIES BoundaryAdvances SaveReachesDisk LoadsWhatWasSaved
CHECK_DEADLOCK FALSE
