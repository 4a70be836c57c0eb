SPECIFICATION Spec
CONSTANTS
  Msgs = {m1, m2}
  Senders = {u1, u2}
  Relayed = {u1}
  Owners = {u1}
  Sessions = {s1, s2, s3, s4}
  UserSessions = {s1, s2}
  MaxSettings = 1
  MaxPrompts = 1
  Terminals = {c1, c2}
  Texts = {x, y}
  MaxEvents = 4
  MaxFailures = 1
  MaxWatches = 2
  MaxCommands = 2
  CommandKinds = {"plain", "forks", "eats", "exits"}
  MaxShells = 2
  Mailboxes = {b1, b2}
  Teams = {t1, t2}
  Calls = {k1, k2}
  MaxEdits = 3
  Servers = {a, b}
  Callers = {r1, r2}
  MaxCalls = 2
  MaxReloads = 1
  Holders = {h1, h2}
  MaxSwitches = 2
INVARIANTS TypeOK ChatsHold WatcherKeepsFaith OutputIsOwn AccountsHold  CallsAreHonest
CHECK_DEADLOCK FALSE
