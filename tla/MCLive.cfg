SPECIFICATION MCSpec
CONSTANTS
  c1 = c1
  c2 = c2
  c3 = c3
  Clients <- MCClients
  UserOf <- MCUserOf
  Publishers = {p1, p2}
  Users = {1, 2}
  Admins = {2}
  BufferSize = 1
  MaxMutations = 2
  Tabs = {t1, t2}
  Attempts = {1, 2}
  Browsers <- MCBrowsers
  Kinds = {"memo.changed", "memo.updated", "space.changed"}
  StreamBuffer = 1
  MaxChanges = 2
  MaxFaults = 1
  MaxMoves = 3
INVARIANTS
  HubFormed
  NoPanic
  MissedIsDropped
  TabsSafe
PROPERTY LiveEnds
\* Connections, mutations, failures and moves are bounded, so a behaviour ends.
CHECK_DEADLOCK FALSE
