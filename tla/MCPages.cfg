SPECIFICATION Spec
CONSTANTS
  Scenes = {"session", "shaky", "pair", "cache", "batch", "scope"}
  Tabs = {t1}
  Both = {t1, t2}
  Calls = {k1, k2}
  Few = {r1}
  Requests = {r1, r2}
  Spaces = {s1, s2}
  Nil = Nil
  Gone = Gone
  Memos = {1, 2, 3, 4}
  Mine = {1, 2, 3}
  PageSize = 3
  BatchSize = 2
  Hold = FALSE
  Edits = TRUE
  MaxMoves = 5
SYMMETRY Symmetry
INVARIANTS
  SessionSafe
  DetailCurrent
  BatchSafe
  ScopeAsked
PROPERTY DoneIsDone
\* Tokens, fetches and moves are bounded, so a behaviour ends.
CHECK_DEADLOCK FALSE
