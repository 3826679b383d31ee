SPECIFICATION FairSpec
CONSTANTS
  Scenes = {"unsteady", "list", "batch", "hasty"}
  Tabs = {t1}
  Both = {t1, t2}
  Calls = {k1, k2}
  Few = {r1}
  Requests = {r1, r2}
  Spaces = {s1, s2}
  Nil = Nil
  Gone = Gone
  Memos = {1, 2, 3}
  Mine = {1, 2, 3}
  PageSize = 2
  BatchSize = 2
  Hold = TRUE
  Edits = TRUE
  MaxMoves = 4
PROPERTY PagesEnd
\* Tokens, fetches and moves are bounded, so a behaviour ends.
CHECK_DEADLOCK FALSE
