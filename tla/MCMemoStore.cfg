SPECIFICATION MCSpec
CONSTANTS
  Users = {u1, u2}
  Spaces = {s1, s2}
  AccessModes = {"INVITE_ONLY"}
  Memos = {m1, m2, m3}
  Visibilities = {"PRIVATE", "SPACE"}
  NoSpace = NoSpace
  NoMemo = NoMemo
  MaxDeletions = 2
  TwoMemos = {m1, m2}
  LoneMemo = {m3}
SYMMETRY Symmetry
INVARIANTS
  MemoRowsValid
  NoShareOnSpaceAudience
  TreeConnected
PROPERTIES
  FormerMemberMovesOnly
  RestoreIsOneBatch
\* Users and Spaces are used once, so an instance ends when all are spent.
CHECK_DEADLOCK FALSE
