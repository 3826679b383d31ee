SPECIFICATION PgSpec
CONSTANTS
  Users = {u1, u2}
  Spaces = {s1, s2}
  AccessModes = {"INVITE_ONLY"}
  Procs = {p1, p2}
  NoProc = NoProc
  HomeSpace = s1
  AppAdmins = {u1}
  MaxTxns = 2
INVARIANTS
  NoOrphanRows
PROPERTIES
  PgMembershipByConsent
  EveryTxnEnds
\* The bound on transactions ends every behaviour.
CHECK_DEADLOCK FALSE
