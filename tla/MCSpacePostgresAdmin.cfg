SPECIFICATION PgSpec
CONSTANTS
  Users = {u1, u2}
  Spaces = {s1}
  AccessModes = {"INVITE_ONLY"}
  Procs = {p1, p2}
  NoProc = NoProc
  HomeSpace = s1
  AppAdmins = {u1}
  MaxTxns = 2
SYMMETRY Symmetry
INVARIANT PgActiveAdminKept
\* The bound on transactions ends every behaviour.
CHECK_DEADLOCK FALSE
