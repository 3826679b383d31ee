SPECIFICATION Spec
CONSTANTS
  Users = {u1, u2, u3}
  Spaces = {s1, s2}
  AccessModes = {"INVITE_ONLY", "PUBLIC"}
SYMMETRY Symmetry
INVARIANTS
  TypeOK
  ActiveAdminKept
  NoOrphanRows
PROPERTIES
  MembershipByConsent
  Governed
\* Ids are used once, so an instance ends when all of them are spent.
CHECK_DEADLOCK FALSE
