SPECIFICATION MCSpec
CONSTANTS
  Users = {u1}
  Another = {u2}
  Reporters = {r1}
  Handlers = {h1}
  Sched = sched
  Threshold = 1
  Terms = {"forever", "running"}
  BatchLimit = 2
  MaxStrikes = 1
  MaxFails = 1
  MaxEdited = 1
INVARIANT BanMatchesAccount
PROPERTY BansEnd
