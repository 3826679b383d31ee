SPECIFICATION MCFairSpec
CONSTANTS
  Scenes = {"settings", "users", "files"}
  Kind = "views"
  Items = {i1}
  Threads = {g1, g2}
  Users = {x1}
  MaxCalls = 4
  MaxVersion = 2
  MaxDrift = 1
  MaxItems = 1
  Goroutines = {g1, g2}
  Pairs = {x1, x2}
  SpaceOf <- OneSpace
  InviteeOf <- Itself
  Handlers = {g1, g2}
  MaxNotes = 2
  MaxFails = 2
  Broken = {1}
  MaxCrashes = 1
  Ids = {1, 2}
  StorageOf <- Files
  FilenameOnly = TRUE
  BatchSize = 1
INVARIANT PurgedNotForgotten
PROPERTY ServerEnds
\* Calls, versions, uploads and failures are bounded, so a behaviour ends.
CHECK_DEADLOCK FALSE
