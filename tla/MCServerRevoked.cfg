SPECIFICATION MCSpec
CONSTANTS
  Scenes = {"settings"}
  Kind = "tokens"
  Items = {i1, i2}
  Threads = {g1, g2}
  Users = {x1}
  MaxCalls = 4
  MaxVersion = 2
  MaxDrift = 1
  MaxItems = 1
  Goroutines = {g1, g2}
  Pairs = {x1, x2}
  SpaceOf <- OneSpace
  InviteeOf <- Itself
  Handlers = {g1, g2}
  MaxNotes = 2
  MaxFails = 2
  Broken = {1}
  MaxCrashes = 1
  Ids = {1, 2}
  StorageOf <- Files
  FilenameOnly = TRUE
  BatchSize = 1
INVARIANT RevokedStays
CHECK_DEADLOCK FALSE
