SPECIFICATION MCSpec
CONSTANTS
  Scenes = {"settings", "users", "invitations", "files"}
  Kind = "tokens"
  Items = {i1, i2}
  Threads = {g1, g2, g3}
  Users = {x1, x2}
  MaxCalls = 4
  MaxVersion = 2
  MaxDrift = 1
  MaxItems = 1
  Goroutines = {g1, g2}
  Pairs = {x1, x2}
  SpaceOf <- OneSpace
  InviteeOf <- Itself
  Handlers = {g1, g2}
  MaxNotes = 2
  MaxFails = 2
  Broken = {1}
  MaxCrashes = 1
  Ids = {1, 2, 3}
  StorageOf <- FilesAndRows
  FilenameOnly = FALSE
  BatchSize = 2
SYMMETRY Symmetry
INVARIANTS
  ServerTypeOK
  ExactUnlessOvertaken
  StaleOnlyByRace
  CacheCounted
  NotifiedAlone
  LiveObjectKept
\* Calls, versions, uploads and failures are bounded, so a behaviour ends.
CHECK_DEADLOCK FALSE
