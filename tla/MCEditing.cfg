SPECIFICATION Spec
CONSTANTS
  Tabs = {t1}
  Both = {t1, t2}
  Slots = {s1}
  Hosts = {TRUE, FALSE}
  DraftEvents = {"kill", "failure", "loss"}
  MaxText = 4
  MaxMemos = 4
  Files = {f1, f2}
  Jobs = {j1, j2}
  UploadEvents = {"remove", "erase"}
  MaxUploads = 2
  CanTranscribe = TRUE
  RecorderEvents = {"unmount", "overlap"}
  MaxRequests = 4
INVARIANTS
  DraftSafe
  UploadsSafe
  RecorderSafe
PROPERTIES
  MusicKept
  EditingEnds
\* Texts, uploads, requests and moves are bounded, so a behaviour ends.
CHECK_DEADLOCK FALSE
