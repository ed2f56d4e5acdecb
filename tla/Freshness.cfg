\* One session with a server that announces revisions of its tool, with and
\* without a finding: refreshes overlap, the pin follows, and every announced
\* change reaches the observation.
SPECIFICATION MCFairSpec
CONSTANTS
  NameOrder <- OneName
  Contracts = {"half", "shut", "wide"}
  NoTool = "none"
  ToolLevel <- MCToolLevel
  Digest <- MCDigest
  NoTools = NoTools
  AllowAutoRepin = TRUE
  AllowNewTools = TRUE
  ListIds = {l1}
  NoteIds = {n1, n2}
  CallIds = {}
  NoId = NoId
  ServerToolsets <- RevisedServer
  Bindings <- NoBinding
  Notifies = {TRUE}
  Timeouts = FALSE
  Destructive = {}
  AllowDestructive = FALSE
  AllowUnknownTools = FALSE
  RequirePinned = TRUE
  AllowedTools = {"a"}
  MaxCallsPerTool = 1
  Mode = "enforce"
  Versions = 1
  MaxChanges = 2
  MaxSessions = 1
INVARIANTS PinTracksObservation
PROPERTIES AnnouncedChangesAreSeen
CHECK_DEADLOCK FALSE
