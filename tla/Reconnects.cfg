\* Two sessions over one TrustStore, a server that adds a tool or takes it
\* back: timeouts, a failing handshake, a handshake binding, orphaned requests.
SPECIFICATION Spec
CONSTANTS
  NameOrder <- MCNameOrder
  Contracts = {"base"}
  NoTool = "none"
  ToolLevel <- MCToolLevel
  Digest <- MCDigest
  NoTools = NoTools
  AllowAutoRepin = TRUE
  AllowNewTools = TRUE
  ListIds = {l1}
  NoteIds = {n1}
  CallIds = {c1, c2}
  NoId = NoId
  ServerToolsets <- GrowingServer
  Bindings <- BaseBinding
  Notifies = {TRUE}
  Timeouts = TRUE
  Destructive = {}
  AllowDestructive = FALSE
  AllowUnknownTools = FALSE
  RequirePinned = TRUE
  AllowedTools = {"a"}
  MaxCallsPerTool = 1
  Mode = "enforce"
  Versions = 2
  MaxChanges = 1
  MaxSessions = 2
SYMMETRY IdSymmetry
INVARIANTS TypeOK RevocationHolds CeilingHolds
PROPERTIES AdmissionStopsAtDrift
CHECK_DEADLOCK FALSE
