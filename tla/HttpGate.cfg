SPECIFICATION MCSpec
CONSTANTS
  a = a
  b = b
  s1 = s1
  s2 = s2
  e1 = e1
  read = read
  NONE = NONE
  TORN = TORN
  GARBLED = GARBLED
  Tools <- MCTools
  Shapes <- MCShapes
  Extras <- MCExtras
  Scopes <- MCScopes
  Dangerous <- MCDangerous
  MaxPosts = 2
  Tokens <- MCTokens
  ServerListings <- MCServerListings
  Validity = 1
  MaxNow = 1
  MaxEdits = 1
  MaxStarts = 3
  MaxReceipts = 4
INVARIANTS
  DriftIsCurrent
  VerifiedIsComplete
  ChainCommitsToFile
  ShownIsAllowed
CHECK_DEADLOCK FALSE
PROPERTIES
  ReceiptsAreAudit
