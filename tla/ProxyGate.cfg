SPECIFICATION MCFairSpec
CONSTANTS
  a = a
  b = b
  s1 = s1
  s2 = s2
  e1 = e1
  read = read
  q1 = q1
  NONE = NONE
  Tools <- MCTools
  Shapes <- MCShapes
  Extras <- MCExtras
  Scopes <- MCScopes
  Dangerous <- MCDangerous
  ServerIds <- MCServerIds
  Tokens <- MCTokens
  ServerListings <- MCServerListings
  MaxId = 3
  Validity = 1
  MaxNow = 1
  MaxEdits = 1
  MaxOpened = 1
INVARIANTS
  OneAnswer
  DriftIsCurrent
  ShownIsCallable
  StrictStops
CHECK_DEADLOCK FALSE
PROPERTIES
  ForwardedIsCurrent
  EnforcedIsOnDisk
  EveryRequestAnswered
