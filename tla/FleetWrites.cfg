\* A renewer, a reapprover and an auto-updating proxy over one manifest file,
\* an operator who takes no lock, and a server that changes under them.
SPECIFICATION MCFairSpec
CONSTANTS
  a = a
  b = b
  w1 = w1
  r1 = r1
  p1 = p1
  s1 = s1
  s2 = s2
  e1 = e1
  read = read
  NONE = NONE
  Tools <- MCTools
  Shapes <- MCShapes
  Extras <- MCExtras
  Scopes <- MCScopes
  Dangerous <- MCDangerous
  Renewers <- MCRenewers
  Reapprovers <- MCReapprovers
  Proxies <- MCProxies
  Within = 1
  Validity = 2
  MaxNow = 1
  MaxEdits = 1
  MaxChanges = 1
  MaxCrashes = 1
ACTION_CONSTRAINT FewMishaps
INVARIANTS
  LockDiscipline
PROPERTIES
  AtomicRegister
  NeverLoosens
  ReplacedIsSaved
  KeptFresh
CHECK_DEADLOCK FALSE
