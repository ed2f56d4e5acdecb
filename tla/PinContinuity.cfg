SPECIFICATION MCSpec
CONSTANTS
  s = s
  o1 = o1
  o2 = o2
  t1 = t1
  t2 = t2
  k1 = k1
  k2 = k2
  NONE = NONE
  PART = PART
  Selves <- MCSelves
  Toolsets <- MCToolsets
  Origins <- MCOrigins
  Publishers <- MCPublishers
  MaxCommands = 3
  MaxRunning = 2
  MaxEdits = 3
  Expiries = {TRUE}
  MaxKills = 1
SYMMETRY Interchangeable
INVARIANTS
  SoleWriterKeepsPins
  ContinuityIsUnique
  PassedIsAttested
CHECK_DEADLOCK FALSE
