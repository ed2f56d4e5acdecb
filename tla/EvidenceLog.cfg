\* Two processes open a store of two days three times.
SPECIFICATION Spec
CONSTANTS
  x = x
  y = y
  kind = kind
  p1 = p1
  p2 = p2
  NONE = NONE
  CORRUPT = CORRUPT
  TORN = TORN
  GARBLED = GARBLED
  Records <- MCRecords
  Processes <- MCProcesses
  MaxBatch = 2
  MaxOpens = 3
  MaxLines = 3
INVARIANTS
  LookupNeverLies
  RebuildFindsAll
  KeptAsRebuilt
  VerifiedHasAllWritten
SYMMETRY Interchangeable
CHECK_DEADLOCK FALSE
