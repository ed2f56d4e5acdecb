SPECIFICATION ScanSpec
CONSTANTS
  NONE = NONE
  Servers <- MCServers
  Lists <- MCLists
  MaxWorkers = 2
INVARIANTS
  PassAnswered
  HidingNeverPays
  CardsAreTheList
PROPERTIES
  ScanEnds
CHECK_DEADLOCK FALSE
