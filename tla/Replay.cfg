SPECIFICATION ReplaySpec
CONSTANTS
  NONE = NONE
  ProbesPerTool = 10
  ToolLists <- MCToolLists
  Answers <- MCAnswers
  Types = {"secret_canary"}
  StderrCap = 2
  MaxPrints = 2
  MaxLate = 1
INVARIANTS
  PassedAsReference
  PassedMissedNothing
CHECK_DEADLOCK FALSE
