\* A breaking finding followed by one without a rank.
SPECIFICATION ContractSpec
CONSTANTS
  PropOrder <- WideOrder
  Schemas <- ReplacedSchemas
  Depth <- MCDepth
  Values <- MCValues
  Markers = {"ignore"}
  Revisions <- ReplacedRevisions
  Arguments <- MCArguments
INVARIANTS NarrowedParameterIsBreaking
