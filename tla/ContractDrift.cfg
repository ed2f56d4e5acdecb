\* Input schemas of one or two parameters, and descriptions, hints, execution
\* modes, output schemas and compositions that move together.
SPECIFICATION ContractSpec
CONSTANTS
  PropOrder <- MCPropOrder
  Schemas <- AllSchemas
  Depth <- MCDepth
  Values <- MCValues
  Markers = {"ignore"}
  Revisions <- AllRevisions
  Arguments <- MCArguments
INVARIANTS CompatibleKeepsCallers DangerIsNeverCompatible
