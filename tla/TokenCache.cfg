\* Three validations, which overlap or follow one another, of three tokens.
SPECIFICATION Spec
CONSTANTS
  dev = dev
  short = short
  long = long
  NONE = NONE
  Tokens <- MCTokens
  Signed <- MCSigned
  Expires <- MCExpires
  Ttl = 2
  MaxCalls = 3
  MaxDelay = 1
  MaxNow = 4
  MaxStarts = 2
PROPERTIES
  RevocationLapses
CHECK_DEADLOCK FALSE
