SPECIFICATION FairSpec
CONSTANTS
  Items = {i1, i2}
  Agents = {a1}
  NoAgent = NoAgent
  MaxCycles = 1
PROPERTIES
  FailedIsRetried
CHECK_DEADLOCK FALSE
