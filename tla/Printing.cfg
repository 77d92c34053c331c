SPECIFICATION FairSpec
CONSTANTS
  Items = {i1, i2}
  Agents = {a1}
  NoAgent = NoAgent
  MaxCycles = 2
INVARIANTS
  TypeOK
PROPERTIES
  ReadyIsComplete
  OthersJobsRest
  AgentsFinish
CHECK_DEADLOCK FALSE
