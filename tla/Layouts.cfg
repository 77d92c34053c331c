SPECIFICATION FairSpec
CONSTANTS
  None = None
  Puts = {p1, p2}
  Workers = {w1, w2}
  MaxTries = 2
  MaxFaults = 2
  Settings = {s1, s2}
  Doubtful = {s2}
  Runs = {r1, r2}
INVARIANTS
  SessionIsTrue
  ShownIsCurrent
  ReviewedThenApproved
PROPERTIES
  ImplementsLife
  ProcessingEnds
CHECK_DEADLOCK FALSE
