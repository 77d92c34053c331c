SPECIFICATION FairSpec
CONSTANTS
  Workers = {w1, w2}
  Nobody = Nobody
  MaxAttempts = 2
  MaxRequests = 1
INVARIANTS
  DoneIsServed
PROPERTIES
  LiveLeaseHolds
  EventsSettle
CHECK_DEADLOCK FALSE
