SPECIFICATION FairSpec
CONSTANTS
  Orders = {o1, o2}
  Couriers = {r1}
  NoCourier = NoCourier
  Disputed = {o1}
  MaxAttempts = 2
  MaxCycles = 2
INVARIANTS
  RowsAgree
  OneOrderPerCourier
PROPERTIES
  RequestAnswered
CHECK_DEADLOCK FALSE
