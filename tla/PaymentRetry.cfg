SPECIFICATION Spec
CONSTANTS
  MaxAttempts = 2
  MaxTries = 0
  MaxEvents = 1
  Customers = {c1}
  Workers = {}
  Triggers = {}
INVARIANTS
  OneOpenCharge
  TakenUpIsReferenced
PROPERTY KeepsChargeBook
CHECK_DEADLOCK FALSE
