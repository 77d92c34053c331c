SPECIFICATION Spec
CONSTANTS
  MaxAttempts = 2
  MaxTries = 0
  MaxEvents = 1
  Customers = {c1}
  Workers = {}
  Triggers = {t1}
INVARIANT OneCharge
CHECK_DEADLOCK FALSE
