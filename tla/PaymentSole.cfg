SPECIFICATION FairSpec
CONSTANTS
  MaxAttempts = 1
  MaxTries = 1
  MaxEvents = 1
  Customers = {c1}
  Workers = {w1}
  Triggers = {t1, t2}
INVARIANTS
  TypeOK
  SoleAgree
  EffectsOnce
  OpenChargeIsTracked
PROPERTIES
  SoleOrderAdvances
  ChargesResolve
CHECK_DEADLOCK FALSE
