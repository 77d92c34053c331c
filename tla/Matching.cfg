SPECIFICATION FairSpec
CONSTANTS
  Orders = {o1, o2}
  Branches = {b1, b2}
  Unversioned = {b2}
  AdminRefunds = {o2}
  MaxLimit = 2
  Publishers = {b1}
  MaxVersions = 2
  MaxCycles = 2
INVARIANTS
  TypeOK
  HoldFollowsOffer
  WorkMatchesOrder
  HoldsFit
PROPERTIES
  AcceptFits
  TendersOrders
  PaidIsServed
CHECK_DEADLOCK FALSE
