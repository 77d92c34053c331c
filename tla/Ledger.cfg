SPECIFICATION LedgerSpec
CONSTANTS
  Orders = {o1}
  Price = 3
  Payout = 2
  MaxDisputes = 2
  Runners = {w1, w2}
  Requests = {r1, r2}
  Reviewers = {v1, v2}
  MaxSubmissions = 2
  MaxBatches = 2
INVARIANTS
  CasesAgree
  LedgerFits
  NoDoublePayout
PROPERTIES
  SubmittedStays
SYMMETRY Symmetry
CHECK_DEADLOCK FALSE
