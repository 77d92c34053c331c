SPECIFICATION FairSpec
CONSTANTS
  o1 = o1
  o2 = o2
  l1 = l1
  l2 = l2
  Orders = {o1, o2}
  Layouts = {l1, l2}
  Primary <- SameLayout
  Items <- TwoItems
  Price = 1
  MaxDisputes = 1
  Workers = {w1, w2}
  MaxAttempts = 2
INVARIANTS
  FilesAgree
  HeldIsNonexpired
PROPERTY FilesExpire
CHECK_DEADLOCK FALSE
