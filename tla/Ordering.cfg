SPECIFICATION Spec
CONSTANTS
  None = None
  d2 = d2
  u2 = u2
  Drafts = {d1, d2}
  Settled = {d2}
  File <- ItsFile
  Uploads = {u1, u2}
  Configs = {c1, c2}
  Baskets = {b1}
  MaxItems = 2
INVARIANTS OrderedAsShown ApprovalNeedsLayout
SYMMETRY Alike
CHECK_DEADLOCK FALSE
