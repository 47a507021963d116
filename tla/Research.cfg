CONSTANTS
  legacy = legacy
  default = default
  t1 = t1
  t2 = t2
  h1 = h1
  h2 = h2
  Tools = {t1, t2}
  Legacy = legacy
  Default = default
  Window = 1
  MaxDay = 1
  Handlers = {h1, h2}
  MaxTrades = 3
  MaxApprovals = 3
SYMMETRY MCSymmetry
SPECIFICATION Spec
CHECK_DEADLOCK FALSE
INVARIANT ServedIsProven
PROPERTIES IdentityStable OpeningComesFirst LoneApprovalRules
