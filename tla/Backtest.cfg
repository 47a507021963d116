CONSTANTS
  a = a
  b = b
  Order <- MCOrder
  Bars <- MCBars
  Plans <- MCPlans
  Limits = {1, 2}
  Capital = 1000000
  Horizon = 2
  Warmup = 0
  MinBars = 1
  MinShares = 100
  RiskRate = 35
  MaxDays = 4
SPECIFICATION Spec
CHECK_DEADLOCK FALSE
INVARIANT BacktestInv
PROPERTY LossWithinBudget
