CONSTANTS
  s1 = s1
  s2 = s2
  g1 = g1
  g2 = g2
  c1 = c1
  none = none
  Symbols = {s1}
  Signals = {g1}
  SymbolOf <- MCSymbolOf
  NoSignal = none
  Clients = {c1}
  InitialCash = 64
  MaxOrders = 2
  SizedQuantities <- TwoOnly
  MaxTime = 2
  MaxLag = 0
  CampaignEnd = 2
  KillRequests <- Never
  Prices <- MCPrices
  VolumeSteps <- Ones
  StaleAfter = 1
  DayLength = 10
  TrimPercents <- MCTrims
  ScalePercent = 35
  WeightCapPercent = 90
  MaxActive = 1
  LimitDown = 2
  LimitUp = 4
  Slip = 0
  BuyFloor = 1
  CapDivisor = 1
  FeeScale = 10
  BuyFee = 1
  SellFee = 1
SPECIFICATION Spec
INVARIANTS TypeOK FilledQuantityAgrees FillsAreLaterSnapshots
PROPERTY OrdersFollowLifecycle
