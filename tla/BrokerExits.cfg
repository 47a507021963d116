CONSTANTS
  s1 = s1
  s2 = s2
  g1 = g1
  g2 = g2
  c1 = c1
  none = none
  Symbols = {s1}
  Signals = {g1}
  SymbolOf <- MCSymbolOf
  NoSignal = none
  Clients = {c1}
  InitialCash = 150
  MaxOrders = 3
  SizedQuantities <- Ones
  MaxTime = 2
  MaxLag = 0
  CampaignEnd = 5
  KillRequests <- Never
  Prices <- MCPrices
  VolumeSteps <- TradedOnly
  StaleAfter = 1
  DayLength = 10
  TrimPercents <- MCTrims
  ScalePercent = 35
  WeightCapPercent = 90
  MaxActive = 1
  LimitDown = 1
  LimitUp = 3
  Slip = 0
  BuyFloor = 1
  CapDivisor = 1
  FeeScale = 10
  BuyFee = 1
  SellFee = 1
SPECIFICATION HoldingSpec
INVARIANTS SharesConserved BooksClose HistoryAgrees
PROPERTY CashIsAnAccount
