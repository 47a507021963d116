CONSTANTS
  codal = codal
  mirror = mirror
  market = market
  a = a
  b = b
  Symbols = {a, b}
  Sources <- MCSources
  Codal = codal
  UpstreamOf <- MCUpstream
  ReceiptLife = 1
  SnapshotLife = 120
  MinHistory = 260
  Curve <- MCCurve
  InitialCash = 200000
  MinimumCash = 1000
  LiquidityCap = 50000
  BuyFee = 37
  RoundTrip = 2156
  MaxActive = 10
  Profiles <- MCProfiles
  News <- MCNews
  Breadths <- MCBreadths
  Books <- MCBooks
  MaxPerCycle = 3
  MaxNews = 1
  MaxDays = 2
SYMMETRY Twins
SPECIFICATION Spec
INVARIANTS DecisionsInv LossBounded OneCycleAffordable OrdersAreBacked
PROPERTY BetterEvidenceKeeps
