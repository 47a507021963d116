CONSTANTS
  worker = worker
  c1 = c1
  i1 = i1
  i2 = i2
  Worker = worker
  Clients <- OneClient
  Home <- TwoProcesses
  Instruments <- Two
  Ranks <- FixedRank
  Actives <- AllOrNone
  Listings <- FirstShort
  Required = 2
  Batch = 2
  Cooldown = 1
  MinRetry = 1
  Ratio = 98
  DayLength = 3
  OpenLength = 2
  MaxCircuit = 1
  MaxAge = 1
  MaxRestarts = 1
SPECIFICATION FairSpec
INVARIANT BackfillInv
PROPERTIES NoLookAhead RejectionsKept HistoryArrives
