CONSTANTS
  worker = worker
  c1 = c1
  i1 = i1
  i2 = i2
  Worker = worker
  Clients <- OneClient
  Home <- OneProcess
  Isins <- Two
  MinUniverse = 1
  Ratio = 60
  MaxRejected = 0
  BlockCooldown = 3
  NetworkCooldown = 2
  DayLength = 4
  OpenLength = 3
  MaxRestarts = 1
SPECIFICATION FairSpec
INVARIANT HealthyMeansStored
PROPERTIES UniverseHolds CollectionRecovers
