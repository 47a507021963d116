CONSTANTS
  socket = socket
  Second = 2
  DayLength = 80
  PreStart = 17
  OpenAt = 20
  CloseAt = 50
  FirstWeekday = 2
  Holidays <- OnSaturday
  Horizon = 7
  Cadence = 6
  Slice = 4
  CycleTimes <- TwoTimes
  RetryAfters <- Retries
  MaxDrift = 2
  Sockets = {socket}
  QueueSize = 2
  End = 480
  MaxRestarts = 1
SPECIFICATION FairWorkerSpec
INVARIANTS WorkerInv SessionsMet
PROPERTIES Paced KeepsCollecting
