CONSTANTS
  worker = worker
  history = history
  backfill = backfill
  client = client
  s1 = s1
  Cycles = {worker}
  Triggers = {}
  Backfills = {backfill}
  Jobs = {history}
  Home <- TwoProcesses
  Clients = {client}
  Symbols = {s1}
  StaleAfter = 0
  MaxSeconds = 1
  MaxOrders = 1
SPECIFICATION FairSpec
PROPERTIES OneScanShown ScanKeepsPending ScansEnd
