SPECIFICATION FairSpec
CONSTANTS
  Clients <- MCClients
  Trees <- MCTrees
  None = None
  Schemes = {TRUE}
  c1 = c1
  c2 = c2
  x = x
  y = y
  Window = 1
  Retries = 1
  MaxEdits = 1
  MaxFaults = 0
  MaxSweeps = 0
PROPERTY MissIsSaved
