SPECIFICATION FairSpec
CONSTANTS
  FirstHeight = 2
  MaxHeight = 3
  PerBlock = 2
  Chains <- MCChains
  PageSize = 2
  Lag = 2
  Stale = 0
  OlderCursors = {1}
  Runners = {"auto", "manual"}
  Iterations = 2
  MaxFaults = 1
INVARIANTS TypeOK TipCovers PendingCovers
PROPERTY EverythingArrives
