SPECIFICATION FairSpec
CONSTANTS
  AppKeys = {}
  MonitorKeys = {monitor}
  PriceKeys = {price}
  Accounts = {account}
  Callers = {h1}
  Ids = {i1, i2}
  Capacity = 1
  NoRequest = NoRequest
INVARIANTS TypeOK SingleFlight QueuedWorkIsPending DrainedMeansQuiet IndInv
PROPERTIES  QueuedEventuallyStarts CallEventuallyReturns ShutdownEventuallyAnswered
