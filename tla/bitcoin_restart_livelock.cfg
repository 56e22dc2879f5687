SPECIFICATION FairSpec
CONSTANTS
  MaxTxs = 2
  PageSize = 1
  Cap = 1
  Plans = {FALSE}
  Repeats = {FALSE}
  Repairs = {"completed"}
  Manual = FALSE
  Iterations = 2
  Overlap = FALSE
  Quiet = TRUE
  MaxFaults = 0
PROPERTY EveryTransactionArrives
