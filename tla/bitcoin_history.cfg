SPECIFICATION Spec
CONSTANTS
  MaxTxs = 2
  PageSize = 1
  Cap = 1
  Plans = {FALSE, TRUE}
  Repeats = {FALSE, TRUE}
  Repairs = {"pending", "completed"}
  Manual = TRUE
  Iterations = 2
  Overlap = FALSE
  Quiet = TRUE
  MaxFaults = 2
INVARIANTS TypeOK ProofStandsOnStored CompleteMeansConfirmed NoContradictionReported RepairRunsAlone LedgerFollowsHistory
PROPERTIES StrictProofExact ClaimSpec
