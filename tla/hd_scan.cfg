SPECIFICATION FairSpec
CONSTANTS
  GapLimit = 1
  Budget = 3
  Sources = {"schedule"}
  Policies = {"normal"}
  Depth <- FirstOfEach
  MaxUsed = 1
  MaxFailures = 1
  MaxLosses = 1
  CrossRows = TRUE
INVARIANTS TypeOK DerivationBound NothingPassedOver IndInv
PROPERTY EventuallyCovered
