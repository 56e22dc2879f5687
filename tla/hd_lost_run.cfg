SPECIFICATION Spec
CONSTANTS
  GapLimit = 2
  Budget = 3
  Sources = {"schedule"}
  Policies = {"current"}
  Depth <- ExternalOnly
  MaxUsed = 1
  MaxFailures = 0
  MaxLosses = 1
  CrossRows = FALSE
PROPERTY CompletionCoversGap
