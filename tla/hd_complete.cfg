SPECIFICATION Spec
CONSTANTS
  GapLimit = 2
  Budget = 3
  Sources = {"schedule", "manual", "upgrade"}
  Policies = {"current", "normal", "repair"}
  Depth <- BothChains
  MaxUsed = 2
  MaxFailures = 0
  MaxLosses = 0
  CrossRows = FALSE
PROPERTIES CompletionCoversGap CompletionFetchedAll
