SPECIFICATION Spec
CONSTANTS
  l1 = l1
  l2 = l2
  l3 = l3
  EventIds = {1, 2}
  Loaders = {l1, l2}
  BatchesOf <- SameFile
  Tool <- Shops
  MaxBatchSize = 2
  MaxFailurePercent = 50
  MaxRuns = 2
  MaxCrashes = 1
SYMMETRY SameLoaders
INVARIANTS
  ResultsAreTrue
  FailureLeavesPrefix
  LoadedIsComplete
  ReportIsTrue
