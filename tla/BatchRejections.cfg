SPECIFICATION FairSpec
CONSTANTS
  l1 = l1
  l2 = l2
  l3 = l3
  Loaders = {l1, l2, l3}
  EventIds = {1, 2, 3, 4, 5, 6, 7, 8, 9, 10, 11, 12, 13, 14, 15, 16, 17, 18, 19}
  BatchesOf <- BadFiles
  Tool <- BothTools
  MaxBatchSize = 10
  MaxFailurePercent = 10
  MaxRuns = 1
  MaxCrashes = 0

  
PROPERTIES
  LoadsEnd
  
