SPECIFICATION HistorySpec
CONSTANTS
  Start = 0
  End = 7
  MonthEnds <- MCMonthEnds
  VariedDays <- BothMondays
  UnevenDays = {}
  Between = {}
  MaxOccurrences = 2
  BatchSize = 7
  AskedAt <- MCAskedAt
  MaxResults = 2
  Triggers <- MCTriggers
INVARIANTS
  LinksSurface
  SuccessorsAreShared
  CadenceIsRecovered
  EveryUseCounts
  PredictionsAreTheBest
