SPECIFICATION Spec
CONSTANTS
  Events <- MCEvents
  Moments <- MCMoments
  MaxActiveObjects = 1
INVARIANTS
  TotalCoversPatterns
  HabitsFollowUse
PROPERTIES
  ActiveObjectsStay
