SPECIFICATION Spec
CONSTANTS
  c1 = c1
  c2 = c2
  c3 = c3
  Seed = Seed
  Calls = {c1, c2}
  EventOf <- OneUserOneObject
  Seeded <- KnownUser
  MaxRetries = 1
  BackoffSteps = 3
  MaxCrashes = 1
INVARIANTS
  NoOrphanNodes
  EventIdUnique
  SuccessIsStored
  NodeKeysUnique
  LastSeenIsLatest
  CountedIsStored
PROPERTIES
  ImplementsStore
