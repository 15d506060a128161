SPECIFICATION Spec
CONSTANTS
  c1 = c1
  c2 = c2
  c3 = c3
  Seed = Seed
  Calls = {c1, c2, c3}
  EventOf <- TwoUsersOneObject
  Seeded = {}
  MaxRetries = 0
  BackoffSteps = 3
  MaxCrashes = 0
INVARIANTS
  SuccessIsStored
