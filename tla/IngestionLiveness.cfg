SPECIFICATION FairSpec
CONSTANTS
  c1 = c1
  c2 = c2
  c3 = c3
  Seed = Seed
  Calls = {c1, c2}
  EventOf <- OneValidOneInvalid
  Seeded <- KnownUser
  MaxRetries = 1
  BackoffSteps = 3
  MaxCrashes = 1
PROPERTIES
  EmitTerminates
  
