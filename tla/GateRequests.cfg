SPECIFICATION Spec
CONSTANTS
  none = none
  missing = missing
  number = number
  Requests <- AllRequests
  PathOf <- MCPathOf
  HeaderOf <- MCHeaderOf
  TenantsOf <- MCTenantsOf
  TenantIds <- MCTenantIds
  NoHeader <- none
  Undeclared <- missing
  NoString <- number
  EventsLimit = 2
  IntentLimit = 1
  MaxWindow = 1
  MaxSetBacks = 1
  MaxRestarts = 1
INVARIANTS
  WithinLimit
  LimitedOnlyOverLimit
  OneWindowKept
  CountsAreExact
  HeaderMatchesBody
