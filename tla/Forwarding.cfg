SPECIFICATION Spec
CONSTANTS
  None = None
  Lines = 3
  Cuts <- AllCuts
  MaxStarts = 2
  Webhooks <- MCWebhooks
  PayloadOf <- MCPayloadOf
  MaxDeliveries = 2
INVARIANTS
  LinesForwardedOnce
  
  RepliesAreTrue
CHECK_DEADLOCK FALSE
