SPECIFICATION Spec
CONSTANTS
  MaxRetries = 2
  RateLimitRetries = 3
  Formats = 3
CHECK_DEADLOCK FALSE
INVARIANTS TypeOK RequestsBounded QuotaRespected
