\* Two concurrent requests with the same idempotency key, no retries.
CONSTANTS
  r1 = r1
  r2 = r2
  r3 = r3
  k1 = k1
  Requests = {r1, r2}
  Keys = {k1}
  NoKey = NoKey
  Nil = Nil
  ReqKey <- MCReqKeyPair
  Limited = TRUE
  Permits = 1
  MaxRetries = 0
  HasTimeout = FALSE
  QuotaLimit = 2
  Cost = 1
  CacheTtl = FALSE
SPECIFICATION Spec
CHECK_DEADLOCK FALSE
INVARIANT HandlerAtMostOnce
