\* Three concurrent requests through the full chain: one permit, one
\* transient retry, a timeout, a quota for two requests, cached decisions.
CONSTANTS
  r1 = r1
  r2 = r2
  r3 = r3
  k1 = k1
  Requests = {r1, r2, r3}
  Keys = {k1}
  NoKey = NoKey
  Nil = Nil
  ReqKey <- MCReqKey
  Limited = TRUE
  Permits = 1
  MaxRetries = 1
  HasTimeout = TRUE
  QuotaLimit = 2
  Cost = 1
  CacheTtl = TRUE
SPECIFICATION Spec
\* Each request runs run_with_handler once and then stops.
CHECK_DEADLOCK FALSE
INVARIANT TypeOK StoredIsSuccess PermitsAccurate HandlerAttemptsBounded
PROPERTY RequestsComplete
