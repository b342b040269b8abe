\* Retentions of 2^(W-1) and more: "retention_ms as i64" is negative and the
\* purge removes fresh letters; PurgeRespectsRetention is violated (repro).
CONSTANTS
  t1 = t1
  t2 = t2
  i1 = i1
  None = None
  Tenants = {t1, t2}
  Ids = {i1}
  SagaTenant <- MCSagaTenant
  MaintTenant = t1
  Configs <- MCWrapConfigs
  Backends = {"memory", "surreal"}
  W = 4
  OverflowChecks = TRUE
  MaxTime = 3
SPECIFICATION Spec
\* The clock stops at MaxTime; a behaviour may end there.
CHECK_DEADLOCK FALSE
PROPERTY PurgeRespectsRetention
