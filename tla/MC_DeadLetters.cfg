\* Both dead-letter stores, two tenants with one id, a saga of the other
\* tenant, three retention configurations, 4-bit integers and a clock up to 3.
CONSTANTS
  t1 = t1
  t2 = t2
  i1 = i1
  None = None
  Tenants = {t1, t2}
  Ids = {i1}
  SagaTenant <- MCSagaTenant
  MaintTenant = t1
  Configs <- MCConfigs
  Backends = {"memory", "surreal"}
  W = 4
  OverflowChecks = TRUE
  MaxTime = 3
SPECIFICATION Spec
\* The clock stops at MaxTime; a behaviour may end there.
CHECK_DEADLOCK FALSE
PROPERTY PurgeRespectsRetention EventuallyPurged
