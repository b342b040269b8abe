\* Two workers; a tick may outlast its leases (no heartbeat in the tick).
CONSTANTS
  m1 = m1  m2 = m2  m3 = m3  k1 = k1
  w1 = w1  w2 = w2  t1 = t1  t2 = t2
  Tenants = {t1}
  TenantOf <- MCOneTenant  MsgId <- MCOwnIds  WorkerTenant <- MCWorkersOneTenant
  NoKey = NoKey  Nil = Nil  NoLimit = NoLimit
  DispatchKey <- MCDispatchKey
  ScheduleDelays = {0}
  MaxAttempts = 2
  LeaseMs = 2
  BaseMs = 1  Factor = 2  JitterPct = 30  CapMs = 2
  GroupByKey = TRUE
  Msgs = {m1}
  Workers = {w1, w2}
  Batch = 1
  MaxInflight = NoLimit
  WindowLimit = NoLimit  WindowMs = 1
  MaxReplays = 0
  MaxStoreFaults = 0
  LeaseOutlivesTick = FALSE
  Backend = "memory"
SPECIFICATION Spec
INVARIANT AttemptsBounded
