\* One worker, max_inflight 1, a store call of the tick may fail.
CONSTANTS
  m1 = m1  m2 = m2  m3 = m3  k1 = k1
  w1 = w1  w2 = w2  t1 = t1  t2 = t2
  Tenants = {t1}
  TenantOf <- MCOneTenant  MsgId <- MCOwnIds  WorkerTenant <- MCWorkersOneTenant
  NoKey = NoKey  Nil = Nil  NoLimit = NoLimit
  DispatchKey <- MCDispatchKey
  ScheduleDelays = {0}
  MaxAttempts = 2
  LeaseMs = 2
  BaseMs = 1  Factor = 2  JitterPct = 30  CapMs = 2
  GroupByKey = TRUE
  Msgs = {m1}
  Workers = {w1}
  Batch = 1
  MaxInflight = 1
  WindowLimit = NoLimit  WindowMs = 1
  MaxReplays = 0
  MaxStoreFaults = 1
  LeaseOutlivesTick = TRUE
  Backend = "memory"
SPECIFICATION Spec
PROPERTY EventuallySettled
