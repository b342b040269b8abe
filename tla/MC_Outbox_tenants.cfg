\* Two tenants, one worker each, whose messages m1 and m2 have the same id;
\* every failed send dead-letters (max_attempts 1).
CONSTANTS
  m1 = m1  m2 = m2  m3 = m3  k1 = k1
  w1 = w1  w2 = w2  t1 = t1  t2 = t2
  Tenants = {t1, t2}
  TenantOf <- MCTenantPerMsg  MsgId <- MCSharedIds  WorkerTenant <- MCTenantPerWorker
  Msgs = {m1, m2}
  Workers = {w1, w2}
  NoKey = NoKey  Nil = Nil  NoLimit = NoLimit
  DispatchKey <- MCDispatchKey
  ScheduleDelays = {0}
  MaxAttempts = 1
  LeaseMs = 2
  Batch = 1
  GroupByKey = TRUE
  BaseMs = 1  Factor = 2  JitterPct = 0  CapMs = 1
  MaxInflight = NoLimit
  WindowLimit = NoLimit  WindowMs = 1
  MaxReplays = 0
  MaxStoreFaults = 0
  LeaseOutlivesTick = TRUE
  Backend = "memory"
SPECIFICATION Spec
INVARIANT DeadRecoverable
