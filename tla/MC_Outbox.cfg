\* Two dispatcher workers whose ticks finish within the lease, a
\* max_inflight of 1 and a dispatch window of 1 attempt per 2 time units,
\* transport failures and one operator replay.
CONSTANTS
  m1 = m1  m2 = m2  m3 = m3  k1 = k1
  w1 = w1  w2 = w2  t1 = t1  t2 = t2
  Tenants = {t1}
  TenantOf <- MCOneTenant  MsgId <- MCOwnIds  WorkerTenant <- MCWorkersOneTenant
  Msgs = {m1, m2}
  Workers = {w1, w2}
  NoKey = NoKey  Nil = Nil  NoLimit = NoLimit
  DispatchKey <- MCDispatchKey
  ScheduleDelays = {0}
  MaxAttempts = 2
  LeaseMs = 2
  Batch = 2
  GroupByKey = TRUE
  BaseMs = 1  Factor = 2  JitterPct = 30  CapMs = 2
  MaxInflight = 1
  WindowLimit = 1  WindowMs = 2
  MaxReplays = 1
  MaxStoreFaults = 0
  LeaseOutlivesTick = TRUE
  Backend = "memory"
SPECIFICATION Spec
INVARIANT TypeOK AttemptsBounded LeaseExclusive DeadLetterIsDead InflightAccurate
PROPERTY TerminalStable EventuallySettled
