\* Two dispatcher workers without a budget guard; one store call of a
\* tick fails.
CONSTANTS
  m1 = m1  m2 = m2  m3 = m3  k1 = k1
  w1 = w1  w2 = w2  t1 = t1  t2 = t2
  Tenants = {t1}
  TenantOf <- MCOneTenant  MsgId <- MCOwnIds  WorkerTenant <- MCWorkersOneTenant
  Msgs = {m1, m2}
  Workers = {w1, w2}
  NoKey = NoKey  Nil = Nil  NoLimit = NoLimit
  DispatchKey <- MCDispatchKey
  ScheduleDelays = {0}
  MaxAttempts = 2
  LeaseMs = 2
  Batch = 2
  GroupByKey = TRUE
  BaseMs = 1  Factor = 2  JitterPct = 30  CapMs = 2
  MaxInflight = NoLimit
  WindowLimit = NoLimit  WindowMs = 1
  MaxReplays = 1
  MaxStoreFaults = 1
  LeaseOutlivesTick = TRUE
  Backend = "surreal"
SPECIFICATION Spec
INVARIANT LeaseExclusive
PROPERTY TerminalStable EventuallySettled
