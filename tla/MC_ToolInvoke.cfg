\* A Keyed, Serial tool with two planned ops; c1 and c2 share tenant and key,
\* c3, of the other tenant, has key k2.  Each call invokes once, so the system stops.
CONSTANTS
  c1 = c1  c2 = c2  c3 = c3  ta = ta  tb = tb  k1 = k1  k2 = k2
  Calls = {c1, c2, c3}
  Tenants = {ta, tb}
  Keys = {k1, k2}
  NoKey = NoKey
  Nil = Nil
  CallTenant <- MCCallTenant
  CallKey <- MCCallKey
  Keyed = TRUE
  Serial = TRUE
  NOps = 2
  SchemaCheck = TRUE
SPECIFICATION Spec
CHECK_DEADLOCK FALSE
INVARIANT TypeOK CachedIsComplete GuardCountAccurate
