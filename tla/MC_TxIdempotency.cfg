\* The in-memory store, three callers with two request hashes, operations
\* that finish within the ttl.  Each caller makes one call, so the model
\* stops once every call is answered.
CONSTANTS
  c1 = c1  c2 = c2  c3 = c3  h1 = h1  h2 = h2
  Callers = {c1, c2, c3}
  Hashes = {h1, h2}
  TtlMs = 1
  Backend = "memory"
  ExecWithinTtl = TRUE
  Nil = Nil
SPECIFICATION Spec
CHECK_DEADLOCK FALSE
INVARIANT TypeOK SingleExecutor ReplayMatchesRequest
PROPERTY Refinement
