\* The SurrealDB store (three queries per check_and_put), three callers,
\* operations that finish within the ttl.
CONSTANTS
  c1 = c1  c2 = c2  c3 = c3  h1 = h1  h2 = h2
  Callers = {c1, c2, c3}
  Hashes = {h1, h2}
  TtlMs = 1
  Backend = "surreal"
  ExecWithinTtl = TRUE
  Nil = Nil
SPECIFICATION Spec
CHECK_DEADLOCK FALSE
INVARIANT SingleExecutor
