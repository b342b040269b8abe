\* The in-memory store with operations that may outlive the ttl of their
\* record; three callers, two hashes, one call each.
CONSTANTS
  c1 = c1  c2 = c2  c3 = c3  h1 = h1  h2 = h2
  Callers = {c1, c2, c3}
  Hashes = {h1, h2}
  TtlMs = 1
  Backend = "memory"
  ExecWithinTtl = FALSE
  Nil = Nil
SPECIFICATION Spec
CHECK_DEADLOCK FALSE
INVARIANT ReplayMatchesRequest
