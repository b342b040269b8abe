\* Two tickers of one saga id, no crashes: a ticker saves a copy loaded
\* before the other's save; CancelledUndoesSucceeded is violated (repro).
CONSTANTS
  N = 3
  Compensable = {2, 3}
  t1 = t1
  t2 = t2
  Tickers = {t1, t2}
  MaxCrashes = 0
SPECIFICATION Spec
INVARIANT CancelledUndoesSucceeded
