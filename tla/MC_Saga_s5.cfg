\* Spec scenario S5: [A (undoA), B (undoB)], A succeeds, B fails.
CONSTANTS
  N = 2
  Compensable = {1, 2}
  t1 = t1
  t2 = t2
  Tickers = {t1}
  MaxCrashes = 0
SPECIFICATION Spec
INVARIANT CompensatesOnlySucceeded
