\* Three steps, the first without compensate_uri; one ticker that may crash
\* once before its save.
CONSTANTS
  N = 3
  Compensable = {2, 3}
  t1 = t1
  t2 = t2
  Tickers = {t1}
  MaxCrashes = 1
SPECIFICATION Spec
INVARIANT TypeOK CompletedMeansAllSucceeded CancelledUndoesSucceeded
PROPERTY Terminates
