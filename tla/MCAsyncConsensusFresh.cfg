CONSTANTS
  t0 = t0
  t1 = t1
  u1 = u1
  t2 = t2
  h0 = h0
  h1 = h1
  h2 = h2
  N = 2
  Thread = {t0, t1}
  Handler = {h0, h1}
  At <- MCAt
  Prior <- MCNoCalls
  InitWork <- MCTaskAt1
  WakeAll = TRUE
  MaxOrders = 1
  MaxRuns = 1
SPECIFICATION Spec
INVARIANTS
  DoneOnlyWhenQuiet
