CONSTANTS
  t0 = t0
  t1 = t1
  u1 = u1
  t2 = t2
  h0 = h0
  h1 = h1
  h2 = h2
  N = 2
  Thread = {t0, t1}
  Handler = {h0, h1}
  At <- MCAt
  Prior <- MCOneCall
  InitWork <- MCTaskAt1
  WakeAll = TRUE
  MaxOrders = 2
  MaxRuns = 2
  PoolThread = {1, 2}
  Caller = {c1, c2}
  InitialSize = 2
  MaxLoops = 1
  Nested = {c2}
  MayThrow = {c1}
  Admin = admin
  AdminCalls <- MCAdminCalls
SPECIFICATION ThreadsSpec
INVARIANTS
  TypeOK
  NumActiveValid
  OneToken
  NoTaskForgotten
  TasksExact
  NoIdleThread
PROPERTIES
  ImplementsDetection
  EverybodyLeaves
