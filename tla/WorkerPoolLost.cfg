CONSTANTS
  NumWorkers = 1
  Evaluator = {e1, e2}
  Maker = {m1}
  Rounds = 1
  MaxCrashes = 0
  MaySpawnFail = {}
  Overlap = TRUE
SPECIFICATION WorkerFairSpec
PROPERTY AllServed
CHECK_DEADLOCK FALSE
