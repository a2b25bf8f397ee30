CONSTANTS
  A = A
  B = B
  hA = hA
  hB = hB
  Proc <- MCProc
  Vertex <- MCVertex
  Edge <- MCEdge
  Source <- MCSource
  Target <- MCTarget
  Home <- MCHome
  Master <- MCMaster
  Adj <- MCAdj
  Handler <- MCHandler
  HandlerProc <- MCHandlerProc
  MaxMeals <- MCFewMeals
  Sequentialized = TRUE
  PerReplica = FALSE
  NumWorkers = 2
  Evaluator = {e1, e2, e3}
  Maker = {m1}
  Rounds = 1
  MaxCrashes = 2
  MaySpawnFail = {e1, e2, e3}
  Overlap = FALSE
  LockThread = {1, 2, 3}
  LOCKS_PER_EPOCH = 1
  MaxLocks = 2
SPECIFICATION TurnsSpec
INVARIANTS
  TypeOK
  ForksCounted
  AtTableOwnsForks
  EatsWithForks
  ConsistencyChecked
  CallsFitState
  WorkersConserved
  ConnectionsValid
  NoIdleWorker
  LockHandedOn
PROPERTIES
  HungryEats
  AllHaveTheirTurn
