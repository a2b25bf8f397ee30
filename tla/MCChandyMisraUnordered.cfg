CONSTANTS
  A = A
  B = B
  hA = hA
  hB = hB
  Proc <- MCProc
  Vertex <- MCVertex
  Edge <- MCEdge
  Source <- MCSource
  Target <- MCTarget
  Home <- MCHome
  Master <- MCMaster
  Adj <- MCAdj
  Handler <- MCHandler
  HandlerProc <- MCHandlerProc
  MaxMeals <- MCMaxMeals
  Sequentialized = FALSE
  PerReplica = FALSE
SPECIFICATION Spec
INVARIANTS
  MutualExclusion
CHECK_DEADLOCK FALSE
