CONSTANTS
  NumProcs = 3
  BranchFactor = 2
  Handlers = {1}
  Rounds = 2
  MaxSends <- MCMaxSends
  Worker = {1, 2}
  Fiber = {1, 2}
  Affinity <- MCAffinity
  Asks = {2}
  Yields <- MCYields
  Writer = {1, 2}
  Sends <- MCSends
  FullBuffer = 2
  MaxFlushes = 2
  ServerThread = {t1, t2}
  MaxUpdates = 3
  MaxCommands = 2
  MaxSigints = 2
  MaxPings = 1
  MaxChecks = 1
  Tolerable = 1
  Machine = {1, 2}
  NumVids = 2
  Master <- MCMaster
  LocalEdges <- MCLocalEdges
  EngineFiber = {"f1", "f2"}
  EngineHandler = {"h1", "h2"}
  Place <- MCPlace
  Cpu <- MCCpu
  Multi = 2
  SubQueueSize = 1
  Signalled = {1}
  MaxSignals = 2
  Timed = TRUE
SPECIFICATION RuntimeSpec
INVARIANTS
  RuntimeTypeOK
  GathersExact
  OnePlace
  NoMissedFiber
  FibersEnd
  SentOnce
  PublishedInOrder
  ReplicaFollows
  CancelExact
  NoInterruptLost
  OneProgram
  SignalsHandled
PROPERTIES
  ImplementsFullBarrier
  RuntimeEnds
CHECK_DEADLOCK FALSE
