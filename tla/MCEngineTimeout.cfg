CONSTANTS
  Machine = {1, 2}
  NumVids = 3
  Master <- MCMaster
  LocalEdges <- MCLocalEdges
  EngineFiber = {"f1", "f2"}
  EngineHandler = {"h1", "h2"}
  Place <- MCPlace
  Cpu <- MCCpu
  Multi = 2
  SubQueueSize = 1
  Signalled = {1}
  MaxSignals = 2
  Timed = TRUE
SPECIFICATION EngineSpec
INVARIANTS
  SchedulerEmpty
CHECK_DEADLOCK FALSE
