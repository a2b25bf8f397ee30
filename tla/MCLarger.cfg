CONSTANTS
  A = A
  B = B
  hA = hA
  hB = hB
  t0 = t0
  t1 = t1
  u1 = u1
  t2 = t2
  h0 = h0
  h1 = h1
  h2 = h2
  N = 2
  Thread = {t0, t1, u1}
  Handler = {h0, h1}
  At <- MCAt
  Prior <- MCOneCall
  InitWork <- MCTaskAt1
  WakeAll = FALSE
  MaxOrders = 1
  MaxRuns = 2
  CacheUser = {1, 2}
  CacheId = {1, 2}
  CacheBlock = {1, 2, 3, 4}
  FILEIO_MAXIMUM_CACHE_CAPACITY = 4
  FILEIO_MAXIMUM_CACHE_CAPACITY_PER_FILE = 3
  FILEIO_INITIAL_CAPACITY_PER_FILE = 1
  BufSize = {1, 2}
  MaxStreams = 2
  Inputs <- MCInputs
  SFRAME_CSV_PARSER_READ_SIZE = 4
  nthreads = 2
  RowLimits = {0, 2}
  NumSegments = 2
  MayCancel = TRUE
  MaxLen = 7
  MaxLine = 1
SPECIFICATION LargerSpec
INVARIANTS
  RingSafe
  TriangleSafe
  ScatterSafe
  CacheAccounted
  StreamsKept
  RowsExact
