CONSTANTS
  Inputs <- MCInputs
  SFRAME_CSV_PARSER_READ_SIZE = 4
  nthreads = 2
  RowLimits = {0}
  NumSegments = 1
  MayCancel = FALSE
  MaxLen = 5
  MaxLine = 4
SPECIFICATION CsvSpec
INVARIANT RowsComplete
CHECK_DEADLOCK FALSE
