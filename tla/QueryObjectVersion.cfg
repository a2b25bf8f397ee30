CONSTANTS
  ServerThread = {t1, t2}
  MaxUpdates = 3
SPECIFICATION QuerySpec
INVARIANT VersionBefore
CHECK_DEADLOCK FALSE
