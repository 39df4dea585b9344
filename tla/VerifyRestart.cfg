SPECIFICATION RSpec
CONSTANTS
  Dirs = {1, 2}
  Seeds = {1, 2, 3}
  Owner <- MCOwner
  UNIT_MAX = 2
  TIME_SPAN = 1
  SCAN_SPAN = 1
  LastMode = 2
  ADB_MAX = 3
  AdbServer = 1
  StopMax = 2
INVARIANTS
  ResultsKept
  RepeatsBounded
  RestartLosesNothing
