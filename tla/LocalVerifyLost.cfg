SPECIFICATION Spec
CONSTANTS
  Dirs = {1, 2}
  Seeds = {1, 2, 3, 4}
  Owner <- MCOwner
  UNIT_MAX = 2
  TIME_SPAN = 1
  SCAN_SPAN = 1
  LastMode = 3
  ADB_MAX = 2
  AdbServer = 1
INVARIANT NoSeedLost
