SPECIFICATION FairSpec
CONSTANTS
  Dirs = {1, 2}
  Seeds = {1, 2, 3}
  Owner <- MCOwnerLive
  UNIT_MAX = 2
  TIME_SPAN = 2
  SCAN_SPAN = 1
  LastMode = 2
  ADB_MAX = 2
  AdbServer = 1
PROPERTIES
  UnitVerified
  ResultsMerged
  DirsDrained
