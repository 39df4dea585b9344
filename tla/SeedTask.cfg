SPECIFICATION Spec
CONSTANTS
  SEED_NUM = 3
  LastMode = 2
  Options <- MCOptions
INVARIANTS
  TypeOK
  Accounted
  NamesOwn
  LogAgrees
  DoneComplete
PROPERTY FillsDir
