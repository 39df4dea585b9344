SPECIFICATION FairSpec
CONSTANTS
  Nest = 2
  Num = 100
  INSTR_LIMIT = 100
  excl_block = TRUE
  aluwpc_block = TRUE
  Incs = {1, 2}
  Limits = {1, 2}
  BlockMax = 2
  EXCL_CNT = 2
INVARIANTS
  TypeOK
  ContextKept
  SlotsNest
  LimitsInOrder
  IsaMatches
  ReturnsToCaller
  ExclFresh
PROPERTIES
  Exits
CHECK_DEADLOCK FALSE
