SPECIFICATION Spec
CONSTANTS
  Regs = {0, 13, 14, 15}
  ClassRegs = {0, 2, 5, 8, 12}
  DataRegs = {0, 15}
  ListRegs = {0, 5, 13, 15}
  Shifts <- MCShifts
  RETRY = 2
  MAXRETRY = 2
  LIMIT = 3
  MAX_INSTR = 8
  Conds = {14}
  Sbits = {TRUE}
  SrcClasses = {"R_0_3", "R_8_12"}
INVARIANTS
  TypeOK
  BufferFits
  NoPcWrite
  AccessInData
  AsAsked
  TwinsAlike
PROPERTY
  Dwindles
