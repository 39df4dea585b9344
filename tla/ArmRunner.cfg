SPECIFICATION Spec
CONSTANTS
  u1 = u1
  u2 = u2
  s1 = s1
  s2 = s2
  s3 = s3
  Units = {u1, u2}
  Seeds = {s1, s2, s3}
  UnitOf <- MCUnitOf
  ERROR_MAX = 2
  REMOVE_FLAG = FALSE
  NoSeed = NoSeed
SYMMETRY MCSymmetry
INVARIANTS
  TypeOK
  VerdictOwn
  TriedEnough
PROPERTY JudgesUnits
