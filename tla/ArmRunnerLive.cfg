SPECIFICATION FairSpec
CONSTANTS
  u1 = u1
  u2 = u2
  s1 = s1
  s2 = s2
  s3 = s3
  Units = {u1, u2}
  Seeds = {s1, s2}
  UnitOf <- MCUnitOf
  ERROR_MAX = 2
  REMOVE_FLAG = TRUE
  NoSeed = NoSeed
PROPERTY AllJudged
