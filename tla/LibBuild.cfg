SPECIFICATION Spec
CONSTANTS
  Starters = {n1, n2}
  Tasks = {t1, t2, t3}
  NoFile = NoFile
  OldLib = OldLib
SYMMETRY MCSymmetry
INVARIANTS
  TypeOK
  LibLoads
