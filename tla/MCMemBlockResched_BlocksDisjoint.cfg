CONSTANTS
  t1 = t1
  t2 = t2
  Tasks = {t1, t2}
  MB_DEF_TGID = kernel
  PhysStart = 10
  Pages = 3
  UserVA = {1}
  ULongRange = 64
  MaxMbu = 3
  MaxOpen = 1
SYMMETRY Symmetry
SPECIFICATION SpecR
INVARIANTS BlocksDisjoint
