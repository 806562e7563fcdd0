CONSTANTS
  t1 = t1
  t2 = t2
  Tasks = {t1, t2}
  MB_DEF_TGID = kernel
  PhysStart = 10
  Pages = 2
  UserVA = {1}
  ULongRange = 64
  MaxMbu = 4
  MaxOpen = 1
SYMMETRY Symmetry
SPECIFICATION Spec
INVARIANTS UnusedIsReleased
