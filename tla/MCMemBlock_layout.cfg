CONSTANTS
  t1 = t1
  Tasks = {t1}
  MB_DEF_TGID = kernel
  PhysStart = 10
  Pages = 5
  UserVA = {}
  ULongRange = 64
  MaxMbu = 4
  MaxOpen = 1
SPECIFICATION Spec
INVARIANTS BlocksDisjoint CountersExact ZoneFitsRequest
PROPERTIES SharesPages
