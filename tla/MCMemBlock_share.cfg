CONSTANTS
  t1 = t1
  t2 = t2
  Tasks = {t1, t2}
  MB_DEF_TGID = kernel
  PhysStart = 10
  Pages = 2
  UserVA = {1}
  ULongRange = 64
  MaxMbu = 3
  MaxOpen = 2
SPECIFICATION Spec
INVARIANTS TypeOK CountIsUsers CreatorInList ClosedHoldsNothing
PROPERTIES OthersKeepRefs ReleaseEnds
