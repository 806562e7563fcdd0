CONSTANTS
  t1 = t1
  t2 = t2
  f1 = f1
  f2 = f2
  f3 = f3
  f4 = f4
  f5 = f5
  m1 = m1
  m2 = m2
  m3 = m3
  NULL = NULL
  Tasks = {t1, t2}
  Files = {f1, f2, f3, f4, f5}
  Ids = {m1, m2, m3}
  Owner <- OwnerOf
SYMMETRY Objects
SPECIFICATION Spec
INVARIANTS MultiOpenRecord
