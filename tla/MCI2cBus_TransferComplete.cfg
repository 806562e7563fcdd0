CONSTANTS
  t1 = t1
  c1 = c1
  Tasks = {t1}
  Clients = {c1}
  MsgLists <- WithWrites
  Retries = 3
  ClearsForAll = TRUE
  AddrNack = FALSE
SPECIFICATION Spec
INVARIANTS TransferComplete
CHECK_DEADLOCK FALSE
