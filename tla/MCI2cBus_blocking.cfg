CONSTANTS
  t1 = t1
  t2 = t2
  Tasks = {t1, t2}
  Clients = {}
  MsgLists <- Mixed
  Retries = 3
  ClearsForAll = TRUE
  AddrNack = TRUE
SPECIFICATION FairSpec
INVARIANTS TypeOK TransferComplete FailureIsRefusal MsgsNotInUse InBounds NoSpin
PROPERTIES EveryCallEnds
