CONSTANTS
  t1 = t1
  t2 = t2
  c1 = c1
  c2 = c2
  Tasks = {t1, t2}
  Clients = {c1, c2}
  MsgLists <- Reads
  Retries = 3
  ClearsForAll = FALSE
  AddrNack = FALSE
SPECIFICATION FairSpec
INVARIANTS NoLostWakeup QueueRuns
PROPERTIES EveryCallEnds ServesInLine
