SPECIFICATION Spec
CONSTANTS
  g = g
  a1 = a1
  a2 = a2
  b1 = b1
  b2 = b2
  b3 = b3
  Block = {g, a1, a2, b1, b2, b3}
  Genesis = g
  Parent <- TreeParent
  Ancestors <- TreeAncestors
  ChainWork <- TreeWork
  Addr <- ParentsFirst
  ByAddr <- ByParentsFirst
  Malformed = {}
  Unconnectable = {b2}
  Thread = {t1}
  None = None
  MaxInvalidate = 0
  MaxReconsider = 0
  MaxFlushes = 2
  MaxCrashes = 2
INVARIANTS
  
  DiskChainComplete
