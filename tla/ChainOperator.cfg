SPECIFICATION Spec
CONSTANTS
  g = g
  a1 = a1
  a2 = a2
  b1 = b1
  b2 = b2
  b3 = b3
  Block = {g, a1, a2, b1, b2, b3}
  Genesis = g
  Parent <- TreeParent
  Ancestors <- TreeAncestors
  ChainWork <- TreeWork
  Addr <- ParentsFirst
  ByAddr <- ByParentsFirst
  Malformed = {a2}
  Unconnectable = {}
  Thread = {t1, t2}
  None = None
  MaxInvalidate = 2
  MaxReconsider = 1
  MaxFlushes = 0
  MaxCrashes = 0
INVARIANTS
  InvalidateIsExact
  CandidatesLeft
  ActiveChainValid
