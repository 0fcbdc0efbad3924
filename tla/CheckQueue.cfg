CONSTANTS
  Worker = {w1, w2}
  Master = m
  MaxChecks = 4
  nBatchSize = 2
SPECIFICATION Spec
INVARIANTS TodoAccounting WaitResult
PROPERTY WaitReturns
