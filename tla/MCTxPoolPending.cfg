SPECIFICATION Spec
CONSTANTS
  t1 = t1
  t2 = t2
  t3 = t3
  t4 = t4
  a = a
  b = b
  r1 = r1
  r2 = r2
  Txs <- MCTxs
  Priorities <- MCPriorities
  Readers <- MCOneReader
  Limits <- MCLimits
  MaxSize = 1
  MaxTxPerAccount = 2
  MaxQueued = 2
INVARIANTS PendingReturned
