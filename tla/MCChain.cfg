SPECIFICATION Spec
CONSTANTS
  a1 = a1
  a2 = a2
  r1 = r1
  g = g
  b1 = b1
  b2 = b2
  b3 = b3
  c1 = c1
  c2 = c2
  d2 = d2
  e3 = e3
  f2 = f2
  t1 = t1
  t2 = t2
  t3 = t3
  t4 = t4
  t5 = t5
  t6 = t6
  t7 = t7
  t8 = t8
  t9 = t9
  None = None
  Blocks <- MCBlocks
  Txs <- MCTxs
  Adders = {a1, a2}
  Readers = {r1}
  Relocks = FALSE
  MaxHeight = 3
INVARIANTS ChainTypeOK StoredLinked MemoryMatchesStore StoredProvable
PROPERTIES ImplementsLedger
CHECK_DEADLOCK FALSE
