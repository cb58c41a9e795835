SPECIFICATION SyncSpec
CONSTANTS
  g = g
  g2 = g2
  a1 = a1
  a2 = a2
  a3 = a3
  a4 = a4
  b1 = b1
  b2 = b2
  s1 = s1
  x2 = x2
  NoHash = NoHash
  Headers <- MCHeaders
  Hashes <- MCHashes
  Batches <- MCBatches
  Checkpoints <- MCCheckpoints
  MaxHeadersInMemory = 3
  VerifySignatures = TRUE
INVARIANTS MemoryIsChain IndexMatchesMemory MemoryBounded
PROPERTIES OnlyTipExtends ImplementsLightClient StopEndsLoops BatchEnds
