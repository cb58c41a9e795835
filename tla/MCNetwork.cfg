SPECIFICATION FairSpec
CONSTANTS
  p1 = p1
  p2 = p2
  p3 = p3
  c1 = c1
  d1 = d1
  c2 = c2
  c3 = c3
  Peers = {p1, p2, p3}
  Bootstrap = {p1, p2}
  Tables <- MCTables
  Conns = {c1, d1, c2, c3}
  Owner <- MCOwner
  MinPeers = 2
  MinConn = 1
  MaxConn = 2
  Timeout = 0
  MaxChurn = 2
INVARIANTS NetTypeOK PeersMapSound
PROPERTIES DetectorTracks ConnectionsSettle
CHECK_DEADLOCK FALSE
