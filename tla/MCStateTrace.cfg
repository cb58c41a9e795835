SPECIFICATION Spec
CONSTANTS
  p1 = p1
  v1 = v1
  v2 = v2
  k1 = k1
  r1 = r1
  r2 = r2
  Platoons = {p1}
  Vehicles = {v1, v2}
  HistoryKey <- MCHistoryKey
  Recorders = {r1, r2}
  Recent <- MCRecent
  Threshold <- MCThreshold
  HotDays = 0
  Heights = {0, 1}
  MaxEvents = 3
  MaxTime = 2
INVARIANTS AuditChained RootsVerifiable FrequentChangesReported
CHECK_DEADLOCK FALSE
SYMMETRY MCSymmetry
