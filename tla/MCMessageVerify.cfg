SPECIFICATION Spec
CONSTANTS
  v1 = v1
  s1 = s1
  c1 = c1
  p1 = p1
  p2 = p2
  None = None
  Cached = Cached
  Vehicles = {v1}
  Certs = {s1}
  NotAfter <- MCNotAfter
  Callers = {c1, p1, p2}
  Writers = {c1}
  Verifiers = {p1, p2}
  Window = 1
  MaxAge = 2
  Skews = {1}
  MaxTime = 3
  MaxSeq = 2
  MaxMsgs = 2
INVARIANTS RevocationDurable RevokedNotAccepted NoReplayAfterReturn
CHECK_DEADLOCK FALSE
SYMMETRY MCSymmetry
