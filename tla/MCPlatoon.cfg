SPECIFICATION FairSpec
CONSTANTS
  v1 = v1
  v2 = v2
  v3 = v3
  p1 = p1
  Vehicles <- MCVehicles
  Ids <- MCIds
  MaxVehicles = 2
  ConsensusSize = 2
  MaxValidators = 2
  MaxRequests = 2
INVARIANTS TypeOK  StaffingInBounds
PROPERTIES LeaderHandsOver DissolvedStays IdleEnds
