CONSTANTS
  Users = {host, ann, ben, cem}
  Moderators = {host}
  Limits <- MCLimits
  Capacity = 2
  TTL = 1
  MaxTime = 4
  MaxCalls = 2
SPECIFICATION SeatSpec
INVARIANTS SeatInv LearnersWithinCapacity SeatsExpireInTime
PROPERTIES OnlyReleaseFreesLiveSeat
SYMMETRY MCLearners
CHECK_DEADLOCK FALSE
