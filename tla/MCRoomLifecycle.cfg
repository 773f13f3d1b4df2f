CONSTANTS
  s1 = s1  s2 = s2  ann = ann  ben = ben
  Sockets = {s1, s2}
  Users = {ann, ben}
  UserOf <- TwoUsers
  Workers = {w1}
  Capacity = 1
  MaxJoins = 2
SPECIFICATION FairSpec
INVARIANTS IInv MapHoldsOpenRoom SessionIsInItsRoom NobodyIsStranded
PROPERTY EmptyRoomIsClosed
CHECK_DEADLOCK FALSE
