CONSTANTS
  ann = ann  ben = ben  n1 = n1  n2 = n2
  Callers = {ann, ben}
  Nodes = {n1, n2}
  None = None
  Avoids <- MCAvoids
  Loads = {"open"}
  MayDrain = {}
  MayFail = {n1}
  RoomMayClose = TRUE
SPECIFICATION FairSpec
 
PROPERTY DeadNodeIsForgotten
CHECK_DEADLOCK FALSE
