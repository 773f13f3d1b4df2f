CONSTANTS
  ann = ann  ben = ben  n1 = n1  n2 = n2
  Callers = {ann, ben}
  Nodes = {n1, n2}
  None = None
  Avoids <- MCAvoids
  Loads = {"open", "full"}
  MayDrain = {n1, n2}
  MayFail = {}
  RoomMayClose = FALSE
SPECIFICATION Spec
INVARIANT OneNode
PROPERTY PlacedOnce
SYMMETRY MCCallers
CHECK_DEADLOCK FALSE
