SPECIFICATION Spec
CONSTANTS
  Nothing = Nothing
  StartMuted = FALSE
  MaxJoins = 1
  MaxDrops = 1
  MaxPathFaults = 1
  MaxRefusals = 1
  MaxDrains = 1
  MaxPresses = 1
INVARIANTS
  LessonInv
  ClosedStopsTracks
  RebuildsRestore
PROPERTIES
  RecoveryEnds
CHECK_DEADLOCK FALSE
