SPECIFICATION Spec
CONSTANTS
  d1 = d1
  d2 = d2
  m1 = m1
  m2 = m2
  Devices = {d1, d2}
  Keys = {m1, m2}
  Author <- OneEach
  AutoRead = {d2}
  MaxTries = 2
  MaxFaults = 1
  MaxDrops = 1
INVARIANTS
  IInv
  OneBubblePerMessage
  SentIsStored
  WrittenStays
CHECK_DEADLOCK FALSE
