SPECIFICATION FairSpec
CONSTANTS
  d1 = d1
  d2 = d2
  m1 = m1
  m2 = m2
  Devices = {d1, d2}
  Keys = {m1}
  Author <- JustOne
  AutoRead = {d2}
  MaxTries = 3
  MaxFaults = 2
  MaxDrops = 1
PROPERTIES
  SendingSettles
  EchoIsShown
CHECK_DEADLOCK FALSE
