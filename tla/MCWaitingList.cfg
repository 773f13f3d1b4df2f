SPECIFICATION FairSpec
CONSTANTS
  a = a
  b = b
  h = h
  Users <- WithAHost
  Moderators <- JustHost
  Capacity = 1
  Enforcers = {e1}
  SlowSweeps = FALSE
INVARIANTS
  IInv
PROPERTIES
  LetInGetIn
  FreeSeatIsOffered
