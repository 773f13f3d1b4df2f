CONSTANTS
  t1 = t1  t2 = t2  r1 = r1  r2 = r2  r3 = r3
  Tabs = {t1, t2}
  Renewals = {r1, r2}
  TabOf <- TwoTabs
  HasLocks = TRUE
  MaxFaults = 1
SPECIFICATION FairSpec
INVARIANTS IInv NotSignedOutByItself DeletedHasNoSession
PROPERTY RestoringSettles
CHECK_DEADLOCK FALSE
