CONSTANTS
  MaxPeople = 2
  Attempts = 3
  FlagWriters = {"manual", "lifecycle"}
SPECIFICATION DrainFairSpec
INVARIANTS ForcedWereTold LifecycleIsFinal
PROPERTY DrainSettles
