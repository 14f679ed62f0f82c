SPECIFICATION Spec
CONSTANTS
  Interval = 3
  RecentFor = 1
  MaxTime = 9
  MaxBoots = 2
  MaxRows = 4
INVARIANTS InterruptedMeansKilled
