SPECIFICATION Spec
CONSTANTS
  MinPayHourly = 1500
  MinScore = 5
INVARIANTS EveryFigureInItsUnit
