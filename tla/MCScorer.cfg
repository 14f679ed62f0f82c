SPECIFICATION Spec
CONSTANTS
  MinPayHourly = 1500
  MinScore = 5
INVARIANTS NoUnpaidJob BelowFloorMakesUp XShowsPayAsScored
PROPERTY MorePayScoresNoLower
