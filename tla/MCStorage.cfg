SPECIFICATION MCLiveSpec
CONSTANTS
  MaxOffset = 5
  Scenarios <- MCScenarios
  MaxIndex = 3
  MetaScenarios <- MCMetaScenarios
INVARIANTS AckedReadable RecoversChosen AnsweredKept NoHole
PROPERTIES ImplementsRangeLog Reopens
CHECK_DEADLOCK FALSE
