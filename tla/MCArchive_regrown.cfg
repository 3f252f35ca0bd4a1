SPECIFICATION Spec
CONSTANTS
  MaxIssued = 8
  Scenarios <- RegrownScenario
PROPERTIES ReplayOnlySameContent
CHECK_DEADLOCK FALSE
