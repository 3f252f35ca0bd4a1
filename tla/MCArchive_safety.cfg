SPECIFICATION Spec
CONSTANTS
  MaxIssued = 8
  Scenarios <- SafetyScenarios
INVARIANTS NoSkip
PROPERTIES DeleteArchived
CHECK_DEADLOCK FALSE
