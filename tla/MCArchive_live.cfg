SPECIFICATION FairSpec
CONSTANTS
  MaxIssued = 8
  Scenarios <- LivenessScenarios
PROPERTIES RecoveryHoldsBack EventuallyArchived
