SPECIFICATION MCSpec
CONSTANTS
  StreamScenarios <- MCStreamScenarios
  BrokerScenarios <- MCBrokerScenarios
  MaxEpoch = 3
INVARIANT ChargedOnce SameRecords AckedOnce ServesOnlyLive
PROPERTY CaughtUp EveryCallReturns
CHECK_DEADLOCK FALSE
