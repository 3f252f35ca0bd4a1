SPECIFICATION SplitSpec
CONSTANTS
  Clients = {"c1", "c2", "c3"}
  KafkaScenarios <- MCScenarios
  InitialDelay = 1
  RebalanceTimeout = 2
  SessionTimeout = 1
  MintedTtl = 2
  Grace = 2
  Gateways = {1, 2}
  Requests = {1, 2}
  CommitScenarios <- MCCommitScenarios
  Jobs <- MCJobs
  ProduceScenarios <- MCSplitScenarios
INVARIANT OneLine
CHECK_DEADLOCK FALSE
