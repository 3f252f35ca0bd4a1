CONSTANTS
  g1 = g1
  g2 = g2
  Groups = {g1, g2}
  Partitions <- MCPartitions
  TopicOf <- MCTopicOf
  Bytes <- MCBytes
  MaxRecords = 3
  MaxBytes = 2
  Scenarios <- MCScenarios
SPECIFICATION Spec
INVARIANT CommittedArchived
PROPERTY EventuallyConsumed
CHECK_DEADLOCK FALSE
