SPECIFICATION Spec
CONSTANTS
  n1 = n1
  n2 = n2
  n3 = n3
  NoNode = NoNode
  d1 = d1
  d2 = d2
  m1 = m1
  m2 = m2
  g1 = g1
  Nodes = {n1, n2, n3}
  FailureDomains = {d1, d2}
  DefaultDomain = d1
  Topics = {1, 2}
  RangeIds = {1, 2, 3, 4, 5}
  KeyBits = 2
  Segments = {1, 2}
  Roots = {"a", "b"}
  Groups = {g1}
  Members = {m1, m2}
  NoSegment = NoSegment
  MaxAssigned = 2
  Duration = 10
  MinSkewBound = 1
  Scenarios <- MCScenarios
SYMMETRY Symmetric
INVARIANTS EpochChain SplitsExact OneOwner DeletionBacked
PROPERTIES ImplementsRangeLease LeaseLasts CursorsKeepPlace RebalanceKeepsCopies
CHECK_DEADLOCK FALSE
