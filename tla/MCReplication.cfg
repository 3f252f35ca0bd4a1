SPECIFICATION Spec
CONSTANTS
  n1 = n1
  n2 = n2
  n3 = n3
  Nodes = {n1, n2, n3}
  Scenarios <- MCScenarios
SYMMETRY Symmetric
INVARIANTS VoteStands ExposedFloored 
PROPERTIES SupersededCannotCommit
CHECK_DEADLOCK FALSE
