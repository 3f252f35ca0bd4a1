SPECIFICATION Spec
CONSTANTS
  s1 = s1
  s2 = s2
  s3 = s3
  b1 = b1
  b2 = b2
  alpha = alpha
  beta = beta
  Batches = {b1, b2}
  Sessions = {s1, s2, s3}
  Owners = {alpha, beta}
  OwnerOf <- MCOwnerOf
  LeaseTtl = 1
  Concurrency = 1
  MaxConflictRetries = 1
  MaxParked = 1
  Bounds <- MCBounds
INVARIANTS ExclusiveClaim NewestClaimKeepsToken
PROPERTIES FencedWrites
CHECK_DEADLOCK FALSE
