SPECIFICATION Spec
CONSTANTS
  w1 = w1
  w2 = w2
  p1 = p1
  p2 = p2
  c1 = c1
  tA = tA
  tB = tB
  None = None
  Workers = {w1, w2}
  Producers = {p1}
  Cancellers = {}
  Jobs = {1, 2, 4}
  TenantOf <- MCTenantOf
  AllowedTenants = {tA}
  MaxAttempts = 1
  LeaseSeconds = 1
  RetryDelay = 1
  PerTenantLimit = 1
  BatchLimit = 2
  MaxAge = 1
  MaxCrashes = 1
SYMMETRY ProcessSymmetry
INVARIANT TypeOK
INVARIANT QueueConsistent
INVARIANT TenantOvershootBounded
