SPECIFICATION RestartSpec
CONSTANTS
  w1 = w1
  w2 = w2
  p1 = p1
  p2 = p2
  c1 = c1
  tA = tA
  tB = tB
  None = None
  Workers = {w1, w2}
  Producers = {}
  Cancellers = {}
  Jobs = {1, 2, 3}
  TenantOf <- MCTenantOf
  AllowedTenants = {tA, tB}
  MaxAttempts = 2
  LeaseSeconds = 1
  RetryDelay = 1
  PerTenantLimit = 1
  BatchLimit = 2
  MaxAge = 1
  MaxCrashes = 1
PROPERTY EventuallySettled
