SPECIFICATION Spec
CONSTANTS
  None = None
  Parts = {"identity", "methods", "factors", "packs", "migrations"}
  Arrivals <- MCArrivals
  Sessions = {s1, s2}
  Users = {"u1"}
  Tenants = {"t1", "t2"}
  Members <- MCMembers
  RoleSets = {{"tenant_admin"}, {"auditor"}}
  LockThreshold = 2
  MaxAttempts = 2
  RecoveryCodes = 1
  Principals = {p1, p2, p3}
  Sources = {"w1", "w2", "w3"}
  Faulty = {"w3"}
  Importers = {p1, p2}
  PackIds = {"k1", "k2", "k3"}
  Owner <- MCOwner
  From <- MCFrom
  To <- MCTo
  Jobs = {"m1", "m2"}
  Revisions <- MCRevisions
  Manifest <- MCManifest
  Requested <- MCRequested
SYMMETRY ControlSymmetry
CHECK_DEADLOCK FALSE
INVARIANT TypeOK
INVARIANT RolesAsWritten
INVARIANT AcceptedWhole
INVARIANT ExchangedOnce
INVARIANT ThreePeople
INVARIANT OneActive
INVARIANT SupersessionEnds
INVARIANT PeriodsDisjoint
INVARIANT OneUpgrade
PROPERTY HistorySpec
