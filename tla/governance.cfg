SPECIFICATION PartsSpec
CONSTANTS
  None = None
  First = i1
  Users = {u1, u2}
  Sessions = {s1, s2}
  Inventories = {i1, i2}
  Runs = {r1, r2}
  Approvals = {a1, a2}
  Restatements = {q1}
  Reports = {p1, p2}
  MaxActivities = 1
  MaxEdits = 0
  MaxPreparations = 1
SYMMETRY Symmetry
INVARIANT TypeOK
INVARIANT LockLineage
INVARIANT OneFinalReport
INVARIANT SegregationOfDuties
INVARIANT StatusBacked
INVARIANT CompletionBacked
PROPERTY LocksImmutable
PROPERTY LedgerSpec
