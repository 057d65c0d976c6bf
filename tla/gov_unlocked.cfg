SPECIFICATION Spec
CONSTANTS
  None = None
  First = i1
  Users = {u1, u2}
  Sessions = {s1}
  Inventories = {i1}
  Runs = {r1, r2}
  Approvals = {a1, a2}
  Restatements = {}
  Reports = {}
  MaxActivities = 1
  MaxEdits = 0
  MaxPreparations = 1
SYMMETRY Symmetry
INVARIANT LockedUntilRestated
