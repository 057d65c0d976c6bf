SPECIFICATION Spec
CONSTANTS
  None = None
  First = i1
  Users = {u1, u2}
  Sessions = {s1}
  Inventories = {i1}
  Runs = {r1}
  Approvals = {a1}
  Restatements = {q1}
  Reports = {}
  MaxActivities = 1
  MaxEdits = 1
  MaxPreparations = 1
SYMMETRY Symmetry
INVARIANT LockedUnchanged
