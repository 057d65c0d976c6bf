SPECIFICATION Spec
CONSTANTS
  None = None
  First = i1
  Users = {u1, u2, u3}
  Sessions = {s1, s2}
  Inventories = {i1}
  Runs = {r1}
  Approvals = {a1}
  Restatements = {}
  Reports = {}
  MaxActivities = 1
  MaxEdits = 0
  MaxPreparations = 1
SYMMETRY Symmetry
INVARIANT DecidedByAssigned
