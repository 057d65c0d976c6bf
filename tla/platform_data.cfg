SPECIFICATION Spec
CONSTANTS
  None = None
  Parts = {"review", "import", "boundary", "activities", "setup", "resolution", "totals"}
  Arrivals <- MCArrivals
  Sessions = {s1, s2}
  Emissions = {"e1", "e2"}
  Inventories = {"i1", "i2"}
  Source <- MCSource
  Group <- MCGroup
  InPeriod <- MCInPeriod
  Comparable <- MCComparable
  First <- MCFirst
  Classifications <- MCClassifications
  MaxResults = 2
  Customers = {"c1"}
  Organisations = {"o1", "o2"}
  Items = {"v1", "j1"}
  Keys = {"k1", "k2"}
  Payloads <- MCPayloads
  Connections = {"q1"}
  Profiles = {1}
  Entities = {e1, e2}
  Facts <- MCFacts
  Records = {"r1", "r2"}
  Amounts = {1, 2}
  Units = {"kg", "t"}
  Normal <- Kilograms
  MaxActivities = 3
  MaxRuns = 2
  Days = {1, 2}
  MaxPeriods = 2
  MaxInventories = 3
  Pools <- MCPools
  Queries <- MCQueries
  Contains <- MCContains
  Dimension <- MCDimension
  Limit = 2
  Slots = {1, 2, 3}
  ResultAmounts = {1, 2, 3}
  Kinds <- MCKinds
SYMMETRY DataSymmetry
CHECK_DEADLOCK FALSE
INVARIANT TypeOK
INVARIANT OneConversion
INVARIANT ReferencesKept
INVARIANT AppliedOnce
INVARIANT BatchWhole
INVARIANT HashNamesRow
INVARIANT AllocationCurrent
INVARIANT OneCurrent
INVARIANT NormalMatches
INVARIANT FreshResults
INVARIANT SetupConsistent
INVARIANT BestSelected
INVARIANT OneTotal
