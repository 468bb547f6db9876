CONSTANTS
  num_threads = 2
  RETIRED_THRESHOLD = 1
  Nodes = {n1, n2, n3, n4}
  Null = Null
  Values = {u, v}
  v1 = v1  v2 = v2  v3 = v3  v4 = v4
  EMPTY_VALUE = EMPTY_VALUE
  None = None
SPECIFICATION QuietSpec
SYMMETRY Symmetry
CHECK_DEADLOCK FALSE
INVARIANTS ListsIntact RetiredLeftList SlotsOwned PoppedOnce
PROPERTY LLLinearizable
