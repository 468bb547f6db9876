CONSTANTS
  num_threads = 2
  RETIRED_THRESHOLD = 2
  Nodes = {n1, n2, n3, n4, n5}
  Null = Null
  Values = {u}
  v1 = v1  v2 = v2  v3 = v3  v4 = v4
  EMPTY_VALUE = EMPTY_VALUE
  None = None
SPECIFICATION LLSpec
SYMMETRY Symmetry
CHECK_DEADLOCK FALSE
INVARIANT NoUseAfterFree
