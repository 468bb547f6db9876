CONSTANTS
  Threads = {t1, t2}
  Values = {u, v}
  EMPTY_VALUE = EMPTY_VALUE
  None = None
  Nodes = {n1, n2, n3}
  Null = Null
  NoThread = NoThread
  RING_SIZE = 4
SPECIFICATION Spec
SYMMETRY Symmetry
CHECK_DEADLOCK FALSE
INVARIANTS ListIntact MemorySafe
PROPERTY Linearizable
