CONSTANTS
  Threads = {t1, t2, t3}
  Values = {u, v}
  EMPTY_VALUE = EMPTY_VALUE
  None = None
  Nodes = {n1, n2, n3, n4}
  Null = Null
  NoThread = NoThread
SPECIFICATION Spec
SYMMETRY Symmetry
CHECK_DEADLOCK FALSE
INVARIANTS ListIntact MemorySafe MutexesHeld
PROPERTY Linearizable
