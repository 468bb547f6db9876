CONSTANTS
  t1 = t1  t2 = t2  t3 = t3
  x = x  y = y  z = z  w = w
  a = a  b = b  c = c
  Threads = {t1, t2, t3}
  Components = {x, y, z}
  Devices = {a, b, c}
  Capacity <- OneSlotEach
  UnknownDevice = unknown
  NoThread = NoThread
  NoComponent = NoComponent
  NoDevice = NoDevice
SPECIFICATION Spec
SYMMETRY Symmetry
CHECK_DEADLOCK FALSE
INVARIANTS PhysicalCapacity ExclusiveComponent HandOver SlotAccounting NoNeedlessWait Inv
PROPERTY KeepsPromise
