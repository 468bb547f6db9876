CONSTANTS
  N = 2
  Detection = TRUE
  Sends <- SomeSends
  Receives <- SomeReceives
  PipeSize = 1
  MaxCalls <- TwoAndOne
  None = None
SPECIFICATION Spec
INVARIANT DeadlockReal
