CONSTANTS
  c1 = c1
  c2 = c2
  Clients = {c1, c2}
  Plans <- SomePlans
  MaxRetransmits = 3
  ByteSize = 2
  MaxFaults = 3
  None = None
SPECIFICATION Spec
INVARIANTS WritesInOrder SuccessIsReal Recovers
PROPERTY TransfersEnd
