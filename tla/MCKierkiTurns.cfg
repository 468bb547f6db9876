SPECIFICATION Spec
CONSTANTS
  Games <- TwoGames
  Tricks = 2
  MaxLeaves = 0
  NoCard = NoCard
INVARIANT TurnOrder
CHECK_DEADLOCK FALSE
CONSTRAINT BackExists
