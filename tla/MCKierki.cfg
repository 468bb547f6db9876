SPECIFICATION Spec
CONSTANTS
  Games <- TwoGames
  Tricks = 2
  MaxLeaves = 2
  NoCard = NoCard
INVARIANTS TakenRight TotalsRight AutoPlays
PROPERTY GameEnds
CHECK_DEADLOCK FALSE
CONSTRAINT InStepSoFar
