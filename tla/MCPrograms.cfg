CONSTANTS
  Null = Null
  None = None
  EMPTY_VALUE = EMPTY_VALUE
  v = v
SPECIFICATION Spec
INVARIANTS ProgramsSafe CollectivesCorrect AlgorithmsAgree SearchesAgree
PROPERTIES ProgramsEnd LoneFinishes
