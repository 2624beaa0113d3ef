SPECIFICATION Spec
CONSTANTS
  Programs <- Each
  AckAt = 2
  MaxOps = 6
  MaxFrees = 2
  MaxTensors = 4
INVARIANTS
  AnswersAreTrue
  HoldsWhatIsHeld
CHECK_DEADLOCK FALSE
