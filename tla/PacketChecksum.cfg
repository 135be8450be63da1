SPECIFICATION PathSpec
CONSTANTS
  M = 8
  MaxRest = 14
  Modes = {"software", "offload", "preserve", "none"}
  Arriving <- MCArriving
CHECK_DEADLOCK FALSE
INVARIANTS
  ComputedIsValid
  PreserveKeepsVerdict
  ModesAgree
