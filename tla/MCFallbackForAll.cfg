CONSTANTS
  Ops = {"beqs"}
  Shapes <- Sizes
  Elements <- ElementsOf
  Infos <- AllInfos
  Sample = 1
SPECIFICATION Spec
INVARIANTS FallbackForAll
CHECK_DEADLOCK FALSE
