CONSTANTS
  Ops = {"bdp"}
  Shapes <- Sizes
  Elements <- ElementsOf
  Infos <- AllInfos
  Sample = 1
SPECIFICATION Spec
INVARIANTS NewCellsNA
CHECK_DEADLOCK FALSE
