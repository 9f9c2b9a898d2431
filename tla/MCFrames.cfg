CONSTANTS
  Ops = {"bdp", "bdh", "bds", "beqs", "bsrch"}
  Shapes <- Sizes
  Elements <- ElementsOf
  Infos <- AllInfos
  Sample = 1
SPECIFICATION Spec
INVARIANTS TypeOK ValuesShown AbsentIsNA FallbackTyped 
PROPERTIES EarlierRowsKept
CHECK_DEADLOCK FALSE
