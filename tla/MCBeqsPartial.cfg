CONSTANTS
  Secs <- Single
  Flds = {"px"}
  MaxMsgs = 1
  Faults = {}
  Fns = {"beqs"}
  MaxReqs = 2
  MaxPieces = 2
  MaxFields = 1
SPECIFICATION Spec
INVARIANTS BeqsWholeScreen
CHECK_DEADLOCK FALSE
