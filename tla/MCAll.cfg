CONSTANTS
  Secs <- PairAndSingle
  Flds = {"px"}
  MaxMsgs = 1
  Faults = {"bad", "reject", "fail", "terminate", "notice"}
  Fns = {"bdp", "bdh", "bds", "getPortfolio", "beqs", "bsrch", "getBars", "getTicks", "lookup", "fieldSearch", "fieldInfo", "authId", "authApp"}
  MaxReqs = 2
  MaxPieces = 2
  MaxFields = 1
SPECIFICATION Spec
INVARIANTS WaitOwed WholeAnswer
PROPERTIES NoSpuriousFailure RpcRefinement
CHECK_DEADLOCK FALSE
