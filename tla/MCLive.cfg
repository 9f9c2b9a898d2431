CONSTANTS
  Secs <- PairAndSingle
  Flds = {"px"}
  MaxMsgs = 1
  Faults = {"bad", "fail", "terminate", "notice"}
  Fns = {"bdh", "bds", "getBars", "authApp"}
  MaxReqs = 3
  MaxPieces = 2
  MaxFields = 1
SPECIFICATION FairSpec
PROPERTIES CallsEnd
CHECK_DEADLOCK FALSE
