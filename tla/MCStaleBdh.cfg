CONSTANTS
  Secs <- OnePair
  Flds = {"px"}
  MaxMsgs = 1
  Faults = {"bad"}
  Fns = {"bdh"}
  MaxReqs = 4
  MaxPieces = 1
  MaxFields = 1
SPECIFICATION Spec
INVARIANTS BdhOneEntryPerSecurity
CHECK_DEADLOCK FALSE
