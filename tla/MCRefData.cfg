CONSTANTS
  Secs <- PairAndSingle
  Flds = {"px"}
  MaxMsgs = 2
  Faults = {"bad", "reject"}
  Fns = {"bdp", "bdh", "bds", "getBars"}
  MaxReqs = 4
  MaxPieces = 2
  MaxFields = 2
SPECIFICATION Spec
INVARIANTS TypeOK SyncInv OwnAnswer WholeAnswer NoOutOfRangeInSync
PROPERTIES NoSpuriousFailure DesyncOnlyFromPartial LagNeverShrinks
CHECK_DEADLOCK FALSE
