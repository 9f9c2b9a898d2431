CONSTANTS
  MaxObjs = 3
  MaxHandles = 3
  MaxDepth = 2
SPECIFICATION FairSpec
INVARIANTS TypeOK OneOwner NoUseAfterFree
PROPERTIES AttachFresh StaleStays LifeRefinement ExitFreesAll
CHECK_DEADLOCK FALSE
