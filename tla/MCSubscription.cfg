CONSTANTS
  Lists <- PairAndSingle
  MaxCalls = 2
  MaxMade = 3
  MaxMsgs = 2
  MaxQueue = 2
  MaxReqs = 1
  MaxDepth = 2
SPECIFICATION FairSpec
INVARIANTS TypeOK LiveOwned TopicTrue InOrderOnce AccessorDue
PROPERTIES CancelsOwn NothingDropped FeedRefinement InterruptServed AccessorEnds
CHECK_DEADLOCK FALSE
