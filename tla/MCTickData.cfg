CONSTANTS
  Messages <- AllMessages
  Elements <- AllElements
  MaxDepth = 2
SPECIFICATION Spec
INVARIANTS DataFollowsMessage TickStops
CHECK_DEADLOCK FALSE
