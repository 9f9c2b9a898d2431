CONSTANTS
  MaxObjs = 2
  MaxHandles = 2
  MaxDepth = 1
SPECIFICATION Spec
PROPERTY DefaultStays
CHECK_DEADLOCK FALSE
