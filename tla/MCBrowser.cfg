SPECIFICATION Spec
CONSTANTS
  p1 = p1
  q1 = q1
  MaxNumeric = 2
  Packages <- MCPackages
  Indexes <- MCIndexes
  Registered <- MCRegistered
  BleedingEdge = FALSE
  IsProtected = FALSE
  Views = {"all", "queued", "outOfDate"}
  MaxCommands = 3
INVARIANTS
  HandlerHasItsBrowser
  
  ListTellsTheQueue
PROPERTIES
  WishesAreKept
CHECK_DEADLOCK FALSE
