SPECIFICATION DatabaseSpec
CONSTANTS
  Contents <- MCContents
  NewDatabase <- MCNewDatabase
  MaxSavePoint = 3
  MaxFrames = 6
INVARIANTS
  FramesNested
PROPERTIES
  ImplementsNestedTransaction
