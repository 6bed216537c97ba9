SPECIFICATION Spec
CONSTANTS
  MaxNumeric = 2
  IndexName = "I"
  CategoryNames <- MCCategoryNames
  PackageNames = {"", "P", "Q", "a/b"}
  Slashed = {"a/b"}
  Types = {"unknown", "script", "theme"}
  IndexedTypes = {"script"}
  Texts <- MCTexts
  Sources <- MCSources
  MidiTop = {"D"}
  Limits <- MCLimits
INVARIANTS
  VersionsAreOrdered
  FindFinds
  UpdatesGoForward
  FilesGoWhereTheyBelong
CHECK_DEADLOCK FALSE
