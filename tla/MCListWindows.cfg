SPECIFICATION WindowsSpec
CONSTANTS
  Columns <- MCColumns
  DataColumns = {2}
  Filters <- MCFilters
  Matches <- MCMatches
  Contents <- MCContents
  Values = {1, 2}
  Protected = {"b"}
  AnySelection = FALSE
  Indexes <- MCIndexes
  Content <- MCContent
  Versions = {0, 2}
  AllPackages = 1
  NoFilter = 0
  None = None
INVARIANTS
  ViewShowsRows
  AboutListsTheSelection
  LoopsVisitTheSelection
PROPERTIES
  SelectionIsKept
CHECK_DEADLOCK FALSE
