SPECIFICATION Spec
CONSTANTS
  self = self
  other = other
  k = k
  older = older
  newer = newer
  none = none
  pinned = pinned
  u1 = u1
  u2 = u2
  Self = self
  Names <- MCNames
  Urls <- MCUrls
  NoRemote = NoRemote
  Keys = {k}
  Versions = {older, newer}
  Flags = {none, pinned}
  NoFlags = none
  NoVersion = NoVersion
  Computers <- MCComputers
  MaxCommands = 4
INVARIANTS
  ArchiveHoldsWhatItLists
  ImportFollowsTheTable
CHECK_DEADLOCK FALSE
