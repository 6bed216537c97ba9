SPECIFICATION Spec
CONSTANTS
  p = p
  q = q
  r = r
  a = a
  b = b
  d = d
  Packages = {p, q, r}
  Paths = {a, b, d}
  Releases <- MCReleases
  Flags = {0, 1}
  MaxId = 3
  NoRow = NoRow
  NoFile = NoFile
  Requests <- MCRequests
  Batches <- MCBatches
  Initial <- MCInitial
  Pinned = {1}
  NoFlags = 0
  NoRelease = NoRelease
  Faults = {"job", "disk", "abort", "crash"}
  Impatient = FALSE
INVARIANTS
  DiskAgrees
  ScriptsAgree
  NoTaskIsDropped
PROPERTIES
  FailuresAreReported
  ConflictsAreReal
  CancelHonoured
  EveryTaskEnds
  ImplementsInstaller
