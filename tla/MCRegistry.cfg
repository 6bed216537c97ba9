SPECIFICATION Spec
CONSTANTS
  p = p
  q = q
  r = r
  a = a
  b = b
  d = d
  c1 = c1
  c2 = c2
  Packages = {p, q, r}
  Paths = {a, b, d}
  Releases <- MCReleases
  Flags = {0, 1}
  MaxId = 3
  NoRow = NoRow
  NoFile = NoFile
  Callers = {c1, c2}
  MaxDepth = 1
INVARIANTS
  Consistent
PROPERTIES
  IdsAreKept
  ImplementsPackageSet
