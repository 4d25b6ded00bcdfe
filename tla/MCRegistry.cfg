SPECIFICATION RegistrySpec
CONSTANTS
  h1 = h1
  h2 = h2
  w1 = w1
  w2 = w2
  d1 = d1
  d2 = d2
  NoHandle = NoHandle
  NoRoot = NoRoot
  Roots = {d1, d2}
  Handles = {h1, h2}
  Formats = {"json", "binary"}
  MaxRef = 2
  MaxFiles = 2
  Writes = {w1, w2}
  MaxSnapshots = 1
SYMMETRY Symmetry
INVARIANT NoLostUpdate
INVARIANT RefsAreUnambiguous
INVARIANT HandlesConsistent
