SPECIFICATION Spec
CONSTANTS
  c1 = c1
  c2 = c2
  h1 = h1
  h2 = h2
  w1 = w1
  alice = alice
  bob = bob
  carol = carol
  a = a
  b = b
  e = e
  d1 = d1
  NoHandle = NoHandle
  NoRoot = NoRoot
  NoName = NoName
  EmptyName = EmptyName
  Handles = {h1, h2}
  Formats = {"json"}
  Roots = {d1}
  MaxRef = 1
  MaxFiles = 1
  Writes = {w1}
  MaxSnapshots = 0
  SECURITY_AUDIT_MAX_OPERATIONS = 3
  Clients = {c1, c2}
  Profiles = {"Secured", "AnonymousLocal"}
  Config <- MCConfig
  CertificateMaps <- MCMaps
  Calls <- MCCalls
  MaxBatch = 2
SYMMETRY Symmetry
INVARIANT AnswersMatchEffects
PROPERTY EffectsGranted
