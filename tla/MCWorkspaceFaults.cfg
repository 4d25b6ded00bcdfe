SPECIFICATION Spec
CONSTANTS
  NodeModel = NodeModel
  NodeModels <- MCNodeModels
  RelModels = {}
  FromModel <- MCEndpoint
  ToModel <- MCEndpoint
  Absent = Absent
  NoFile = NoFile
  Damaged = Damaged
  MaxNodeId = 1
  MaxRelId = 0
  Values = {v1, v2}
  CheckpointInterval = 2
  MaxBatch = 2
  MaxLog = 3
  Faults = {"io", "damage", "torn"}
SYMMETRY Symmetry
INVARIANT NodesRecovered
INVARIANT RecoveryInv
CHECK_DEADLOCK FALSE
