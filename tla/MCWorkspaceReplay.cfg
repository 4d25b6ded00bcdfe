SPECIFICATION Spec
CONSTANTS
  NodeModel = NodeModel
  NodeModels <- MCNodeModels
  RelModels = {RelModel}
  FromModel <- MCEndpoint
  ToModel <- MCEndpoint
  Absent = Absent
  NoFile = NoFile
  Damaged = Damaged
  MaxNodeId = 2
  MaxRelId = 1
  Values = {v1, v2}
  CheckpointInterval = 2
  MaxBatch = 2
  MaxLog = 3
  Faults = {}
INVARIANT RecoveredExactly
