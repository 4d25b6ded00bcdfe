SPECIFICATION Spec
CONSTANTS
  NodeModel = NodeModel
  RelModel = RelModel
  NodeModels <- MCNodeModels
  RelModels <- MCRelModels
  FromModel <- MCEndpoint
  ToModel <- MCEndpoint
  Absent = Absent
  NoFile = NoFile
  Off = Off
  NoTx = NoTx
  MaxNodeId = 1
  MaxRelId = 0
  Values = {v1}
  Paths = {a, b}
  Names = {"x"}
  Documents <- MCDocuments
  CheckpointInterval = 2
  MaxLog = 2
SYMMETRY Symmetry
INVARIANT EditsReachTarget
