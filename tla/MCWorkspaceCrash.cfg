SPECIFICATION FairSpec
CONSTANTS
  NodeModel = NodeModel
  NodeModels <- MCNodeModels
  RelModels = {RelModel}
  FromModel <- MCEndpoint
  ToModel <- MCEndpoint
  Absent = Absent
  NoFile = NoFile
  Damaged = Damaged
  MaxNodeId = 2
  MaxRelId = 1
  Values = {v1, v2}
  CheckpointInterval = 2
  MaxBatch = 2
  MaxLog = 1
  Faults = {"damage"}
INVARIANT TypeOK
INVARIANT LiveRecovered
INVARIANT IdsStayIssued
INVARIANT NoAccidentalAttachment
PROPERTY ImplementsDurableGraph
PROPERTY LogIsCompacted
