SPECIFICATION TxSpec
CONSTANTS
  Label = Label
  NodeModels <- MCLabels
  RelModels = {RelType}
  FromModel <- MCEndpoint
  ToModel <- MCEndpoint
  Absent = Absent
  MaxNodeId = 1
  MaxRelId = 1
  Values = {v1, v2}
  Txs = {t1}
SYMMETRY Symmetry
INVARIANT OwnDeletesVisible
