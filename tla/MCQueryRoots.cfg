SPECIFICATION Spec
CONSTANTS
  Base = 10
  FracDigits = 2
  MaxInt = 200
  MaxNanos = 99999
  MaxSecs = 1000
  Malformed = Malformed
  Refused = Refused
  Nothing = Nothing
  NodeModels <- MCNodeModels
  RelModels <- MCRelModels
  NodeProps <- MCNodeProps
  RelProps <- MCRelProps
  Asks <- MCAsks
  MaxNodes = 3
  MaxRels = 2
INVARIANT RootsPassFilters
