SPECIFICATION Spec
CONSTANTS
  NodeIds = {1, 2}
  RelIds = {1, 2}
  Labels = {"A", "B"}
  Keys = {"name"}
  Values = {"zero", "minus_zero", "one", "list"}
  Types = {"T", "U"}
  Class <- MCClass
  ValueKey <- MCValueKey
  NoKey = NoKey
  Absent = Absent
INVARIANTS
  IndexesExact
  QueriesMatchScan
