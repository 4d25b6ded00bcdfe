SPECIFICATION Spec
CONSTANTS
  Calls = {c1, c2}
  Person = Person
  Team = Team
  Member = Member
  NodeModels = {Person, Team}
  RelModels = {Member}
  FromModel <- MCFromModel
  ToModel <- MCToModel
  NodeIds = {1, 2, 3}
  RelIds = {11}
  Requests <- MCRequests
  Graphs <- MCGraphs
  Templates <- MCTemplates
  Faults = {"io", "neo4j", "reuse"}
  None = None
INVARIANT RecoverableSchema
INVARIANT EdgesJoinTheirModels
PROPERTY SchemaNeverLost
PROPERTY CallsAreAnswered
