---------------------------- MODULE MCCliSession ----------------------------
(* Small instances of CliSession: one node model, links between its nodes.   *)
EXTENDS CliSession

CONSTANTS NodeModel, RelModel

MCNodeModels == {NodeModel}
MCRelModels  == {}
MCEndpoint   == [m \in RelModels |-> NodeModel]

\* A document with the second node only
MCDocuments ==
  {[EmptyGraph EXCEPT !.models = {NodeModel},
                      !.nodes = [k \in NodeIds |-> IF k = MaxNodeId
                                                   THEN CHOOSE n \in StoredNode : TRUE ELSE Absent]]}
Symmetry == Permutations(Paths)
=============================================================================
