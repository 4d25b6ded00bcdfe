----------------------------- MODULE MCWorkspace -----------------------------
(***************************************************************************)
(* Instances of Workspace for TLC: one node model, and relationship models *)
(* between nodes of it.                                                    *)
(***************************************************************************)
EXTENDS Workspace, TLC

CONSTANT NodeModel

MCNodeModels == {NodeModel}
MCEndpoint   == [m \in RelModels |-> NodeModel]

Symmetry == Permutations(Values)
=============================================================================
