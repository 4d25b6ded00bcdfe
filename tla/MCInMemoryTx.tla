---------------------------- MODULE MCInMemoryTx ----------------------------
(***************************************************************************)
(* Instances of InMemoryTx for TLC: nodes of one label, relationships of   *)
(* one type.                                                               *)
(***************************************************************************)
EXTENDS InMemoryTx, TLC

CONSTANT Label

MCLabels   == {Label}
MCEndpoint == [m \in RelModels |-> Label]

Symmetry == Permutations(Values) \cup Permutations(Txs)
=============================================================================
