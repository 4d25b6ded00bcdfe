---------------------------- MODULE MCGraphStore ----------------------------
(***************************************************************************)
(* Instances of GraphStore for TLC.  "zero" and "minus_zero" are the JSON  *)
(* numbers 0.0 and -0.0: == takes them for the same number and ValueKey    *)
(* tells their bits apart.  "list" is a JSON array.                        *)
(***************************************************************************)
EXTENDS GraphStore

MCClass    == [v \in Values |-> IF v = "minus_zero" THEN "zero" ELSE v]
MCValueKey == [v \in Values |-> IF v = "list" THEN NoKey ELSE v]
=============================================================================
