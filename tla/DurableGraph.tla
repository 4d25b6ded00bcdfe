---------------------------- MODULE DurableGraph ----------------------------
(***************************************************************************)
(* What a durable workspace promises: a graph db that survives restarts    *)
(* and a view that an open workspace shows.  A request works on the view   *)
(* and becomes part of db as a whole or not at all; a restart shows db.    *)
(* There are no files here, and no checkpoints.                            *)
(***************************************************************************)
EXTENDS Graph

VARIABLES
  up,     \* the workspace is open
  view,   \* the graph an open workspace shows
  db      \* the graph the next restart will show

vars == <<up, view, db>>

Init == ~up /\ view = EmptyGraph /\ db = EmptyGraph

Start == ~up /\ up' = TRUE /\ view' = db /\ db' = db

Work == up /\ (\E s \in Mutations(view) : view' = s.graph) /\ UNCHANGED <<up, db>>

Commit == up /\ db' = view /\ UNCHANGED <<up, view>>

Rollback == up /\ view' = db /\ UNCHANGED <<up, db>>

\* A request that was in hand when the workspace stopped may have been made
\* durable before anybody was told.
Stop == up /\ up' = FALSE /\ view' = EmptyGraph /\ db' \in {db, view}

Next == Start \/ Work \/ Commit \/ Rollback \/ Stop

Spec == Init /\ [][Next]_vars
=============================================================================
