----------------------------- MODULE InMemoryTx -----------------------------
(***************************************************************************)
(* Transactions of the in-memory backend.  The committed graph is shared   *)
(* behind a mutex; a transaction keeps its own writes in a delta, reads    *)
(* through it, and applies it under the lock when it commits.  The lock is *)
(* held for one read, one id allocation or one commit at a time, so the    *)
(* commits of other transactions fall between the steps of this one.       *)
(*                                                                         *)
(* working_copy is None in every transaction the code base starts: the one *)
(* place that fills it is reached only where it is filled already.         *)
(***************************************************************************)
EXTENDS Graph

CONSTANT Txs  \* transactions

VARIABLES
  store,     \* the shared GraphStore
  active,    \* transactions that have begun and not ended
  delta,     \* TxDelta of each transaction
  deleting,  \* the delete_node in hand: the node and the incident ids read so far
  wrote      \* history: what each active transaction last made of each node

txVars == <<store, active, delta, deleting, wrote>>

NodeTable == [NodeIds -> StoredNode \cup {Absent}]
RelTable  == [RelIds -> StoredRel \cup {Absent}]

TxDelta ==
  [ nodes : NodeTable, deleted_nodes : SUBSET NodeIds,
    rels : RelTable,   deleted_rels : SUBSET RelIds ]

EmptyDelta ==
  [ nodes |-> [k \in NodeIds |-> Absent], deleted_nodes |-> {},
    rels |-> [r \in RelIds |-> Absent],   deleted_rels |-> {} ]

Deletion  == [id : NodeIds, found : BOOLEAN, rel_ids : SUBSET RelIds]
NoDelete  == [id |-> 0, found |-> FALSE, rel_ids |-> {}]
Nothing   == [kind |-> "nothing"]
Deleted   == [kind |-> "deleted"]
Wrote(n)  == [kind |-> "wrote", node |-> n]
WriteType == {Nothing, Deleted} \cup [kind : {"wrote"}, node : StoredNode]

TypeOK ==
  /\ store \in GraphState
  /\ active \subseteq Txs
  /\ delta \in [Txs -> TxDelta]
  /\ deleting \in [Txs -> Deletion \cup {NoDelete}]
  /\ wrote \in [Txs -> [NodeIds -> WriteType]]

TxInit ==
  /\ store = EmptyGraph
  /\ active = {}
  /\ delta = [t \in Txs |-> EmptyDelta]
  /\ deleting = [t \in Txs |-> NoDelete]
  /\ wrote = [t \in Txs |-> [k \in NodeIds |-> Nothing]]

-----------------------------------------------------------------------------
(***************************************************************************)
(* What a transaction sees.                                                *)
(***************************************************************************)
\* A read that prefers the committed node to the one in the delta.
VisibleNodeStoreFirst(t, k) ==
  IF k \in delta[t].deleted_nodes THEN Absent
  ELSE IF store.nodes[k] # Absent THEN store.nodes[k]
  ELSE delta[t].nodes[k]

\* visible_node / find_node_by_id.
VisibleNode(t, k) ==
  IF k \in delta[t].deleted_nodes THEN Absent
  ELSE IF delta[t].nodes[k] # Absent THEN delta[t].nodes[k]
  ELSE store.nodes[k]

\* The relationship update_relationship starts from.
OverlayRel(t, r) ==
  IF r \in delta[t].deleted_rels THEN Absent
  ELSE IF delta[t].rels[r] # Absent THEN delta[t].rels[r]
  ELSE store.rels[r]

\* visible_rel: besides, a relationship of a deleted node is hidden.
VisibleRel(t, r) ==
  LET rel == OverlayRel(t, r)
  IN  IF rel # Absent /\ {rel.from, rel.to} \cap delta[t].deleted_nodes # {}
        THEN Absent ELSE rel

\* visible_neighbor_pairs and traversals report a relationship only between
\* nodes that are visible themselves.
ReachableRel(t, r) ==
  LET rel == VisibleRel(t, r)
  IN  IF rel # Absent /\ VisibleNode(t, rel.from) # Absent /\ VisibleNode(t, rel.to) # Absent
        THEN rel ELSE Absent

-----------------------------------------------------------------------------
\* A transaction that is not in the middle of delete_node.
Ready(t) == t \in active /\ deleting[t] = NoDelete

BeginTx(t) ==
  /\ t \notin active
  /\ active' = active \cup {t}
  /\ UNCHANGED <<store, delta, deleting, wrote>>

\* A new node or relationship in a delta.
AddNode(d, k, node) ==
  [d EXCEPT !.nodes = [@ EXCEPT ![k] = node], !.deleted_nodes = @ \ {k}]
AddRel(d, r, rel) ==
  [d EXCEPT !.rels = [@ EXCEPT ![r] = rel], !.deleted_rels = @ \ {r}]

\* An allocation that leaves the counter for the commit to raise.
CreateNodeNoBump(t) ==
  LET id == store.next_node_id IN
  /\ Ready(t)
  /\ id \in NodeIds
  /\ \E node \in StoredNode :
       /\ delta' = [delta EXCEPT ![t] = AddNode(@, id, node)]
       /\ wrote' = [wrote EXCEPT ![t][id] = Wrote(node)]
  /\ UNCHANGED <<store, active, deleting>>

\* create_node, and one round of create_nodes: the id comes from the shared
\* counter at once, the node stays in the delta.
CreateNode(t) ==
  LET id == store.next_node_id IN
  /\ Ready(t)
  /\ id \in NodeIds
  /\ store' = [store EXCEPT !.next_node_id = id + 1]
  /\ \E node \in StoredNode :
       /\ delta' = [delta EXCEPT ![t] = AddNode(@, id, node)]
       /\ wrote' = [wrote EXCEPT ![t][id] = Wrote(node)]
  /\ UNCHANGED <<active, deleting>>

\* update_node: the visible node with new properties, all of it, becomes part
\* of the delta.  Ok(None) otherwise.
UpdateNode(t) ==
  /\ Ready(t)
  /\ \E k \in NodeIds, v \in Values :
       /\ VisibleNode(t, k) # Absent
       /\ LET node == [VisibleNode(t, k) EXCEPT !.props = v]
          IN  /\ delta' = [delta EXCEPT ![t] = PutNode(@, k, node)]
              /\ wrote' = [wrote EXCEPT ![t][k] = Wrote(node)]
  /\ UNCHANGED <<store, active, deleting>>

\* delete_node, first part: the incident ids of the shared store are read.
ReadIncident(t) ==
  /\ Ready(t)
  /\ \E k \in NodeIds :
       deleting' = [deleting EXCEPT ![t] =
         [id |-> k,
          found |-> VisibleNode(t, k) # Absent,
          rel_ids |-> {r \in RelIds : Incident(store.rels[r], k)}]]
  /\ UNCHANGED <<store, active, delta, wrote>>

\* Removing ids from a delta table cancels what the transaction has written
\* there; an id that was not in the table is marked deleted.
DropNode(d, k) ==
  IF d.nodes[k] # Absent
    THEN [d EXCEPT !.nodes = [@ EXCEPT ![k] = Absent]]
    ELSE [d EXCEPT !.deleted_nodes = @ \cup {k}]

DropRels(d, ids) ==
  [d EXCEPT !.rels = [r \in RelIds |-> IF r \in ids THEN Absent ELSE @[r]],
            !.deleted_rels = @ \cup {r \in ids : d.rels[r] = Absent}]

\* delete_node, second part: of those ids the ones still visible count, and
\* the incident ones of the delta; none, when the node was not found.
DeleteNode(t) ==
  LET k == deleting[t].id
      d == delta[t]
      seen == {r \in deleting[t].rel_ids : VisibleRel(t, r) # Absent}
      own == {r \in RelIds : Incident(d.rels[r], k)}
      ids == IF deleting[t].found THEN seen \cup own ELSE {}
  IN
  /\ t \in active
  /\ deleting[t] # NoDelete
  /\ delta' = [delta EXCEPT ![t] = DropRels(DropNode(d, k), ids)]
  /\ deleting' = [deleting EXCEPT ![t] = NoDelete]
  /\ wrote' = [wrote EXCEPT ![t][k] = Deleted]
  /\ UNCHANGED <<store, active>>

\* create_relationship does not look at the endpoints.
CreateRelationship(t) ==
  LET id == store.next_rel_id IN
  /\ Ready(t)
  /\ id \in RelIds
  /\ store' = [store EXCEPT !.next_rel_id = id + 1]
  /\ \E rel \in StoredRel :
       delta' = [delta EXCEPT ![t] = AddRel(@, id, rel)]
  /\ UNCHANGED <<active, deleting, wrote>>

UpdateRelationship(t) ==
  /\ Ready(t)
  /\ \E r \in RelIds, v \in Values :
       /\ OverlayRel(t, r) # Absent
       /\ delta' = [delta EXCEPT ![t] = PutRel(@, r, [OverlayRel(t, r) EXCEPT !.props = v])]
  /\ UNCHANGED <<store, active, deleting, wrote>>

DeleteRelationship(t) ==
  /\ Ready(t)
  /\ \E r \in RelIds : delta' = [delta EXCEPT ![t] = DropRels(@, {r})]
  /\ UNCHANGED <<store, active, deleting, wrote>>

-----------------------------------------------------------------------------
\* A commit that forgets the deleted relationships.
ApplyDeltaKeepsRels(g, d) ==
  LET Overlay(new, old) == IF new # Absent THEN new ELSE old
  IN  [g EXCEPT
        !.nodes = [k \in NodeIds |->
                     Overlay(d.nodes[k], IF k \in d.deleted_nodes THEN Absent ELSE @[k])],
        !.rels = [r \in RelIds |-> Overlay(d.rels[r], @[r])]]

\* apply_delta_to: deletions, with the relationships they take along, then the
\* written nodes and relationships.
ApplyDelta(g, d) ==
  LET Overlay(new, old) == IF new # Absent THEN new ELSE old
      Doomed(r) == r \in d.deleted_rels \/ \E k \in d.deleted_nodes :
                                             g.nodes[k] # Absent /\ Incident(g.rels[r], k)
  IN  [g EXCEPT
        !.nodes = [k \in NodeIds |->
                     Overlay(d.nodes[k], IF k \in d.deleted_nodes THEN Absent ELSE @[k])],
        !.rels = [r \in RelIds |-> Overlay(d.rels[r], IF Doomed(r) THEN Absent ELSE @[r])]]

End(t) ==
  /\ active' = active \ {t}
  /\ delta' = [delta EXCEPT ![t] = EmptyDelta]
  /\ deleting' = [deleting EXCEPT ![t] = NoDelete]
  /\ wrote' = [wrote EXCEPT ![t] = [k \in NodeIds |-> Nothing]]

\* One critical section.  The counters were raised when the ids were taken, so
\* the max of apply_delta_to leaves them.
Commit(t) ==
  /\ Ready(t)
  /\ store' = ApplyDelta(store, delta[t])
  /\ End(t)

\* rollback, and the drop of a transaction that was never ended.
Rollback(t) ==
  /\ t \in active
  /\ End(t)
  /\ UNCHANGED store

TxNext ==
  \E t \in Txs :
    \/ BeginTx(t) \/ Commit(t) \/ Rollback(t)
    \/ CreateNode(t) \/ UpdateNode(t) \/ ReadIncident(t) \/ DeleteNode(t)
    \/ CreateRelationship(t) \/ UpdateRelationship(t) \/ DeleteRelationship(t)

TxSpec == TxInit /\ [][TxNext]_txVars

-----------------------------------------------------------------------------
(***************************************************************************)
(* Properties.                                                             *)
(***************************************************************************)
\* A transaction finds the nodes it created and updated as it left them,
\* whatever other transactions commit meanwhile.
OwnWritesVisible ==
  \A t \in active, k \in NodeIds :
    wrote[t][k].kind = "wrote" => VisibleNode(t, k) = wrote[t][k].node

\* A transaction does not find the nodes it has deleted.
OwnDeletesVisible ==
  \A t \in active, k \in NodeIds :
    wrote[t][k].kind = "deleted" => VisibleNode(t, k) = Absent

\* A commit publishes exactly what the transaction saw when it committed: its
\* own writes and what others had committed, nodes and reachable relationships.
CommitPublishesView ==
  [][\A t \in Txs : Commit(t) =>
       /\ \A k \in NodeIds : store'.nodes[k] = VisibleNode(t, k)
       /\ \A r \in RelIds : Live(store').rels[r] = ReachableRel(t, r)]_txVars

\* The next id was never given out before: it is in no table of the store and
\* in no delta of a transaction that may still commit.
IdsAreFresh ==
  /\ \A k \in NodeIds : k >= store.next_node_id =>
       store.nodes[k] = Absent /\ \A t \in Txs : delta[t].nodes[k] = Absent
  /\ \A r \in RelIds : r >= store.next_rel_id =>
       store.rels[r] = Absent /\ \A t \in Txs : delta[t].rels[r] = Absent

-----------------------------------------------------------------------------
\* What CommitPublishesView rests on: no id is both written and deleted by the
\* same transaction, so the order in which apply_delta_to goes through the four
\* parts of a delta does not matter.
DeltasDisjoint ==
  \A t \in Txs :
    /\ \A k \in delta[t].deleted_nodes : delta[t].nodes[k] = Absent
    /\ \A r \in delta[t].deleted_rels : delta[t].rels[r] = Absent
=============================================================================
