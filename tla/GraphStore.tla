----------------------------- MODULE GraphStore -----------------------------
(***************************************************************************)
(* The indexes of the in-memory store.  The node and relationship tables   *)
(* are the source of truth; nodes_by_label and the five relationship       *)
(* indexes are maintained by every write, while node_props and             *)
(* node_props_any are caches that a write leaves stale and a property read *)
(* rebuilds first.                                                         *)
(*                                                                         *)
(* A BTreeMap<K, BTreeSet<i64>> without empty sets is the set of its       *)
(* <<key, id>> pairs.  Values are told apart in two ways: the comparison   *)
(* of a filter (==) by their Class, an index by their ValueKey.            *)
(***************************************************************************)
EXTENDS Naturals, FiniteSets

CONSTANTS
  NodeIds, RelIds,   \* ids
  Labels,            \* node labels
  Keys,              \* property names
  Values,            \* property values
  Types,             \* relationship types
  Class,             \* Class[v] = Class[w] when v == w
  ValueKey,          \* ValueKey::from_value, NoKey for arrays and objects
  NoKey,
  Absent             \* not in a table; a property that is not set

ASSUME StoreAssumption ==
  /\ DOMAIN Class = Values
  /\ DOMAIN ValueKey = Values
  /\ Absent \notin Values

StoredNode == [labels : SUBSET Labels, props : [Keys -> Values \cup {Absent}]]
StoredRel  == [rel_type : Types, from : NodeIds, to : NodeIds]

ASSUME StoreAbsentAssumption == Absent \notin StoredNode \cup StoredRel

VARIABLES
  nodes, rels,                        \* the tables
  nodes_by_label,
  node_props, node_props_any,         \* the property caches
  node_props_dirty,
  rels_by_type, outgoing, incoming, outgoing_any, incoming_any

relIndexes  == <<rels_by_type, outgoing, incoming, outgoing_any, incoming_any>>
propIndexes == <<node_props, node_props_any, node_props_dirty>>
vars == <<nodes, rels, nodes_by_label, propIndexes, relIndexes>>

-----------------------------------------------------------------------------
(***************************************************************************)
(* The index entries of one node or relationship.                          *)
(***************************************************************************)
Indexable(v) == v # Absent /\ ValueKey[v] # NoKey

IndexedKeys(node) == {key \in Keys : Indexable(node.props[key])}

LabelEntries(id, node) == {<<l, id>> : l \in node.labels}

\* index_node_props.
PropEntries(id, node) ==
  {<<<<l, key, ValueKey[node.props[key]]>>, id>> :
     l \in node.labels, key \in IndexedKeys(node)}

PropAnyEntries(id, node) ==
  {<<<<key, ValueKey[node.props[key]]>>, id>> : key \in IndexedKeys(node)}

-----------------------------------------------------------------------------
(***************************************************************************)
(* The indexes that the tables n and r call for.                           *)
(***************************************************************************)
NodesIn(n) == {k \in NodeIds : n[k] # Absent}
RelsIn(r)  == {e \in RelIds : r[e] # Absent}

LabelIndex(n)   == UNION {LabelEntries(k, n[k]) : k \in NodesIn(n)}
PropIndex(n)    == UNION {PropEntries(k, n[k]) : k \in NodesIn(n)}
PropAnyIndex(n) == UNION {PropAnyEntries(k, n[k]) : k \in NodesIn(n)}

\* index_relationship of the relationships ids of r.
TypeEntries(r, ids)        == {<<r[e].rel_type, e>> : e \in ids}
OutgoingEntries(r, ids)    == {<<<<r[e].from, r[e].rel_type>>, e>> : e \in ids}
IncomingEntries(r, ids)    == {<<<<r[e].to, r[e].rel_type>>, e>> : e \in ids}
OutgoingAnyEntries(r, ids) == {<<r[e].from, e>> : e \in ids}
IncomingAnyEntries(r, ids) == {<<r[e].to, e>> : e \in ids}

TypeIndex(r)        == TypeEntries(r, RelsIn(r))
OutgoingIndex(r)    == OutgoingEntries(r, RelsIn(r))
IncomingIndex(r)    == IncomingEntries(r, RelsIn(r))
OutgoingAnyIndex(r) == OutgoingAnyEntries(r, RelsIn(r))
IncomingAnyIndex(r) == IncomingAnyEntries(r, RelsIn(r))

TypeOK ==
  /\ nodes \in [NodeIds -> StoredNode \cup {Absent}]
  /\ rels \in [RelIds -> StoredRel \cup {Absent}]
  /\ node_props_dirty \in BOOLEAN

Init ==
  /\ nodes = [k \in NodeIds |-> Absent]
  /\ rels = [e \in RelIds |-> Absent]
  /\ nodes_by_label = {}
  /\ node_props = {} /\ node_props_any = {} /\ node_props_dirty = FALSE
  /\ rels_by_type = {} /\ outgoing = {} /\ incoming = {}
  /\ outgoing_any = {} /\ incoming_any = {}

-----------------------------------------------------------------------------
(***************************************************************************)
(* Writes.  deindex removes the entries of the previous contents, from the *)
(* caches as well, stale or not.                                           *)
(***************************************************************************)
DeindexProps(id, previous) ==
  IF previous = Absent
    THEN UNCHANGED <<node_props, node_props_any>>
    ELSE /\ node_props' = node_props \ PropEntries(id, previous)
         /\ node_props_any' = node_props_any \ PropAnyEntries(id, previous)

OldLabels(id, previous) == IF previous = Absent THEN {} ELSE LabelEntries(id, previous)

\* Mutant: the labels of the previous contents stay indexed.
InsertNodeKeepsLabels(id, node) ==
  /\ nodes' = [nodes EXCEPT ![id] = node]
  /\ nodes_by_label' = nodes_by_label \cup LabelEntries(id, node)
  /\ DeindexProps(id, nodes[id])
  /\ node_props_dirty' = TRUE
  /\ UNCHANGED <<rels, relIndexes>>

\* Mutant: the property caches are not marked stale.
InsertNodeNotDirty(id, node) ==
  /\ nodes' = [nodes EXCEPT ![id] = node]
  /\ nodes_by_label' = (nodes_by_label \ OldLabels(id, nodes[id])) \cup LabelEntries(id, node)
  /\ DeindexProps(id, nodes[id])
  /\ UNCHANGED <<node_props_dirty, rels, relIndexes>>

\* insert_node, insert_node_deferred_property_index.
InsertNode(id, node) ==
  /\ nodes' = [nodes EXCEPT ![id] = node]
  /\ nodes_by_label' = (nodes_by_label \ OldLabels(id, nodes[id])) \cup LabelEntries(id, node)
  /\ DeindexProps(id, nodes[id])
  /\ node_props_dirty' = TRUE
  /\ UNCHANGED <<rels, relIndexes>>

\* deindex_relationship of the ids in doomed as they were, then
\* index_relationship of the ids in added as they are now.
Reindex(doomed, added) ==
  /\ rels_by_type' = (rels_by_type \ TypeEntries(rels, doomed)) \cup TypeEntries(rels', added)
  /\ outgoing' = (outgoing \ OutgoingEntries(rels, doomed)) \cup OutgoingEntries(rels', added)
  /\ incoming' = (incoming \ IncomingEntries(rels, doomed)) \cup IncomingEntries(rels', added)
  /\ outgoing_any' =
       (outgoing_any \ OutgoingAnyEntries(rels, doomed)) \cup OutgoingAnyEntries(rels', added)
  /\ incoming_any' =
       (incoming_any \ IncomingAnyEntries(rels, doomed)) \cup IncomingAnyEntries(rels', added)

\* remove_node, with remove_relationship of each incident relationship, found
\* by a scan of the table.
RemoveNode(id) ==
  LET doomed == {e \in RelsIn(rels) : rels[e].from = id \/ rels[e].to = id} IN
  /\ nodes[id] # Absent
  /\ nodes' = [nodes EXCEPT ![id] = Absent]
  /\ nodes_by_label' = nodes_by_label \ LabelEntries(id, nodes[id])
  /\ DeindexProps(id, nodes[id])
  /\ node_props_dirty' = TRUE
  /\ rels' = [e \in RelIds |-> IF e \in doomed THEN Absent ELSE rels[e]]
  /\ Reindex(doomed, {})

InsertRelationship(id, rel) ==
  /\ rels' = [rels EXCEPT ![id] = rel]
  /\ Reindex({id} \cap RelsIn(rels), {id})
  /\ UNCHANGED <<nodes, nodes_by_label, propIndexes>>

RemoveRelationship(id) ==
  /\ rels[id] # Absent
  /\ rels' = [rels EXCEPT ![id] = Absent]
  /\ Reindex({id}, {})
  /\ UNCHANGED <<nodes, nodes_by_label, propIndexes>>

-----------------------------------------------------------------------------
RebuildRelIndexes ==
  /\ rels_by_type' = TypeIndex(rels)
  /\ outgoing' = OutgoingIndex(rels)
  /\ incoming' = IncomingIndex(rels)
  /\ outgoing_any' = OutgoingAnyIndex(rels)
  /\ incoming_any' = IncomingAnyIndex(rels)

\* rebuild_indexes.
RebuildIndexes ==
  /\ nodes_by_label' = LabelIndex(nodes)
  /\ node_props' = PropIndex(nodes)
  /\ node_props_any' = PropAnyIndex(nodes)
  /\ node_props_dirty' = FALSE
  /\ RebuildRelIndexes
  /\ UNCHANGED <<nodes, rels>>

\* from_persisted of what to_persisted saved: the tables come back, the
\* property caches start empty, and dirty unless there is no node.
Reload ==
  /\ nodes_by_label' = LabelIndex(nodes)
  /\ node_props' = {}
  /\ node_props_any' = {}
  /\ node_props_dirty' = (NodesIn(nodes) # {})
  /\ RebuildRelIndexes
  /\ UNCHANGED <<nodes, rels>>

\* The effect of node_ids_by_label_property and node_ids_by_property on the
\* store: rebuild_node_property_index when dirty.
PropertyRead ==
  /\ node_props_dirty
  /\ node_props' = PropIndex(nodes)
  /\ node_props_any' = PropAnyIndex(nodes)
  /\ node_props_dirty' = FALSE
  /\ UNCHANGED <<nodes, rels, nodes_by_label, relIndexes>>

Next ==
  \/ \E id \in NodeIds : \E node \in StoredNode : InsertNode(id, node)
  \/ \E id \in NodeIds : RemoveNode(id)
  \/ \E id \in RelIds : \E rel \in StoredRel : InsertRelationship(id, rel)
  \/ \E id \in RelIds : RemoveRelationship(id)
  \/ RebuildIndexes \/ Reload \/ PropertyRead

Spec == Init /\ [][Next]_vars

-----------------------------------------------------------------------------
(***************************************************************************)
(* What a read returns in the current state.                               *)
(***************************************************************************)
IdsAt(index, key) == {p[2] : p \in {q \in index : q[1] = key}}

node_ids_by_label(l) == IdsAt(nodes_by_label, l)

\* A value without a key is in no index; this lookup answers nothing for it.
node_ids_by_label_property(l, key, v) ==
  IF ValueKey[v] = NoKey THEN {}
  ELSE IdsAt(IF node_props_dirty THEN PropIndex(nodes) ELSE node_props,
             <<l, key, ValueKey[v]>>)

\* Where this one scans the table.
node_ids_by_property(key, v) ==
  IF ValueKey[v] = NoKey
    THEN {k \in NodesIn(nodes) : /\ nodes[k].props[key] # Absent
                                 /\ Class[nodes[k].props[key]] = Class[v]}
    ELSE IdsAt(IF node_props_dirty THEN PropAnyIndex(nodes) ELSE node_props_any,
               <<key, ValueKey[v]>>)

\* labels_match and the Eq case of stored_node_matches_filters.
Matches(node, labels, filters) ==
  /\ labels \subseteq node.labels
  /\ \A f \in filters : node.props[f[1]] # Absent /\ Class[node.props[f[1]]] = Class[f[2]]

\* base_node_candidate_ids: the sets it takes the smallest of.
CandidateSets(labels, filters) ==
  LET eq == {f \in filters : ValueKey[f[2]] # NoKey} IN
  IF labels = {}
    THEN IF eq = {} THEN {NodesIn(nodes)}
         ELSE {node_ids_by_property(f[1], f[2]) : f \in eq}
    ELSE IF eq = {} THEN {node_ids_by_label(l) : l \in labels}
         ELSE {node_ids_by_label_property(l, f[1], f[2]) : l \in labels, f \in eq}

\* base_nodes_matching, from candidates.
MatchingFrom(candidates, labels, filters) ==
  {k \in candidates : nodes[k] # Absent /\ Matches(nodes[k], labels, filters)}

-----------------------------------------------------------------------------
(***************************************************************************)
(* Properties.                                                             *)
(***************************************************************************)
\* Every index a write maintains is what a rebuild from the tables would give,
\* and so is a property cache that is not marked dirty.
IndexesExact ==
  /\ nodes_by_label = LabelIndex(nodes)
  /\ rels_by_type = TypeIndex(rels)
  /\ outgoing = OutgoingIndex(rels) /\ incoming = IncomingIndex(rels)
  /\ outgoing_any = OutgoingAnyIndex(rels) /\ incoming_any = IncomingAnyIndex(rels)
  /\ ~node_props_dirty =>
       node_props = PropIndex(nodes) /\ node_props_any = PropAnyIndex(nodes)

\* The node equals a filter's value without sharing its index key: 0.0 == -0.0,
\* and ValueKey tells their bits apart.
KeyedApart(node, filters) ==
  \E f \in filters : ValueKey[node.props[f[1]]] # ValueKey[f[2]]

\* A query for nodes by labels and equality filters finds nothing a scan of the
\* table does not find, and all of it except a node that equals a filter's value
\* but is keyed apart from it, whichever index base_node_candidate_ids settles on.
QueriesMatchScan ==
  \A labels \in SUBSET Labels, filters \in SUBSET (Keys \X Values) :
    LET scan == {k \in NodesIn(nodes) : Matches(nodes[k], labels, filters)} IN
    \A c \in CandidateSets(labels, filters) :
      /\ MatchingFrom(c, labels, filters) \subseteq scan
      /\ \A k \in scan \ MatchingFrom(c, labels, filters) : KeyedApart(nodes[k], filters)

=============================================================================
