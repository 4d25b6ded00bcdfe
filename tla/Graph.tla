-------------------------------- MODULE Graph --------------------------------
(***************************************************************************)
(* The durable source of truth of a workspace: the runtime schema catalog, *)
(* the node table, the relationship table and the two id counters, with    *)
(* the effect of each runtime mutation on them and of each durable         *)
(* operation when it is replayed from the append log.                      *)
(*                                                                         *)
(* A property map is one member of Values; the map an update leaves, the   *)
(* old one with the given keys replaced, is one of them too.  A table is a *)
(* total function over the ids whose entry is Absent where the BTreeMap    *)
(* has no key.                                                             *)
(* Derived indexes are the subject of module GraphStore.                   *)
(***************************************************************************)
EXTENDS Naturals

CONSTANTS
  MaxNodeId,    \* bound on the node ids a behaviour may allocate
  MaxRelId,     \* bound on the relationship ids a behaviour may allocate
  Values,       \* the property maps an instance may carry
  NodeModels,   \* names a node model may be registered under
  RelModels,    \* names a relationship model may be registered under
  FromModel,    \* the from_model of every relationship model
  ToModel,      \* the to_model of every relationship model
  Absent        \* marks an id that is not in a table

ASSUME BoundAssumption ==
  /\ MaxNodeId \in Nat
  /\ MaxRelId \in Nat

ASSUME SchemaAssumption ==
  /\ FromModel \in [RelModels -> NodeModels]
  /\ ToModel \in [RelModels -> NodeModels]
  /\ NodeModels \cap RelModels = {}

NodeIds == 1..MaxNodeId
RelIds  == 1..MaxRelId

StoredNode == [label : NodeModels, props : Values]
StoredRel  == [rel_type : RelModels, from : NodeIds, to : NodeIds, props : Values]

ASSUME AbsentAssumption ==
  /\ Absent \notin StoredNode
  /\ Absent \notin StoredRel

GraphState ==
  [ models       : SUBSET (NodeModels \cup RelModels),
    nodes        : [NodeIds -> StoredNode \cup {Absent}],
    rels         : [RelIds -> StoredRel \cup {Absent}],
    next_node_id : 1..(MaxNodeId + 1),
    next_rel_id  : 1..(MaxRelId + 1) ]

\* SessionState::new: no schema, no data, both counters at one.
EmptyGraph ==
  [ models       |-> {},
    nodes        |-> [k \in NodeIds |-> Absent],
    rels         |-> [r \in RelIds |-> Absent],
    next_node_id |-> 1,
    next_rel_id  |-> 1 ]

HasNode(g, k) == g.nodes[k] # Absent
HasRel(g, r)  == g.rels[r] # Absent

-----------------------------------------------------------------------------
(***************************************************************************)
(* The durable operations.                                                 *)
(***************************************************************************)
RegisterNodeModelOp(m) == [op |-> "RegisterNodeModel", model |-> m]
RegisterRelModelOp(m)  == [op |-> "RegisterRelModel", model |-> m]
UpsertNodeOp(k, node)  == [op |-> "UpsertNode", id |-> k, node |-> node]
DeleteNodeOp(k)        == [op |-> "DeleteNode", id |-> k]
UpsertRelOp(r, rel)    == [op |-> "UpsertRel", id |-> r, rel |-> rel]
DeleteRelOp(r)         == [op |-> "DeleteRel", id |-> r]

DurableOperation ==
  [op : {"RegisterNodeModel"}, model : NodeModels]
    \cup [op : {"RegisterRelModel"}, model : RelModels]
    \cup [op : {"UpsertNode"}, id : NodeIds, node : StoredNode]
    \cup [op : {"DeleteNode"}, id : NodeIds]
    \cup [op : {"UpsertRel"}, id : RelIds, rel : StoredRel]
    \cup [op : {"DeleteRel"}, id : RelIds]

\* The operation decides what node k is after it, whatever it was before.
TouchesNode(o, k) == o.op \in {"UpsertNode", "DeleteNode"} /\ o.id = k
NodeAfter(o)      == IF o.op = "UpsertNode" THEN o.node ELSE Absent

-----------------------------------------------------------------------------
(***************************************************************************)
(* Table updates shared by execution and replay.                           *)
(***************************************************************************)
PutNode(g, k, node) == [g EXCEPT !.nodes = [@ EXCEPT ![k] = node]]
PutRel(g, r, rel)   == [g EXCEPT !.rels = [@ EXCEPT ![r] = rel]]

Incident(rel, k) == rel # Absent /\ (rel.from = k \/ rel.to = k)

\* GraphStore::remove_node: incident relationships go with the node, and only
\* when the node was there.
RemoveNode(g, k) ==
  IF HasNode(g, k)
    THEN [g EXCEPT !.nodes = [@ EXCEPT ![k] = Absent],
                   !.rels = [r \in RelIds |-> IF Incident(@[r], k) THEN Absent ELSE @[r]]]
    ELSE g

RemoveRel(g, r) == [g EXCEPT !.rels = [@ EXCEPT ![r] = Absent]]

\* Mutant: the counter is raised to the id itself, not past it.
AtLeastShort(counter, n) == IF counter < n - 1 THEN n - 1 ELSE counter

AtLeast(counter, n) == IF counter < n THEN n ELSE counter

\* Mutant: replay leaves the id counters alone.
ApplyEntryNoCounter(g, o) ==
  CASE o.op \in {"RegisterNodeModel", "RegisterRelModel"} ->
         [g EXCEPT !.models = @ \cup {o.model}]
    [] o.op = "UpsertNode" -> PutNode(g, o.id, o.node)
    [] o.op = "DeleteNode" -> RemoveNode(g, o.id)
    [] o.op = "UpsertRel" -> PutRel(g, o.id, o.rel)
    [] o.op = "DeleteRel" -> RemoveRel(g, o.id)

\* apply_session_log_entry: replay one durable operation.  A model that is
\* already registered is skipped, an upsert raises the id counter.
ApplyEntry(g, o) ==
  CASE o.op \in {"RegisterNodeModel", "RegisterRelModel"} ->
         [g EXCEPT !.models = @ \cup {o.model}]
    [] o.op = "UpsertNode" ->
         [PutNode(g, o.id, o.node) EXCEPT !.next_node_id = AtLeast(@, o.id + 1)]
    [] o.op = "DeleteNode" -> RemoveNode(g, o.id)
    [] o.op = "UpsertRel" ->
         [PutRel(g, o.id, o.rel) EXCEPT !.next_rel_id = AtLeast(@, o.id + 1)]
    [] o.op = "DeleteRel" -> RemoveRel(g, o.id)

-----------------------------------------------------------------------------
(***************************************************************************)
(* The runtime mutations.  Each is the set of outcomes the valid requests  *)
(* of its kind have on g: the graph after the request and the durable      *)
(* operation the request reports.                                          *)
(***************************************************************************)
Outcome(h, o) == [graph |-> h, durable_op |-> o]

DefineNode(g) ==
  { Outcome([g EXCEPT !.models = @ \cup {m}], RegisterNodeModelOp(m)) :
      m \in NodeModels \ g.models }

DefineEdge(g) ==
  { Outcome([g EXCEPT !.models = @ \cup {m}], RegisterRelModelOp(m)) :
      m \in {x \in RelModels \ g.models : {FromModel[x], ToModel[x]} \subseteq g.models} }

\* InMemoryTx::create_node takes the next id of the shared counter.
NodeCreate(g) ==
  LET fresh == g.next_node_id
  IN  { Outcome([PutNode(g, fresh, node) EXCEPT !.next_node_id = fresh + 1],
                UpsertNodeOp(fresh, node)) :
          node \in {x \in StoredNode : x.label \in g.models /\ fresh \in NodeIds} }

\* The nodes a request may address: present, and of a registered model.
KnownNodes(g) == {k \in NodeIds : HasNode(g, k) /\ g.nodes[k].label \in g.models}

NodeUpdate(g) ==
  { LET node == [g.nodes[u[1]] EXCEPT !.props = u[2]]
    IN  Outcome(PutNode(g, u[1], node), UpsertNodeOp(u[1], node)) :
      u \in KnownNodes(g) \X Values }

NodeDelete(g) ==
  { Outcome(RemoveNode(g, k), DeleteNodeOp(k)) : k \in KnownNodes(g) }

\* Both endpoints exist and carry the labels the relationship model asks for.
Connects(g, rel) ==
  /\ rel.rel_type \in g.models
  /\ HasNode(g, rel.from) /\ g.nodes[rel.from].label = FromModel[rel.rel_type]
  /\ HasNode(g, rel.to)   /\ g.nodes[rel.to].label = ToModel[rel.rel_type]

EdgeCreate(g) ==
  LET fresh == g.next_rel_id
  IN  { Outcome([PutRel(g, fresh, rel) EXCEPT !.next_rel_id = fresh + 1],
                UpsertRelOp(fresh, rel)) :
          rel \in {x \in StoredRel : Connects(g, x) /\ fresh \in RelIds} }

KnownRels(g) == {r \in RelIds : HasRel(g, r) /\ g.rels[r].rel_type \in g.models}

EdgeUpdate(g) ==
  { LET rel == [g.rels[u[1]] EXCEPT !.props = u[2]]
    IN  Outcome(PutRel(g, u[1], rel), UpsertRelOp(u[1], rel)) :
      u \in KnownRels(g) \X Values }

EdgeDelete(g) ==
  { Outcome(RemoveRel(g, r), DeleteRelOp(r)) : r \in KnownRels(g) }

Mutations(g) ==
  UNION { DefineNode(g), DefineEdge(g), NodeCreate(g), NodeUpdate(g), NodeDelete(g),
          EdgeCreate(g), EdgeUpdate(g), EdgeDelete(g) }

-----------------------------------------------------------------------------
\* A relationship is anchored when both of its endpoints exist.
Anchored(g, r) ==
  HasRel(g, r) => HasNode(g, g.rels[r].from) /\ HasNode(g, g.rels[r].to)

\* The part of a graph that does not hang off a missing node.
Live(g) ==
  [g EXCEPT !.rels = [r \in RelIds |-> IF Anchored(g, r) THEN @[r] ELSE Absent]]
=============================================================================
