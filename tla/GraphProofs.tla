----------------------------- MODULE GraphProofs -----------------------------
(***************************************************************************)
(* Facts about the graph operators of Graph that the proofs about its      *)
(* users cite: the type and the parts of a graph after a mutation and      *)
(* after a replayed operation, and that the two agree.                     *)
(***************************************************************************)
EXTENDS Graph, Sequences, WellFoundedInduction, TLAPS

-----------------------------------------------------------------------------
(***************************************************************************)
(* Induction.                                                              *)
(***************************************************************************)
\* Every nonempty set of naturals has a least element.
LEMMA Least ==
  ASSUME NEW T \in SUBSET Nat, T # {}
  PROVE  \E x \in T : \A y \in T : x <= y
  <1> DEFINE R == OpToRel(<, Nat)
  <1>1. IsWellFoundedOn(R, Nat)
    BY NatLessThanWellFounded
  <1>2. \A x, y \in Nat : x < y => <<x, y>> \in R
    BY DEF OpToRel
  <1> HIDE DEF R
  <1>3. PICK x \in T : \A y \in T : ~(<<y, x>> \in R)
    BY <1>1, WFMin
  <1>4. \A y \in T : x <= y
    <2>1. ASSUME NEW y \in T PROVE x <= y
      <3>1. x \in Nat /\ y \in Nat /\ ~(y < x)
        BY <1>2, <1>3
      <3>2. QED
        BY <3>1
    <2>2. QED
      BY <2>1
  <1>5. QED
    BY <1>4

\* Induction over the naturals, for a set.
LEMMA Induct ==
  ASSUME NEW S \in SUBSET Nat, 0 \in S, \A n \in S : n + 1 \in S
  PROVE  S = Nat
  <1>1. SUFFICES ASSUME Nat \ S # {} PROVE FALSE
    OBVIOUS
  <1>2. PICK x \in Nat \ S : \A y \in Nat \ S : x <= y
    BY <1>1, Least
  <1>3. x # 0 /\ x - 1 \in Nat
    BY <1>2
  <1>4. x - 1 \in S
    BY <1>2, <1>3
  <1>5. QED
    BY <1>2, <1>3, <1>4
-----------------------------------------------------------------------------
(***************************************************************************)
(* The graph operators.                                                    *)
(***************************************************************************)
\* SessionState::new is a well-formed graph.
LEMMA EmptyGraphType == EmptyGraph \in GraphState
  BY BoundAssumption DEF EmptyGraph, GraphState, NodeIds, RelIds

\* remove_node keeps a graph well formed and deletes exactly node k.
LEMMA RemoveNodeType ==
  ASSUME NEW g \in GraphState, NEW k \in NodeIds
  PROVE  /\ RemoveNode(g, k) \in GraphState
         /\ \A n \in NodeIds :
              RemoveNode(g, k).nodes[n] = IF n = k THEN Absent ELSE g.nodes[n]
  <1>1. CASE HasNode(g, k)
    <2> DEFINE rels == [r \in RelIds |-> IF Incident(g.rels[r], k) THEN Absent ELSE g.rels[r]]
               nodes == [g.nodes EXCEPT ![k] = Absent]
    <2>1. rels \in [RelIds -> StoredRel \cup {Absent}]
      BY DEF GraphState
    <2>2. nodes \in [NodeIds -> StoredNode \cup {Absent}]
      BY DEF GraphState
    <2>3. RemoveNode(g, k) = [g EXCEPT !.nodes = nodes, !.rels = rels]
      BY <1>1 DEF RemoveNode
    <2> HIDE DEF rels
    <2>4. QED
      BY <2>1, <2>2, <2>3 DEF GraphState
  <1>2. CASE ~HasNode(g, k)
    BY <1>2 DEF RemoveNode, HasNode, GraphState
  <1>3. QED
    BY <1>1, <1>2

\* Replaying one durable operation keeps a graph well formed.
LEMMA ApplyEntryType ==
  ASSUME NEW g \in GraphState, NEW o \in DurableOperation
  PROVE  ApplyEntry(g, o) \in GraphState
  <1>1. CASE o.op \in {"RegisterNodeModel", "RegisterRelModel"}
    BY <1>1 DEF ApplyEntry, DurableOperation, GraphState
  <1>2. CASE o.op = "UpsertNode"
    <2> DEFINE nodes == [g.nodes EXCEPT ![o.id] = o.node]
               next == AtLeast(g.next_node_id, o.id + 1)
    <2>1. o.id \in NodeIds /\ o.node \in StoredNode
      BY <1>2 DEF DurableOperation
    <2>2. nodes \in [NodeIds -> StoredNode \cup {Absent}]
      BY <2>1 DEF GraphState
    <2>3. next \in 1..(MaxNodeId + 1)
      BY <2>1, BoundAssumption DEF GraphState, AtLeast, NodeIds
    <2>4. ApplyEntry(g, o) = [g EXCEPT !.nodes = nodes, !.next_node_id = next]
      BY <1>2 DEF ApplyEntry, PutNode, GraphState
    <2> HIDE DEF nodes, next
    <2>5. QED
      BY <2>2, <2>3, <2>4 DEF GraphState
  <1>3. CASE o.op = "DeleteNode"
    <2>1. o.id \in NodeIds /\ ApplyEntry(g, o) = RemoveNode(g, o.id)
      BY <1>3 DEF ApplyEntry, DurableOperation
    <2>2. QED
      BY <2>1, RemoveNodeType
  <1>4. CASE o.op = "UpsertRel"
    <2> DEFINE rels == [g.rels EXCEPT ![o.id] = o.rel]
               next == AtLeast(g.next_rel_id, o.id + 1)
    <2>1. o.id \in RelIds /\ o.rel \in StoredRel
      BY <1>4 DEF DurableOperation
    <2>2. rels \in [RelIds -> StoredRel \cup {Absent}]
      BY <2>1 DEF GraphState
    <2>3. next \in 1..(MaxRelId + 1)
      BY <2>1, BoundAssumption DEF GraphState, AtLeast, RelIds
    <2>4. ApplyEntry(g, o) = [g EXCEPT !.rels = rels, !.next_rel_id = next]
      BY <1>4 DEF ApplyEntry, PutRel, GraphState
    <2> HIDE DEF rels, next
    <2>5. QED
      BY <2>2, <2>3, <2>4 DEF GraphState
  <1>5. CASE o.op = "DeleteRel"
    BY <1>5 DEF ApplyEntry, DurableOperation, GraphState, RemoveRel
  <1>6. QED
    BY <1>1, <1>2, <1>3, <1>4, <1>5 DEF DurableOperation

\* Replaying an operation decides the nodes it touches and no other.
LEMMA ApplyEntryNodes ==
  ASSUME NEW g \in GraphState, NEW o \in DurableOperation, NEW k \in NodeIds
  PROVE  ApplyEntry(g, o).nodes[k] =
           IF TouchesNode(o, k) THEN NodeAfter(o) ELSE g.nodes[k]
  <1>1. CASE o.op \in {"RegisterNodeModel", "RegisterRelModel"}
    BY <1>1 DEF ApplyEntry, DurableOperation, GraphState, TouchesNode
  <1>2. CASE o.op = "UpsertNode"
    BY <1>2 DEF ApplyEntry, DurableOperation, GraphState, PutNode, TouchesNode, NodeAfter
  <1>3. CASE o.op = "DeleteNode"
    <2>1. o.id \in NodeIds /\ ApplyEntry(g, o) = RemoveNode(g, o.id)
      BY <1>3 DEF ApplyEntry, DurableOperation
    <2>2. QED
      BY <1>3, <2>1, RemoveNodeType DEF TouchesNode, NodeAfter
  <1>4. CASE o.op = "UpsertRel"
    BY <1>4 DEF ApplyEntry, DurableOperation, GraphState, PutRel, TouchesNode
  <1>5. CASE o.op = "DeleteRel"
    BY <1>5 DEF ApplyEntry, DurableOperation, GraphState, RemoveRel, TouchesNode
  <1>6. QED
    BY <1>1, <1>2, <1>3, <1>4, <1>5 DEF DurableOperation

\* Every request outcome is a well-formed graph with a well-formed durable
\* operation that says what the request did to the nodes.
LEMMA MutationOutcome ==
  ASSUME NEW g \in GraphState, NEW s \in Mutations(g)
  PROVE  /\ s.graph \in GraphState
         /\ s.durable_op \in DurableOperation
         /\ \A k \in NodeIds :
              s.graph.nodes[k] =
                IF TouchesNode(s.durable_op, k) THEN NodeAfter(s.durable_op) ELSE g.nodes[k]
  <1>1. CASE s \in DefineNode(g)
    BY <1>1 DEF DefineNode, Outcome, RegisterNodeModelOp, DurableOperation, GraphState,
                TouchesNode
  <1>2. CASE s \in DefineEdge(g)
    BY <1>2 DEF DefineEdge, Outcome, RegisterRelModelOp, DurableOperation, GraphState,
                TouchesNode
  <1>3. CASE s \in NodeCreate(g)
    <2>1. PICK node \in StoredNode :
            /\ g.next_node_id \in NodeIds
            /\ s = Outcome([PutNode(g, g.next_node_id, node)
                              EXCEPT !.next_node_id = g.next_node_id + 1],
                           UpsertNodeOp(g.next_node_id, node))
      BY <1>3 DEF NodeCreate
    <2> DEFINE nodes == [g.nodes EXCEPT ![g.next_node_id] = node]
               next == g.next_node_id + 1
    <2>2. nodes \in [NodeIds -> StoredNode \cup {Absent}]
      BY <2>1 DEF GraphState
    <2>3. next \in 1..(MaxNodeId + 1)
      BY <2>1, BoundAssumption DEF NodeIds
    <2>4. /\ s.graph = [g EXCEPT !.nodes = nodes, !.next_node_id = next]
          /\ s.durable_op = UpsertNodeOp(g.next_node_id, node)
      BY <2>1 DEF PutNode, Outcome, GraphState
    <2>5. \A k \in NodeIds : nodes[k] = IF k = g.next_node_id THEN node ELSE g.nodes[k]
      BY <2>1 DEF GraphState
    <2> HIDE DEF nodes, next
    <2>6. s.graph \in GraphState /\ s.graph.nodes = nodes
      BY <2>2, <2>3, <2>4 DEF GraphState
    <2>7. QED
      BY <2>1, <2>4, <2>5, <2>6 DEF UpsertNodeOp, DurableOperation, TouchesNode, NodeAfter
  <1>4. CASE s \in NodeUpdate(g)
    <2>1. PICK k \in KnownNodes(g), v \in Values :
            LET node == [g.nodes[k] EXCEPT !.props = v]
            IN  s = Outcome(PutNode(g, k, node), UpsertNodeOp(k, node))
      BY <1>4 DEF NodeUpdate
    <2> DEFINE node == [g.nodes[k] EXCEPT !.props = v]
               nodes == [g.nodes EXCEPT ![k] = node]
    <2>2. k \in NodeIds /\ g.nodes[k] \in StoredNode
      BY DEF KnownNodes, HasNode, GraphState
    <2>3. node \in StoredNode
      BY <2>2 DEF StoredNode
    <2>4. /\ nodes \in [NodeIds -> StoredNode \cup {Absent}]
          /\ \A n \in NodeIds : nodes[n] = IF n = k THEN node ELSE g.nodes[n]
      BY <2>2, <2>3 DEF GraphState
    <2>5. s.graph = [g EXCEPT !.nodes = nodes] /\ s.durable_op = UpsertNodeOp(k, node)
      BY <2>1 DEF PutNode, Outcome
    <2> HIDE DEF nodes, node
    <2>6. s.graph \in GraphState /\ s.graph.nodes = nodes
      BY <2>4, <2>5 DEF GraphState
    <2>7. QED
      BY <2>2, <2>3, <2>4, <2>5, <2>6 DEF UpsertNodeOp, DurableOperation, TouchesNode, NodeAfter
  <1>5. CASE s \in NodeDelete(g)
    <2>1. PICK k \in KnownNodes(g) : s = Outcome(RemoveNode(g, k), DeleteNodeOp(k))
      BY <1>5 DEF NodeDelete
    <2>2. k \in NodeIds
      BY DEF KnownNodes
    <2>3. s.graph = RemoveNode(g, k) /\ s.durable_op = DeleteNodeOp(k)
      BY <2>1 DEF Outcome
    <2>4. QED
      BY <2>2, <2>3, RemoveNodeType DEF DeleteNodeOp, DurableOperation, TouchesNode, NodeAfter
  <1>6. CASE s \in EdgeCreate(g)
    <2>1. PICK rel \in StoredRel :
            /\ g.next_rel_id \in RelIds
            /\ s = Outcome([PutRel(g, g.next_rel_id, rel)
                              EXCEPT !.next_rel_id = g.next_rel_id + 1],
                           UpsertRelOp(g.next_rel_id, rel))
      BY <1>6 DEF EdgeCreate
    <2> DEFINE rels == [g.rels EXCEPT ![g.next_rel_id] = rel]
               next == g.next_rel_id + 1
    <2>2. rels \in [RelIds -> StoredRel \cup {Absent}]
      BY <2>1 DEF GraphState
    <2>3. next \in 1..(MaxRelId + 1)
      BY <2>1, BoundAssumption DEF RelIds
    <2>4. /\ s.graph = [g EXCEPT !.rels = rels, !.next_rel_id = next]
          /\ s.durable_op = UpsertRelOp(g.next_rel_id, rel)
      BY <2>1 DEF PutRel, Outcome, GraphState
    <2> HIDE DEF rels, next
    <2>5. s.graph \in GraphState /\ s.graph.nodes = g.nodes
      BY <2>2, <2>3, <2>4 DEF GraphState
    <2>6. QED
      BY <2>1, <2>4, <2>5 DEF UpsertRelOp, DurableOperation, TouchesNode
  <1>7. CASE s \in EdgeUpdate(g)
    <2>1. PICK r \in KnownRels(g), v \in Values :
            LET rel == [g.rels[r] EXCEPT !.props = v]
            IN  s = Outcome(PutRel(g, r, rel), UpsertRelOp(r, rel))
      BY <1>7 DEF EdgeUpdate
    <2> DEFINE rel == [g.rels[r] EXCEPT !.props = v]
               rels == [g.rels EXCEPT ![r] = rel]
    <2>2. r \in RelIds /\ g.rels[r] \in StoredRel
      BY DEF KnownRels, HasRel, GraphState
    <2>3. rel \in StoredRel
      BY <2>2 DEF StoredRel
    <2>4. rels \in [RelIds -> StoredRel \cup {Absent}]
      BY <2>2, <2>3 DEF GraphState
    <2>5. s.graph = [g EXCEPT !.rels = rels] /\ s.durable_op = UpsertRelOp(r, rel)
      BY <2>1 DEF PutRel, Outcome
    <2> HIDE DEF rels, rel
    <2>6. s.graph \in GraphState /\ s.graph.nodes = g.nodes
      BY <2>4, <2>5 DEF GraphState
    <2>7. QED
      BY <2>2, <2>3, <2>5, <2>6 DEF UpsertRelOp, DurableOperation, TouchesNode
  <1>8. CASE s \in EdgeDelete(g)
    <2>1. PICK r \in RelIds : s = Outcome(RemoveRel(g, r), DeleteRelOp(r))
      BY <1>8 DEF EdgeDelete, KnownRels
    <2>2. s.graph \in GraphState /\ s.graph.nodes = g.nodes /\ s.durable_op = DeleteRelOp(r)
      BY <2>1 DEF Outcome, RemoveRel, GraphState
    <2>3. QED
      BY <2>2 DEF DeleteRelOp, DurableOperation, TouchesNode
  <1>9. QED
    BY <1>1, <1>2, <1>3, <1>4, <1>5, <1>6, <1>7, <1>8 DEF Mutations

-----------------------------------------------------------------------------
(***************************************************************************)
(* What replaying one operation does to each part of a graph, and that a   *)
(* request does the same.                                                  *)
(***************************************************************************)
\* The operation decides what relationship r is after it.
TouchesRel(o, r) == o.op \in {"UpsertRel", "DeleteRel"} /\ o.id = r
RelAfter(o)      == IF o.op = "UpsertRel" THEN o.rel ELSE Absent

\* The operation registers a model.
Registers(o) == o.op \in {"RegisterNodeModel", "RegisterRelModel"}

\* The operation deletes node o.id of g and with it the relationship rel.
TakesAlong(g, o, rel) == o.op = "DeleteNode" /\ HasNode(g, o.id) /\ Incident(rel, o.id)

\* Replay of a durable operation, part by part.
LEMMA ApplyEntryParts ==
  ASSUME NEW g \in GraphState, NEW o \in DurableOperation
  PROVE  /\ ApplyEntry(g, o).models = IF Registers(o) THEN g.models \cup {o.model} ELSE g.models
         /\ ApplyEntry(g, o).next_node_id =
              IF o.op = "UpsertNode" THEN AtLeast(g.next_node_id, o.id + 1) ELSE g.next_node_id
         /\ ApplyEntry(g, o).next_rel_id =
              IF o.op = "UpsertRel" THEN AtLeast(g.next_rel_id, o.id + 1) ELSE g.next_rel_id
         /\ \A r \in RelIds :
              ApplyEntry(g, o).rels[r] =
                IF TouchesRel(o, r) THEN RelAfter(o)
                ELSE IF TakesAlong(g, o, g.rels[r]) THEN Absent ELSE g.rels[r]
  <1> USE DEF TouchesRel, RelAfter, Registers, TakesAlong
  <1>1. CASE o.op \in {"RegisterNodeModel", "RegisterRelModel"}
    BY <1>1 DEF ApplyEntry, GraphState
  <1>2. CASE o.op = "UpsertNode"
    BY <1>2 DEF ApplyEntry, PutNode, GraphState
  <1>3. CASE o.op = "DeleteNode"
    <2>1. ApplyEntry(g, o) = RemoveNode(g, o.id)
      BY <1>3 DEF ApplyEntry
    <2>2. CASE HasNode(g, o.id)
      <3> DEFINE rels == [r \in RelIds |-> IF Incident(g.rels[r], o.id) THEN Absent ELSE g.rels[r]]
                 nodes == [g.nodes EXCEPT ![o.id] = Absent]
      <3>1. RemoveNode(g, o.id) = [g EXCEPT !.nodes = nodes, !.rels = rels]
        BY <2>2 DEF RemoveNode
      <3>2. \A r \in RelIds : rels[r] = IF Incident(g.rels[r], o.id) THEN Absent ELSE g.rels[r]
        OBVIOUS
      <3> HIDE DEF rels, nodes
      <3>3. /\ RemoveNode(g, o.id).rels = rels /\ RemoveNode(g, o.id).models = g.models
            /\ RemoveNode(g, o.id).next_node_id = g.next_node_id
            /\ RemoveNode(g, o.id).next_rel_id = g.next_rel_id
        BY <3>1 DEF GraphState
      <3>4. QED
        BY <1>3, <2>1, <2>2, <3>2, <3>3
    <2>3. CASE ~HasNode(g, o.id)
      BY <1>3, <2>1, <2>3 DEF RemoveNode
    <2>4. QED
      BY <2>2, <2>3
  <1>4. CASE o.op = "UpsertRel"
    BY <1>4 DEF ApplyEntry, PutRel, GraphState
  <1>5. CASE o.op = "DeleteRel"
    BY <1>5 DEF ApplyEntry, RemoveRel, GraphState
  <1>6. QED
    BY <1>1, <1>2, <1>3, <1>4, <1>5 DEF DurableOperation

\* The ids in use are below the counters.
IdsBelow(g) ==
  /\ \A k \in NodeIds : HasNode(g, k) => k < g.next_node_id
  /\ \A r \in RelIds : HasRel(g, r) => r < g.next_rel_id

\* Replay keeps the ids in use below the counters, whatever it replays.
LEMMA ApplyEntryBelow ==
  ASSUME NEW g \in GraphState, NEW o \in DurableOperation, IdsBelow(g)
  PROVE  IdsBelow(ApplyEntry(g, o))
  <1> DEFINE h == ApplyEntry(g, o)
  <1>1. /\ g.next_node_id \in Nat /\ g.next_rel_id \in Nat
        /\ o.op = "UpsertNode" => o.id \in Nat
        /\ o.op = "UpsertRel" => o.id \in Nat
    BY BoundAssumption DEF GraphState, DurableOperation, NodeIds, RelIds
  <1>2. /\ h.next_node_id = IF o.op = "UpsertNode" THEN AtLeast(g.next_node_id, o.id + 1)
                            ELSE g.next_node_id
        /\ h.next_rel_id = IF o.op = "UpsertRel" THEN AtLeast(g.next_rel_id, o.id + 1)
                           ELSE g.next_rel_id
        /\ \A r \in RelIds : h.rels[r] = IF TouchesRel(o, r) THEN RelAfter(o)
                ELSE IF TakesAlong(g, o, g.rels[r]) THEN Absent ELSE g.rels[r]
    BY ApplyEntryParts
  <1>3. \A k \in NodeIds : h.nodes[k] = IF TouchesNode(o, k) THEN NodeAfter(o) ELSE g.nodes[k]
    BY ApplyEntryNodes
  <1> HIDE DEF h
  <1>4. NodeIds \subseteq Nat /\ RelIds \subseteq Nat
    BY DEF NodeIds, RelIds
  <1>5. \A k \in NodeIds : HasNode(h, k) => k < h.next_node_id
    BY <1>1, <1>2, <1>3, <1>4 DEF IdsBelow, HasNode, TouchesNode, NodeAfter, AtLeast
  <1>6. ASSUME NEW r \in RelIds, HasRel(h, r) PROVE r < h.next_rel_id
    <2>1. r \in Nat
      BY <1>4
    <2>2. CASE TouchesRel(o, r)
      BY <1>1, <1>2, <1>6, <2>1, <2>2 DEF HasRel, TouchesRel, RelAfter, AtLeast
    <2>3. CASE ~TouchesRel(o, r)
      <3>1. r < g.next_rel_id
        BY <1>2, <1>6, <2>3 DEF IdsBelow, HasRel
      <3>2. QED
        BY <1>1, <1>2, <2>1, <3>1 DEF AtLeast
    <2>4. QED
      BY <2>2, <2>3
  <1>7. QED
    BY <1>5, <1>6 DEF IdsBelow, h

\* What a request changes is exactly what replaying its durable operation
\* changes: a durable operation forgets nothing about its mutation.
LEMMA MutationIsReplay ==
  ASSUME NEW g \in GraphState, IdsBelow(g), NEW s \in Mutations(g)
  PROVE  s.graph = ApplyEntry(g, s.durable_op)
  <1> USE DEF Outcome, ApplyEntry, AtLeast
  <1>0. /\ g.next_node_id \in Nat /\ g.next_rel_id \in Nat
        /\ NodeIds \subseteq Nat /\ RelIds \subseteq Nat
    BY BoundAssumption DEF GraphState, NodeIds, RelIds
  <1>1. CASE s \in DefineNode(g)
    <2>1. PICK m \in NodeModels :
            s = Outcome([g EXCEPT !.models = @ \cup {m}], RegisterNodeModelOp(m))
      BY <1>1 DEF DefineNode
    <2>2. QED
      BY <2>1 DEF RegisterNodeModelOp
  <1>2. CASE s \in DefineEdge(g)
    <2>1. PICK m \in RelModels :
            s = Outcome([g EXCEPT !.models = @ \cup {m}], RegisterRelModelOp(m))
      BY <1>2 DEF DefineEdge
    <2>2. QED
      BY <2>1 DEF RegisterRelModelOp
  <1>3. CASE s \in NodeCreate(g)
    <2> DEFINE k == g.next_node_id
    <2>1. PICK node \in StoredNode :
            s = Outcome([PutNode(g, k, node) EXCEPT !.next_node_id = k + 1], UpsertNodeOp(k, node))
      BY <1>3 DEF NodeCreate
    <2>2. PutNode(g, k, node).next_node_id = k
      BY DEF PutNode, GraphState
    <2>3. AtLeast(k, k + 1) = k + 1
      BY <1>0
    <2>4. ApplyEntry(g, s.durable_op) =
            [PutNode(g, k, node)
               EXCEPT !.next_node_id = AtLeast(PutNode(g, k, node).next_node_id, k + 1)]
      BY <2>1 DEF UpsertNodeOp
    <2> HIDE DEF k
    <2>5. QED
      BY <2>1, <2>2, <2>3, <2>4
  <1>4. CASE s \in NodeUpdate(g)
    <2>1. PICK k \in KnownNodes(g), v \in Values :
            LET node == [g.nodes[k] EXCEPT !.props = v]
            IN  s = Outcome(PutNode(g, k, node), UpsertNodeOp(k, node))
      BY <1>4 DEF NodeUpdate
    <2> DEFINE node == [g.nodes[k] EXCEPT !.props = v]
               h == PutNode(g, k, node)
    <2>2. k \in Nat /\ k < g.next_node_id
      BY <1>0 DEF KnownNodes, IdsBelow
    <2> HIDE DEF node
    <2>3. h.next_node_id = g.next_node_id /\ h = [h EXCEPT !.next_node_id = g.next_node_id]
      BY DEF PutNode, GraphState
    <2>4. AtLeast(h.next_node_id, k + 1) = g.next_node_id
      BY <1>0, <2>2, <2>3
    <2>5. s.graph = h /\ s.durable_op = UpsertNodeOp(k, node)
      BY <2>1 DEF node
    <2>6. ApplyEntry(g, s.durable_op) = [h EXCEPT !.next_node_id = AtLeast(h.next_node_id, k + 1)]
      BY <2>5 DEF UpsertNodeOp, PutNode, GraphState
    <2> HIDE DEF h
    <2>7. QED
      BY <2>3, <2>4, <2>5, <2>6
  <1>5. CASE s \in NodeDelete(g)
    BY <1>5 DEF NodeDelete, DeleteNodeOp
  <1>6. CASE s \in EdgeCreate(g)
    <2> DEFINE r == g.next_rel_id
    <2>1. PICK rel \in StoredRel :
            s = Outcome([PutRel(g, r, rel) EXCEPT !.next_rel_id = r + 1], UpsertRelOp(r, rel))
      BY <1>6 DEF EdgeCreate
    <2>2. PutRel(g, r, rel).next_rel_id = r
      BY DEF PutRel, GraphState
    <2>3. AtLeast(r, r + 1) = r + 1
      BY <1>0
    <2>4. ApplyEntry(g, s.durable_op) =
            [PutRel(g, r, rel)
               EXCEPT !.next_rel_id = AtLeast(PutRel(g, r, rel).next_rel_id, r + 1)]
      BY <2>1 DEF UpsertRelOp
    <2> HIDE DEF r
    <2>5. QED
      BY <2>1, <2>2, <2>3, <2>4
  <1>7. CASE s \in EdgeUpdate(g)
    <2>1. PICK r \in KnownRels(g), v \in Values :
            LET rel == [g.rels[r] EXCEPT !.props = v]
            IN  s = Outcome(PutRel(g, r, rel), UpsertRelOp(r, rel))
      BY <1>7 DEF EdgeUpdate
    <2> DEFINE rel == [g.rels[r] EXCEPT !.props = v]
               h == PutRel(g, r, rel)
    <2>2. r \in Nat /\ r < g.next_rel_id
      BY <1>0 DEF KnownRels, IdsBelow
    <2> HIDE DEF rel
    <2>3. h.next_rel_id = g.next_rel_id /\ h = [h EXCEPT !.next_rel_id = g.next_rel_id]
      BY DEF PutRel, GraphState
    <2>4. AtLeast(h.next_rel_id, r + 1) = g.next_rel_id
      BY <1>0, <2>2, <2>3
    <2>5. s.graph = h /\ s.durable_op = UpsertRelOp(r, rel)
      BY <2>1 DEF rel
    <2>6. ApplyEntry(g, s.durable_op) = [h EXCEPT !.next_rel_id = AtLeast(h.next_rel_id, r + 1)]
      BY <2>5 DEF UpsertRelOp, PutRel, GraphState
    <2> HIDE DEF h
    <2>7. QED
      BY <2>3, <2>4, <2>5, <2>6
  <1>8. CASE s \in EdgeDelete(g)
    BY <1>8 DEF EdgeDelete, DeleteRelOp
  <1>9. QED
    BY <1>1, <1>2, <1>3, <1>4, <1>5, <1>6, <1>7, <1>8 DEF Mutations

\* An empty graph uses no id.
LEMMA EmptyBelow == IdsBelow(EmptyGraph)
  BY DEF IdsBelow, EmptyGraph, HasNode, HasRel

\* Node ids and counters are numbers.
LEMMA CountersAreNumbers ==
  /\ NodeIds \subseteq Nat /\ RelIds \subseteq Nat
  /\ \A g \in GraphState : g.next_node_id \in Nat /\ g.next_rel_id \in Nat
  BY BoundAssumption DEF NodeIds, RelIds, GraphState

Below(k, g) == k < g.next_node_id

\* A request leaves the ids it uses below the counters and the counters never
\* go back.
LEMMA MutationBelow ==
  ASSUME NEW g \in GraphState, IdsBelow(g), NEW s \in Mutations(g)
  PROVE  /\ IdsBelow(s.graph)
         /\ \A k \in NodeIds : Below(k, g) => Below(k, s.graph)
         /\ s.durable_op.op = "UpsertNode" => Below(s.durable_op.id, s.graph)
  <1>1. s.graph = ApplyEntry(g, s.durable_op) /\ s.durable_op \in DurableOperation
        /\ s.graph \in GraphState
    BY MutationIsReplay, MutationOutcome
  <1>2. s.graph.next_node_id = IF s.durable_op.op = "UpsertNode"
          THEN AtLeast(g.next_node_id, s.durable_op.id + 1) ELSE g.next_node_id
    BY <1>1, ApplyEntryParts
  <1>3. s.durable_op.op = "UpsertNode" => s.durable_op.id \in NodeIds
    BY <1>1 DEF DurableOperation
  <1>4. IdsBelow(s.graph)
    BY <1>1, ApplyEntryBelow
  <1>5. /\ g.next_node_id \in Nat /\ NodeIds \subseteq Nat
        /\ s.durable_op.op = "UpsertNode" => s.durable_op.id \in Nat
    BY <1>3, CountersAreNumbers
  <1>6. \A k \in NodeIds : k < g.next_node_id => k < s.graph.next_node_id
    BY <1>2, <1>5 DEF AtLeast
  <1>7. s.durable_op.op = "UpsertNode" => s.durable_op.id < s.graph.next_node_id
    BY <1>2, <1>5 DEF AtLeast
  <1>8. QED
    BY <1>4, <1>6, <1>7 DEF Below
=============================================================================
