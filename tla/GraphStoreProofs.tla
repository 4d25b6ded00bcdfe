-------------------------- MODULE GraphStoreProofs --------------------------
(***************************************************************************)
(* Proofs about GraphStore: for any ids, labels, properties and types, and *)
(* whatever ValueKey is, the indexes agree with the tables.                *)
(***************************************************************************)
EXTENDS GraphStore, TLAPS

-----------------------------------------------------------------------------
(***************************************************************************)
(* Index entries.                                                          *)
(***************************************************************************)
\* What is in the label index.
LEMMA LabelIndexMember ==
  ASSUME NEW n, NEW p
  PROVE  p \in LabelIndex(n) <=>
           \E k \in NodeIds : n[k] # Absent /\ \E l \in n[k].labels : p = <<l, k>>
  BY DEF LabelIndex, NodesIn, LabelEntries

\* Replacing node id moves exactly its own entries of the label index.
LEMMA LabelIndexPut ==
  ASSUME NEW n \in [NodeIds -> StoredNode \cup {Absent}], NEW id \in NodeIds,
         NEW node \in StoredNode \cup {Absent}
  PROVE  LabelIndex([n EXCEPT ![id] = node]) =
           (LabelIndex(n) \ OldLabels(id, n[id])) \cup OldLabels(id, node)
  <1> DEFINE m == [n EXCEPT ![id] = node]
  <1>1. \A k \in NodeIds : m[k] = IF k = id THEN node ELSE n[k]
    OBVIOUS
  <1>2. \A p : p \in OldLabels(id, n[id]) <=> n[id] # Absent /\ \E l \in n[id].labels : p = <<l, id>>
    BY DEF OldLabels, LabelEntries
  <1>3. \A p : p \in OldLabels(id, node) <=> node # Absent /\ \E l \in node.labels : p = <<l, id>>
    BY DEF OldLabels, LabelEntries
  <1> HIDE DEF m
  <1>4. \A p : p \in LabelIndex(m) <=>
                 p \in (LabelIndex(n) \ OldLabels(id, n[id])) \cup OldLabels(id, node)
    BY <1>1, <1>2, <1>3, LabelIndexMember
  <1>5. QED
    BY <1>4 DEF m

\* Every relationship index follows the table.
LEMMA ReindexExact ==
  ASSUME NEW doomed, NEW added, IndexesExact, Reindex(doomed, added),
         RelsIn(rels') = (RelsIn(rels) \ doomed) \cup added,
         \A e \in (RelsIn(rels) \ doomed) \ added : rels'[e] = rels[e],
         RelsIn(rels) \cap added \subseteq doomed
  PROVE  /\ rels_by_type' = TypeIndex(rels')
         /\ outgoing' = OutgoingIndex(rels') /\ incoming' = IncomingIndex(rels')
         /\ outgoing_any' = OutgoingAnyIndex(rels')
         /\ incoming_any' = IncomingAnyIndex(rels')
  <1>1. rels_by_type' = TypeIndex(rels')
    BY DEF IndexesExact, Reindex, TypeIndex, TypeEntries
  <1>2. outgoing' = OutgoingIndex(rels')
    BY DEF IndexesExact, Reindex, OutgoingIndex, OutgoingEntries
  <1>3. incoming' = IncomingIndex(rels')
    BY DEF IndexesExact, Reindex, IncomingIndex, IncomingEntries
  <1>4. outgoing_any' = OutgoingAnyIndex(rels')
    BY DEF IndexesExact, Reindex, OutgoingAnyIndex, OutgoingAnyEntries
  <1>5. incoming_any' = IncomingAnyIndex(rels')
    BY DEF IndexesExact, Reindex, IncomingAnyIndex, IncomingAnyEntries
  <1>6. QED
    BY <1>1, <1>2, <1>3, <1>4, <1>5

-----------------------------------------------------------------------------
(***************************************************************************)
(* The invariant.                                                          *)
(***************************************************************************)
\* The tables keep their types.
LEMMA StoreTypeStep ==
  ASSUME TypeOK, [Next]_vars
  PROVE  TypeOK'
  <1> USE DEF TypeOK
  <1>1. ASSUME NEW id \in NodeIds, NEW node \in StoredNode, InsertNode(id, node) PROVE TypeOK'
    BY <1>1 DEF InsertNode
  <1>2. ASSUME NEW id \in NodeIds, RemoveNode(id) PROVE TypeOK'
    BY <1>2 DEF RemoveNode
  <1>3. ASSUME NEW id \in RelIds, NEW rel \in StoredRel, InsertRelationship(id, rel) PROVE TypeOK'
    BY <1>3 DEF InsertRelationship, propIndexes
  <1>4. ASSUME NEW id \in RelIds, RemoveRelationship(id) PROVE TypeOK'
    BY <1>4 DEF RemoveRelationship, propIndexes
  <1>5. CASE RebuildIndexes \/ Reload \/ PropertyRead
    <2>1. nodes' = nodes /\ rels' = rels
      BY <1>5 DEF RebuildIndexes, Reload, PropertyRead
    <2>2. node_props_dirty' \in BOOLEAN
      BY <1>5, Zenon DEF RebuildIndexes, Reload, PropertyRead
    <2>3. QED
      BY <2>1, <2>2
  <1>6. CASE UNCHANGED vars
    BY <1>6 DEF vars, propIndexes
  <1>7. QED
    BY <1>1, <1>2, <1>3, <1>4, <1>5, <1>6 DEF Next

\* Every operation of the store keeps its indexes exact.
LEMMA IndexStep ==
  ASSUME TypeOK, IndexesExact, [Next]_vars
  PROVE  IndexesExact'
  <1>1. ASSUME NEW id \in NodeIds, NEW node \in StoredNode, InsertNode(id, node)
        PROVE  IndexesExact'
    <2>1. node # Absent
      BY StoreAbsentAssumption
    <2>2. nodes_by_label' = LabelIndex(nodes')
      BY <1>1, <2>1, LabelIndexPut DEF InsertNode, IndexesExact, TypeOK, OldLabels
    <2>3. node_props_dirty' /\ rels' = rels /\ UNCHANGED relIndexes
      BY <1>1 DEF InsertNode
    <2>4. QED
      BY <2>2, <2>3 DEF IndexesExact, relIndexes
  <1>2. ASSUME NEW id \in NodeIds, RemoveNode(id)
        PROVE  IndexesExact'
    <2> DEFINE doomed == {e \in RelsIn(rels) : rels[e].from = id \/ rels[e].to = id}
    <2>1. nodes_by_label' = LabelIndex(nodes')
      <3>1. /\ nodes[id] # Absent /\ nodes' = [nodes EXCEPT ![id] = Absent]
            /\ nodes_by_label' = LabelIndex(nodes) \ LabelEntries(id, nodes[id])
        BY <1>2 DEF RemoveNode, IndexesExact
      <3>2. LabelIndex(nodes') = (LabelIndex(nodes) \ OldLabels(id, nodes[id])) \cup {}
        BY <3>1, LabelIndexPut DEF TypeOK, OldLabels
      <3>3. QED
        BY <3>1, <3>2 DEF OldLabels
    <2>2. /\ rels' = [e \in RelIds |-> IF e \in doomed THEN Absent ELSE rels[e]]
          /\ Reindex(doomed, {})
          /\ node_props_dirty'
      BY <1>2 DEF RemoveNode
    <2>3. RelsIn(rels') = RelsIn(rels) \ doomed
      BY <2>2 DEF RelsIn
    <2>4. \A e \in RelsIn(rels) \ doomed : rels'[e] = rels[e]
      BY <2>2 DEF RelsIn
    <2> HIDE DEF doomed
    <2>5. /\ rels_by_type' = TypeIndex(rels')
          /\ outgoing' = OutgoingIndex(rels') /\ incoming' = IncomingIndex(rels')
          /\ outgoing_any' = OutgoingAnyIndex(rels')
          /\ incoming_any' = IncomingAnyIndex(rels')
      BY <2>2, <2>3, <2>4, ReindexExact
    <2>6. QED
      BY <2>1, <2>2, <2>5 DEF IndexesExact
  <1>3. ASSUME NEW id \in RelIds, NEW rel \in StoredRel, InsertRelationship(id, rel)
        PROVE  IndexesExact'
    <2> DEFINE doomed == {id} \cap RelsIn(rels)
    <2>1. rel # Absent
      BY StoreAbsentAssumption
    <2>2. /\ rels' = [rels EXCEPT ![id] = rel]
          /\ Reindex(doomed, {id})
          /\ UNCHANGED <<nodes, nodes_by_label, propIndexes>>
      BY <1>3 DEF InsertRelationship
    <2>3. /\ RelsIn(rels') = (RelsIn(rels) \ doomed) \cup {id}
          /\ \A e \in (RelsIn(rels) \ doomed) \ {id} : rels'[e] = rels[e]
          /\ RelsIn(rels) \cap {id} \subseteq doomed
      BY <2>1, <2>2 DEF RelsIn, TypeOK
    <2> HIDE DEF doomed
    <2>4. /\ rels_by_type' = TypeIndex(rels')
          /\ outgoing' = OutgoingIndex(rels') /\ incoming' = IncomingIndex(rels')
          /\ outgoing_any' = OutgoingAnyIndex(rels')
          /\ incoming_any' = IncomingAnyIndex(rels')
      BY <2>2, <2>3, ReindexExact
    <2>5. QED
      BY <2>2, <2>4 DEF IndexesExact, propIndexes
  <1>4. ASSUME NEW id \in RelIds, RemoveRelationship(id)
        PROVE  IndexesExact'
    <2>1. /\ rels' = [rels EXCEPT ![id] = Absent]
          /\ Reindex({id}, {})
          /\ UNCHANGED <<nodes, nodes_by_label, propIndexes>>
      BY <1>4 DEF RemoveRelationship
    <2>2. /\ RelsIn(rels') = (RelsIn(rels) \ {id}) \cup {}
          /\ \A e \in (RelsIn(rels) \ {id}) \ {} : rels'[e] = rels[e]
      BY <2>1 DEF RelsIn, TypeOK
    <2>3. /\ rels_by_type' = TypeIndex(rels')
          /\ outgoing' = OutgoingIndex(rels') /\ incoming' = IncomingIndex(rels')
          /\ outgoing_any' = OutgoingAnyIndex(rels')
          /\ incoming_any' = IncomingAnyIndex(rels')
      BY <2>1, <2>2, ReindexExact
    <2>4. QED
      BY <2>1, <2>3 DEF IndexesExact, propIndexes
  <1>5. CASE RebuildIndexes
    BY <1>5 DEF RebuildIndexes, RebuildRelIndexes, IndexesExact
  <1>6. CASE Reload
    <2>1. NodesIn(nodes) = {} => PropIndex(nodes) = {} /\ PropAnyIndex(nodes) = {}
      BY DEF PropIndex, PropAnyIndex
    <2>2. node_props' = {} /\ node_props_any' = {} /\ nodes' = nodes
      BY <1>6 DEF Reload
    <2>3. ~node_props_dirty' => NodesIn(nodes) = {}
      BY <1>6, Zenon DEF Reload
    <2>4. ~node_props_dirty' => node_props' = PropIndex(nodes') /\ node_props_any' = PropAnyIndex(nodes')
      BY <2>1, <2>2, <2>3
    <2>5. QED
      BY <1>6, <2>4 DEF Reload, RebuildRelIndexes, IndexesExact
  <1>7. CASE PropertyRead
    BY <1>7 DEF PropertyRead, relIndexes, IndexesExact
  <1>8. CASE UNCHANGED vars
    BY <1>8 DEF vars, propIndexes, relIndexes, IndexesExact
  <1>9. QED
    BY <1>1, <1>2, <1>3, <1>4, <1>5, <1>6, <1>7, <1>8 DEF Next

\* The tables keep their types and the indexes follow them: the inductive
\* invariant of insert_node, remove_node and the other writes of the store.
LEMMA StoreInvariant == Spec => [](TypeOK /\ IndexesExact)
  <1>1. Init => TypeOK /\ IndexesExact
    <2>1. SUFFICES ASSUME Init PROVE TypeOK /\ IndexesExact
      OBVIOUS
    <2>2. NodesIn(nodes) = {} /\ RelsIn(rels) = {}
      BY <2>1 DEF Init, NodesIn, RelsIn
    <2>3. TypeOK
      <3>1. FALSE \in BOOLEAN
        OBVIOUS
      <3>2. QED
        BY <2>1, <3>1 DEF Init, TypeOK
    <2>4. /\ LabelIndex(nodes) = {} /\ PropIndex(nodes) = {} /\ PropAnyIndex(nodes) = {}
          /\ TypeIndex(rels) = {} /\ OutgoingIndex(rels) = {} /\ IncomingIndex(rels) = {}
          /\ OutgoingAnyIndex(rels) = {} /\ IncomingAnyIndex(rels) = {}
      BY <2>2 DEF LabelIndex, PropIndex, PropAnyIndex, TypeIndex, OutgoingIndex, IncomingIndex,
                  OutgoingAnyIndex, IncomingAnyIndex, TypeEntries, OutgoingEntries,
                  IncomingEntries, OutgoingAnyEntries, IncomingAnyEntries
    <2>5. IndexesExact
      BY <2>1, <2>4 DEF Init, IndexesExact
    <2>6. QED
      BY <2>3, <2>5
  <1>2. TypeOK /\ IndexesExact /\ [Next]_vars => TypeOK' /\ IndexesExact'
    BY StoreTypeStep, IndexStep
  <1>3. QED
    BY <1>1, <1>2, PTL DEF Spec

\* After any sequence of inserts, removals, rebuilds, reloads and property
\* reads the label and relationship indexes are exactly those of the tables,
\* and so are the property caches whenever node_props_dirty is not set: a stale
\* cache is never read.
THEOREM IndexesStayExact == Spec => []IndexesExact
  BY StoreInvariant, PTL

-----------------------------------------------------------------------------
(***************************************************************************)
(* Queries.                                                                *)
(***************************************************************************)
\* What an index holds at a key.
LEMMA IdsAtMember ==
  ASSUME NEW index, NEW key, NEW k
  PROVE  k \in IdsAt(index, key) <=> \E p \in index : p[1] = key /\ p[2] = k
  BY DEF IdsAt

\* What node_ids_by_label finds: the nodes that carry the label.
LEMMA LabelLookup ==
  ASSUME IndexesExact, NEW l
  PROVE  node_ids_by_label(l) = {k \in NodesIn(nodes) : l \in nodes[k].labels}
  <1>1. \A k : k \in node_ids_by_label(l) <=>
                 \E p \in LabelIndex(nodes) : p[1] = l /\ p[2] = k
    BY IdsAtMember DEF node_ids_by_label, IndexesExact
  <1>2. \A p : p \in LabelIndex(nodes) <=>
                 \E k \in NodesIn(nodes) : \E x \in nodes[k].labels : p = <<x, k>>
    BY LabelIndexMember DEF NodesIn
  <1>3. \A k : (\E p \in LabelIndex(nodes) : p[1] = l /\ p[2] = k) <=>
                 k \in NodesIn(nodes) /\ l \in nodes[k].labels
    <2>1. ASSUME NEW k, k \in NodesIn(nodes), l \in nodes[k].labels
          PROVE  \E p \in LabelIndex(nodes) : p[1] = l /\ p[2] = k
      <3>1. <<l, k>> \in LabelIndex(nodes)
        BY <1>2, <2>1
      <3>2. QED
        BY <3>1
    <2>2. QED
      BY <1>2, <2>1
  <1>4. QED
    BY <1>1, <1>3

\* What the property lookups find: the nodes whose property has the same
\* ValueKey, whether the cache is fresh or is rebuilt first.
LEMMA PropertyLookup ==
  ASSUME TypeOK, IndexesExact, NEW key \in Keys, NEW v \in Values, ValueKey[v] # NoKey
  PROVE  /\ node_ids_by_property(key, v) =
              {k \in NodesIn(nodes) : /\ Indexable(nodes[k].props[key])
                                      /\ ValueKey[nodes[k].props[key]] = ValueKey[v]}
         /\ \A l : node_ids_by_label_property(l, key, v) =
              {k \in NodesIn(nodes) : /\ l \in nodes[k].labels
                                      /\ Indexable(nodes[k].props[key])
                                      /\ ValueKey[nodes[k].props[key]] = ValueKey[v]}
  <1>1. node_ids_by_property(key, v) = IdsAt(PropAnyIndex(nodes), <<key, ValueKey[v]>>)
    BY DEF node_ids_by_property, IndexesExact
  <1>2. \A l : node_ids_by_label_property(l, key, v) =
                 IdsAt(PropIndex(nodes), <<l, key, ValueKey[v]>>)
    BY DEF node_ids_by_label_property, IndexesExact
  <1>3. \A p : p \in PropAnyIndex(nodes) <=>
                 \E k \in NodesIn(nodes) : \E x \in IndexedKeys(nodes[k]) :
                   p = <<<<x, ValueKey[nodes[k].props[x]]>>, k>>
    BY DEF PropAnyIndex, PropAnyEntries
  <1>4. \A p : p \in PropIndex(nodes) <=>
                 \E k \in NodesIn(nodes) : \E l \in nodes[k].labels, x \in IndexedKeys(nodes[k]) :
                   p = <<<<l, x, ValueKey[nodes[k].props[x]]>>, k>>
    BY DEF PropIndex, PropEntries
  <1>5. \A k : k \in IdsAt(PropAnyIndex(nodes), <<key, ValueKey[v]>>) <=>
                 /\ k \in NodesIn(nodes)
                 /\ key \in IndexedKeys(nodes[k])
                 /\ ValueKey[nodes[k].props[key]] = ValueKey[v]
    <2>1. \A k : k \in IdsAt(PropAnyIndex(nodes), <<key, ValueKey[v]>>) <=>
                   \E p \in PropAnyIndex(nodes) : p[1] = <<key, ValueKey[v]>> /\ p[2] = k
      BY IdsAtMember
    <2>2. ASSUME NEW k, k \in NodesIn(nodes), key \in IndexedKeys(nodes[k]),
                 ValueKey[nodes[k].props[key]] = ValueKey[v]
          PROVE  \E p \in PropAnyIndex(nodes) : p[1] = <<key, ValueKey[v]>> /\ p[2] = k
      <3>1. <<<<key, ValueKey[nodes[k].props[key]]>>, k>> \in PropAnyIndex(nodes)
        BY <1>3, <2>2
      <3>2. QED
        BY <2>2, <3>1
    <2>3. ASSUME NEW k, NEW p \in PropAnyIndex(nodes), p[1] = <<key, ValueKey[v]>>, p[2] = k
          PROVE  /\ k \in NodesIn(nodes) /\ key \in IndexedKeys(nodes[k])
                 /\ ValueKey[nodes[k].props[key]] = ValueKey[v]
      BY <1>3, <2>3
    <2>4. QED
      BY <2>1, <2>2, <2>3
  <1>6. \A l, k : k \in IdsAt(PropIndex(nodes), <<l, key, ValueKey[v]>>) <=>
                    /\ k \in NodesIn(nodes) /\ l \in nodes[k].labels
                    /\ key \in IndexedKeys(nodes[k])
                    /\ ValueKey[nodes[k].props[key]] = ValueKey[v]
    <2>1. ASSUME NEW l, NEW k, k \in NodesIn(nodes), l \in nodes[k].labels,
                 key \in IndexedKeys(nodes[k]), ValueKey[nodes[k].props[key]] = ValueKey[v]
          PROVE  \E p \in PropIndex(nodes) : p[1] = <<l, key, ValueKey[v]>> /\ p[2] = k
      <3>1. <<<<l, key, ValueKey[nodes[k].props[key]]>>, k>> \in PropIndex(nodes)
        BY <1>4, <2>1
      <3>2. QED
        BY <2>1, <3>1
    <2>2. ASSUME NEW l, NEW k, NEW p \in PropIndex(nodes),
                 p[1] = <<l, key, ValueKey[v]>>, p[2] = k
          PROVE  /\ k \in NodesIn(nodes) /\ l \in nodes[k].labels
                 /\ key \in IndexedKeys(nodes[k]) /\ ValueKey[nodes[k].props[key]] = ValueKey[v]
      <3>1. PICK j \in NodesIn(nodes) : \E m \in nodes[j].labels, x \in IndexedKeys(nodes[j]) :
              p = <<<<m, x, ValueKey[nodes[j].props[x]]>>, j>>
        BY <1>4
      <3>2. PICK m \in nodes[j].labels, x \in IndexedKeys(nodes[j]) :
              p = <<<<m, x, ValueKey[nodes[j].props[x]]>>, j>>
        BY <3>1
      <3>3. <<m, x, ValueKey[nodes[j].props[x]]>> = <<l, key, ValueKey[v]>> /\ j = k
        BY <2>2, <3>2
      <3>4. m = l /\ x = key /\ ValueKey[nodes[j].props[x]] = ValueKey[v]
        BY <3>3
      <3>5. QED
        BY <3>2, <3>3, <3>4
    <2>3. ASSUME NEW l, NEW k
          PROVE  k \in IdsAt(PropIndex(nodes), <<l, key, ValueKey[v]>>) <=>
                   /\ k \in NodesIn(nodes) /\ l \in nodes[k].labels
                   /\ key \in IndexedKeys(nodes[k])
                   /\ ValueKey[nodes[k].props[key]] = ValueKey[v]
      <3>1. k \in IdsAt(PropIndex(nodes), <<l, key, ValueKey[v]>>) <=>
              \E p \in PropIndex(nodes) : p[1] = <<l, key, ValueKey[v]>> /\ p[2] = k
        BY IdsAtMember
      <3>2. (\E p \in PropIndex(nodes) : p[1] = <<l, key, ValueKey[v]>> /\ p[2] = k) <=>
              /\ k \in NodesIn(nodes) /\ l \in nodes[k].labels
              /\ key \in IndexedKeys(nodes[k])
              /\ ValueKey[nodes[k].props[key]] = ValueKey[v]
        <4>1. ASSUME NEW p \in PropIndex(nodes), p[1] = <<l, key, ValueKey[v]>>, p[2] = k
              PROVE  /\ k \in NodesIn(nodes) /\ l \in nodes[k].labels
                     /\ key \in IndexedKeys(nodes[k])
                     /\ ValueKey[nodes[k].props[key]] = ValueKey[v]
          BY <2>2, <4>1
        <4>2. QED
          BY <2>1, <4>1
      <3>3. QED
        BY <3>1, <3>2
    <2>4. QED
      BY <2>3
  <1>7. \A k : key \in IndexedKeys(nodes[k]) <=> Indexable(nodes[k].props[key])
    BY DEF IndexedKeys
  <1>8. QED
    BY <1>1, <1>2, <1>5, <1>6, <1>7

\* A node that matches with the filters' own keys is in every set
\* base_node_candidate_ids chooses from.
LEMMA CandidatesSuffice ==
  ASSUME TypeOK, IndexesExact,
         NEW labels \in SUBSET Labels, NEW filters \in SUBSET (Keys \X Values),
         NEW c \in CandidateSets(labels, filters)
  PROVE  /\ c \subseteq NodesIn(nodes)
         /\ \A k \in NodesIn(nodes) :
              Matches(nodes[k], labels, filters) /\ ~KeyedApart(nodes[k], filters) => k \in c
  <1> DEFINE eq == {f \in filters : ValueKey[f[2]] # NoKey}
  <1>1. \A f \in filters : f[1] \in Keys /\ f[2] \in Values
    OBVIOUS
  <1>2. \A k \in NodesIn(nodes) : \A f \in eq :
          Matches(nodes[k], labels, filters) /\ ~KeyedApart(nodes[k], filters) =>
            /\ Indexable(nodes[k].props[f[1]])
            /\ ValueKey[nodes[k].props[f[1]]] = ValueKey[f[2]]
    <2>1. SUFFICES ASSUME NEW k \in NodesIn(nodes), NEW f \in eq,
                          Matches(nodes[k], labels, filters), ~KeyedApart(nodes[k], filters)
                   PROVE  /\ Indexable(nodes[k].props[f[1]])
                          /\ ValueKey[nodes[k].props[f[1]]] = ValueKey[f[2]]
      OBVIOUS
    <2>2. f[1] \in Keys /\ f[2] \in Values /\ ValueKey[f[2]] # NoKey
      BY <1>1
    <2>3. nodes[k] \in StoredNode
      BY DEF TypeOK, NodesIn
    <2>4. nodes[k].props[f[1]] \in Values \cup {Absent}
      BY <2>2, <2>3 DEF StoredNode
    <2>5. nodes[k].props[f[1]] # Absent
      BY <2>1 DEF Matches
    <2>6. ValueKey[nodes[k].props[f[1]]] = ValueKey[f[2]]
      BY <2>1 DEF KeyedApart
    <2>7. QED
      BY <2>2, <2>5, <2>6 DEF Indexable
  <1>3. CASE eq = {} /\ labels = {}
    BY <1>3 DEF CandidateSets
  <1>4. CASE eq = {} /\ labels # {}
    <2>1. PICK l \in labels : c = node_ids_by_label(l)
      BY <1>4 DEF CandidateSets
    <2>2. QED
      BY <2>1, LabelLookup DEF Matches
  <1>5. CASE eq # {} /\ labels = {}
    <2>1. PICK f \in eq : c = node_ids_by_property(f[1], f[2])
      BY <1>5 DEF CandidateSets
    <2>2. f[1] \in Keys /\ f[2] \in Values /\ ValueKey[f[2]] # NoKey
      BY <1>1
    <2>3. QED
      BY <1>2, <2>1, <2>2, PropertyLookup
  <1>6. CASE eq # {} /\ labels # {}
    <2>1. PICK l \in labels, f \in eq : c = node_ids_by_label_property(l, f[1], f[2])
      BY <1>6 DEF CandidateSets
    <2>2. f[1] \in Keys /\ f[2] \in Values /\ ValueKey[f[2]] # NoKey
      BY <1>1
    <2>3. \A k \in NodesIn(nodes) : Matches(nodes[k], labels, filters) => l \in nodes[k].labels
      BY DEF Matches
    <2>4. QED
      BY <1>2, <2>1, <2>2, <2>3, PropertyLookup
  <1>7. QED
    BY <1>3, <1>4, <1>5, <1>6

\* A query finds only what a scan of the table finds, and misses of it only a
\* node that equals a filter's value under another ValueKey, whichever candidate
\* set base_node_candidate_ids settles on and however stale the caches were.
THEOREM QueriesFindWhatAScanFinds == Spec => []QueriesMatchScan
  <1>1. TypeOK /\ IndexesExact => QueriesMatchScan
    <2>1. SUFFICES ASSUME TypeOK, IndexesExact,
                          NEW labels \in SUBSET Labels, NEW filters \in SUBSET (Keys \X Values),
                          NEW c \in CandidateSets(labels, filters)
                   PROVE  LET scan == {k \in NodesIn(nodes) : Matches(nodes[k], labels, filters)} IN
                          /\ MatchingFrom(c, labels, filters) \subseteq scan
                          /\ \A k \in scan \ MatchingFrom(c, labels, filters) :
                               KeyedApart(nodes[k], filters)
      BY DEF QueriesMatchScan
    <2>2. c \subseteq NodesIn(nodes)
      BY <2>1, CandidatesSuffice
    <2>3. \A k \in NodesIn(nodes) :
            Matches(nodes[k], labels, filters) /\ ~KeyedApart(nodes[k], filters) => k \in c
      BY <2>1, CandidatesSuffice
    <2>4. QED
      BY <2>2, <2>3 DEF MatchingFrom, NodesIn
  <1>2. QED
    BY <1>1, StoreInvariant, PTL
=============================================================================
