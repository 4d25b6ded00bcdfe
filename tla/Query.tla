-------------------------------- MODULE Query --------------------------------
(***************************************************************************)
(* Node, edge and traversal queries over the in-memory graph:              *)
(* src/src/runtime/session.rs (the two front ends, flat and traversal      *)
(* execution, explain and profile), src/src/backend/inmemory/inmemorytx.rs *)
(* (execution of a graph query), src/src/backend/plan.rs (plans).          *)
(*                                                                         *)
(* nodes[i] is the node with id i, rels[i] the relationship with id i.     *)
(* Reads go through the store's indexes; that an index lookup returns what *)
(* a scan would is the subject of GraphStore, so candidates are scans here.*)
(*                                                                         *)
(* A query is a record like NodeFindQuery: predicates [field, op, value]   *)
(* on the root, on the end and on the last edge, traversal steps, order,   *)
(* limit, offset, id filter and return mode.  A predicate's value is       *)
(* [form, value]: a typed value from a request, or a lexical one from the  *)
(* terms of a command.                                                     *)
(***************************************************************************)
EXTENDS Values

CONSTANTS
  NodeModels,  \* name -> [id_field, fields]
  RelModels,   \* name -> [id_field, fields, from_model, to_model]
  NodeProps,   \* model name -> the property texts a client gives
  RelProps,    \* likewise for relationships
  Asks,        \* the queries clients ask
  MaxNodes, MaxRels,
  Nothing      \* an Option without value

VARIABLES
  nodes, rels,
  ask,         \* the last query asked
  answer       \* the rows it returned, or Refused

vars == <<nodes, rels, ask, answer>>

-----------------------------------------------------------------------------
(***************************************************************************)
(* From a request or from terms to a query.                                *)
(***************************************************************************)
EmptyQuery ==
  [predicates |-> <<>>, end_predicates |-> <<>>, edge_predicates |-> <<>>,
   traversals |-> <<>>, order |-> <<>>, limit |-> Nothing, offset |-> Nothing,
   id_filter |-> Nothing, from_filter |-> Nothing, to_filter |-> Nothing,
   return_mode |-> "End"]

IsId(field, model) == field \in {"id", model.id_field}

\* str::trim and str::parse::<i64>: a sign and digits, in the range of i64
ParseI64(text) ==
  LET chars  == {i \in DOMAIN text : text[i] # 32}
      word   == SubSeq(text, Min(chars \cup {Len(text) + 1}), Max(chars \cup {0}))
      signed == word # <<>> /\ word[1] \in {43, 45}
      number == IF signed THEN Tail(word) ELSE word
      digits == [i \in DOMAIN number |-> number[i] - 48]
      n      == IF signed /\ word[1] = 45 THEN -Number(digits) ELSE Number(digits)
  IN  IF digits # <<>> /\ Range(digits) \subseteq 0..(Base - 1)
      THEN ParseTypedValue("Int", Plain(n)) ELSE Refused

\* typed_id_value_to_i64 with typed_value_to_raw: any value whose text is an
\* integer, also a string, a decimal without a point and base64 of digits.
IdOf(value) ==
  LET body == value.raw.body
  IN  CASE value.kind = "Int" -> value
        [] value.kind = "String" -> ParseI64(value.raw)
        [] value.kind = "Decimal" /\ body # Malformed ->
             IF body.int = <<>> \/ body.frac # <<>> THEN Refused
             ELSE ParseTypedValue("Int", Plain(Signed(body.sign, Number(body.int))))
        [] value.kind = "Bytes" /\ body # Malformed ->
             IF Len(body.item) % 4 # 0 THEN Refused
             ELSE ParseI64([i \in DOMAIN body.item |-> Base64(body.item[i])])
        [] OTHER -> Refused

\* Traversal filters and return modes need a traversal.
Traversable(q) ==
  CASE q = Refused -> Refused
    [] q.traversals = <<>> /\ \/ q.end_predicates # <<>>
                              \/ q.edge_predicates # <<>>
                              \/ q.return_mode # "End" -> Refused
    [] OTHER -> q

\* node_find_query_from_request and edge_find_query_from_request: a predicate
\* on the id replaces the id filter and may only be an equality.
WithId(q, op, id) ==
  IF op # "Eq" \/ id = Refused THEN Refused ELSE [q EXCEPT !.id_filter = id.raw]

AddPredicate(q, p, model) ==
  CASE q = Refused -> Refused
    [] ~IsId(p.field, model) -> [q EXCEPT !.predicates = Append(@, p)]
    [] OTHER -> WithId(q, p.op, IdOf(p.value.value))

QueryFromRequest(request, model) ==
  Traversable(FoldLeft(LAMBDA acc, p : AddPredicate(acc, p, model),
                       [request EXCEPT !.predicates = <<>>], request.predicates))

\* parse_node_find_terms and parse_edge_find_query: a term of a command is
\* key :> value, its value Malformed where its own parser refuses it.
AddTerm(q, term, model) ==
  LET key   == CHOOSE k \in DOMAIN term : TRUE
      value == term[key]
  IN  CASE q = Refused \/ value = Malformed -> Refused
        [] key \in {"limit", "offset", "return_mode", "from_filter", "to_filter"} ->
             [q EXCEPT ![key] = value]
        [] key = "order" ->
             IF IsInjective([i \in DOMAIN value |-> value[i].field])
             THEN [q EXCEPT !.order = value] ELSE Refused
        [] key = "via" -> [q EXCEPT !.traversals = Append(@, value)]
        [] key \in {"end_predicates", "edge_predicates"} ->
             [q EXCEPT ![key] = Append(@, value)]
        [] key = "predicates" /\ ~IsId(value.field, model) ->
             [q EXCEPT !.predicates = Append(@, value)]
        [] OTHER -> WithId(q, value.op, ParseTypedValue("Int", value.value.value))

QueryFromTerms(terms, model) ==
  Traversable(FoldLeft(LAMBDA acc, t : AddTerm(acc, t, model), EmptyQuery, terms))

-----------------------------------------------------------------------------
(***************************************************************************)
(* Filters, order and paging.                                              *)
(***************************************************************************)
FieldOf(model, name) == {f \in Range(model.fields) : f.name = name}

\* predicate_value: a typed value must validate for the field's kind, a
\* lexical one is parsed.
PredicateValue(p, kind) ==
  IF p.value.form = "lexical" THEN ParseTypedValue(kind, p.value.value)
  ELSE IF ValidateValueForKind(kind, p.value.value) THEN p.value.value
  ELSE Refused

\* parse_model_predicates, parse_rel_predicates: the values of all, or Refused
ParsePredicates(predicates, model) ==
  LET ValueOf(p) == IF FieldOf(model, p.field) = {} THEN Refused
                    ELSE PredicateValue(p, (CHOOSE f \in FieldOf(model, p.field) : TRUE).value_type)
      With(values) == IF Refused \in Range(values) THEN Refused
                      ELSE [i \in DOMAIN predicates |->
                              [field |-> predicates[i].field, op |-> predicates[i].op,
                               value |-> values[i]]]
  IN  With([i \in DOMAIN predicates |-> ValueOf(predicates[i])])

\* matches_predicates: a missing property matches nothing.
MatchesPredicates(props, filters) ==
  \A f \in Range(filters) :
    f.field \in DOMAIN props /\ CompareTypedValues(props[f.field], f.op, f.value)

\* validate_node_order_fields, validate_rel_order_fields
OrderFieldsKnown(orders, model, special) ==
  \A o \in Range(orders) :
    IsId(o.field, model) \/ o.field \in special \/ FieldOf(model, o.field) # {}

\* compare_optional_values: a row without the property comes after one with it.
CompareOptional(l, r, field) ==
  CASE field \in DOMAIN l /\ field \in DOMAIN r -> CompareOrder(l[field], r[field])
    [] field \in DOMAIN l -> -1
    [] field \in DOMAIN r -> 1
    [] OTHER -> 0

\* compare_node_order_values, compare_rel_order_values.  A row is
\* [id, props] with, for a relationship, its endpoints from and to.
CompareRows(l, r, orders, model) ==
  LET One(o) ==
        CASE IsId(o.field, model) -> Sign(l.id - r.id)
          [] o.field \in {"from", "to"} /\ "from" \in DOMAIN l -> Sign(l[o.field] - r[o.field])
          [] OTHER -> CompareOptional(l.props, r.props, o.field)
  IN  FirstDifference([i \in DOMAIN orders |->
        (IF orders[i].direction = "Asc" THEN 1 ELSE -1) * One(orders[i])])

\* slice::sort_by, a stable sort
Precedes(order, i, j) == order = -1 \/ (order = 0 /\ i < j)

SortRows(rows, orders, model) ==
  LET Before(i, j) == Precedes(CompareRows(rows[i], rows[j], orders, model), i, j)
      by == SetToSortSeq(DOMAIN rows, Before)
  IN  [i \in DOMAIN rows |-> rows[by[i]]]

\* apply_offset_limit
ApplyOffsetLimit(items, offset, limit) ==
  LET start == IF offset = Nothing THEN 0 ELSE offset
      end   == IF limit = Nothing THEN Len(items)
               ELSE Min({start + limit, Len(items)})
  IN  SubSeq(items, start + 1, end)

\* The end of every query: an order is validated only when there is one.
Returned(rows, q, model, special) ==
  IF ~OrderFieldsKnown(q.order, model, special) THEN Refused
  ELSE ApplyOffsetLimit(IF q.order = <<>> THEN rows ELSE SortRows(rows, q.order, model),
                        q.offset, q.limit)

-----------------------------------------------------------------------------
(***************************************************************************)
(* Flat queries.                                                           *)
(***************************************************************************)
NodeRow(i) == [id |-> i, props |-> nodes[i].props]
RelRow(i)  == [id |-> i, props |-> rels[i].props, from |-> rels[i].from,
               to |-> rels[i].to]

Ascending(S) == SetToSortSeq(S, <)

\* snapshot_nodes_filtered: the node asked for, else the nodes of the label
\* with the first indexable equality.
NodeCandidates(label, id_filter, filters) ==
  LET eq == {i \in DOMAIN filters : /\ filters[i].op = "Eq"
                                    /\ filters[i].value.kind \notin TaggedKinds}
  IN  {i \in DOMAIN nodes :
         /\ nodes[i].label = label
         /\ IF id_filter # Nothing THEN i = id_filter
            ELSE eq # {} => LET f == filters[Min(eq)]
                            IN  /\ f.field \in DOMAIN nodes[i].props
                                /\ nodes[i].props[f.field] = f.value}

\* find_nodes_with_query
FindNodes(name, q) ==
  LET Rows(found) == [i \in DOMAIN found |-> NodeRow(found[i])]
      Find(filters) ==
        IF filters = Refused THEN Refused
        ELSE Returned(Rows(Ascending({i \in NodeCandidates(name, q.id_filter, filters) :
                                        MatchesPredicates(nodes[i].props, filters)})),
                      q, NodeModels[name], {})
  IN  Find(ParsePredicates(q.predicates, NodeModels[name]))

\* find_relationships_with_query with snapshot_relationships_filtered: the
\* relationship asked for, else the shorter adjacency list, else the type;
\* the type and both endpoints are checked again on whatever came back.
FindEdges(name, q) ==
  LET out     == {i \in DOMAIN rels : rels[i].rel_type = name /\ rels[i].from = q.from_filter}
      in      == {i \in DOMAIN rels : rels[i].rel_type = name /\ rels[i].to = q.to_filter}
      ids     == CASE q.id_filter # Nothing -> {q.id_filter} \cap DOMAIN rels
                   [] q.from_filter # Nothing /\ q.to_filter # Nothing ->
                        IF Cardinality(out) <= Cardinality(in) THEN out ELSE in
                   [] q.from_filter # Nothing -> out
                   [] q.to_filter # Nothing -> in
                   [] OTHER -> {i \in DOMAIN rels : rels[i].rel_type = name}
      Rows(found) == [i \in DOMAIN found |-> RelRow(found[i])]
      Find(filters) ==
        IF filters = Refused THEN Refused
        ELSE Returned(Rows(Ascending({i \in ids :
                             /\ rels[i].rel_type = name
                             /\ q.from_filter \in {Nothing, rels[i].from}
                             /\ q.to_filter \in {Nothing, rels[i].to}
                             /\ MatchesPredicates(rels[i].props, filters)})),
                      q, RelModels[name], {"from", "to"})
  IN  Find(ParsePredicates(q.predicates, RelModels[name]))

-----------------------------------------------------------------------------
(***************************************************************************)
(* Traversals.                                                             *)
(***************************************************************************)
\* traversal_step_matches_models
Connects(rel, start, end, dir) ==
  \/ dir \in {"Out", "Both"} /\ RelModels[rel].from_model = start /\ RelModels[rel].to_model = end
  \/ dir \in {"In", "Both"} /\ RelModels[rel].to_model = start /\ RelModels[rel].from_model = end

\* One step of build_runtime_graph_query with resolve_any_traversal_model: a
\* wild card needs exactly one link, a named link has to connect the models.
Hop(start, step) ==
  LET links == {r \in DOMAIN RelModels :
                  Connects(r, start, step.end_model, step.direction)}
      named == {step.edge_model} \cap links
      usable == IF step.edge_model = Nothing THEN links ELSE named
  IN  IF step.end_model \notin DOMAIN NodeModels \/ Cardinality(usable) # 1
      THEN Refused
      ELSE [rel |-> CHOOSE r \in usable : TRUE, dir |-> step.direction,
            end |-> step.end_model]

\* build_runtime_graph_query: the hops, or Refused.
Hops(name, steps) ==
  FoldLeft(LAMBDA acc, step :
             IF acc = Refused THEN Refused
             ELSE LET start == IF acc = <<>> THEN name ELSE acc[Len(acc)].end
                      hop   == Hop(start, step)
                  IN  IF hop = Refused THEN Refused ELSE Append(acc, hop),
           <<>>, steps)

\* stored_node_matches_filters with numeric_cmp: the backend compares
\* numbers only, whatever kinds the filter and the property have.
StoreMatches(props, filters) ==
  \A f \in Range(filters) :
    /\ f.field \in DOMAIN props
    /\ LET v == props[f.field]
       IN  CASE f.op = "Eq" -> v = f.value
             [] f.op = "Ne" -> v # f.value
             [] f.op = "Contains" ->
                  v.kind = "String" /\ f.value.kind = "String" /\ ContainsText(v.raw, f.value.raw)
             [] OTHER -> /\ {v.kind, f.value.kind} \subseteq {"Int", "Float"}
                         /\ Ordered(Sign(v.raw - f.value.raw), f.op)

\* seed_roots.  A binding is the path so far: [nodes, rels].
SeedRoots(name, q, filters) ==
  LET roots == Ascending({i \in DOMAIN nodes :
                 /\ nodes[i].label = name
                 /\ q.id_filter \in {Nothing, i}
                 /\ StoreMatches(nodes[i].props, filters)})
  IN  [k \in DOMAIN roots |-> [nodes |-> <<roots[k]>>, rels |-> <<>>]]

NeighborTarget(r, node, dir) ==
  IF dir = "In" THEN rels[r].from ELSE rels[r].to

\* neighbor_id
Neighbor(r, node, dir) ==
  IF dir \in {"Out", "Both"} /\ rels[r].from = node THEN rels[r].to ELSE rels[r].from

\* outgoing, incoming, both (visible_neighbor_pairs): outgoing relationships
\* before incoming ones, a self loop once.
NeighborRels(node, hop) ==
  LET out == {r \in DOMAIN rels : hop.dir \in {"Out", "Both"} /\ rels[r].from = node}
      in  == {r \in DOMAIN rels : hop.dir \in {"In", "Both"} /\ rels[r].to = node}
  IN  SelectSeq(Ascending(out) \o Ascending(in \ out),
                LAMBDA r : rels[r].rel_type = hop.rel)

\* traverse_single_hop: the neighbours with the hop's end label
TraverseHop(binding, hop) ==
  LET cur   == binding.nodes[Len(binding.nodes)]
      found == SelectSeq(NeighborRels(cur, hop),
                         LAMBDA r : nodes[Neighbor(r, cur, hop.dir)].label = hop.end)
  IN  [k \in DOMAIN found |->
         [nodes |-> Append(binding.nodes, Neighbor(found[k], cur, hop.dir)),
          rels  |-> Append(binding.rels, found[k])]]

\* traverse_hops
TraverseHops(roots, hops) ==
  FoldLeft(LAMBDA acc, hop :
             FlattenSeq([k \in DOMAIN acc |-> TraverseHop(acc[k], hop)]),
           roots, hops)

EndOf(b)  == b.nodes[Len(b.nodes)]
EdgeOf(b) == b.rels[Len(b.rels)]

ReturnedId(b, return_mode) ==
  CASE return_mode = "Root" -> b.nodes[1]
    [] return_mode = "End"  -> EndOf(b)
    [] return_mode = "Edge" -> EdgeOf(b)

SelectBindingsAll(bindings, return_mode) == bindings

\* select_bindings_for_return: the first binding of every returned id.  The
\* session sets neither limit nor offset on the graph query.
SelectBindings(bindings, return_mode) ==
  FoldLeft(LAMBDA acc, b :
             IF \E c \in Range(acc) : ReturnedId(c, return_mode) = ReturnedId(b, return_mode)
             THEN acc ELSE Append(acc, b),
           <<>>, bindings)

\* The filters on the end and on the last edge, and the model of what is returned
EndPredicates(q, hops)  == ParsePredicates(q.end_predicates, NodeModels[hops[Len(hops)].end])
EdgePredicates(q, hops) == ParsePredicates(q.edge_predicates, RelModels[hops[Len(hops)].rel])
ReturnedModel(name, q, hops) ==
  CASE q.return_mode = "Edge" -> RelModels[hops[Len(hops)].rel]
    [] q.return_mode = "Root" -> NodeModels[name]
    [] OTHER -> NodeModels[hops[Len(hops)].end]
ReturnedSpecial(q) == IF q.return_mode = "Edge" THEN {"from", "to"} ELSE {}

\* execute_node_traversal_query: the graph query runs, then the root, end and
\* edge predicates filter the rows it selected.
Traverse(name, q) ==
  LET Rows(kept) ==
        IF q.return_mode = "Edge"
        THEN [k \in DOMAIN kept |-> RelRow(EdgeOf(kept[k]))]
        ELSE [k \in DOMAIN kept |-> NodeRow(ReturnedId(kept[k], q.return_mode))]
      Filtered(hops, root, end, edge) ==
        IF Refused \in {end, edge} THEN Refused
        ELSE Returned(
               Rows(SelectSeq(SelectBindings(TraverseHops(SeedRoots(name, q, root), hops),
                                             q.return_mode),
                              LAMBDA b : /\ MatchesPredicates(nodes[b.nodes[1]].props, root)
                                         /\ MatchesPredicates(nodes[EndOf(b)].props, end)
                                         /\ MatchesPredicates(rels[EdgeOf(b)].props, edge))),
               q, ReturnedModel(name, q, hops), ReturnedSpecial(q))
      Run(hops, root) ==
        IF Refused \in {root, hops} THEN Refused
        ELSE Filtered(hops, root, EndPredicates(q, hops), EdgePredicates(q, hops))
  IN  Run(Hops(name, q.traversals), ParsePredicates(q.predicates, NodeModels[name]))

\* execute_node_query
FindNode(name, q) ==
  IF q.traversals = <<>> THEN FindNodes(name, q) ELSE Traverse(name, q)

-----------------------------------------------------------------------------
(***************************************************************************)
(* Explain and profile.  A plan is the sequence of its steps [step, keys]. *)
(***************************************************************************)
Step(step, keys) == [step |-> step, keys |-> keys]
Filtering(step, keys) == IF keys = <<>> THEN <<>> ELSE <<Step(step, keys)>>
Keys(filters) == [i \in DOMAIN filters |-> filters[i].field]

ResidualTail(filters) == IF filters = <<>> THEN <<>> ELSE Tail(Keys(filters))

\* residual_predicate_keys: all but the equality the anchor consumed.
Residual(filters) ==
  LET eq == {i \in DOMAIN filters : filters[i].op = "Eq"}
  IN  IF eq = {} THEN Keys(filters) ELSE RemoveAt(Keys(filters), Min(eq))

\* The anchor of a plan: an id lookup, the first equality, or a label scan.
NodeAnchor(q, filters) ==
  LET eq == {i \in DOMAIN filters : filters[i].op = "Eq"}
  IN  CASE q.id_filter # Nothing -> Step("NodeById", <<>>)
        [] eq # {} -> Step("NodePropertySeek", <<filters[Min(eq)].field>>)
        [] OTHER   -> Step("NodeLabelScan", <<>>)

RootFilter(q, filters) ==
  Filtering("NodeFilter", IF q.id_filter # Nothing THEN Keys(filters) ELSE Residual(filters))

\* explain_node_find_query: flat plans, and the plan of a graph query with its
\* expansions and the filters put before the return.
ExplainNode(name, q) ==
  LET Flat(filters) ==
        IF ~OrderFieldsKnown(q.order, NodeModels[name], {}) THEN Refused
        ELSE <<NodeAnchor(q, filters)>> \o RootFilter(q, filters) \o <<Step("Return", <<>>)>>
      Path(filters, hops, end, edge) ==
        IF \/ Refused \in {end, edge}
           \/ ~OrderFieldsKnown(q.order, ReturnedModel(name, q, hops), ReturnedSpecial(q))
        THEN Refused
        ELSE <<NodeAnchor(q, filters)>>
             \o [k \in DOMAIN hops |-> Step("Expand", <<>>)]
             \o RootFilter(q, filters)
             \o Filtering("NodeFilter", Keys(end))
             \o Filtering("RelationshipFilter", Keys(edge))
             \o <<Step("Return", <<>>)>>
      Explain(filters, hops) ==
        CASE Refused \in {filters, hops} -> Refused
          [] hops = <<>> -> Flat(filters)
          [] OTHER -> Path(filters, hops, EndPredicates(q, hops), EdgePredicates(q, hops))
  IN  Explain(ParsePredicates(q.predicates, NodeModels[name]), Hops(name, q.traversals))

\* explain_edge_find_query
ExplainEdge(name, q) ==
  LET anchor == CASE q.id_filter # Nothing -> "RelationshipById"
                  [] q.from_filter # Nothing \/ q.to_filter # Nothing ->
                       "RelationshipEndpointSeek"
                  [] OTHER -> "RelationshipTypeScan"
      Explain(filters) ==
        IF filters = Refused \/ ~OrderFieldsKnown(q.order, RelModels[name], {"from", "to"})
        THEN Refused
        ELSE <<Step(anchor, <<>>)>> \o Filtering("RelationshipFilter", Keys(filters))
             \o <<Step("Return", <<>>)>>
  IN  Explain(ParsePredicates(q.predicates, RelModels[name]))

\* profile_flat_node_query: the row counts of its steps and of its result
ProfileNodes(name, q) ==
  LET Rows(ids) == [i \in DOMAIN ids |-> NodeRow(ids[i])]
      Count(anchor, kept) ==
        [anchor |-> Cardinality(anchor), filtered |-> Cardinality(kept),
         returned |-> Len(Returned(Rows(Ascending(kept)), q, NodeModels[name], {}))]
      Filter(anchor, filters) ==
        Count(anchor, {i \in anchor : MatchesPredicates(nodes[i].props, filters)})
      Run(filters) == Filter(NodeCandidates(name, q.id_filter, filters), filters)
  IN  Run(ParsePredicates(q.predicates, NodeModels[name]))

-----------------------------------------------------------------------------
(***************************************************************************)
(* The graph grows, and clients ask.                                       *)
(***************************************************************************)
\* The properties a client sends, parsed kind by kind.
Parsed(model, texts) ==
  [k \in DOMAIN texts |->
     IF FieldOf(model, k) = {} THEN Refused
     ELSE ParseTypedValue((CHOOSE f \in FieldOf(model, k) : TRUE).value_type, texts[k])]

Accepted(model, props) ==
  Refused \notin Range(props) /\ ValidateProps(model.fields, props)

CreateNode(m, texts) ==
  \E props \in {Parsed(NodeModels[m], texts)} :
      /\ Len(nodes) < MaxNodes
      /\ Accepted(NodeModels[m], props)
      /\ nodes' = Append(nodes, [label |-> m, props |-> props])
      /\ ask' = Nothing /\ answer' = Nothing
      /\ UNCHANGED rels

CreateEdge(m, from, to, texts) ==
  \E props \in {Parsed(RelModels[m], texts)} :
      /\ Len(rels) < MaxRels
      /\ nodes[from].label = RelModels[m].from_model
      /\ nodes[to].label = RelModels[m].to_model
      /\ Accepted(RelModels[m], props)
      /\ rels' = Append(rels, [rel_type |-> m, from |-> from, to |-> to, props |-> props])
      /\ ask' = Nothing /\ answer' = Nothing
      /\ UNCHANGED nodes

\* The query of an ask, from either front end.
QueryOf(a) ==
  LET model == IF a.on = "node" THEN NodeModels[a.model] ELSE RelModels[a.model]
  IN  IF a.form = "terms" THEN QueryFromTerms(a.query, model)
      ELSE QueryFromRequest(a.query, model)

\* execute_query_request, node_find_result_response, edge_find_response
Result(a) ==
  LET Run(q) == CASE q = Refused -> Refused
                  [] a.on = "node" -> FindNode(a.model, q)
                  [] OTHER -> FindEdges(a.model, q)
  IN  Run(QueryOf(a))

\* explain
Plan(a) ==
  LET Run(q) == CASE q = Refused -> Refused
                  [] a.on = "node" -> ExplainNode(a.model, q)
                  [] OTHER -> ExplainEdge(a.model, q)
  IN  Run(QueryOf(a))

Ask(a) ==
  /\ ask = Nothing
  /\ ask' = a
  /\ answer' = Result(a)
  /\ UNCHANGED <<nodes, rels>>

\* The client is done with the rows.
Done ==
  /\ ask # Nothing
  /\ ask' = Nothing /\ answer' = Nothing
  /\ UNCHANGED <<nodes, rels>>

Init ==
  /\ nodes = <<>> /\ rels = <<>>
  /\ ask = Nothing /\ answer = Nothing

Next ==
  \/ \E m \in DOMAIN NodeModels : \E t \in NodeProps[m] : CreateNode(m, t)
  \/ \E m \in DOMAIN RelModels, from, to \in DOMAIN nodes :
       \E t \in RelProps[m] : CreateEdge(m, from, to, t)
  \/ \E a \in Asks : Ask(a)
  \/ Done

Spec == Init /\ [][Next]_vars

-----------------------------------------------------------------------------
(***************************************************************************)
(* What a value means, independently of its spelling.                      *)
(***************************************************************************)
\* Scaled so that every fraction in use is an integer.
Scale == Base^4

Meaning(v) ==
  CASE v.kind = "Int" -> v.raw * Scale
    [] v.kind = "Decimal" ->
         LET t == v.raw.body
             m == Number(t.int) * Scale + Number(FracOf(t)) * Base^(4 - Len(FracOf(t)))
         IN  IF t.sign = "-" THEN -m ELSE m
    [] v.kind = "Duration" -> DurationNanos(v.raw.body)
    [] v.kind = "DateTime" ->
         LET t == v.raw.body
         IN  (t.secs - t.offset) * Scale + Number(t.frac) * Base^(4 - Len(t.frac))

Means(l, op, r) ==
  /\ l.kind = r.kind
  /\ IF l.kind = "String"
     THEN CompareTypedValues(l, op, r)
     ELSE \E d \in {Meaning(l) - Meaning(r)} :
            CASE op = "Eq" -> d = 0
              [] op = "Ne" -> d # 0
              [] op = "Gt" -> d > 0
              [] op = "Ge" -> d >= 0
              [] op = "Lt" -> d < 0
              [] op = "Le" -> d <= 0
              [] op = "Contains" -> FALSE

\* Every predicate holds of the properties, by what the values mean.
Satisfies(props, predicates, model) ==
  \A p \in Range(predicates) :
    /\ p.field \in DOMAIN props
    /\ \E f \in FieldOf(model, p.field) :
         Means(props[p.field], p.op, PredicateValue(p, f.value_type))

\* r follows l in the order asked for, ties broken by id.
InOrder(l, r, q, model) == Precedes(CompareRows(l, r, q.order, model), l.id, r.id)

\* rows is the page asked for of the rows in S, sorted.
IsPage(rows, S, q, model) ==
  \E start \in {IF q.offset = Nothing THEN 0 ELSE q.offset},
     Rank \in {[x \in S |-> Cardinality({y \in S : InOrder(y, x, q, model)})]} :
      /\ \A i \in DOMAIN rows : rows[i] \in S /\ Rank[rows[i]] = start + i - 1
      /\ \A x \in S : \/ x \in Range(rows)
                      \/ Rank[x] < start
                      \/ q.limit # Nothing /\ Rank[x] >= start + q.limit

Asked == ask # Nothing /\ answer # Refused

\* A flat find returns exactly the page of the nodes (the edges) of its model
\* that satisfy every predicate by the meaning of their values, in the order
\* asked for, whichever index, adjacency list or spelling was involved
\* (session.rs:1645, :2062, value.rs:321).
FindsAreExact ==
  Asked =>
    \A q \in {QueryOf(ask)} :
        /\ ask.on = "node" /\ q.traversals = <<>> =>
             IsPage(answer,
                    {NodeRow(i) : i \in {j \in DOMAIN nodes :
                       /\ nodes[j].label = ask.model
                       /\ q.id_filter \in {Nothing, j}
                       /\ Satisfies(nodes[j].props, q.predicates, NodeModels[ask.model])}},
                    q, NodeModels[ask.model])
        /\ ask.on = "edge" =>
             IsPage(answer,
                    {RelRow(i) : i \in {j \in DOMAIN rels :
                       /\ rels[j].rel_type = ask.model
                       /\ q.id_filter \in {Nothing, j}
                       /\ q.from_filter \in {Nothing, rels[j].from}
                       /\ q.to_filter \in {Nothing, rels[j].to}
                       /\ Satisfies(rels[j].props, q.predicates, RelModels[ask.model])}},
                    q, RelModels[ask.model])

\* The paths of a one step traversal that satisfy every filter of it.
Paths(name, q) ==
  LET Of(hop) ==
      {p \in [root : DOMAIN nodes, rel : DOMAIN rels, end : DOMAIN nodes] :
         /\ nodes[p.root].label = name /\ nodes[p.end].label = hop.end
         /\ rels[p.rel].rel_type = hop.rel
         /\ \/ hop.dir # "In" /\ rels[p.rel].from = p.root /\ rels[p.rel].to = p.end
            \/ hop.dir # "Out" /\ rels[p.rel].to = p.root /\ rels[p.rel].from = p.end
         /\ q.id_filter \in {Nothing, p.root}
         /\ Satisfies(nodes[p.root].props, q.predicates, NodeModels[name])
         /\ Satisfies(nodes[p.end].props, q.end_predicates, NodeModels[hop.end])
         /\ Satisfies(rels[p.rel].props, q.edge_predicates, RelModels[hop.rel])}
  IN  Of(Hop(name, q.traversals[1]))

PathsReturn(name, q) ==
  {CASE q.return_mode = "Root" -> p.root
     [] q.return_mode = "End"  -> p.end
     [] q.return_mode = "Edge" -> p.rel : p \in Paths(name, q)}

OneStep(q) == ask.on = "node" /\ Len(q.traversals) = 1

\* A traversal returns nothing but ends, roots or edges of paths that satisfy
\* all its filters, and none of them twice (session.rs:1899,
\* inmemorytx.rs:106).
TraversalsAreSound ==
  Asked =>
    \A q \in {QueryOf(ask)} :
      LET ids == [i \in DOMAIN answer |-> answer[i].id]
      IN  OneStep(q) => /\ Range(ids) \subseteq PathsReturn(ask.model, q)
                        /\ IsInjective(ids)

\* The filters are decided by what is returned: the filters that the rows are
\* selected before cannot tell two paths to one returned id apart, and the
\* backend's comparison of the root is one it can make.
DecidedByReturn(q) ==
  /\ q.return_mode = "Root" => q.end_predicates = <<>> /\ q.edge_predicates = <<>>
  /\ q.return_mode = "End"  => q.edge_predicates = <<>>
  /\ q.return_mode = "Edge" => q.end_predicates = <<>>
  /\ \A p \in Range(q.predicates) : p.op \in {"Eq", "Ne", "Contains"}

\* Such a traversal without paging misses nothing, whatever the direction,
\* self loops and parallel edges included.
DecidedTraversalsAreComplete ==
  Asked =>
    \A q \in {QueryOf(ask)} :
        OneStep(q) /\ DecidedByReturn(q) /\ q.limit = Nothing /\ q.offset = Nothing
          => PathsReturn(ask.model, q) \subseteq {answer[i].id : i \in DOMAIN answer}

\* docs/query-language-design.md says that return=root "returns the starting
\* node after traversal filtering has been applied": every root with a path
\* that passes the filters is returned.
RootsPassFilters ==
  Asked =>
    \A q \in {QueryOf(ask)} :
        OneStep(q) /\ q.return_mode = "Root" /\ q.limit = Nothing /\ q.offset = Nothing
          => PathsReturn(ask.model, q) \subseteq {answer[i].id : i \in DOMAIN answer}

\* Explain accepts exactly the queries find accepts, its plan names every
\* predicate, and profile counts the rows find returns, none of them made up
\* after the anchor (session.rs:2155, :1716).
IntrospectionAgrees ==
  ask # Nothing =>
    \A plan \in {Plan(ask)}, q \in {QueryOf(ask)} :
        /\ plan = Refused <=> answer = Refused
        /\ plan # Refused =>
             {p.field : p \in Range(q.predicates) \cup Range(q.end_predicates)
                                \cup Range(q.edge_predicates)}
               = UNION {Range(plan[i].keys) : i \in DOMAIN plan}
        /\ answer # Refused /\ ask.on = "node" /\ q.traversals = <<>> =>
             \E rows \in {ProfileNodes(ask.model, q)} :
               /\ rows.returned = Len(answer) /\ rows.returned <= rows.filtered
               /\ rows.filtered <= rows.anchor
=============================================================================
