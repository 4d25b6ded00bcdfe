---------------------------- MODULE MCRemoteCall ----------------------------
(* A small instance of RemoteCall: one model with a field of each kind of    *)
(* value that a conversion changes or checks.                                *)
EXTENDS RemoteCall

Num(sign, int, frac) == [sign |-> sign, int |-> int, frac |-> frac]
MCField(name, kind, required) == [name |-> name, value_type |-> kind, required |-> required]

MCItemFields == <<MCField("n", "Int", TRUE), MCField("at", "DateTime", FALSE),
                  MCField("data", "Bytes", FALSE), MCField("cost", "Decimal", FALSE)>>
MCModels ==
  "Item" :> [name |-> "Item", label |-> "Item", id_field_name |-> "iid", id_type |-> "Int64",
             fields |-> MCItemFields]
MCEdgeModels ==
  "Link" :> [name |-> "Link", rel_type |-> "Link", from_model |-> "Item", to_model |-> "Item",
             id_field_name |-> "lid", id_type |-> "Int64",
             fields |-> <<MCField("n", "Int", TRUE), MCField("data", "Bytes", FALSE)>>]

\* A plan whose details name one index twice, and one that names none.
MCPlans ==
  {[command |-> "node", steps |-> <<"seek", "filter">>,
    details |-> <<[index |-> "byLabel", indexes |-> <<>>],
                  [index |-> Nothing, indexes |-> <<"byProp", "byLabel">>]>>],
   [command |-> "edge", steps |-> <<>>, details |-> <<>>]}

-----------------------------------------------------------------------------
Time(secs, offset) ==
  Json("DateTime", Plain([secs |-> secs, offset |-> offset, frac |-> <<5, 0>>,
                          leap |-> FALSE, dangling |-> FALSE]))
Base64Of(item, canonical) == Json("Bytes", Plain([item |-> item, canonical |-> canonical]))
Cost(frac) == Json("Decimal", Plain(Num("", <<9>>, <<frac>>)))
N(i) == "n" :> Json("Int", i)

\* Accepted: an integer alone, an instant with an offset, bytes, a decimal.
\* Refused somewhere: a number above the signed range, bytes that are not
\* base64, a decimal with a trailing zero, a list, no value for n, a kind that
\* is not the field's.
MCProps ==
  {N(1), N(1) @@ "at" :> Time(100, 60), N(1) @@ "data" :> Base64Of(<<1, 2>>, TRUE),
   N(1) @@ "cost" :> Cost(<<5>>), <<>>,
   "n" :> Json("UInt", 300), "n" :> Json("Other", Malformed), "n" :> Json("Float", 1),
   N(1) @@ "data" :> Base64Of(<<1, 2>>, FALSE), N(1) @@ "cost" :> Cost(<<5, 0>>)}

Call(helper, request) == [helper |-> helper, request |-> request]
By(request) == Call(request.type, request)

Create(props) == [type |-> "CreateNode", model |-> "Item", props |-> props]
Update(id, props) == [type |-> "UpdateNode", model |-> "Item", id |-> id, props |-> props]
Link(props) == [type |-> "CreateEdge", model |-> "Link", from |-> 1, to |-> 1, props |-> props]
Relink(props) == [type |-> "UpdateEdge", model |-> "Link", id |-> 1, props |-> props]
DefineEdge(name, from) ==
  [type |-> "DefineEdge", name |-> name, from_model |-> from, to_model |-> "Item",
   id_field |-> "eid", fields |-> <<MCField("x", "Date", FALSE)>>]

Find == [type |-> "FindNodes", model |-> "Item", predicates |-> <<>>, end_predicates |-> <<>>,
         edge_predicates |-> <<>>, traversals |-> <<>>, order |-> <<>>,
         return_mode |-> Nothing, limit |-> Nothing, offset |-> 1]
FindLinks == [type |-> "FindEdges", model |-> "Link", predicates |-> <<>>, order |-> <<>>,
              limit |-> Nothing, offset |-> Nothing, from_filter |-> 1, to_filter |-> Nothing]
Test(field, op, v) == <<[field |-> field, op |-> op, value |-> v]>>
Step(d) == <<[direction |-> d, edge_model |-> Nothing, end_model |-> "Item"]>>

Plan(type, form, shape) == [type |-> type, query |-> [form |-> form, shape |-> shape]]

Op(type) == [type |-> type, model |-> "Item"]
NodeCreate(ref, props) == [local_ref |-> ref, props |-> props] @@ Op("NodeCreate")
NodeUpdate(id, props) == [id |-> id, props |-> props] @@ Op("NodeUpdate")
EdgeCreate(from) == [type |-> "EdgeCreate", model |-> "Link", from |-> from,
                     to |-> [is |-> "Id", of |-> 1], props |-> N(1)]
EdgeUpdate(props) == [type |-> "EdgeUpdate", model |-> "Link", id |-> 1, props |-> props]
EdgeDelete == [type |-> "EdgeDelete", model |-> "Link", id |-> 1]
EdgeDefine == [type |-> "SchemaDefineEdge", name |-> "Less", from_model |-> "Item",
               to_model |-> "Item", id_field |-> "eid", fields |-> <<MCField("x", "date", FALSE)>>]
NodeDefine(kind) == [type |-> "SchemaDefineNode", name |-> "More", id_field |-> "mid",
                     fields |-> <<MCField("x", kind, FALSE)>>]
MCBatch(ops, atomic, deletes, mode) ==
  [type |-> "ApplyBatch", ops |-> ops, atomic |-> atomic, allow_deletes |-> deletes,
   response |-> mode]

\* Batches that succeed, that fail in the second step, with a reference that
\* is made before it is used, that is made twice or not at all, with deletes,
\* with a type that is no keyword.
MCOps ==
  {<<>>, <<NodeCreate("a", N(1)), EdgeCreate([is |-> "Ref", of |-> "a"])>>,
   <<NodeCreate(Nothing, N(1) @@ "at" :> Time(100, 60)), NodeUpdate(1, "cost" :> Cost(<<5>>))>>,
   <<NodeCreate(Nothing, N(1)), [id |-> 9] @@ Op("NodeDelete")>>,
   <<NodeDefine("uuid"), NodeCreate(Nothing, "n" :> Json("UInt", 300))>>,
   <<NodeDefine("uuid"), [id |-> 1] @@ Op("NodeDelete")>>,
   <<NodeDefine("uuid"), EdgeDefine>>, <<EdgeDefine>>, <<NodeDefine("Uuid")>>,
   <<NodeCreate("a", N(1)), NodeCreate("a", N(1))>>,
   <<EdgeUpdate("data" :> Base64Of(<<1, 2>>, TRUE)), EdgeCreate([is |-> "Ref", of |-> "a"])>>,
   <<EdgeUpdate(N(2)), EdgeDelete>>}

\* Atomic or not, with deletes or not, and what the response tells
MCModes == {<<TRUE, TRUE, "Detailed">>, <<TRUE, FALSE, "Summary">>, <<FALSE, TRUE, "Summary">>,
            <<FALSE, TRUE, "Detailed">>, <<FALSE, FALSE, "Detailed">>}

MCRequests ==
  {By(Create(p)) : p \in MCProps} \cup {By(Link(p)) : p \in MCProps}
  \cup {By(Update(1, p)) : p \in {"cost" :> Cost(<<5>>), N(2)}}
  \cup {By(Relink(p)) : p \in {N(2), "data" :> Base64Of(<<1, 2>>, TRUE), "cost" :> Cost(<<5>>)}}
  \cup {By(DefineEdge(name, from)) : name \in {"Less", "Link"}, from \in {"Item", "None"}}
  \cup {By([type |-> "DeleteNode", model |-> "Item", id |-> 1]),
        By([type |-> "DeleteEdge", model |-> "Link", id |-> 1]),
        By([type |-> "DefineNode", name |-> "More", id_field |-> "mid",
            fields |-> <<MCField("x", "Uuid", FALSE)>>]),
        By([type |-> "DefineNode", name |-> "Item", id_field |-> "mid", fields |-> <<>>])}
  \cup {By([type |-> t]) : t \in EmptyTypes}
  \cup {Call(h, [Find EXCEPT !.return_mode = m]) :
          h \in {"find_nodes", "find_node_results"}, m \in {Nothing, "Root", "Edge"}}
  \cup {By([Find EXCEPT !.predicates = Test("n", op, v)]) :
          op \in {"Eq", "Lt", "Contains"}, v \in {Json("Int", 1), Time(100, 60), Cost(<<5, 0>>)}}
  \cup {By([Find EXCEPT !.traversals = Step(d), !.return_mode = m,
                        !.edge_predicates = Test("data", "Eq", Base64Of(<<1, 2>>, TRUE))]) :
          d \in {"Out", "Both"}, m \in {"End", "Edge"}}
  \cup {By([FindLinks EXCEPT !.order = <<[field |-> "id", direction |-> d]>>]) : d \in {"Asc", "Desc"}}
  \cup {By(Plan(t, f, IF f = "EdgeFind" THEN FindLinks ELSE Find)) :
          t \in {"Explain", "Profile", "Query"}, f \in {"NodeFind", "EdgeFind", "Traversal"}}
  \cup {By(MCBatch(ops, m[1], m[2], m[3])) : ops \in MCOps, m \in MCModes}

\* What only another client sends: no request, a value that is not set, a
\* property twice, no properties, codes that no enum has, files.
Sends(value) == [type |-> "CreateNode", model |-> "Item", props |-> <<[name |-> "n", value |-> value]>>]
MCMessages ==
  {Nothing, Sends(Nothing), Sends(Json("Float", Malformed)),
   [Create(<<>>) EXCEPT !.props = Nothing],
   [Sends(Json("Int", 1)) EXCEPT !.props = @ \o <<[name |-> "n", value |-> Json("Int", 2)]>>],
   [Find EXCEPT !.return_mode = 7], [Find EXCEPT !.return_mode = 2],
   Plan("Query", "NodeFind", Find), Plan("Query", "EdgeFind", FindLinks),
   Plan("Query", "Traversal", Find), [type |-> "IndexList"],
   Plan("Explain", "NodeFind", Nothing), [type |-> "Explain", query |-> Nothing],
   [type |-> "DefineNode", name |-> "More", id_field |-> "mid",
    fields |-> <<[name |-> "x", value_type |-> 0, required |-> FALSE]>>],
   [type |-> "ApplyBatch", ops |-> <<Nothing>>, atomic |-> TRUE, allow_deletes |-> TRUE,
    response |-> 0],
   [type |-> "ApplyBatch", ops |-> <<>>, atomic |-> TRUE, allow_deletes |-> TRUE, response |-> 2],
   [type |-> "Load", format |-> 1, snapshot |-> Nothing]}
=============================================================================
